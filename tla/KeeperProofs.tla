---------------------------- MODULE KeeperProofs ----------------------------
(***************************************************************************)
(* For any chains, vaults, amounts, PnL and any number of epochs at work   *)
(* at a time: the types of the keeper and of the relays, that a relay      *)
(* never refuses what the keeper sends for what it says, what epochs that  *)
(* do not overlap leave in the relays, and that one reading is behind what *)
(* a relay holds, whether or not they do.                                  *)
(***************************************************************************)
EXTENDS Keeper, SumLemmas

-----------------------------------------------------------------------------
(* The weights of the chains: basis points that add up to all of them.     *)

\* Facts about products and quotients that are easier to cite than to find.
LEMMA Distributes ==
  ASSUME NEW j \in Nat, NEW x \in Int, NEW z \in Int
  PROVE  j * (x + z) = j * x + j * z /\ j * x \in Int /\ j * z \in Int
OBVIOUS

LEMMA Divides ==
  ASSUME NEW a \in Nat, NEW b \in Nat \ {0}
  PROVE  a \div b \in Nat /\ b * (a \div b) <= a
OBVIOUS

\* What holds of each term, after multiplication, holds of the sums.
LEMMA SumScaled ==
  ASSUME NEW S, IsFiniteSet(S), NEW f, NEW h, NEW k \in Nat, NEW m \in Nat,
         \A x \in S : f[x] \in Int, \A x \in S : h[x] \in Int,
         \A x \in S : k * f[x] <= m * h[x]
  PROVE  k * SumFunctionOnSet(f, S) <= m * SumFunctionOnSet(h, S)
<1>1. PICK a : Additive(a, f, S)
  BY AdditiveExists
<1>2. PICK b : Additive(b, h, S)
  BY AdditiveExists
<1> DEFINE B == {T \in SUBSET S : ~ (k * a[T] <= m * b[T])}
<1>3. ASSUME B # {} PROVE FALSE
  <2>1. PICK T \in B : \A U \in B : U \subseteq T => U = T
    <3>1. B \subseteq SUBSET S
      OBVIOUS
    <3> HIDE DEF B
    <3> QED
      BY <1>3, <3>1, MinimalSubset
  <2>2. T # {}
    <3>1. a[{}] = 0 /\ b[{}] = 0 /\ k * 0 <= m * 0
      BY <1>1, <1>2 DEF Additive
    <3>2. ~ (k * a[T] <= m * b[T])
      OBVIOUS
    <3> HIDE DEF B
    <3> QED
      BY <3>1, <3>2
  <2>3. PICK y \in T : TRUE
    BY <2>2
  <2> DEFINE U == T \ {y}
  <2>4. U \in SUBSET S /\ y \in S \ U /\ U \cup {y} = T
    BY <2>3
  <2>5. a[T] = f[y] + a[U] /\ b[T] = h[y] + b[U]
    BY <1>1, <1>2, <2>4 DEF Additive
  <2>6. U \notin B
    BY <2>1, <2>3
  <2>7. /\ a[U] \in Int /\ b[U] \in Int /\ f[y] \in Int /\ h[y] \in Int
        /\ k * f[y] <= m * h[y]
    BY <1>1, <1>2, <2>4 DEF Additive
  <2>8. k * a[U] <= m * b[U] /\ ~ (k * a[T] <= m * b[T])
    BY <2>1, <2>4, <2>6
  <2> HIDE DEF U, B
  <2>9. k * (f[y] + a[U]) = k * f[y] + k * a[U] /\ k * f[y] \in Int /\ k * a[U] \in Int
    BY <2>7, Distributes
  <2>10. m * (h[y] + b[U]) = m * h[y] + m * b[U] /\ m * h[y] \in Int /\ m * b[U] \in Int
    BY <2>7, Distributes
  <2>11. k * a[T] = k * f[y] + k * a[U] /\ m * b[T] = m * h[y] + m * b[U]
    BY <2>5, <2>9, <2>10
  <2> QED
    BY <2>7, <2>8, <2>9, <2>10, <2>11
<1>4. S \in SUBSET S /\ S \notin B
  BY <1>3
<1>5. a[S] = SumFunctionOnSet(f, S) /\ b[S] = SumFunctionOnSet(h, S)
  BY <1>1, <1>2, <1>4, AdditiveRestricts
<1> QED
  BY <1>4, <1>5

\* A sum of equal terms.
LEMMA SumConstant ==
  ASSUME NEW S, IsFiniteSet(S), NEW f, NEW c \in Nat, \A x \in S : f[x] = c
  PROVE  SumFunctionOnSet(f, S) = c * Cardinality(S)
<1> DEFINE g == [T \in SUBSET S |-> c * Cardinality(T)]
<1>1. \A T \in SUBSET S : IsFiniteSet(T) /\ Cardinality(T) \in Nat
  BY FS_Subset, FS_CardinalityType
<1>2. g \in [SUBSET S -> Int] /\ g[{}] = 0
  BY <1>1, FS_EmptySet
<1>3. ASSUME NEW T \in SUBSET S, NEW x \in S \ T PROVE g[T \cup {x}] = f[x] + g[T]
  <2>1. Cardinality(T \cup {x}) = Cardinality(T) + 1
    BY <1>1, FS_AddElement
  <2>2. \A j \in Nat : c * (j + 1) = c + c * j
    OBVIOUS
  <2>3. T \cup {x} \in SUBSET S /\ f[x] = c
    OBVIOUS
  <2> QED
    BY <1>1, <2>1, <2>2, <2>3
<1>4. Additive(g, f, S)
  BY <1>2, <1>3 DEF Additive
<1> HIDE DEF g
<1>5. g[S] = SumFunctionOnSet(f, S)
  BY <1>4, AdditiveRestricts
<1> QED
  BY <1>5 DEF g

-----------------------------------------------------------------------------

\* The provers do better without the number.
LEMMA BasisPoints == BPS \in Nat \ {0}
BY DEF BPS

\* Places of a list and of all but its last entry.
LEMMA Places ==
  ASSUME NEW n \in Nat \ {0}
  PROVE  /\ IsFiniteSet(1..n) /\ IsFiniteSet(1..(n-1))
         /\ Cardinality(1..(n-1)) = n - 1
         /\ n \in 1..n /\ (1..n) \ {n} = 1..(n-1) /\ 1..(n-1) \subseteq 1..n
BY FS_Interval

\* What each chain lacks of the total is not negative.
LEMMA InversesType ==
  ASSUME NEW usdc \in Seq(Nat)
  PROVE  /\ Total(usdc) \in Nat
         /\ DOMAIN Inverses(usdc) = 1..Len(usdc)
         /\ \A i \in 1..Len(usdc) : Inverses(usdc)[i] \in Nat
         /\ Total(Inverses(usdc)) \in Nat
<1>1. DOMAIN usdc = 1..Len(usdc) /\ Len(usdc) \in Nat /\ \A i \in 1..Len(usdc) : usdc[i] \in Nat
  OBVIOUS
<1>2. IsFiniteSet(1..Len(usdc))
  BY <1>1, FS_Interval
<1>3. Total(usdc) \in Nat /\ \A i \in 1..Len(usdc) : usdc[i] <= Total(usdc)
  BY <1>1, <1>2, SumNat DEF Total
<1>4. DOMAIN Inverses(usdc) = 1..Len(usdc) /\ \A i \in 1..Len(usdc) : Inverses(usdc)[i] \in Nat
  BY <1>1, <1>3 DEF Inverses
<1>5. Total(Inverses(usdc)) \in Nat
  BY <1>2, <1>4, SumNat DEF Total
<1> QED
  BY <1>3, <1>4, <1>5

\* The rounded shares of all chains but the last are at most all basis points.
LEMMA FrontWithinBPS ==
  ASSUME NEW usdc \in Seq(Nat), usdc # <<>>,
         NEW front, front = [i \in 1..(Len(usdc) - 1) |-> Share(usdc, i)]
  PROVE  /\ \A i \in 1..(Len(usdc) - 1) : front[i] \in Nat
         /\ Total(front) \in 0..BPS
<1> DEFINE n == Len(usdc)
           I == 1..(n - 1)
           inverse == Total(Inverses(usdc))
<1>1. n \in Nat \ {0} /\ DOMAIN front = I /\ Total(front) = SumFunctionOnSet(front, I)
  BY DEF Total
<1> HIDE DEF n
<1>2. IsFiniteSet(I) /\ Cardinality(I) = n - 1 /\ I \subseteq 1..n
  BY <1>1, Places
<1> SUFFICES /\ \A i \in I : front[i] \in Nat
             /\ SumFunctionOnSet(front, I) <= BPS
  <2>1. ASSUME \A i \in I : front[i] \in Nat PROVE SumFunctionOnSet(front, I) \in Nat
    BY <1>2, <2>1, SumNat
  <2> QED
    BY <1>1, <2>1, BasisPoints DEF n
<1>3. /\ inverse \in Nat
      /\ \A i \in 1..n : Inverses(usdc)[i] \in Nat
      /\ DOMAIN Inverses(usdc) = 1..n
  BY InversesType DEF n
<1>4. CASE Total(usdc) = 0 \/ inverse = 0
  <2> DEFINE q == BPS \div n
  <2>1. \A i \in I : front[i] = q
    BY <1>4 DEF Share, n
  <2>2. q \in Nat /\ n * q <= BPS
    BY <1>1, BasisPoints, Divides
  <2> HIDE DEF q
  <2>3. SumFunctionOnSet(front, I) = q * (n - 1)
    BY <1>2, <2>1, <2>2, SumConstant
  <2>4. q * (n - 1) + q * 1 = q * (n - 1 + 1) /\ q * (n - 1) \in Int
    BY <1>1, <2>2, Distributes
  <2>5. q * (n - 1 + 1) = n * q /\ n * q \in Int /\ q * 1 = q
    BY <1>1, <2>2
  <2> QED
    <3>1. q * (n - 1) <= BPS
      BY <2>2, <2>4, <2>5, BasisPoints
    <3> QED
      BY <2>1, <2>2, <2>3, <3>1
<1>5. CASE ~ (Total(usdc) = 0 \/ inverse = 0)
  <2>1. inverse \in Nat \ {0}
    BY <1>3, <1>5
  <2>2. \A i \in I : front[i] = (Inverses(usdc)[i] * BPS) \div inverse
    BY <1>5 DEF Share, n
  <2> DEFINE inv == Inverses(usdc)
  <2>3. \A i \in I : inv[i] \in Nat
    BY <1>2, <1>3
  <2> HIDE DEF inverse, inv
  <2>4. \A i \in I : front[i] \in Nat /\ inverse * front[i] <= BPS * inv[i]
    <3>1. TAKE i \in I
    <3>2. inv[i] * BPS \in Nat /\ inv[i] * BPS = BPS * inv[i]
      BY <2>3, BasisPoints
    <3>3. front[i] = (inv[i] * BPS) \div inverse
      BY <2>2 DEF inv
    <3> QED
      BY <2>1, <3>2, <3>3, Divides
  <2>5. inverse * SumFunctionOnSet(front, I) <= BPS * SumFunctionOnSet(inv, I)
    <3>1. BPS \in Nat
      BY BasisPoints
    <3>2. \A i \in I : front[i] \in Int /\ inv[i] \in Int
      BY <2>3, <2>4
    <3> QED
      BY <1>2, <2>1, <2>4, <3>1, <3>2, SumScaled
  <2>6. SumFunctionOnSet(inv, I) \in Nat /\ SumFunctionOnSet(inv, I) <= inverse
    <3>1. IsFiniteSet(1..n) /\ n \in 1..n /\ (1..n) \ {n} = I
      BY <1>1, Places
    <3>2. \A i \in 1..n : inv[i] \in Int
      BY <1>3 DEF inv
    <3>3. SumFunctionOnSet(inv, 1..n) = inv[n] + SumFunctionOnSet(inv, I)
      <4>1. SumFunctionOnSet(inv, 1..n) = inv[n] + SumFunctionOnSet(inv, (1..n) \ {n})
        <5> HIDE DEF I
        <5> QED
          BY <3>1, <3>2, SumRemove
      <4> QED
        BY <3>1, <4>1
    <3>4. SumFunctionOnSet(inv, I) \in Nat
      BY <1>2, <2>3, SumNat
    <3>5. inverse = SumFunctionOnSet(inv, 1..n)
      BY <1>3 DEF inverse, inv, Total
    <3>6. inv[n] \in Nat
      BY <1>3, <3>1 DEF inv
    <3> QED
      BY <3>3, <3>4, <3>5, <3>6
  <2>7. SumFunctionOnSet(front, I) \in Nat
    BY <1>2, <2>4, SumNat
  <2>8. \A s, t \in Nat, b \in Nat \ {0} : b * s <= BPS * t /\ t <= b => s <= BPS
    <3> SUFFICES ASSUME NEW s \in Nat, NEW t \in Nat, NEW b \in Nat \ {0},
                        b * s <= BPS * t, t <= b
                 PROVE  s <= BPS
      OBVIOUS
    <3>1. b * s <= b * BPS
      BY BasisPoints
    <3> QED
      BY <3>1, BasisPoints
  <2> QED
    BY <2>1, <2>4, <2>5, <2>6, <2>7, <2>8
<1> QED
  BY <1>4, <1>5

\* Whatever USDC the chains hold, there is a weight for each chain, no weight is
\* negative, and together they are all basis points, as _validateWeights asks:
\* the remainder of the roundings goes to the last chain.
THEOREM WeightsAddUp ==
  ASSUME NEW usdc \in Seq(Nat), usdc # <<>>
  PROVE  /\ computeRoutingWeights(usdc) \in Seq(0..BPS)
         /\ Len(computeRoutingWeights(usdc)) = Len(usdc)
         /\ Total(computeRoutingWeights(usdc)) = BPS
<1> DEFINE n == Len(usdc)
           front == [i \in 1..(n - 1) |-> Share(usdc, i)]
           w == computeRoutingWeights(usdc)
<1>1. n \in Nat \ {0}
  OBVIOUS
<1>2. (\A i \in 1..(n - 1) : front[i] \in Nat) /\ Total(front) \in 0..BPS
  BY FrontWithinBPS
<1>3. w = [i \in 1..n |-> IF i = n THEN BPS - Total(front) ELSE front[i]]
  BY DEF computeRoutingWeights
<1>4. Total(front) = SumFunctionOnSet(front, 1..(n - 1))
  BY DEF Total
<1> HIDE DEF n, front, w
<1>5. /\ IsFiniteSet(1..n) /\ IsFiniteSet(1..(n - 1)) /\ n \in 1..n
      /\ (1..n) \ {n} = 1..(n - 1)
  BY <1>1, Places
<1>6. \A i \in 1..(n - 1) : front[i] <= Total(front)
  BY <1>2, <1>4, <1>5, SumNat
<1>7. /\ w[n] = BPS - Total(front)
      /\ \A i \in 1..(n - 1) : w[i] = front[i]
  <2>1. \A i \in 1..(n - 1) : i \in 1..n /\ i # n
    BY <1>1
  <2> QED
    BY <1>3, <1>5, <2>1
<1>8. \A i \in 1..n : w[i] \in 0..BPS
  <2>1. w[n] \in 0..BPS
    BY <1>2, <1>7, BasisPoints
  <2>2. \A i \in 1..(n - 1) : w[i] \in 0..BPS
    BY <1>2, <1>6, <1>7, BasisPoints
  <2> QED
    BY <1>5, <2>1, <2>2
<1>9. w \in Seq(0..BPS) /\ Len(w) = n /\ DOMAIN w = 1..n
  BY <1>1, <1>3, <1>8
<1>10. SumFunctionOnSet(w, 1..(n - 1)) = Total(front)
  <2>1. \A i \in 1..(n - 1) : front[i] \in Int /\ w[i] = front[i]
    BY <1>2, <1>7
  <2> QED
    BY <1>4, <1>5, <2>1, SumSame
<1>11. SumFunctionOnSet(w, 1..n) = w[n] + SumFunctionOnSet(w, 1..(n - 1))
  <2>1. \A i \in 1..n : w[i] \in Int
    BY <1>8, BasisPoints
  <2>2. SumFunctionOnSet(w, 1..n) = w[n] + SumFunctionOnSet(w, (1..n) \ {n})
    BY <1>5, <2>1, SumRemove
  <2> QED
    BY <1>5, <2>2
<1>12. Total(w) = BPS
  BY <1>2, <1>7, <1>9, <1>10, <1>11, BasisPoints DEF Total
<1> QED
  BY <1>9, <1>12 DEF n, w

-----------------------------------------------------------------------------
(* The inductive invariant.  A loop over the vaults of a chain must not    *)
(* run off their list, or the sum it makes would be no number.             *)

InLoop(r) == r.stage \in {"balances", "pnl"} => r.next <= Len(r.vaults)

EpochSound(e) ==
  /\ \A c \in Chain : InLoop(e.reading[c])
  /\ e.phase = "writing" => WellFormed(e.update)

ProgramInv == ProgramTypeOK /\ \A s \in Slot : EpochSound(epoch[s])

NetworkInv ==
  NetworkTypeOK /\ \A c \in Chain : \A i \in DOMAIN mempool[c] : WellFormed(mempool[c][i])

KeeperInv == RelayTypeOK /\ MarketTypeOK /\ ProgramInv /\ NetworkInv /\ HistoryTypeOK

\* It contains both properties.
LEMMA InvImplies == KeeperInv => TypeOK /\ OnlyStaleReverts
BY DEF KeeperInv, ProgramInv, NetworkInv, EpochSound, TypeOK, OnlyStaleReverts

-----------------------------------------------------------------------------
(* What an epoch computes.                                                 *)

\* A set of places has a first one.
LEMMA FirstPlace ==
  ASSUME NEW S, S \subseteq Nat, S # {}
  PROVE  \E i \in S : \A j \in S : i <= j
<1>1. PICK x \in S : TRUE
  OBVIOUS
<1> DEFINE Low == {y \in S : y <= x}
           B == {0..i : i \in Low}
<1>2. x \in Low /\ x \in Nat /\ \A y \in Low : y \in S /\ y \in Nat /\ y <= x
  BY <1>1
<1>3. \A y \in Nat : 0..y \subseteq 0..x <=> y <= x
  BY <1>2
<1>4. PICK T \in B : \A U \in B : U \subseteq T => U = T
  <2>1. B \subseteq SUBSET (0..x)
    <3> HIDE DEF Low
    <3> QED
      BY <1>2, <1>3
  <2>2. B # {}
    BY <1>2
  <2>3. IsFiniteSet(0..x)
    BY <1>2, FS_Interval
  <2> DEFINE All == 0..x
  <2>4. IsFiniteSet(All) /\ B \subseteq SUBSET All
    BY <2>1, <2>3
  <2> HIDE DEF B, All
  <2> QED
    BY <2>2, <2>4, MinimalSubset
<1>5. PICK m \in Low : T = 0..m
  BY <1>4
<1>6. ASSUME NEW j \in S, j < m PROVE FALSE
  <2>1. j \in Low /\ j \in Nat /\ m \in Nat
    BY <1>2, <1>5, <1>6
  <2>2. 0..j \in B
    BY <2>1
  <2>3. 0..j \subseteq 0..m /\ m \in 0..m /\ m \notin 0..j
    BY <1>6, <2>1
  <2> HIDE DEF B, Low
  <2> QED
    BY <1>4, <1>5, <2>2, <2>3
<1>7. m \in S /\ m \in Nat /\ \A j \in S : j \in Nat /\ ~ (j < m)
  BY <1>2, <1>5, <1>6
<1> QED
  BY <1>7

\* The chains of the keeper are some, and each is known.
LEMMA ContextType ==
  ASSUME contexts \in Contexts
  PROVE  /\ contexts \in Seq(Chain) /\ contexts # <<>>
         /\ DOMAIN contexts = 1..Len(contexts) /\ Len(contexts) \in Nat \ {0}
         /\ \A i \in DOMAIN contexts : contexts[i] \in Context
         /\ Context \subseteq Chain
         /\ \A c \in Context : \E i \in DOMAIN contexts : contexts[i] = c
<1>1. contexts \in Seq(Chain) /\ contexts # <<>>
  BY KeeperConstants
<1> QED
  BY <1>1 DEF Context, ToSet

\* What was read of the chains, in their order, is a list of amounts.
LEMMA IdleReadType ==
  ASSUME contexts \in Contexts, NEW reading \in [Chain -> Readings]
  PROVE  /\ IdleRead(reading) \in Seq(Nat) /\ IdleRead(reading) # <<>>
         /\ DOMAIN IdleRead(reading) = DOMAIN contexts
<1>1. \A c \in Chain : reading[c].idleUsdc \in Nat
  BY DEF Readings
<1>2. \A i \in DOMAIN contexts : reading[contexts[i]].idleUsdc \in Nat
  BY <1>1, ContextType
<1> QED
  BY <1>2, ContextType DEF IdleRead

\* The PnL of the hub is a number, also without a hub.
LEMMA HubPnLType ==
  ASSUME contexts \in Contexts, NEW reading \in [Chain -> Readings]
  PROVE  HubPnLTotal(reading) \in Int
<1> DEFINE hubs == {i \in DOMAIN contexts : IsHub[i]}
           first == CHOOSE i \in hubs : \A j \in hubs : i <= j
<1>1. CASE hubs = {}
  BY <1>1 DEF HubPnLTotal
<1>2. CASE hubs # {}
  <2>1. hubs \subseteq Nat
    BY ContextType
  <2>2. first \in hubs
    <3> HIDE DEF hubs
    <3> QED
      BY <1>2, <2>1, FirstPlace
  <2>3. contexts[first] \in Chain
    BY <2>2, ContextType
  <2>4. HubPnLTotal(reading) = reading[contexts[first]].hubPnL
    BY <1>2 DEF HubPnLTotal
  <2> HIDE DEF first
  <2> QED
    BY <2>3, <2>4 DEF Readings
<1> QED
  BY <1>1, <1>2

\* Every chain's adjustment is a number.
LEMMA NavType ==
  ASSUME NEW amount \in Seq(Nat), NEW hub, NEW total \in Int, NEW i \in DOMAIN amount
  PROVE  computeGlobalNav(amount, hub, total)[i] \in Int
<1>1. \A a \in Int, b \in Nat \ {0} : Quotient(a, b) \in Int
  BY DEF Quotient
<1>2. Total(amount) \in Nat
  BY InversesType
<1>3. amount[i] \in Nat
  OBVIOUS
<1>4. amount[i] * total \in Int
  BY <1>3
<1>5. computeGlobalNav(amount, hub, total)[i] =
        IF hub[i] \/ Total(amount) = 0 THEN 0 ELSE Quotient(amount[i] * total, Total(amount))
  BY DEF computeGlobalNav
<1>6. CASE hub[i] \/ Total(amount) = 0
  BY <1>5, <1>6
<1>7. CASE ~ (hub[i] \/ Total(amount) = 0)
  BY <1>1, <1>2, <1>4, <1>5, <1>7
<1> QED
  BY <1>6, <1>7

\* The adjustments of an update are numbers.
LEMMA AdjustmentType ==
  ASSUME contexts \in Contexts, NEW reading \in [Chain -> Readings]
  PROVE  AdjustmentOf(reading) \in [Vault -> Int]
<1> DEFINE adjustment == computeGlobalNav(IdleRead(reading), IsHub, HubPnLTotal(reading))
           place(v) == CHOOSE i \in DOMAIN contexts : v \in ToSet(reading[contexts[i]].vaults)
<1>1. \A i \in DOMAIN contexts : adjustment[i] \in Int
  BY IdleReadType, HubPnLType, NavType
<1>2. \A v \in ListedIn(reading) : place(v) \in DOMAIN contexts
  <2> SUFFICES ASSUME NEW v \in ListedIn(reading)
               PROVE  \E i \in DOMAIN contexts : v \in ToSet(reading[contexts[i]].vaults)
    OBVIOUS
  <2>1. PICK c \in Context : v \in ToSet(reading[c].vaults)
    BY DEF ListedIn
  <2> QED
    BY <2>1, ContextType
<1>3. AdjustmentOf(reading) =
        [v \in Vault |-> IF v \in ListedIn(reading) THEN adjustment[place(v)] ELSE 0]
  BY DEF AdjustmentOf
<1> HIDE DEF adjustment, place
<1> QED
  BY <1>1, <1>2, <1>3

\* The vaults an update lists are vaults.
LEMMA ListedType ==
  ASSUME contexts \in Contexts, NEW reading \in [Chain -> Readings]
  PROVE  ListedIn(reading) \subseteq Vault
<1>1. \A c \in Chain : reading[c].vaults \in Seq(Vault)
  BY DEF Readings
<1>2. \A c \in Chain : ToSet(reading[c].vaults) \subseteq Vault
  BY <1>1 DEF ToSet
<1> QED
  BY <1>2, ContextType DEF ListedIn

\* Whatever was read, the update has its type and no relay refuses it for what
\* it says.
LEMMA UpdateSound ==
  ASSUME contexts \in Contexts, now \in Nat, NEW reading \in [Chain -> Readings]
  PROVE  UpdateFrom(reading) \in Updates /\ WellFormed(UpdateFrom(reading))
<1> DEFINE amounts == IdleRead(reading)
           weights == computeRoutingWeights(amounts)
           t == [chains |-> contexts, weights |-> weights, amounts |-> amounts]
           began == [c \in Chain |-> reading[c].began]
           u == UpdateFrom(reading)
<1>1. amounts \in Seq(Nat) /\ amounts # <<>> /\ Len(amounts) = Len(contexts)
  BY IdleReadType, ContextType
<1>2. weights \in Seq(0..BPS) /\ Len(weights) = Len(amounts) /\ Total(weights) = BPS
  <2> HIDE DEF amounts
  <2> QED
    BY <1>1, WeightsAddUp
<1>3. u = [table |-> t, vaults |-> ListedIn(reading), pnl |-> AdjustmentOf(reading),
           ts |-> now, signer |-> Wallet, readFrom |-> began]
  BY DEF UpdateFrom, AmountsOf
<1>4. began \in [Chain -> Nat]
  BY DEF Readings
<1>5. ListedIn(reading) \subseteq Vault /\ AdjustmentOf(reading) \in [Vault -> Int]
  BY ListedType, AdjustmentType
<1>6. t \in Tables
  <2> HIDE DEF amounts, weights
  <2> QED
    BY <1>1, <1>2, ContextType DEF Tables
<1> HIDE DEF u, began
<1>7. u \in Updates
  <2> HIDE DEF t
  <2> QED
    BY <1>3, <1>4, <1>5, <1>6 DEF Updates
<1>8. WellFormed(u)
  <2>1. u.table.chains = contexts /\ u.table.weights = weights /\ u.table.amounts = amounts
    BY <1>3
  <2> HIDE DEF t, amounts, weights
  <2> QED
    BY <1>1, <1>2, <2>1 DEF WellFormed
<1> QED
  BY <1>7, <1>8 DEF u

-----------------------------------------------------------------------------
(* What stays when variables do not change.                                *)

LEMMA SameRelay == RelayTypeOK /\ UNCHANGED relay => RelayTypeOK'
BY DEF RelayTypeOK, relay, settings, posted

LEMMA SameMarket == MarketTypeOK /\ UNCHANGED market => MarketTypeOK'
BY DEF MarketTypeOK, market

LEMMA SameNetwork == NetworkInv /\ UNCHANGED mempool /\ now' \in Nat /\ up' \subseteq Chain => NetworkInv'
BY DEF NetworkInv, NetworkTypeOK, WellFormed

LEMMA SameHistory == HistoryTypeOK /\ UNCHANGED history => HistoryTypeOK'
BY DEF HistoryTypeOK, history

\* The same epochs under the same contexts.
LEMMA SameEpochs ==
  ASSUME ProgramInv, UNCHANGED <<contexts, epoch>>, nextStart' \in Nat,
         process' \in {"booting", "first", "looping", "stopped"}
  PROVE  ProgramInv'
<1>1. Epochs' = Epochs
  BY DEF Epochs, Context
<1>2. ProgramTypeOK'
  BY <1>1 DEF ProgramInv, ProgramTypeOK
<1>3. \A s \in Slot : EpochSound(epoch[s])'
  BY DEF ProgramInv, EpochSound, InLoop, WellFormed
<1> QED
  BY <1>2, <1>3 DEF ProgramInv

\* One epoch gets on.
LEMMA NextEpoch ==
  ASSUME ProgramInv, UNCHANGED contexts, nextStart' \in Nat,
         process' \in {"booting", "first", "looping", "stopped"},
         NEW s \in Slot, NEW e \in Epochs, EpochSound(e),
         epoch' = [epoch EXCEPT ![s] = e]
  PROVE  ProgramInv'
<1>1. Epochs' = Epochs
  BY DEF Epochs, Context
<1>2. epoch \in [Slot -> Epochs]
  BY DEF ProgramInv, ProgramTypeOK
<1>3. epoch' \in [Slot -> Epochs] /\ epoch'[s] = e /\ \A t \in Slot \ {s} : epoch'[t] = epoch[t]
  BY <1>2
<1>4. ProgramTypeOK'
  BY <1>1, <1>3 DEF ProgramInv, ProgramTypeOK
<1>5. \A t \in Slot : EpochSound(epoch'[t])
  BY <1>3 DEF ProgramInv
<1> QED
  BY <1>4, <1>5 DEF ProgramInv, EpochSound, InLoop, WellFormed

\* An epoch that has not begun.
LEMMA NoEpochSound == NoEpoch \in Epochs /\ EpochSound(NoEpoch)
<1>1. Unread \in Readings
  BY DEF Unread, Readings
<1>2. EmptyTable \in Tables
  BY DEF EmptyTable, Tables
<1>3. NoUpdate \in Updates
  <2>1. [v \in Vault |-> 0] \in [Vault -> Int] /\ [c \in Chain |-> 0] \in [Chain -> Nat]
    OBVIOUS
  <2> QED
    BY <1>2, <2>1 DEF NoUpdate, Updates
<1>4. NoEpoch \in Epochs
  <2>1. NothingRead \in [Chain -> Readings]
    BY <1>1 DEF NothingRead
  <2> QED
    BY <1>3, <2>1 DEF NoEpoch, Epochs
<1>5. EpochSound(NoEpoch)
  BY DEF NoEpoch, NothingRead, EpochSound, InLoop, Unread
<1> QED
  BY <1>4, <1>5

-----------------------------------------------------------------------------
(* The steps of an epoch.                                                  *)

\* An epoch that learns something of a chain.
LEMMA LearnStep ==
  ASSUME KeeperInv, NEW s \in Slot, NEW c \in Chain, NEW r \in Readings, InLoop(r), Learn(s, c, r)
  PROVE  KeeperInv'
<1> DEFINE old == epoch[s]
           e == [old EXCEPT !.reading = [old.reading EXCEPT ![c] = r]]
<1>1. old \in Epochs /\ EpochSound(old)
  BY DEF KeeperInv, ProgramInv, ProgramTypeOK
<1>2. epoch' = [epoch EXCEPT ![s] = e]
  BY DEF Learn
<1> HIDE DEF old
<1>3. [old.reading EXCEPT ![c] = r] \in [Chain -> Readings]
  BY <1>1 DEF Epochs
<1>4. e \in Epochs
  BY <1>1, <1>3 DEF Epochs
<1>5. EpochSound(e)
  <2>1. e.phase = old.phase /\ e.update = old.update /\ e.reading = [old.reading EXCEPT ![c] = r]
    BY <1>1 DEF Epochs
  <2>2. \A d \in Chain : e.reading[d] = IF d = c THEN r ELSE old.reading[d]
    BY <1>1, <2>1 DEF Epochs
  <2> HIDE DEF e
  <2> QED
    BY <1>1, <2>1, <2>2 DEF EpochSound
<1> HIDE DEF e
<1>6. ProgramInv'
  <2>1. nextStart' \in Nat /\ process' \in {"booting", "first", "looping", "stopped"}
    BY DEF Learn, KeeperInv, ProgramInv, ProgramTypeOK
  <2>2. UNCHANGED contexts
    BY DEF Learn
  <2> QED
    BY <1>2, <1>4, <1>5, <2>1, <2>2, NextEpoch DEF KeeperInv
<1>7. NetworkInv'
  BY SameNetwork DEF Learn, KeeperInv, network, NetworkInv, NetworkTypeOK
<1> QED
  BY <1>6, <1>7, SameRelay, SameMarket, SameHistory DEF Learn, KeeperInv

\* The list of a chain's baskets.
LEMMA ListBasketsStep ==
  ASSUME KeeperInv, NEW s \in Slot, NEW c \in Chain, ListBaskets(s, c)
  PROVE  KeeperInv'
<1> DEFINE list == baskets[c]
           began == Recorded(now)
           stage == IF baskets[c] = <<>> THEN "done" ELSE "balances"
           r == [stage |-> stage, vaults |-> list, next |-> 1,
                 idleUsdc |-> 0, hubPnL |-> 0, began |-> began]
<1>1. list \in Seq(Vault) /\ now \in Nat
  BY DEF KeeperInv, MarketTypeOK, NetworkInv, NetworkTypeOK
<1>2. began \in Nat
  BY <1>1 DEF Recorded
<1>3. stage \in {"balances", "done"} /\ (stage = "balances" => list # <<>>)
  OBVIOUS
<1>4. Learn(s, c, r)
  BY DEF ListBaskets
<1> HIDE DEF list, began, stage
<1>5. r \in Readings
  BY <1>1, <1>2, <1>3 DEF Readings
<1>6. InLoop(r)
  BY <1>1, <1>3 DEF InLoop
<1> HIDE DEF r
<1> QED
  BY <1>4, <1>5, <1>6, LearnStep

\* The reading an epoch has of a chain.
LEMMA HasReading ==
  ASSUME KeeperInv, NEW s \in Slot, NEW c \in Chain
  PROVE  epoch[s].reading[c] \in Readings /\ InLoop(epoch[s].reading[c])
BY DEF KeeperInv, ProgramInv, ProgramTypeOK, EpochSound, Epochs

\* The loop goes on or ends; the cursor stays on the list.
LEMMA AdvanceSound ==
  ASSUME NEW r \in Readings, InLoop(r), r.stage \in {"balances", "pnl"},
         NEW stage \in {"pnl", "done"}
  PROVE  Advance(r, stage) \in Readings /\ InLoop(Advance(r, stage))
<1>1. r.vaults \in Seq(Vault) /\ r.next \in Nat \ {0} /\ r.next <= Len(r.vaults)
  BY DEF Readings, InLoop
<1>2. Len(r.vaults) \in Nat
  BY <1>1
<1>3. CASE r.next < Len(r.vaults)
  <2>1. Advance(r, stage) = [r EXCEPT !.next = r.next + 1]
    BY <1>3 DEF Advance
  <2>2. r.next + 1 \in Nat \ {0} /\ r.next + 1 <= Len(r.vaults)
    BY <1>1, <1>2, <1>3
  <2> QED
    BY <2>1, <2>2 DEF Readings, InLoop
<1>4. CASE ~ (r.next < Len(r.vaults))
  <2>1. Advance(r, stage) = [r EXCEPT !.next = 1, !.stage = stage]
    BY <1>4 DEF Advance
  <2>2. 1 <= Len(r.vaults)
    BY <1>1, <1>2
  <2>3. Advance(r, stage) = [stage |-> stage, vaults |-> r.vaults, next |-> 1,
                             idleUsdc |-> r.idleUsdc, hubPnL |-> r.hubPnL, began |-> r.began]
    BY <2>1 DEF Readings
  <2> QED
    BY <2>2, <2>3 DEF Readings, InLoop
<1> QED
  BY <1>3, <1>4

\* The balance of one basket.
LEMMA ReadBalanceStep ==
  ASSUME KeeperInv, NEW s \in Slot, NEW c \in Chain, ReadBalance(s, c)
  PROVE  KeeperInv'
<1> DEFINE r == epoch[s].reading[c]
           q == [r EXCEPT !.idleUsdc = r.idleUsdc + idle[r.vaults[r.next]]]
           stage == IF c \in Hub THEN "pnl" ELSE "done"
<1>1. r \in Readings /\ InLoop(r) /\ r.stage = "balances"
  BY HasReading DEF ReadBalance, Reading
<1>2. Learn(s, c, Advance(q, stage))
  BY DEF ReadBalance
<1> HIDE DEF r
<1>3. r.vaults[r.next] \in Vault
  BY <1>1 DEF Readings, InLoop
<1>4. idle[r.vaults[r.next]] \in Nat
  BY <1>3 DEF KeeperInv, MarketTypeOK
<1>5. q \in Readings /\ InLoop(q) /\ q.stage = "balances"
  BY <1>1, <1>4 DEF Readings, InLoop
<1> HIDE DEF q
<1>6. Advance(q, stage) \in Readings /\ InLoop(Advance(q, stage))
  BY <1>5, AdvanceSound
<1> HIDE DEF stage
<1> QED
  BY <1>2, <1>6, LearnStep

\* The PnL of one basket of the hub.
LEMMA ReadPnLStep ==
  ASSUME KeeperInv, NEW s \in Slot, NEW c \in Chain, ReadPnL(s, c)
  PROVE  KeeperInv'
<1> DEFINE r == epoch[s].reading[c]
           q == [r EXCEPT !.hubPnL = r.hubPnL + pnl[r.vaults[r.next]]]
<1>1. r \in Readings /\ InLoop(r) /\ r.stage = "pnl"
  BY HasReading DEF ReadPnL, Reading
<1>2. Learn(s, c, Advance(q, "done"))
  BY DEF ReadPnL
<1> HIDE DEF r
<1>3. r.vaults[r.next] \in Vault
  BY <1>1 DEF Readings, InLoop
<1>4. pnl[r.vaults[r.next]] \in Int
  BY <1>3 DEF KeeperInv, MarketTypeOK
<1>5. q \in Readings /\ InLoop(q) /\ q.stage = "pnl"
  BY <1>1, <1>4 DEF Readings, InLoop
<1> HIDE DEF q
<1>6. Advance(q, "done") \in Readings /\ InLoop(Advance(q, "done"))
  BY <1>5, AdvanceSound
<1> QED
  BY <1>2, <1>6, LearnStep

\* A new epoch: the timer moves on and the overlap is noted.
LEMMA StartEpochStep ==
  ASSUME KeeperInv, NEW s \in Slot, StartEpoch(s)
  PROVE  KeeperInv'
<1> DEFINE e == [NoEpoch EXCEPT !.phase = "reading"]
<1>1. now \in Nat /\ Interval \in Nat /\ Recording \in BOOLEAN
  BY KeeperConstants DEF KeeperInv, NetworkInv, NetworkTypeOK
<1>2. e \in Epochs
  BY NoEpochSound DEF Epochs
<1>3. EpochSound(e)
  <2>1. e = [phase |-> "reading", reading |-> NothingRead, update |-> NoUpdate, unsent |-> {}]
    BY DEF NoEpoch
  <2> HIDE DEF e
  <2> QED
    BY <2>1 DEF EpochSound, NothingRead, Unread, InLoop
<1>4. epoch' = [epoch EXCEPT ![s] = e]
  BY DEF StartEpoch
<1>5. nextStart' \in Nat
  BY <1>1 DEF StartEpoch
<1>6. process' \in {"booting", "first", "looping", "stopped"} /\ UNCHANGED contexts
  BY DEF StartEpoch
<1> HIDE DEF e
<1>7. ProgramInv'
  BY <1>2, <1>3, <1>4, <1>5, <1>6, NextEpoch DEF KeeperInv
<1>8. HistoryTypeOK'
  BY DEF StartEpoch, KeeperInv, HistoryTypeOK
<1>9. NetworkInv'
  BY SameNetwork DEF StartEpoch, KeeperInv, network, NetworkInv, NetworkTypeOK
<1> QED
  BY <1>7, <1>8, <1>9, SameRelay, SameMarket DEF StartEpoch, KeeperInv

\* An epoch that is given up.
LEMMA AbortEpochStep ==
  ASSUME KeeperInv, NEW s \in Slot, AbortEpoch(s)
  PROVE  KeeperInv'
<1>1. nextStart' \in Nat /\ process' \in {"booting", "first", "looping", "stopped"}
  BY DEF AbortEpoch, KeeperInv, ProgramInv, ProgramTypeOK
<1>2. ProgramInv'
  BY <1>1, NoEpochSound, NextEpoch DEF AbortEpoch, KeeperInv
<1>3. NetworkInv'
  BY SameNetwork DEF AbortEpoch, KeeperInv, network, NetworkInv, NetworkTypeOK
<1> QED
  BY <1>2, <1>3, SameRelay, SameMarket, SameHistory DEF AbortEpoch, KeeperInv

\* The update is computed from what was read.
LEMMA ComputeUpdateStep ==
  ASSUME KeeperInv, NEW s \in Slot, ComputeUpdate(s)
  PROVE  KeeperInv'
<1> DEFINE u == UpdateFrom(epoch[s].reading)
           todo == Context \cap Relayed
           full == [phase |-> "writing", reading |-> NothingRead, update |-> u, unsent |-> todo]
           e == IF todo = {} THEN NoEpoch ELSE full
<1>1. now \in Nat /\ contexts \in Contexts
  BY DEF KeeperInv, NetworkInv, NetworkTypeOK, ProgramInv, ProgramTypeOK
<1>2. epoch[s].reading \in [Chain -> Readings]
  BY DEF KeeperInv, ProgramInv, ProgramTypeOK, Epochs
<1>3. u \in Updates /\ WellFormed(u)
  BY <1>1, <1>2, UpdateSound
<1>4. epoch' = [epoch EXCEPT ![s] = e]
  BY DEF ComputeUpdate
<1> HIDE DEF u
<1>5. NothingRead \in [Chain -> Readings] /\ \A c \in Chain : InLoop(NothingRead[c])
  BY NoEpochSound DEF NoEpoch, Epochs, EpochSound
<1>6. full \in Epochs /\ EpochSound(full)
  BY <1>3, <1>5 DEF Epochs, EpochSound
<1> HIDE DEF full
<1>7. e \in Epochs /\ EpochSound(e)
  BY <1>6, NoEpochSound
<1> HIDE DEF e
<1>8. /\ nextStart' \in Nat /\ process' \in {"booting", "first", "looping", "stopped"}
      /\ UNCHANGED contexts
  BY DEF ComputeUpdate, KeeperInv, ProgramInv, ProgramTypeOK
<1>9. ProgramInv'
  BY <1>4, <1>7, <1>8, NextEpoch DEF KeeperInv
<1>10. NetworkInv'
  BY SameNetwork DEF ComputeUpdate, KeeperInv, network, NetworkInv, NetworkTypeOK
<1>11. HistoryTypeOK'
  BY <1>1 DEF ComputeUpdate, KeeperInv, HistoryTypeOK, Recorded
<1> QED
  BY <1>9, <1>10, <1>11, SameRelay, SameMarket DEF ComputeUpdate, KeeperInv

\* An epoch that has one relay less to write to, or none.
LEMMA WrittenSound ==
  ASSUME KeeperInv, NEW s \in Slot, NEW c \in Chain, Written(s, c),
         UNCHANGED <<process, contexts, nextStart>>
  PROVE  ProgramInv'
<1> DEFINE old == epoch[s]
           left == old.unsent \ {c}
           less == [old EXCEPT !.unsent = left]
           e == IF left = {} THEN NoEpoch ELSE less
<1>1. old \in Epochs /\ EpochSound(old) /\ epoch \in [Slot -> Epochs]
  BY DEF KeeperInv, ProgramInv, ProgramTypeOK
<1>2. epoch' = [epoch EXCEPT ![s] = e]
  BY DEF Written
<1> HIDE DEF old
<1>3. less \in Epochs
  BY <1>1 DEF Epochs
<1>4. EpochSound(less)
  <2>1. less.phase = old.phase /\ less.update = old.update /\ less.reading = old.reading
    BY <1>1 DEF Epochs
  <2> HIDE DEF less
  <2> QED
    BY <1>1, <2>1 DEF EpochSound
<1> HIDE DEF less
<1>5. e \in Epochs /\ EpochSound(e)
  BY <1>3, <1>4, NoEpochSound
<1> HIDE DEF e
<1>6. nextStart' \in Nat /\ process' \in {"booting", "first", "looping", "stopped"}
  BY DEF KeeperInv, ProgramInv, ProgramTypeOK
<1> QED
  BY <1>2, <1>5, <1>6, NextEpoch DEF KeeperInv

\* An update gets into the mempool.
LEMMA SendUpdateStep ==
  ASSUME KeeperInv, NEW s \in Slot, NEW c \in Chain, SendUpdate(s, c)
  PROVE  KeeperInv'
<1> DEFINE u == epoch[s].update
           queue == Append(mempool[c], u)
<1>1. u \in Updates /\ WellFormed(u)
  BY DEF SendUpdate, KeeperInv, ProgramInv, ProgramTypeOK, Epochs
<1>2. mempool \in [Chain -> Seq(Updates)] /\ mempool[c] \in Seq(Updates)
  BY DEF KeeperInv, NetworkInv, NetworkTypeOK
<1>3. mempool' = [mempool EXCEPT ![c] = queue]
  BY DEF SendUpdate
<1> HIDE DEF u
<1>4. /\ queue \in Seq(Updates) /\ DOMAIN queue = DOMAIN mempool[c] \cup {Len(mempool[c]) + 1}
      /\ queue[Len(mempool[c]) + 1] = u
      /\ \A i \in DOMAIN mempool[c] : queue[i] = mempool[c][i]
  BY <1>1, <1>2
<1>5. \A i \in DOMAIN mempool[c] : WellFormed(mempool[c][i])
  BY DEF KeeperInv, NetworkInv
<1> HIDE DEF queue
<1>6. \A i \in DOMAIN queue : WellFormed(queue[i])
  BY <1>1, <1>4, <1>5
<1>7. mempool' \in [Chain -> Seq(Updates)] /\ mempool'[c] = queue
      /\ \A d \in Chain \ {c} : mempool'[d] = mempool[d]
  BY <1>2, <1>3, <1>4
<1>8. \A d \in Chain : \A i \in DOMAIN mempool'[d] : WellFormed(mempool'[d][i])
  BY <1>6, <1>7 DEF KeeperInv, NetworkInv
<1>9. NetworkInv'
  BY <1>7, <1>8 DEF SendUpdate, KeeperInv, NetworkInv, NetworkTypeOK, WellFormed
<1>10. ProgramInv'
  BY WrittenSound DEF SendUpdate
<1> QED
  BY <1>9, <1>10, SameRelay, SameMarket, SameHistory DEF SendUpdate, KeeperInv

\* An update that is not sent.
LEMMA FailToSendStep ==
  ASSUME KeeperInv, NEW s \in Slot, NEW c \in Chain, FailToSend(s, c)
  PROVE  KeeperInv'
<1>1. ProgramInv'
  BY WrittenSound DEF FailToSend
<1>2. NetworkInv'
  BY SameNetwork DEF FailToSend, KeeperInv, network, NetworkInv, NetworkTypeOK
<1> QED
  BY <1>1, <1>2, SameRelay, SameMarket, SameHistory DEF FailToSend, KeeperInv

\* The first epoch is over.
LEMMA FinishFirstStep == KeeperInv /\ FinishFirst => KeeperInv'
<1> SUFFICES ASSUME KeeperInv, FinishFirst PROVE KeeperInv'
  OBVIOUS
<1>1. nextStart' \in Nat
  BY KeeperConstants DEF FinishFirst, KeeperInv, NetworkInv, NetworkTypeOK
<1>2. ProgramInv'
  BY <1>1, SameEpochs DEF FinishFirst, KeeperInv
<1>3. NetworkInv'
  BY SameNetwork DEF FinishFirst, KeeperInv, network, NetworkInv, NetworkTypeOK
<1> QED
  BY <1>2, <1>3, SameRelay, SameMarket, SameHistory DEF FinishFirst, KeeperInv

\* A new process.
LEMMA RestartStep == KeeperInv /\ Restart => KeeperInv'
<1> SUFFICES ASSUME KeeperInv, Restart PROVE KeeperInv'
  OBVIOUS
<1>1. NoEpoch \in Epochs' /\ EpochSound(NoEpoch)
  <2>1. NothingRead \in [Chain -> Readings] /\ NoUpdate \in Updates
    BY NoEpochSound DEF NoEpoch, Epochs
  <2> QED
    BY <2>1, NoEpochSound DEF NoEpoch, Epochs
<1>2. epoch' \in [Slot -> Epochs'] /\ \A s \in Slot : epoch'[s] = NoEpoch
  BY <1>1 DEF Restart
<1>3. now \in Nat
  BY DEF KeeperInv, NetworkInv, NetworkTypeOK
<1>4. ProgramTypeOK'
  BY <1>2, <1>3 DEF Restart, ProgramTypeOK
<1>5. \A s \in Slot : EpochSound(epoch'[s])
  BY <1>1, <1>2
<1>6. ProgramInv'
  BY <1>4, <1>5 DEF ProgramInv, EpochSound, InLoop, WellFormed
<1>7. NetworkInv'
  BY SameNetwork DEF Restart, KeeperInv, network, NetworkInv, NetworkTypeOK
<1> QED
  BY <1>6, <1>7, SameRelay, SameMarket, SameHistory DEF Restart, KeeperInv

-----------------------------------------------------------------------------
(* The steps of the chains.                                                *)

\* The oldest waiting update leaves the mempool.
LEMMA TakenSound ==
  ASSUME KeeperInv, NEW c \in Chain, mempool[c] # <<>>,
         mempool' = [mempool EXCEPT ![c] = Tail(@)], UNCHANGED <<now, up>>
  PROVE  NetworkInv' /\ Head(mempool[c]) \in Updates
<1> DEFINE queue == mempool[c]
           rest == Tail(queue)
<1>1. mempool \in [Chain -> Seq(Updates)] /\ queue \in Seq(Updates) /\ queue # <<>>
  BY DEF KeeperInv, NetworkInv, NetworkTypeOK
<1>2. \A i \in DOMAIN queue : WellFormed(queue[i])
  BY DEF KeeperInv, NetworkInv
<1>3. mempool' = [mempool EXCEPT ![c] = rest]
  OBVIOUS
<1> HIDE DEF queue
<1>4. /\ rest \in Seq(Updates) /\ Head(queue) \in Updates
      /\ \A i \in DOMAIN rest : i + 1 \in DOMAIN queue /\ rest[i] = queue[i + 1]
  BY <1>1
<1> HIDE DEF rest
<1>5. \A i \in DOMAIN rest : WellFormed(rest[i])
  BY <1>2, <1>4
<1>6. /\ mempool' \in [Chain -> Seq(Updates)] /\ mempool'[c] = rest
      /\ \A d \in Chain \ {c} : mempool'[d] = mempool[d]
  BY <1>1, <1>3, <1>4
<1>7. \A d \in Chain : \A i \in DOMAIN mempool'[d] : WellFormed(mempool'[d][i])
  BY <1>5, <1>6 DEF KeeperInv, NetworkInv
<1>8. NetworkInv'
  BY <1>6, <1>7 DEF KeeperInv, NetworkInv, NetworkTypeOK, WellFormed
<1> QED
  BY <1>4, <1>8 DEF queue

\* A relay takes an update over.
LEMMA UpdateStateTyped ==
  ASSUME RelayTypeOK, NEW c \in Chain, NEW u \in Updates, updateState(c, u)
  PROVE  RelayTypeOK'
<1>1. /\ u.table \in Tables /\ u.pnl \in [Vault -> Int] /\ u.ts \in Nat
      /\ Len(u.table.weights) = Len(u.table.chains)
  BY DEF Updates, updateState, WellFormed
<1>2. WeightOf(c, u.table) \in 0..BPS
  <2> DEFINE t == u.table
             places == {i \in DOMAIN t.chains : t.chains[i] = c}
             first == CHOOSE i \in places : \A j \in places : i <= j
  <2>1. t.chains \in Seq(Chain) /\ t.weights \in Seq(0..BPS)
    BY <1>1 DEF Tables
  <2>2. DOMAIN t.chains = DOMAIN t.weights /\ DOMAIN t.chains \subseteq Nat
    BY <1>1, <2>1
  <2>3. WeightOf(c, t) = IF places = {} THEN 0 ELSE t.weights[first]
    BY DEF WeightOf
  <2> HIDE DEF t
  <2>4. places \subseteq DOMAIN t.chains /\ places \subseteq Nat
    BY <2>2
  <2>5. CASE places = {}
    <3>1. BPS \in Nat
      BY BasisPoints
    <3> QED
      BY <2>3, <2>5, <3>1 DEF t
  <2>6. CASE places # {}
    <3>1. first \in places
      <4> HIDE DEF places
      <4> QED
        BY <2>4, <2>6, FirstPlace
    <3> HIDE DEF first
    <3>2. t.weights[first] \in 0..BPS
      <4>1. \A i \in DOMAIN t.weights : t.weights[i] \in 0..BPS
        <5> DEFINE list == t.weights
                   All == 0..BPS
        <5>1. list \in Seq(All)
          BY <2>1
        <5> HIDE DEF list, All
        <5>2. \A i \in DOMAIN list : list[i] \in All
          BY <5>1
        <5> QED
          BY <5>2 DEF list, All
      <4>2. first \in DOMAIN t.weights
        BY <2>2, <2>4, <3>1
      <4> QED
        BY <4>1, <4>2
    <3> QED
      BY <2>3, <2>6, <3>2 DEF t
  <2> QED
    BY <2>5, <2>6
<1>3. /\ globalPnLAdjustment[c] \in [Vault -> Int] /\ pnlUpdateTime[c] \in [Vault -> Nat]
  BY DEF RelayTypeOK
<1>4. Adjusted(c, u) \in [Vault -> Int] /\ Stamped(c, u) \in [Vault -> Nat]
  BY <1>1, <1>3 DEF Adjusted, Stamped
<1>5. table' \in [Chain -> Tables] /\ lastUpdateTime' \in [Chain -> Nat]
  BY <1>1 DEF updateState, RelayTypeOK
<1>6. localWeight' \in [Chain -> 0..BPS]
  BY <1>2 DEF updateState, RelayTypeOK
<1>7. /\ globalPnLAdjustment' \in [Chain -> [Vault -> Int]]
      /\ pnlUpdateTime' \in [Chain -> [Vault -> Nat]]
  BY <1>4 DEF updateState, RelayTypeOK
<1>8. UNCHANGED settings
  BY DEF updateState
<1> QED
  BY <1>5, <1>6, <1>7, <1>8 DEF RelayTypeOK, settings

\* The program does not notice what its chains do.
LEMMA ProgramKept ==
  ASSUME KeeperInv, UNCHANGED <<process, contexts, nextStart, epoch>>
  PROVE  ProgramInv'
<1>1. nextStart' \in Nat /\ process' \in {"booting", "first", "looping", "stopped"}
  BY DEF KeeperInv, ProgramInv, ProgramTypeOK
<1> QED
  BY <1>1, SameEpochs DEF KeeperInv

\* An update that lands.
LEMMA LandUpdateStep ==
  ASSUME KeeperInv, NEW c \in Chain, LandUpdate(c)
  PROVE  KeeperInv'
<1> DEFINE u == MinedUpdate(c)
<1>1. Mine(c) /\ updateState(c, u) /\ readFrom' = [readFrom EXCEPT ![c] = u.readFrom]
  BY DEF LandUpdate
<1>2. NetworkInv' /\ u \in Updates
  BY <1>1, TakenSound DEF Mine, MinedUpdate
<1> HIDE DEF u
<1>3. RelayTypeOK'
  BY <1>1, <1>2, UpdateStateTyped DEF KeeperInv
<1>4. ProgramInv'
  BY <1>1, ProgramKept DEF Mine, program
<1>5. MarketTypeOK'
  BY <1>1, SameMarket DEF Mine, KeeperInv
<1>6. HistoryTypeOK'
  BY <1>1, <1>2 DEF Mine, KeeperInv, HistoryTypeOK, Updates
<1> QED
  BY <1>2, <1>3, <1>4, <1>5, <1>6 DEF KeeperInv

\* An update that reverts.
LEMMA RevertUpdateStep ==
  ASSUME KeeperInv, NEW c \in Chain, RevertUpdate(c)
  PROVE  KeeperInv'
<1>1. NetworkInv'
  BY TakenSound DEF RevertUpdate, Mine
<1>2. ProgramInv'
  BY ProgramKept DEF RevertUpdate, Mine, program
<1>3. UNCHANGED <<relay, market, history>>
  BY DEF RevertUpdate, Mine, history
<1> QED
  BY <1>1, <1>2, <1>3, SameRelay, SameMarket, SameHistory DEF KeeperInv

\* An update nobody mines.
LEMMA LoseUpdateStep ==
  ASSUME KeeperInv, NEW c \in Chain, LoseUpdate(c)
  PROVE  KeeperInv'
<1>1. NetworkInv'
  BY TakenSound DEF LoseUpdate
<1>2. nextStart' \in Nat /\ process' \in {"booting", "first", "looping", "stopped"}
  BY DEF LoseUpdate, KeeperInv, ProgramInv, ProgramTypeOK
<1>3. ProgramInv'
  BY <1>2, SameEpochs DEF LoseUpdate, KeeperInv
<1> QED
  BY <1>1, <1>3, SameRelay, SameMarket, SameHistory DEF LoseUpdate, KeeperInv

\* Users, traders and owners of baskets.
LEMMA MarketMoves ==
  ASSUME KeeperInv, MarketStep
  PROVE  KeeperInv'
<1>1. UNCHANGED <<relay, program, network, history>>
  BY DEF MarketStep, CreateBasket, Deposit, Withdraw, MovePnL
<1>2. ProgramInv'
  BY <1>1, ProgramKept DEF program
<1>3. NetworkInv'
  BY <1>1, SameNetwork DEF KeeperInv, network, NetworkInv, NetworkTypeOK
<1>4. MarketTypeOK'
  <2>1. CASE \E v \in Vault : CreateBasket(v)
    <3>1. PICK v \in Vault : CreateBasket(v)
      BY <2>1
    <3> DEFINE old == baskets[Home[v]]
               new == Append(old, v)
    <3>2. Home[v] \in Chain
      BY KeeperConstants
    <3>3. old \in Seq(Vault) /\ IsInjective(old) /\ v \notin ToSet(old)
      BY <3>1, <3>2 DEF CreateBasket, KeeperInv, MarketTypeOK
    <3>4. baskets' = [baskets EXCEPT ![Home[v]] = new] /\ UNCHANGED <<idle, pnl>>
      BY <3>1 DEF CreateBasket
    <3> HIDE DEF old
    <3>5. /\ new \in Seq(Vault) /\ DOMAIN new = DOMAIN old \cup {Len(old) + 1}
          /\ new[Len(old) + 1] = v /\ \A i \in DOMAIN old : new[i] = old[i]
      BY <3>3
    <3> HIDE DEF new
    <3>6. IsInjective(new)
      <4>1. \A i \in DOMAIN old : old[i] # v
        BY <3>3 DEF ToSet
      <4> QED
        BY <3>3, <3>5, <4>1 DEF IsInjective
    <3>7. baskets \in [Chain -> Seq(Vault)] /\ \A c \in Chain : IsInjective(baskets[c])
      BY DEF KeeperInv, MarketTypeOK
    <3>8. /\ baskets' \in [Chain -> Seq(Vault)]
          /\ \A c \in Chain : baskets'[c] = IF c = Home[v] THEN new ELSE baskets[c]
      BY <3>2, <3>4, <3>5, <3>7
    <3>9. \A c \in Chain : IsInjective(baskets'[c])
      BY <3>6, <3>7, <3>8
    <3> QED
      BY <3>4, <3>8, <3>9 DEF KeeperInv, MarketTypeOK, IsInjective
  <2>2. CASE \E v \in Vault, amount \in Amount : Deposit(v, amount)
    <3>1. PICK v \in Vault, amount \in Amount : Deposit(v, amount)
      BY <2>2
    <3>2. amount \in Nat
      BY KeeperConstants
    <3>3. idle[v] + amount \in Nat
      BY <3>2 DEF KeeperInv, MarketTypeOK
    <3> QED
      BY <3>1, <3>3 DEF Deposit, KeeperInv, MarketTypeOK
  <2>3. CASE \E v \in Vault, amount \in Amount : Withdraw(v, amount)
    <3>1. PICK v \in Vault, amount \in Amount : Withdraw(v, amount)
      BY <2>3
    <3>2. amount \in Nat
      BY KeeperConstants
    <3>3. idle[v] - amount \in Nat
      BY <3>1, <3>2 DEF Withdraw, KeeperInv, MarketTypeOK
    <3> QED
      BY <3>1, <3>3 DEF Withdraw, KeeperInv, MarketTypeOK
  <2>4. CASE \E v \in Vault, value \in PnL : MovePnL(v, value)
    <3>1. PICK v \in Vault, value \in PnL : MovePnL(v, value)
      BY <2>4
    <3>2. value \in Int
      BY KeeperConstants
    <3> QED
      BY <3>1, <3>2 DEF MovePnL, KeeperInv, MarketTypeOK
  <2> QED
    BY <2>1, <2>2, <2>3, <2>4 DEF MarketStep
<1> QED
  BY <1>1, <1>2, <1>3, <1>4, SameRelay, SameHistory DEF KeeperInv

\* Endpoints that fail and recover, and time that passes.
LEMMA NetworkMoves ==
  ASSUME KeeperInv, Tick \/ \E c \in Chain : Outage(c) \/ Recover(c)
  PROVE  KeeperInv'
<1>1. UNCHANGED <<relay, market, program, mempool, history>>
  BY DEF Tick, Outage, Recover
<1>2. now \in Nat /\ up \subseteq Chain
  BY DEF KeeperInv, NetworkInv, NetworkTypeOK
<1>3. now' \in Nat /\ up' \subseteq Chain
  BY <1>2 DEF Tick, Outage, Recover
<1>4. NetworkInv'
  BY <1>1, <1>3, SameNetwork DEF KeeperInv
<1>5. ProgramInv'
  BY <1>1, ProgramKept DEF program
<1> QED
  BY <1>1, <1>4, <1>5, SameRelay, SameMarket, SameHistory DEF KeeperInv

\* The owner of a relay.
LEMMA RelayOwnerStep ==
  ASSUME KeeperInv, NEW c \in Chain, RelayOwner(c)
  PROVE  KeeperInv'
<1>1. UNCHANGED <<market, program, network, history, posted>>
  BY DEF RelayOwner, setKeeper, setMaxStaleness
<1>2. RelayTypeOK'
  BY <1>1 DEF RelayOwner, setKeeper, setMaxStaleness, KeeperInv, RelayTypeOK, posted
<1>3. NetworkInv'
  BY <1>1, SameNetwork DEF KeeperInv, network, NetworkInv, NetworkTypeOK
<1>4. ProgramInv'
  BY <1>1, ProgramKept DEF program
<1> QED
  BY <1>1, <1>2, <1>3, <1>4, SameMarket, SameHistory DEF KeeperInv

-----------------------------------------------------------------------------

\* Relays that were never written, and a process without an epoch.
LEMMA KeeperInit == Init => KeeperInv
<1> SUFFICES ASSUME Init PROVE KeeperInv
  OBVIOUS
<1> USE DEF Init, Fresh
<1>1. RelayTypeOK
  <2>1. EmptyTable \in Tables /\ BPS \in Nat
    BY BasisPoints DEF EmptyTable, Tables
  <2> HIDE DEF EmptyTable
  <2> QED
    BY <2>1 DEF RelayInit, RelayTypeOK
<1>2. MarketTypeOK
  BY DEF MarketTypeOK, IsInjective
<1>3. ProgramInv
  BY NoEpochSound DEF ProgramInv, ProgramTypeOK
<1>4. NetworkInv
  BY DEF NetworkInv, NetworkTypeOK
<1>5. HistoryTypeOK
  BY DEF HistoryTypeOK
<1> QED
  BY <1>1, <1>2, <1>3, <1>4, <1>5 DEF KeeperInv

LEMMA KeeperStep == KeeperInv /\ [Next]_vars => KeeperInv'
<1> SUFFICES ASSUME KeeperInv, [Next]_vars PROVE KeeperInv'
  OBVIOUS
<1>1. ASSUME NEW s \in Slot, StartEpoch(s) \/ AbortEpoch(s) \/ ComputeUpdate(s)
      PROVE  KeeperInv'
  BY <1>1, StartEpochStep, AbortEpochStep, ComputeUpdateStep
<1>2. ASSUME NEW s \in Slot, NEW c \in Chain, ReadStep(s, c) PROVE KeeperInv'
  BY <1>2, ListBasketsStep, ReadBalanceStep, ReadPnLStep DEF ReadStep
<1>3. ASSUME NEW s \in Slot, NEW c \in Chain, SendUpdate(s, c) \/ FailToSend(s, c)
      PROVE  KeeperInv'
  BY <1>3, SendUpdateStep, FailToSendStep
<1>4. CASE EpochStep
  BY <1>1, <1>2, <1>3, <1>4, FinishFirstStep DEF EpochStep
<1>5. CASE MineStep
  BY <1>5, LandUpdateStep, RevertUpdateStep DEF MineStep
<1>6. CASE MarketStep
  BY <1>6, MarketMoves
<1>7. CASE FaultStep
  BY <1>7, NetworkMoves, LoseUpdateStep, RestartStep DEF FaultStep
<1>8. CASE Tick \/ \E c \in Chain : Recover(c) \/ RelayOwner(c)
  BY <1>8, NetworkMoves, RelayOwnerStep
<1>9. CASE UNCHANGED vars
  <2>1. UNCHANGED <<relay, market, program, network, history>>
    BY <1>9 DEF vars
  <2>2. NetworkInv'
    BY <2>1, SameNetwork DEF KeeperInv, network, NetworkInv, NetworkTypeOK
  <2>3. ProgramInv'
    BY <2>1, ProgramKept DEF program
  <2> QED
    BY <2>1, <2>2, <2>3, SameRelay, SameMarket, SameHistory DEF KeeperInv
<1> QED
  BY <1>4, <1>5, <1>6, <1>7, <1>8, <1>9 DEF Next

\* Every variable of the keeper and of the relays keeps its type: the loops of
\* readChain stay on their lists, weights are basis points, adjustments are
\* integers, through any overlap of epochs, outage, loss and restart.
THEOREM KeeperTyped == Spec => []TypeOK
<1>1. KeeperInv => TypeOK
  BY InvImplies
<1> QED
  BY <1>1, KeeperInit, KeeperStep, PTL DEF Spec

\* No update the keeper computes or sends is refused for its content by
\* _validateWeights or the checks of lengths in updateState, for any number of
\* chains and any balances.
THEOREM RefusedOnlyForTime == Spec => []OnlyStaleReverts
<1>1. KeeperInv => OnlyStaleReverts
  BY InvImplies
<1> QED
  BY <1>1, KeeperInit, KeeperStep, PTL DEF Spec

-----------------------------------------------------------------------------
(* Epochs that do not overlap.  As long as none began before the last was  *)
(* over, or within its second, there is a strict order between updates,    *)
(* readings and what relays hold; the two properties follow from it.       *)

\* The updates that may still land on some relay.
InFlight ==
  (UNION {ToSet(mempool[c]) : c \in Chain})
    \cup {epoch[s].update : s \in {t \in Slot : epoch[t].phase = "writing"}}

\* What an epoch has to send is computed.
SendsComputed == \A s \in Slot : epoch[s].unsent # {} => epoch[s].phase = "writing"

\* There is at most one epoch at work.
EpochAlone ==
  /\ \A s, t \in Slot : ~IsIdle(s) /\ ~IsIdle(t) => s = t
  /\ SendsComputed

\* What an epoch has read was read after the last timestamp was taken.
FreshReading(r) == r.began <= now /\ (r.stage # "unread" => lastStamp < r.began)

ReadingFresh ==
  \A s \in Slot : epoch[s].phase = "reading" =>
    lastStamp < now /\ \A c \in Chain : FreshReading(epoch[s].reading[c])

\* No relay is ahead of the keeper, and nothing in a relay is newer than it.
StampsPast ==
  /\ lastStamp <= now
  /\ \A c \in Chain :
       /\ lastUpdateTime[c] <= lastStamp
       /\ \A d \in Chain : readFrom[c][d] <= lastUpdateTime[c]
       /\ \A v \in Vault : pnlUpdateTime[c][v] <= lastUpdateTime[c]

FlightPast == \A u \in InFlight : u.ts <= lastStamp /\ \A d \in Chain : u.readFrom[d] <= u.ts

\* An update later than t has read all of its chains after t.
ReadAfter(t, u) == t < u.ts => \A d \in ToSet(u.table.chains) : t < u.readFrom[d]

Ordered ==
  \A u \in InFlight :
    /\ \A c \in Chain : ReadAfter(lastUpdateTime[c], u)
    /\ \A w \in InFlight : ReadAfter(w.ts, u)

\* Updates of the same time are the same.
AsOne == \A u, w \in InFlight : u.ts = w.ts => u = w

\* The relay of c holds what u says.
Posted(c, u) ==
  /\ table[c] = u.table
  /\ \A v \in Vault : /\ pnlUpdateTime[c][v] = u.ts <=> v \in u.vaults
                      /\ v \in u.vaults => globalPnLAdjustment[c][v] = u.pnl[v]

PostedAsOne == \A c \in Chain : \A u \in InFlight : lastUpdateTime[c] = u.ts => Posted(c, u)

Flight == FlightPast /\ Ordered /\ AsOne /\ PostedAsOne

Alone == EpochAlone /\ ReadingFresh /\ StampsPast /\ Flight /\ SameTimeSameTable

AloneInv == ~overlapped => Alone

\* How an update may be on its way.
Travels ==
  /\ \A u : u \in InFlight <=>
       \/ \E c \in Chain : u \in ToSet(mempool[c])
       \/ \E s \in Slot : epoch[s].phase = "writing" /\ u = epoch[s].update
  /\ \A c \in Chain : ToSet(mempool[c]) \subseteq InFlight
  /\ \A s \in Slot : epoch[s].phase = "writing" => epoch[s].update \in InFlight

LEMMA Travelling == Travels
<1>1. \A u : u \in InFlight <=>
        \/ \E c \in Chain : u \in ToSet(mempool[c])
        \/ \E s \in Slot : epoch[s].phase = "writing" /\ u = epoch[s].update
  <2> DEFINE waiting == {ToSet(mempool[c]) : c \in Chain}
             hands == {t \in Slot : epoch[t].phase = "writing"}
             held == {epoch[s].update : s \in hands}
  <2>1. \A u : u \in UNION waiting <=> \E c \in Chain : u \in ToSet(mempool[c])
    <3>1. \A x : x \in waiting <=> \E c \in Chain : x = ToSet(mempool[c])
      BY Zenon
    <3>2. \A u : u \in UNION waiting <=> \E x \in waiting : u \in x
      BY Zenon
    <3> HIDE DEF waiting
    <3> QED
      BY <3>1, <3>2, Zenon
  <2>2. \A u : u \in held <=> \E s \in hands : u = epoch[s].update
    BY Zenon
  <2>3. \A s : s \in hands <=> s \in Slot /\ epoch[s].phase = "writing"
    OBVIOUS
  <2>4. InFlight = (UNION waiting) \cup held
    BY DEF InFlight
  <2>5. \A u : u \in held <=> \E s \in Slot : epoch[s].phase = "writing" /\ u = epoch[s].update
    <3> HIDE DEF waiting, hands, held
    <3> QED
      BY <2>2, <2>3, Zenon
  <2> HIDE DEF waiting, hands, held
  <2>6. \A u : u \in InFlight <=> u \in (UNION waiting) \/ u \in held
    BY <2>4
  <2> QED
    BY <2>1, <2>5, <2>6, Zenon
<1> QED
  BY <1>1 DEF Travels

\* What the proofs need of the types.
LEMMA FlightTyped ==
  ASSUME KeeperInv
  PROVE  /\ InFlight \subseteq Updates
         /\ now \in Nat /\ lastStamp \in Nat
         /\ lastUpdateTime \in [Chain -> Nat]
         /\ readFrom \in [Chain -> [Chain -> Nat]]
         /\ pnlUpdateTime \in [Chain -> [Vault -> Nat]]
<1>1. \A c \in Chain : ToSet(mempool[c]) \subseteq Updates
  BY DEF KeeperInv, NetworkInv, NetworkTypeOK, ToSet
<1>2. \A s \in Slot : epoch[s].update \in Updates
  BY DEF KeeperInv, ProgramInv, ProgramTypeOK, Epochs
<1>3. InFlight \subseteq Updates
  BY <1>1, <1>2, Travelling DEF Travels
<1> QED
  BY <1>3 DEF KeeperInv, NetworkInv, NetworkTypeOK, HistoryTypeOK, RelayTypeOK

\* What may be on its way after a step.
LEMMA NothingNew ==
  ASSUME NEW known,
         \A c \in Chain : ToSet(mempool'[c]) \subseteq known,
         \A s \in Slot : epoch'[s].phase = "writing" => epoch'[s].update \in known
  PROVE  InFlight' \subseteq known
<1>1. Travels' 
  BY Travelling, PTL
<1>2. ASSUME NEW u \in InFlight' PROVE u \in known
  <2>1. \/ \E c \in Chain : u \in ToSet(mempool'[c])
        \/ \E s \in Slot : epoch'[s].phase = "writing" /\ u = epoch'[s].update
    BY <1>1 DEF Travels, ToSet
  <2> QED
    BY <2>1
<1> QED
  BY <1>2

\* No relay changes, no timestamp is taken and nothing new is on its way.
LEMMA Quiet ==
  ASSUME KeeperInv, KeeperInv', Alone, ~overlapped,
         UNCHANGED <<posted, readFrom, lastStamp>>,
         now <= now', InFlight' \subseteq InFlight, EpochAlone', ReadingFresh'
  PROVE  Alone'
<1>1. now \in Nat /\ now' \in Nat /\ lastStamp \in Nat
  BY FlightTyped DEF KeeperInv, NetworkInv, NetworkTypeOK
<1>2. /\ UNCHANGED <<lastUpdateTime, table, localWeight, globalPnLAdjustment, pnlUpdateTime>>
      /\ UNCHANGED <<readFrom, lastStamp>>
  BY DEF posted
<1>3. lastStamp <= now /\ lastStamp <= now'
  BY <1>1 DEF Alone, StampsPast
<1>4. StampsPast'
  BY <1>2, <1>3 DEF Alone, StampsPast
<1>5. FlightPast'
  BY <1>2 DEF Alone, Flight, FlightPast
<1>6. Ordered'
  BY <1>2 DEF Alone, Flight, Ordered, ReadAfter
<1>7. AsOne'
  BY DEF Alone, Flight, AsOne
<1>8. PostedAsOne'
  BY <1>2 DEF Alone, Flight, PostedAsOne, Posted
<1>9. SameTimeSameTable'
  BY <1>2 DEF Alone, SameTimeSameTable
<1> QED
  BY <1>4, <1>5, <1>6, <1>7, <1>8, <1>9 DEF Alone, Flight

\* The epochs stay as they are.
LEMMA QuietChains ==
  ASSUME KeeperInv, KeeperInv', Alone, ~overlapped,
         UNCHANGED <<posted, epoch, readFrom, lastStamp>>, now <= now',
         \A c \in Chain : ToSet(mempool'[c]) \subseteq ToSet(mempool[c])
  PROVE  Alone'
<1>1. now \in Nat /\ now' \in Nat /\ lastStamp \in Nat
  BY FlightTyped DEF KeeperInv, NetworkInv, NetworkTypeOK
<1>2. InFlight' \subseteq InFlight
  <2>1. \A c \in Chain : ToSet(mempool'[c]) \subseteq InFlight
    BY Travelling DEF Travels
  <2>2. \A s \in Slot : epoch'[s].phase = "writing" => epoch'[s].update \in InFlight
    BY Travelling DEF Travels
  <2> QED
    BY <2>1, <2>2, NothingNew
<1>3. EpochAlone'
  BY DEF Alone, EpochAlone, SendsComputed, IsIdle
<1>4. ReadingFresh'
  <2> SUFFICES ASSUME NEW s \in Slot, epoch[s].phase = "reading"
               PROVE  /\ lastStamp < now'
                      /\ \A c \in Chain : LET r == epoch[s].reading[c]
                           IN r.began <= now' /\ (r.stage # "unread" => lastStamp < r.began)
    BY DEF ReadingFresh, FreshReading
  <2>1. lastStamp < now /\ \A c \in Chain : FreshReading(epoch[s].reading[c])
    BY DEF Alone, ReadingFresh
  <2>2. \A c \in Chain : epoch[s].reading[c].began \in Nat
    BY HasReading DEF Readings
  <2> QED
    BY <1>1, <2>1, <2>2 DEF FreshReading
<1> QED
  BY <1>2, <1>3, <1>4, Quiet

\* One epoch changes, and what it may send is on its way already.
LEMMA QuietEpoch ==
  ASSUME KeeperInv, KeeperInv', Alone, ~overlapped, NEW s \in Slot, NEW e,
         UNCHANGED <<posted, readFrom, lastStamp, now>>,
         epoch' = [epoch EXCEPT ![s] = e],
         e.phase # "idle" => ~IsIdle(s) \/ \A t \in Slot : IsIdle(t),
         e.phase = "writing" => e.update \in InFlight,
         e.unsent # {} => e.phase = "writing",
         e.phase = "reading" => lastStamp < now /\ \A c \in Chain : FreshReading(e.reading[c]),
         \A c \in Chain : ToSet(mempool'[c]) \subseteq InFlight
  PROVE  Alone'
<1>1. \A t \in Slot : epoch'[t] = IF t = s THEN e ELSE epoch[t]
  BY DEF KeeperInv, ProgramInv, ProgramTypeOK
<1>2. InFlight' \subseteq InFlight
  <2>1. \A t \in Slot : epoch'[t].phase = "writing" => epoch'[t].update \in InFlight
    BY <1>1, Travelling DEF Travels
  <2> QED
    BY <2>1, NothingNew
<1>3. EpochAlone'
  BY <1>1 DEF Alone, EpochAlone, SendsComputed, IsIdle
<1>4. ReadingFresh'
  BY <1>1 DEF Alone, ReadingFresh, FreshReading
<1>5. now <= now'
  BY FlightTyped
<1> QED
  BY <1>2, <1>3, <1>4, <1>5, Quiet

\* An epoch that begins in time is the only one, and later than all the rest.
LEMMA AloneStart ==
  ASSUME KeeperInv, KeeperInv', Recording, Alone, ~overlapped, ~overlapped',
         NEW s \in Slot, StartEpoch(s)
  PROVE  Alone'
<1> DEFINE e == [NoEpoch EXCEPT !.phase = "reading"]
<1>1. ~ (now <= lastStamp) /\ \A t \in Slot : IsIdle(t)
  BY DEF StartEpoch
<1>2. e.phase = "reading" /\ e.reading = NothingRead /\ e.unsent = {}
  BY DEF NoEpoch
<1>3. epoch' = [epoch EXCEPT ![s] = e]
  BY DEF StartEpoch
<1>4. UNCHANGED <<posted, readFrom, lastStamp, now, mempool>>
  BY DEF StartEpoch, relay, network
<1>5. now \in Nat /\ lastStamp \in Nat
  BY FlightTyped
<1>6. \A c \in Chain : FreshReading(NothingRead[c])
  BY <1>5 DEF FreshReading, NothingRead, Unread
<1>7. lastStamp < now
  BY <1>1, <1>5
<1>8. \A c \in Chain : ToSet(mempool'[c]) \subseteq InFlight
  BY <1>4, Travelling DEF Travels
<1> HIDE DEF e
<1> QED
  BY <1>1, <1>2, <1>3, <1>4, <1>6, <1>7, <1>8, QuietEpoch

\* An answer that is later than the last timestamp.
LEMMA AloneLearn ==
  ASSUME KeeperInv, KeeperInv', Alone, ~overlapped, NEW s \in Slot, NEW c \in Chain,
         NEW r, Learn(s, c, r), epoch[s].phase = "reading", FreshReading(r)
  PROVE  Alone'
<1> DEFINE old == epoch[s]
           e == [old EXCEPT !.reading = [old.reading EXCEPT ![c] = r]]
<1>1. old \in Epochs
  BY DEF KeeperInv, ProgramInv, ProgramTypeOK
<1>2. epoch' = [epoch EXCEPT ![s] = e]
  BY DEF Learn
<1>3. UNCHANGED <<posted, readFrom, lastStamp, now, mempool>>
  BY DEF Learn, relay, network, history
<1>4. lastStamp < now /\ \A d \in Chain : FreshReading(old.reading[d])
  BY DEF Alone, ReadingFresh
<1>5. old.phase = "reading" /\ ~IsIdle(s) /\ old.unsent = {}
  BY DEF IsIdle, Alone, EpochAlone, SendsComputed
<1> HIDE DEF old
<1>6. e.phase = "reading" /\ e.reading = [old.reading EXCEPT ![c] = r] /\ e.unsent = old.unsent
  BY <1>1, <1>5 DEF Epochs
<1>7. \A d \in Chain : e.reading[d] = IF d = c THEN r ELSE old.reading[d]
  BY <1>1, <1>6 DEF Epochs
<1> HIDE DEF e
<1>8. \A d \in Chain : FreshReading(e.reading[d])
  BY <1>4, <1>7
<1>9. \A d \in Chain : ToSet(mempool'[d]) \subseteq InFlight
  BY <1>3, Travelling DEF Travels
<1> QED
  BY <1>2, <1>3, <1>4, <1>5, <1>6, <1>8, <1>9, QuietEpoch

\* The loop over the vaults does not touch the time of the reading.
LEMMA AdvanceFresh ==
  ASSUME NEW r \in Readings, NEW stage \in {"pnl", "done"}, r.stage # "unread", FreshReading(r)
  PROVE  FreshReading(Advance(r, stage))
<1>1. Advance(r, stage).began = r.began
  BY DEF Advance, Readings
<1> QED
  BY <1>1 DEF FreshReading

\* Each call to a chain.
LEMMA AloneRead ==
  ASSUME KeeperInv, KeeperInv', Recording, Alone, ~overlapped,
         NEW s \in Slot, NEW c \in Chain, ReadStep(s, c)
  PROVE  Alone'
<1>1. epoch[s].phase = "reading"
  BY DEF ReadStep, ListBaskets, ReadBalance, ReadPnL, Reading
<1>2. lastStamp < now /\ \A d \in Chain : FreshReading(epoch[s].reading[d])
  BY <1>1 DEF Alone, ReadingFresh
<1>3. now \in Nat /\ lastStamp \in Nat
  BY FlightTyped
<1>4. CASE ListBaskets(s, c)
  <2> DEFINE r == [stage |-> IF baskets[c] = <<>> THEN "done" ELSE "balances",
                   vaults |-> baskets[c], next |-> 1, idleUsdc |-> 0, hubPnL |-> 0,
                   began |-> Recorded(now)]
  <2>1. Learn(s, c, r)
    BY <1>4 DEF ListBaskets
  <2>2. r.began = now
    BY DEF Recorded
  <2> HIDE DEF r
  <2>3. FreshReading(r)
    BY <1>2, <1>3, <2>2 DEF FreshReading
  <2> QED
    BY <1>1, <2>1, <2>3, AloneLearn
<1>5. CASE ReadBalance(s, c)
  <2> DEFINE r == epoch[s].reading[c]
             q == [r EXCEPT !.idleUsdc = r.idleUsdc + idle[r.vaults[r.next]]]
             stage == IF c \in Hub THEN "pnl" ELSE "done"
  <2>1. r \in Readings /\ InLoop(r) /\ r.stage = "balances" /\ FreshReading(r)
    BY <1>2, <1>5, HasReading DEF ReadBalance, Reading
  <2>2. Learn(s, c, Advance(q, stage))
    BY <1>5 DEF ReadBalance
  <2> HIDE DEF r
  <2>3. r.vaults[r.next] \in Vault
    BY <2>1 DEF Readings, InLoop
  <2>4. idle[r.vaults[r.next]] \in Nat
    BY <2>3 DEF KeeperInv, MarketTypeOK
  <2>5. q \in Readings /\ q.stage # "unread" /\ FreshReading(q)
    BY <2>1, <2>4 DEF Readings, FreshReading
  <2> HIDE DEF q
  <2>6. FreshReading(Advance(q, stage))
    BY <2>5, AdvanceFresh
  <2> HIDE DEF stage
  <2> QED
    BY <1>1, <2>2, <2>6, AloneLearn
<1>6. CASE ReadPnL(s, c)
  <2> DEFINE r == epoch[s].reading[c]
             q == [r EXCEPT !.hubPnL = r.hubPnL + pnl[r.vaults[r.next]]]
  <2>1. r \in Readings /\ InLoop(r) /\ r.stage = "pnl" /\ FreshReading(r)
    BY <1>2, <1>6, HasReading DEF ReadPnL, Reading
  <2>2. Learn(s, c, Advance(q, "done"))
    BY <1>6 DEF ReadPnL
  <2> HIDE DEF r
  <2>3. r.vaults[r.next] \in Vault
    BY <2>1 DEF Readings, InLoop
  <2>4. pnl[r.vaults[r.next]] \in Int
    BY <2>3 DEF KeeperInv, MarketTypeOK
  <2>5. q \in Readings /\ q.stage # "unread" /\ FreshReading(q)
    BY <2>1, <2>4 DEF Readings, FreshReading
  <2> HIDE DEF q
  <2>6. FreshReading(Advance(q, "done"))
    BY <2>5, AdvanceFresh
  <2> QED
    BY <1>1, <2>2, <2>6, AloneLearn
<1> QED
  BY <1>4, <1>5, <1>6 DEF ReadStep

\* An epoch that is given up.
LEMMA AloneAbort ==
  ASSUME KeeperInv, KeeperInv', Alone, ~overlapped, NEW s \in Slot, AbortEpoch(s)
  PROVE  Alone'
<1>1. epoch' = [epoch EXCEPT ![s] = NoEpoch] /\ NoEpoch.phase = "idle" /\ NoEpoch.unsent = {}
  BY DEF AbortEpoch, NoEpoch
<1>2. UNCHANGED <<posted, readFrom, lastStamp, now, mempool>>
  BY DEF AbortEpoch, relay, network, history
<1>3. \A c \in Chain : ToSet(mempool'[c]) \subseteq InFlight
  BY <1>2, Travelling DEF Travels
<1> HIDE DEF NoEpoch
<1> QED
  BY <1>1, <1>2, <1>3, QuietEpoch

\* A relay is off the epoch's hands: what was computed stays.
LEMMA AloneWritten ==
  ASSUME KeeperInv, KeeperInv', Alone, ~overlapped, NEW s \in Slot, NEW c \in Chain,
         c \in epoch[s].unsent, Written(s, c),
         UNCHANGED <<posted, readFrom, lastStamp, now>>,
         \A d \in Chain : ToSet(mempool'[d]) \subseteq InFlight
  PROVE  Alone'
<1> DEFINE old == epoch[s]
           left == old.unsent \ {c}
           less == [old EXCEPT !.unsent = left]
           e == IF left = {} THEN NoEpoch ELSE less
<1>1. old \in Epochs /\ old.phase = "writing"
  BY DEF KeeperInv, ProgramInv, ProgramTypeOK, Alone, EpochAlone, SendsComputed
<1>9. old.update \in InFlight /\ ~IsIdle(s)
  BY <1>1, Travelling DEF Travels, IsIdle
<1>2. epoch' = [epoch EXCEPT ![s] = e]
  BY DEF Written
<1> HIDE DEF old
<1>3. less.phase = "writing" /\ less.update \in InFlight
  BY <1>1, <1>9 DEF Epochs
<1>4. NoEpoch.phase = "idle" /\ NoEpoch.unsent = {}
  BY DEF NoEpoch
<1> HIDE DEF less
<1>5. e = NoEpoch \/ e = less
  OBVIOUS
<1> HIDE DEF e
<1>6. /\ e.phase = "writing" => e.update \in InFlight
      /\ ~ (e.phase = "reading") /\ (e.unsent # {} => e.phase = "writing")
  BY <1>3, <1>4, <1>5
<1> QED
  BY <1>9, <1>2, <1>6, QuietEpoch

\* An update gets into the mempool.
LEMMA MempoolGrows ==
  ASSUME KeeperInv, NEW s \in Slot, NEW c \in Chain, SendUpdate(s, c),
         epoch[s].update \in InFlight
  PROVE  \A d \in Chain : ToSet(mempool'[d]) \subseteq InFlight
<1> DEFINE u == epoch[s].update
           queue == Append(mempool[c], u)
<1>1. u \in InFlight /\ u \in Updates
  BY FlightTyped
<1>2. mempool \in [Chain -> Seq(Updates)] /\ mempool[c] \in Seq(Updates)
  BY DEF KeeperInv, NetworkInv, NetworkTypeOK
<1>3. mempool' = [mempool EXCEPT ![c] = queue]
  BY DEF SendUpdate
<1> HIDE DEF u
<1>4. /\ DOMAIN queue = DOMAIN mempool[c] \cup {Len(mempool[c]) + 1}
      /\ queue[Len(mempool[c]) + 1] = u
      /\ \A i \in DOMAIN mempool[c] : queue[i] = mempool[c][i]
  BY <1>1, <1>2
<1> HIDE DEF queue
<1>5. ToSet(queue) = ToSet(mempool[c]) \cup {u}
  BY <1>4 DEF ToSet
<1> QED
  BY <1>1, <1>2, <1>3, <1>5, Travelling DEF Travels

\* An update is sent.
LEMMA AloneSend ==
  ASSUME KeeperInv, KeeperInv', Alone, ~overlapped, NEW s \in Slot, NEW c \in Chain,
         SendUpdate(s, c)
  PROVE  Alone'
<1>1. /\ UNCHANGED <<posted, readFrom, lastStamp, now>>
      /\ c \in epoch[s].unsent /\ Written(s, c)
  BY DEF SendUpdate, relay, history
<1>2. epoch[s].update \in InFlight
  BY <1>1, Travelling DEF Travels, Alone, EpochAlone, SendsComputed
<1>3. \A d \in Chain : ToSet(mempool'[d]) \subseteq InFlight
  BY <1>2, MempoolGrows
<1> QED
  BY <1>1, <1>3, AloneWritten

\* An update is not sent.
LEMMA AloneFail ==
  ASSUME KeeperInv, KeeperInv', Alone, ~overlapped, NEW s \in Slot, NEW c \in Chain,
         FailToSend(s, c)
  PROVE  Alone'
<1>1. /\ UNCHANGED <<posted, readFrom, lastStamp, now, mempool>>
      /\ c \in epoch[s].unsent /\ Written(s, c)
  BY DEF FailToSend, relay, history, network
<1>2. \A d \in Chain : ToSet(mempool'[d]) \subseteq InFlight
  BY <1>1, Travelling DEF Travels
<1> QED
  BY <1>1, <1>2, AloneWritten

\* The first waiting update leaves the mempool.
LEMMA MempoolTail ==
  ASSUME KeeperInv, NEW c \in Chain, mempool[c] # <<>>,
         mempool' = [mempool EXCEPT ![c] = Tail(@)]
  PROVE  /\ \A d \in Chain : ToSet(mempool'[d]) \subseteq ToSet(mempool[d])
         /\ Head(mempool[c]) \in ToSet(mempool[c])
<1> DEFINE queue == mempool[c]
           rest == Tail(queue)
<1>1. mempool \in [Chain -> Seq(Updates)] /\ queue \in Seq(Updates) /\ queue # <<>>
  BY DEF KeeperInv, NetworkInv, NetworkTypeOK
<1>2. mempool' = [mempool EXCEPT ![c] = rest]
  OBVIOUS
<1> HIDE DEF queue
<1>3. /\ \A i \in DOMAIN rest : i + 1 \in DOMAIN queue /\ rest[i] = queue[i + 1]
      /\ Head(queue) = queue[1] /\ 1 \in DOMAIN queue
  BY <1>1
<1> HIDE DEF rest
<1>4. ToSet(rest) \subseteq ToSet(queue) /\ Head(queue) \in ToSet(queue)
  BY <1>3 DEF ToSet
<1>5. \A d \in Chain : mempool'[d] = IF d = c THEN rest ELSE mempool[d]
  BY <1>1, <1>2
<1> QED
  BY <1>4, <1>5 DEF queue

\* A new process has no epoch.
LEMMA AloneRestart ==
  ASSUME KeeperInv, KeeperInv', Alone, ~overlapped, Restart
  PROVE  Alone'
<1>1. UNCHANGED <<posted, readFrom, lastStamp, now, mempool>>
  BY DEF Restart, relay, network, history
<1>2. \A s \in Slot : epoch'[s] = NoEpoch
  BY DEF Restart
<1>3. NoEpoch.phase = "idle" /\ NoEpoch.unsent = {}
  BY DEF NoEpoch
<1>4. InFlight' \subseteq InFlight
  <2>1. \A c \in Chain : ToSet(mempool'[c]) \subseteq InFlight
    BY <1>1, Travelling DEF Travels
  <2>2. \A s \in Slot : epoch'[s].phase = "writing" => epoch'[s].update \in InFlight
    BY <1>2, <1>3
  <2> QED
    BY <2>1, <2>2, NothingNew
<1>5. EpochAlone'
  BY <1>2, <1>3 DEF EpochAlone, SendsComputed, IsIdle
<1>6. ReadingFresh'
  BY <1>2, <1>3 DEF ReadingFresh
<1>7. now <= now'
  BY <1>1, FlightTyped
<1> QED
  BY <1>1, <1>4, <1>5, <1>6, <1>7, Quiet

\* An epoch has read all chains: its update is later than all others, and so
\* is what it read.
LEMMA AloneCompute ==
  ASSUME KeeperInv, KeeperInv', Recording, Alone, ~overlapped, NEW s \in Slot, ComputeUpdate(s)
  PROVE  Alone'
<1> DEFINE reading == epoch[s].reading
           u == UpdateFrom(reading)
           e == IF Context \cap Relayed = {} THEN NoEpoch
                ELSE [phase |-> "writing", reading |-> NothingRead,
                      update |-> u, unsent |-> Context \cap Relayed]
           known == InFlight \cup {u}
<1>1. /\ epoch[s].phase = "reading" /\ AllRead(s)
      /\ epoch' = [epoch EXCEPT ![s] = e] /\ lastStamp' = now
      /\ UNCHANGED <<posted, readFrom, now, mempool, overlapped>>
  BY DEF ComputeUpdate, Recorded, relay, network
<1>2. lastStamp < now /\ \A c \in Chain : FreshReading(reading[c])
  BY <1>1 DEF Alone, ReadingFresh
<1>3. /\ u.ts = now /\ u.table.chains = contexts
      /\ \A c \in Chain : u.readFrom[c] = reading[c].began
  BY DEF UpdateFrom
<1>4. /\ \A c \in Chain : u.readFrom[c] <= now
      /\ \A c \in ToSet(u.table.chains) : lastStamp < u.readFrom[c]
  <2>1. ToSet(u.table.chains) = Context /\ Context \subseteq Chain
    BY <1>3, ContextType DEF Context, KeeperInv, ProgramInv, ProgramTypeOK
  <2>2. \A c \in Context : reading[c].stage = "done"
    BY <1>1 DEF AllRead
  <2> QED
    BY <1>2, <1>3, <2>1, <2>2 DEF FreshReading
<1>5. /\ now \in Nat /\ lastStamp \in Nat /\ lastUpdateTime \in [Chain -> Nat]
      /\ InFlight \subseteq Updates
      /\ \A c \in Chain : lastUpdateTime[c] <= lastStamp
      /\ \A w \in InFlight : w.ts \in Nat /\ w.ts <= lastStamp
  BY FlightTyped DEF Alone, StampsPast, Flight, FlightPast, Updates
<1>6. u.readFrom \in [Chain -> Nat] /\ \A c \in ToSet(u.table.chains) : u.readFrom[c] \in Nat
  <2>1. contexts \in Contexts /\ reading \in [Chain -> Readings]
    BY DEF KeeperInv, ProgramInv, ProgramTypeOK, Epochs
  <2>2. u \in Updates
    BY <1>5, <2>1, UpdateSound
  <2>3. ToSet(u.table.chains) \subseteq Chain
    BY <1>3, <2>1, ContextType DEF Context
  <2> HIDE DEF u
  <2> QED
    BY <2>2, <2>3 DEF Updates
<1> HIDE DEF u
<1>7. e.unsent # {} => e.phase = "writing"
  BY DEF NoEpoch
<1>8. e.phase # "reading" /\ (e.phase = "writing" => e.update = u)
  BY DEF NoEpoch
<1> HIDE DEF e, reading
<1>9. \A t \in Slot : epoch'[t] = IF t = s THEN e ELSE epoch[t]
  BY <1>1 DEF KeeperInv, ProgramInv, ProgramTypeOK
<1>10. \A t \in Slot : t # s => IsIdle(t)
  BY <1>1 DEF Alone, EpochAlone, SendsComputed, IsIdle
<1>11. EpochAlone'
  BY <1>7, <1>9, <1>10 DEF EpochAlone, SendsComputed, IsIdle, Alone
<1>12. ReadingFresh'
  BY <1>8, <1>9, <1>10 DEF ReadingFresh, IsIdle
<1>13. InFlight' \subseteq known
  <2>1. \A c \in Chain : ToSet(mempool'[c]) \subseteq known
    BY <1>1, Travelling DEF Travels
  <2>2. \A t \in Slot : epoch'[t].phase = "writing" => epoch'[t].update \in known
    BY <1>8, <1>9, Travelling DEF Travels
  <2> HIDE DEF known
  <2> QED
    BY <2>1, <2>2, NothingNew
<1>14. UNCHANGED <<lastUpdateTime, table, globalPnLAdjustment, pnlUpdateTime, readFrom>>
  BY <1>1 DEF posted
<1>15. StampsPast'
  <2>1. lastStamp' <= now' /\ \A c \in Chain : lastUpdateTime[c] <= now
    BY <1>1, <1>2, <1>5
  <2> QED
    BY <1>1, <1>14, <2>1 DEF StampsPast, Alone
<1>16. FlightPast'
  <2> SUFFICES ASSUME NEW w \in known
               PROVE  w.ts <= now /\ \A d \in Chain : w.readFrom[d] <= w.ts
    BY <1>1, <1>13 DEF FlightPast
  <2>1. CASE w \in InFlight
    BY <1>2, <1>5, <2>1 DEF Alone, Flight, FlightPast
  <2>2. CASE w = u
    BY <1>3, <1>4, <1>5, <2>2
  <2> QED
    BY <2>1, <2>2
<1>17. \A t \in Nat : t <= lastStamp => ReadAfter(t, u)
  BY <1>4, <1>5, <1>6 DEF ReadAfter
<1>18. Ordered'
  <2> SUFFICES ASSUME NEW w \in known
               PROVE  /\ \A c \in Chain : ReadAfter(lastUpdateTime[c], w)
                      /\ \A x \in known : ReadAfter(x.ts, w)
    BY <1>13, <1>14 DEF Ordered, ReadAfter
  <2>1. CASE w \in InFlight
    <3>1. ReadAfter(u.ts, w)
      BY <1>2, <1>3, <1>5, <2>1 DEF ReadAfter
    <3> QED
      BY <2>1, <3>1 DEF Alone, Flight, Ordered
  <2>2. CASE w = u
    <3>1. ReadAfter(u.ts, u)
      BY <1>3, <1>5 DEF ReadAfter
    <3> QED
      BY <1>5, <1>17, <2>2, <3>1
  <2> QED
    BY <2>1, <2>2
<1>19. AsOne'
  <2>1. \A w \in InFlight : w.ts # u.ts
    BY <1>2, <1>3, <1>5
  <2> QED
    BY <1>13, <2>1 DEF AsOne, Alone, Flight
<1>20. PostedAsOne'
  <2>1. \A c \in Chain : lastUpdateTime[c] # u.ts
    BY <1>2, <1>3, <1>5
  <2> QED
    BY <1>13, <1>14, <2>1 DEF PostedAsOne, Posted, Alone, Flight
<1>21. SameTimeSameTable'
  BY <1>14 DEF Alone, SameTimeSameTable
<1> QED
  BY <1>11, <1>12, <1>15, <1>16, <1>18, <1>19, <1>20, <1>21 DEF Alone, Flight

\* An update lands: relays that have its time have it all, and the others go
\* forward.
LEMMA AloneLand ==
  ASSUME KeeperInv, KeeperInv', Alone, ~overlapped, NEW c \in Chain, LandUpdate(c)
  PROVE  /\ Alone'
         /\ \A d \in ToSet(table'[c].chains) :
              readFrom'[c][d] # 0 /\ readFrom[c][d] <= readFrom'[c][d]
         /\ \A d \in Chain \ {c} : lastUpdateTime'[d] = lastUpdateTime[d]
<1> DEFINE u == MinedUpdate(c)
           Holds(d, w) ==
             /\ table'[d] = w.table
             /\ \A v \in Vault : /\ pnlUpdateTime'[d][v] = w.ts <=> v \in w.vaults
                                 /\ v \in w.vaults => globalPnLAdjustment'[d][v] = w.pnl[v]
<1>1. /\ Mine(c) /\ updateState(c, u) /\ readFrom' = [readFrom EXCEPT ![c] = u.readFrom]
  BY DEF LandUpdate
<1>2. /\ u \in InFlight /\ \A d \in Chain : ToSet(mempool'[d]) \subseteq InFlight
  BY <1>1, MempoolTail, Travelling DEF Mine, MinedUpdate, Travels
<1>3. UNCHANGED <<epoch, now, lastStamp, overlapped>>
  BY <1>1 DEF Mine, program
<1>4. InFlight' \subseteq InFlight
  <2>1. \A s \in Slot : epoch'[s].phase = "writing" => epoch'[s].update \in InFlight
    BY <1>3, Travelling DEF Travels
  <2> QED
    BY <1>2, <2>1, NothingNew
<1> HIDE DEF u
<1>5. EpochAlone' /\ ReadingFresh'
  BY <1>3 DEF Alone, EpochAlone, SendsComputed, IsIdle, ReadingFresh, FreshReading
<1>6. /\ u \in Updates /\ now \in Nat /\ lastStamp \in Nat
      /\ lastUpdateTime \in [Chain -> Nat] /\ readFrom \in [Chain -> [Chain -> Nat]]
      /\ pnlUpdateTime \in [Chain -> [Vault -> Nat]]
      /\ table \in [Chain -> Tables] /\ globalPnLAdjustment \in [Chain -> [Vault -> Int]]
  BY <1>2, FlightTyped DEF KeeperInv, RelayTypeOK
<1>7. /\ u.ts \in Nat /\ lastUpdateTime[c] < u.ts /\ u.ts <= lastStamp
      /\ \A d \in Chain : u.readFrom[d] <= u.ts
  BY <1>1, <1>2, <1>6 DEF updateState, InTurn, Updates, Alone, Flight, FlightPast
<1>8. /\ \A d \in Chain : lastUpdateTime'[d] = IF d = c THEN u.ts ELSE lastUpdateTime[d]
      /\ \A d \in Chain : table'[d] = IF d = c THEN u.table ELSE table[d]
      /\ \A d \in Chain : readFrom'[d] = IF d = c THEN u.readFrom ELSE readFrom[d]
      /\ \A d \in Chain : pnlUpdateTime'[d] = IF d = c THEN Stamped(c, u) ELSE pnlUpdateTime[d]
      /\ \A d \in Chain : globalPnLAdjustment'[d] =
                            IF d = c THEN Adjusted(c, u) ELSE globalPnLAdjustment[d]
  BY <1>1, <1>6 DEF updateState
<1>9. \A v \in Vault : pnlUpdateTime[c][v] \in Nat /\ pnlUpdateTime[c][v] <= lastUpdateTime[c]
  BY <1>6 DEF Alone, StampsPast
<1>10. /\ \A v \in Vault : Stamped(c, u)[v] <= u.ts
       /\ \A v \in Vault : Stamped(c, u)[v] = u.ts <=> v \in u.vaults
       /\ \A v \in Vault : v \in u.vaults => Adjusted(c, u)[v] = u.pnl[v]
  BY <1>6, <1>7, <1>9 DEF Stamped, Adjusted
<1>11. StampsPast'
  BY <1>3, <1>7, <1>8, <1>10 DEF StampsPast, Alone
<1>12. FlightPast'
  BY <1>3, <1>4 DEF FlightPast, Alone, Flight
<1>13. Ordered'
  <2>1. \A w \in InFlight : ReadAfter(u.ts, w) /\ \A d \in Chain : ReadAfter(lastUpdateTime[d], w)
    BY <1>2 DEF Alone, Flight, Ordered
  <2>2. \A w \in InFlight : \A d \in Chain : ReadAfter(lastUpdateTime'[d], w)
    BY <1>8, <2>1
  <2> QED
    BY <1>4, <2>2 DEF Ordered, ReadAfter, Alone, Flight
<1>14. AsOne'
  BY <1>4 DEF AsOne, Alone, Flight
<1>15. Holds(c, u)
  BY <1>8, <1>10
<1>16. \A d \in Chain \ {c} : \A w \in InFlight : Posted(d, w) => Holds(d, w)
  BY <1>8 DEF Posted
<1>17. PostedAsOne'
  <2> SUFFICES ASSUME NEW d \in Chain, NEW w \in InFlight, lastUpdateTime'[d] = w.ts
               PROVE  Holds(d, w)
    BY <1>4 DEF PostedAsOne, Posted
  <2> HIDE DEF Holds
  <2>1. CASE d = c
    BY <1>2, <1>8, <1>15, <2>1 DEF Alone, Flight, AsOne
  <2>2. CASE d # c
    BY <1>8, <1>16, <2>2 DEF Alone, Flight, PostedAsOne
  <2> QED
    BY <2>1, <2>2
<1>18. \A d \in Chain : lastUpdateTime'[d] = u.ts => Holds(d, u)
  <2> HIDE DEF Holds
  <2> QED
    BY <1>2, <1>8, <1>15, <1>16 DEF Alone, Flight, PostedAsOne
<1>19. SameTimeSameTable'
  <2> SUFFICES ASSUME NEW a \in Chain, NEW b \in Chain, lastUpdateTime'[a] = lastUpdateTime'[b],
                      lastUpdateTime'[a] # 0
               PROVE  /\ table'[a] = table'[b]
                      /\ \A v \in Vault : pnlUpdateTime'[a][v] = lastUpdateTime'[a] =>
                           /\ pnlUpdateTime'[b][v] = lastUpdateTime'[b]
                           /\ globalPnLAdjustment'[a][v] = globalPnLAdjustment'[b][v]
    BY DEF SameTimeSameTable
  <2>1. CASE lastUpdateTime'[a] = u.ts
    <3>1. Holds(a, u) /\ Holds(b, u)
      BY <1>18, <2>1
    <3> QED
      BY <2>1, <3>1
  <2>2. CASE lastUpdateTime'[a] # u.ts
    <3>1. a # c /\ b # c
      BY <1>8, <2>2
    <3> QED
      BY <1>8, <3>1 DEF Alone, SameTimeSameTable
  <2> QED
    BY <2>1, <2>2
<1>20. \A d \in ToSet(table'[c].chains) :
         readFrom'[c][d] # 0 /\ readFrom[c][d] <= readFrom'[c][d]
  <2> SUFFICES ASSUME NEW d \in ToSet(u.table.chains)
               PROVE  u.readFrom[d] # 0 /\ readFrom[c][d] <= u.readFrom[d]
    BY <1>8
  <2>1. ReadAfter(lastUpdateTime[c], u)
    BY <1>2 DEF Alone, Flight, Ordered
  <2>2. lastUpdateTime[c] < u.readFrom[d]
    BY <1>7, <2>1 DEF ReadAfter
  <2>3. d \in Chain
    BY <1>6 DEF Updates, Tables, ToSet
  <2>4. u.readFrom[d] \in Nat /\ readFrom[c][d] \in Nat /\ readFrom[c][d] <= lastUpdateTime[c]
    BY <1>6, <2>3 DEF Updates, Alone, StampsPast
  <2>5. lastUpdateTime[c] \in Nat
    BY <1>6
  <2> QED
    BY <2>2, <2>4, <2>5
<1> QED
  BY <1>5, <1>8, <1>11, <1>12, <1>13, <1>14, <1>17, <1>19, <1>20 DEF Alone, Flight

\* What a relay holds never goes back, at one step.
Forward(c) ==
  lastUpdateTime'[c] # lastUpdateTime[c] =>
    \A d \in ToSet(table'[c].chains) :
      readFrom'[c][d] # 0 /\ readFrom[c][d] <= readFrom'[c][d]

\* Every other step leaves the relays, or at least their posts, as they are.
LEMMA AloneRest ==
  ASSUME KeeperInv, KeeperInv', Alone, ~overlapped,
         \/ FinishFirst \/ MarketStep \/ Tick \/ UNCHANGED vars
         \/ \E c \in Chain : RevertUpdate(c) \/ LoseUpdate(c) \/ Outage(c)
                             \/ Recover(c) \/ RelayOwner(c)
  PROVE  Alone' /\ UNCHANGED posted
<1>1. now \in Nat
  BY FlightTyped
<1>2. CASE FinishFirst \/ MarketStep \/ Tick \/ UNCHANGED vars
  <2>1. UNCHANGED <<posted, epoch, readFrom, lastStamp, mempool>>
    BY <1>2 DEF FinishFirst, MarketStep, CreateBasket, Deposit, Withdraw, MovePnL, Tick,
                vars, relay, program, network, history
  <2>2. now' = now \/ now' = now + 1
    BY <1>2 DEF FinishFirst, MarketStep, CreateBasket, Deposit, Withdraw, MovePnL, Tick,
                vars, network
  <2>3. now <= now'
    BY <1>1, <2>2
  <2>4. \A c \in Chain : ToSet(mempool'[c]) \subseteq ToSet(mempool[c])
    BY <2>1
  <2> QED
    BY <2>1, <2>3, <2>4, QuietChains
<1>3. ASSUME NEW c \in Chain, RevertUpdate(c) \/ LoseUpdate(c) PROVE Alone' /\ UNCHANGED posted
  <2>1. /\ UNCHANGED <<posted, epoch, readFrom, lastStamp, now>>
        /\ mempool[c] # <<>> /\ mempool' = [mempool EXCEPT ![c] = Tail(@)]
    BY <1>3 DEF RevertUpdate, LoseUpdate, Mine, relay, program, history
  <2>2. \A d \in Chain : ToSet(mempool'[d]) \subseteq ToSet(mempool[d])
    BY <2>1, MempoolTail
  <2> QED
    BY <1>1, <2>1, <2>2, QuietChains
<1>4. ASSUME NEW c \in Chain, Outage(c) \/ Recover(c) \/ RelayOwner(c)
      PROVE  Alone' /\ UNCHANGED posted
  <2>1. UNCHANGED <<posted, epoch, readFrom, lastStamp, now, mempool>>
    BY <1>4 DEF Outage, Recover, RelayOwner, setKeeper, setMaxStaleness, relay, program,
                network, history
  <2>2. \A d \in Chain : ToSet(mempool'[d]) \subseteq ToSet(mempool[d])
    BY <2>1
  <2> QED
    BY <1>1, <2>1, <2>2, QuietChains
<1> QED
  BY <1>2, <1>3, <1>4

\* Whether epochs overlapped is noted when an epoch begins, and stays noted.
LEMMA OverlapNoted ==
  [Next]_vars => overlapped' = overlapped \/ \E s \in Slot : StartEpoch(s)
<1> SUFFICES ASSUME [Next]_vars, ~ \E s \in Slot : StartEpoch(s)
             PROVE  overlapped' = overlapped
  OBVIOUS
<1>1. ASSUME NEW s \in Slot, AbortEpoch(s) \/ ComputeUpdate(s) PROVE overlapped' = overlapped
  BY <1>1 DEF AbortEpoch, ComputeUpdate, history
<1>2. ASSUME NEW s \in Slot, NEW c \in Chain,
             ReadStep(s, c) \/ SendUpdate(s, c) \/ FailToSend(s, c)
      PROVE  overlapped' = overlapped
  BY <1>2 DEF ReadStep, ListBaskets, ReadBalance, ReadPnL, Learn, SendUpdate, FailToSend, history
<1>3. ASSUME NEW c \in Chain,
             \/ LandUpdate(c) \/ RevertUpdate(c) \/ LoseUpdate(c)
             \/ Outage(c) \/ Recover(c) \/ RelayOwner(c)
      PROVE  overlapped' = overlapped
  BY <1>3 DEF LandUpdate, RevertUpdate, LoseUpdate, Mine, Outage, Recover, RelayOwner, history
<1>4. FinishFirst \/ MarketStep \/ Restart \/ Tick \/ UNCHANGED vars => overlapped' = overlapped
  BY DEF FinishFirst, MarketStep, CreateBasket, Deposit, Withdraw, MovePnL, Restart, Tick, vars,
         history
<1> QED
  BY <1>1, <1>2, <1>3, <1>4 DEF Next, EpochStep, MineStep, FaultStep

\* All steps of the keeper and of the chains together.
LEMMA AloneStep ==
  ASSUME Recording, KeeperInv, AloneInv, [Next]_vars
  PROVE  AloneInv' /\ (~overlapped' => ~overlapped)
                   /\ (~overlapped' => \A c \in Chain : Forward(c))
<1>1. KeeperInv'
  BY KeeperStep
<1>2. ~overlapped' => ~overlapped
  <2>1. ASSUME NEW s \in Slot, StartEpoch(s) PROVE overlapped => overlapped'
    BY <2>1 DEF StartEpoch
  <2> QED
    BY <2>1, OverlapNoted
<1> SUFFICES ASSUME ~overlapped' PROVE Alone' /\ \A c \in Chain : Forward(c)
  BY <1>2 DEF AloneInv
<1>3. Alone /\ ~overlapped
  BY <1>2 DEF AloneInv
<1>4. UNCHANGED posted => \A c \in Chain : Forward(c)
  BY DEF posted, Forward
<1>5. ASSUME NEW s \in Slot, StartEpoch(s) \/ AbortEpoch(s) \/ ComputeUpdate(s)
      PROVE  Alone' /\ UNCHANGED posted
  <2>1. UNCHANGED posted
    BY <1>5 DEF StartEpoch, AbortEpoch, ComputeUpdate, relay
  <2> QED
    BY <1>1, <1>3, <1>5, <2>1, AloneStart, AloneAbort, AloneCompute
<1>6. ASSUME NEW s \in Slot, NEW c \in Chain,
             ReadStep(s, c) \/ SendUpdate(s, c) \/ FailToSend(s, c)
      PROVE  Alone' /\ UNCHANGED posted
  <2>1. UNCHANGED posted
    BY <1>6 DEF ReadStep, ListBaskets, ReadBalance, ReadPnL, Learn, SendUpdate, FailToSend, relay
  <2> QED
    BY <1>1, <1>3, <1>6, <2>1, AloneRead, AloneSend, AloneFail
<1>7. ASSUME Restart PROVE Alone' /\ UNCHANGED posted
  BY <1>1, <1>3, <1>7, AloneRestart DEF Restart, relay
<1>8. ASSUME NEW c \in Chain, LandUpdate(c) PROVE Alone' /\ \A d \in Chain : Forward(d)
  BY <1>1, <1>3, <1>8, AloneLand DEF Forward
<1> QED
  BY <1>1, <1>3, <1>4, <1>5, <1>6, <1>7, <1>8, AloneRest
     DEF Next, EpochStep, MineStep, FaultStep

LEMMA AloneInit == Init => AloneInv
<1> SUFFICES ASSUME Init PROVE Alone
  BY DEF AloneInv
<1>1. /\ \A s \in Slot : epoch[s].phase = "idle" /\ epoch[s].unsent = {}
      /\ \A c \in Chain : mempool[c] = <<>>
      /\ now = 1 /\ lastStamp = 0
      /\ \A c \in Chain : /\ lastUpdateTime[c] = 0
                          /\ \A d \in Chain : readFrom[c][d] = 0
                          /\ \A v \in Vault : pnlUpdateTime[c][v] = 0
  BY DEF Init, Fresh, RelayInit, NoEpoch
<1>2. \A c \in Chain : ToSet(mempool[c]) = {}
  BY <1>1 DEF ToSet
<1>3. InFlight = {}
  BY <1>1, <1>2, Travelling DEF Travels
<1>4. EpochAlone /\ ReadingFresh /\ StampsPast
  BY <1>1 DEF EpochAlone, SendsComputed, IsIdle, ReadingFresh, StampsPast
<1>5. Flight
  BY <1>3 DEF Flight, FlightPast, Ordered, AsOne, PostedAsOne
<1>6. SameTimeSameTable
  BY <1>1 DEF SameTimeSameTable
<1> QED
  BY <1>4, <1>5, <1>6 DEF Alone

\* As long as epochs do not overlap, any two relays that were last written at
\* the same time hold the same table, list the same vaults and have the same
\* adjustments for them: one update went to both.  For any number of chains
\* and slots, any delay, loss and restart.
THEOREM EqualTimesEqualTables == Recording => (Spec => []SameTimeSameTable)
<1> SUFFICES ASSUME Recording PROVE Spec => []SameTimeSameTable
  OBVIOUS
<1>1. AloneInv => SameTimeSameTable
  BY DEF AloneInv, Alone, SameTimeSameTable
<1>2. KeeperInv /\ AloneInv /\ [Next]_vars => KeeperInv' /\ AloneInv'
  BY KeeperStep, AloneStep
<1>3. Init => KeeperInv /\ AloneInv
  BY KeeperInit, AloneInit
<1> QED
  BY <1>1, <1>2, <1>3, PTL DEF Spec

\* As long as epochs do not overlap, no update that lands takes a relay back:
\* each chain of its table was read, and later than for the table it replaces.
THEOREM RelaysGoForward == Recording => (Spec => ForwardUnlessOverlapped)
<1> SUFFICES ASSUME Recording PROVE Spec => ForwardUnlessOverlapped
  OBVIOUS
<1> DEFINE Step ==
      \A c \in Chain : lastUpdateTime'[c] # lastUpdateTime[c] /\ ~overlapped =>
        \A d \in ToSet(table'[c].chains) :
          readFrom'[c][d] # 0 /\ readFrom[c][d] <= readFrom'[c][d]
<1>1. KeeperInv /\ AloneInv /\ [Next]_vars => KeeperInv' /\ AloneInv' /\ Step
  <2> SUFFICES ASSUME KeeperInv, AloneInv, [Next]_vars PROVE Step
    BY KeeperStep, AloneStep
  <2>1. CASE ~overlapped'
    BY <2>1, AloneStep DEF Forward
  <2>2. CASE \E s \in Slot : StartEpoch(s)
    <3>1. lastUpdateTime' = lastUpdateTime
      BY <2>2 DEF StartEpoch, relay, posted
    <3> QED
      BY <3>1
  <2>3. CASE overlapped' = overlapped
    BY <2>1, <2>3
  <2> QED
    BY <2>1, <2>2, <2>3, OverlapNoted
<1>2. Init => KeeperInv /\ AloneInv
  BY KeeperInit, AloneInit
<1>3. [Step]_vars <=> (Step \/ UNCHANGED vars)
  OBVIOUS
<1> HIDE DEF Step
<1>4. Spec => [][Step]_vars
  BY <1>1, <1>2, PTL DEF Spec
<1> QED
  BY <1>4 DEF Step, ForwardUnlessOverlapped

-----------------------------------------------------------------------------
(* One reading behind what a relay holds, also when epochs overlap.        *)

HubVaults == {v \in Vault : Home[v] \in Hub}

\* A loop over the PnLs of a hub has added those of the vaults before its
\* cursor, each at most once.
PnLSoFar(r) ==
  \E p \in [HubVaults -> PnL \cup {0}] :
    r.hubPnL = Total(p) /\ \A i \in DOMAIN r.vaults : i >= r.next => p[r.vaults[i]] = 0

\* What an epoch knows of chain c.
WholeReading(c, r) ==
  /\ IsInjective(r.vaults) /\ \A i \in DOMAIN r.vaults : Home[r.vaults[i]] = c
  /\ r.stage \in {"unread", "balances"} => r.hubPnL = 0
  /\ r.stage = "pnl" => c \in Hub /\ PnLSoFar(r)
  /\ r.hubPnL \in HubTotals

\* The adjustments of the vaults are the parts of this total.
PartsOf(t, listed, posts, total) ==
  LET hubs == [i \in DOMAIN t.chains |-> t.chains[i] \in Hub]
  IN  \A i \in DOMAIN t.chains : \A v \in listed : Home[v] = t.chains[i] =>
        posts[v] = computeGlobalNav(t.amounts, hubs, total)[i]

\* An update whose weights and adjustments are computed from its amounts.
WholeUpdate(u) ==
  /\ u.table.weights = computeRoutingWeights(u.table.amounts)
  /\ \E total \in HubTotals : PartsOf(u.table, u.vaults, u.pnl, total)

BasketsKnown ==
  /\ \A v \in Vault : pnl[v] \in PnL \cup {0}
  /\ \A c \in Chain : \A i \in DOMAIN baskets[c] : Home[baskets[c][i]] = c

ReadingsWhole == \A s \in Slot, c \in Chain : WholeReading(c, epoch[s].reading[c])

PnLPast == \A c \in Chain, v \in Vault : pnlUpdateTime[c][v] <= lastUpdateTime[c]

ReadInv ==
  /\ BasketsKnown /\ SendsComputed /\ ReadingsWhole
  /\ \A u \in InFlight : WholeUpdate(u)
  /\ PnLPast /\ OneReading

\* No PnL adds up to 0.
LEMMA NoPnL ==
  /\ IsFiniteSet(HubVaults) /\ HubVaults \subseteq Vault
  /\ [v \in HubVaults |-> 0] \in [HubVaults -> PnL \cup {0}]
  /\ Total([v \in HubVaults |-> 0]) = 0
  /\ 0 \in HubTotals
<1> DEFINE p == [v \in HubVaults |-> 0]
<1>1. IsFiniteSet(HubVaults) /\ HubVaults \subseteq Vault
  BY KeeperConstants, FS_Subset DEF HubVaults
<1>2. p \in [HubVaults -> PnL \cup {0}] /\ DOMAIN p = HubVaults /\ \A v \in HubVaults : p[v] = 0
  OBVIOUS
<1> HIDE DEF p
<1>3. Total(p) = 0
  BY <1>1, <1>2, SumZero DEF Total
<1>4. Total(p) \in HubTotals
  BY <1>2 DEF HubTotals, HubVaults
<1> QED
  BY <1>1, <1>2, <1>3, <1>4 DEF p

\* One PnL more.
LEMMA OnePnLMore ==
  ASSUME NEW p \in [HubVaults -> PnL \cup {0}], NEW v \in HubVaults, p[v] = 0,
         NEW x \in PnL \cup {0}
  PROVE  Total([p EXCEPT ![v] = x]) = Total(p) + x
<1> DEFINE q == [p EXCEPT ![v] = x]
<1>0. PnL \cup {0} \subseteq Int
  BY KeeperConstants
<1>1. x \in Int /\ \A w \in HubVaults : p[w] \in Int
  BY <1>0
<1>2. /\ DOMAIN q = HubVaults /\ DOMAIN p = HubVaults
      /\ q[v] = x /\ \A w \in HubVaults \ {v} : q[w] = p[w]
  OBVIOUS
<1> HIDE DEF q
<1>3. \A w \in HubVaults : q[w] \in Int
  BY <1>1, <1>2
<1>4. SumFunctionOnSet(q, HubVaults) = SumFunctionOnSet(p, HubVaults) + q[v] - p[v]
  BY <1>1, <1>2, <1>3, NoPnL, SumChange
<1>5. SumFunctionOnSet(p, HubVaults) \in Int
  BY <1>1, NoPnL, SumType
<1> QED
  BY <1>1, <1>2, <1>4, <1>5 DEF Total, q

LEMMA UnreadWhole == \A c \in Chain : WholeReading(c, NothingRead[c])
BY NoPnL DEF WholeReading, NothingRead, Unread, IsInjective

\* What a relay holds is left alone.
LEMMA PostsKept ==
  ASSUME UNCHANGED posted
  PROVE  (PnLPast => PnLPast') /\ (OneReading => OneReading')
BY DEF posted, PnLPast, OneReading, Listed

\* One epoch changes.
LEMMA ReadEpoch ==
  ASSUME KeeperInv, ReadInv, NEW s \in Slot, NEW e, UNCHANGED <<posted, baskets, pnl>>,
         epoch' = [epoch EXCEPT ![s] = e],
         e.unsent # {} => e.phase = "writing",
         e.phase = "writing" => WholeUpdate(e.update),
         \A c \in Chain : WholeReading(c, e.reading[c]),
         \A c \in Chain : ToSet(mempool'[c]) \subseteq InFlight
  PROVE  ReadInv'
<1> DEFINE known == InFlight \cup (IF e.phase = "writing" THEN {e.update} ELSE {})
<1>1. \A t \in Slot : epoch'[t] = IF t = s THEN e ELSE epoch[t]
  BY DEF KeeperInv, ProgramInv, ProgramTypeOK
<1>2. InFlight' \subseteq known
  <2>1. \A c \in Chain : ToSet(mempool'[c]) \subseteq known
    OBVIOUS
  <2>2. \A t \in Slot : epoch'[t].phase = "writing" => epoch'[t].update \in known
    BY <1>1, Travelling DEF Travels
  <2> HIDE DEF known
  <2> QED
    BY <2>1, <2>2, NothingNew
<1>3. \A u \in known : WholeUpdate(u)
  BY DEF ReadInv
<1> HIDE DEF known
<1>4. \A u \in InFlight' : WholeUpdate(u)
  BY <1>2, <1>3
<1>5. BasketsKnown' /\ PnLPast' /\ OneReading'
  BY PostsKept DEF ReadInv, BasketsKnown
<1>6. SendsComputed' /\ ReadingsWhole'
  BY <1>1 DEF ReadInv, SendsComputed, ReadingsWhole, WholeReading, PnLSoFar
<1> QED
  BY <1>4, <1>5, <1>6 DEF ReadInv, WholeUpdate, PartsOf

\* The epochs stay as they are.
LEMMA ReadElsewhere ==
  ASSUME KeeperInv, ReadInv, UNCHANGED <<epoch, posted>>, BasketsKnown',
         \A c \in Chain : ToSet(mempool'[c]) \subseteq InFlight
  PROVE  ReadInv'
<1>1. InFlight' \subseteq InFlight
  <2>1. \A t \in Slot : epoch'[t].phase = "writing" => epoch'[t].update \in InFlight
    BY Travelling DEF Travels
  <2> QED
    BY <2>1, NothingNew
<1>2. \A u \in InFlight' : WholeUpdate(u)
  BY <1>1 DEF ReadInv
<1>3. PnLPast' /\ OneReading'
  BY PostsKept DEF ReadInv
<1>4. SendsComputed' /\ ReadingsWhole'
  BY DEF ReadInv, SendsComputed, ReadingsWhole, WholeReading, PnLSoFar
<1> QED
  BY <1>2, <1>3, <1>4 DEF ReadInv, WholeUpdate, PartsOf

\* The loop goes on or ends.
LEMMA AdvanceWhole ==
  ASSUME NEW c \in Chain, NEW r \in Readings, InLoop(r), r.stage \in {"balances", "pnl"},
         NEW stage \in {"pnl", "done"},
         IsInjective(r.vaults), \A i \in DOMAIN r.vaults : Home[r.vaults[i]] = c,
         r.hubPnL \in HubTotals,
         r.stage = "balances" => r.hubPnL = 0 /\ (stage = "pnl" => c \in Hub),
         r.stage = "pnl" => c \in Hub /\ stage = "done"
                            /\ PnLSoFar([r EXCEPT !.next = r.next + 1])
  PROVE  WholeReading(c, Advance(r, stage))
<1>1. r.vaults \in Seq(Vault) /\ r.next \in Nat \ {0}
  BY DEF Readings
<1>2. CASE r.next < Len(r.vaults)
  <2> DEFINE q == [r EXCEPT !.next = r.next + 1]
  <2>1. Advance(r, stage) = q
    BY <1>2 DEF Advance
  <2>2. q.vaults = r.vaults /\ q.stage = r.stage /\ q.hubPnL = r.hubPnL
    BY DEF Readings
  <2> HIDE DEF q
  <2> QED
    BY <2>1, <2>2 DEF WholeReading, q
<1>3. CASE ~ (r.next < Len(r.vaults))
  <2> DEFINE q == [r EXCEPT !.next = 1, !.stage = stage]
  <2>1. Advance(r, stage) = q
    BY <1>3 DEF Advance
  <2>2. q.vaults = r.vaults /\ q.stage = stage /\ q.hubPnL = r.hubPnL
    BY DEF Readings
  <2> HIDE DEF q
  <2>3. ASSUME stage = "pnl" PROVE c \in Hub /\ PnLSoFar(q)
    <3>1. c \in Hub /\ r.hubPnL = 0
      BY <2>3
    <3> DEFINE p == [v \in HubVaults |-> 0]
    <3>2. p \in [HubVaults -> PnL \cup {0}] /\ Total(p) = 0
      BY NoPnL
    <3>3. \A i \in DOMAIN r.vaults : r.vaults[i] \in HubVaults
      BY <1>1, <3>1 DEF HubVaults
    <3>4. \A i \in DOMAIN r.vaults : p[r.vaults[i]] = 0
      BY <3>3
    <3> HIDE DEF p
    <3> QED
      BY <2>2, <3>1, <3>2, <3>4 DEF PnLSoFar
  <2> QED
    BY <2>1, <2>2, <2>3 DEF WholeReading
<1> QED
  BY <1>2, <1>3

LEMMA ReadListing ==
  ASSUME KeeperInv, KeeperInv', ReadInv, NEW s \in Slot, NEW c \in Chain, NEW r,
         WholeReading(c, r), Learn(s, c, r), epoch[s].phase = "reading"
  PROVE  ReadInv'
<1> DEFINE old == epoch[s]
           e == [old EXCEPT !.reading = [old.reading EXCEPT ![c] = r]]
<1>1. old \in Epochs /\ old.unsent = {} /\ \A d \in Chain : WholeReading(d, old.reading[d])
  BY DEF KeeperInv, ProgramInv, ProgramTypeOK, ReadInv, SendsComputed, ReadingsWhole
<1>2. epoch' = [epoch EXCEPT ![s] = e]
  BY DEF Learn
<1>3. UNCHANGED <<posted, baskets, pnl, mempool>>
  BY DEF Learn, relay, market, network
<1> HIDE DEF old
<1>4. /\ e.phase = old.phase /\ e.unsent = old.unsent
      /\ e.reading = [old.reading EXCEPT ![c] = r]
  BY <1>1 DEF Epochs
<1>5. \A d \in Chain : e.reading[d] = IF d = c THEN r ELSE old.reading[d]
  BY <1>1, <1>4 DEF Epochs
<1> HIDE DEF e
<1>6. \A d \in Chain : WholeReading(d, e.reading[d])
  BY <1>1, <1>5
<1>7. ~ (e.phase = "writing") /\ e.unsent = {}
  BY <1>1, <1>4 DEF old
<1>8. \A d \in Chain : ToSet(mempool'[d]) \subseteq InFlight
  BY <1>3, Travelling DEF Travels
<1> QED
  BY <1>2, <1>3, <1>6, <1>7, <1>8, ReadEpoch

\* Each call to a chain: the PnL of a basket is added once, and only on hubs.
LEMMA ReadCalls ==
  ASSUME KeeperInv, KeeperInv', ReadInv, NEW s \in Slot, NEW c \in Chain, ReadStep(s, c)
  PROVE  ReadInv'
<1>1. epoch[s].phase = "reading"
  BY DEF ReadStep, ListBaskets, ReadBalance, ReadPnL, Reading
<1>2. CASE ListBaskets(s, c)
  <2> DEFINE r == [stage |-> IF baskets[c] = <<>> THEN "done" ELSE "balances",
                   vaults |-> baskets[c], next |-> 1, idleUsdc |-> 0, hubPnL |-> 0,
                   began |-> Recorded(now)]
  <2>1. Learn(s, c, r)
    BY <1>2 DEF ListBaskets
  <2>2. /\ r.vaults = baskets[c] /\ r.hubPnL = 0 /\ r.stage \in {"done", "balances"}
    OBVIOUS
  <2>3. IsInjective(baskets[c]) /\ \A i \in DOMAIN baskets[c] : Home[baskets[c][i]] = c
    BY DEF KeeperInv, MarketTypeOK, ReadInv, BasketsKnown
  <2> HIDE DEF r
  <2>4. WholeReading(c, r)
    BY <2>2, <2>3, NoPnL DEF WholeReading
  <2> QED
    BY <1>1, <2>1, <2>4, ReadListing
<1>3. CASE ReadBalance(s, c)
  <2> DEFINE r == epoch[s].reading[c]
             q == [r EXCEPT !.idleUsdc = r.idleUsdc + idle[r.vaults[r.next]]]
             stage == IF c \in Hub THEN "pnl" ELSE "done"
  <2>1. r \in Readings /\ InLoop(r) /\ r.stage = "balances" /\ WholeReading(c, r)
    BY <1>3, HasReading DEF ReadBalance, Reading, ReadInv, ReadingsWhole
  <2>2. Learn(s, c, Advance(q, stage))
    BY <1>3 DEF ReadBalance
  <2> HIDE DEF r
  <2>3. r.vaults[r.next] \in Vault
    BY <2>1 DEF Readings, InLoop
  <2>4. idle[r.vaults[r.next]] \in Nat
    BY <2>3 DEF KeeperInv, MarketTypeOK
  <2>5. /\ q \in Readings /\ InLoop(q) /\ q.stage = "balances"
        /\ q.vaults = r.vaults /\ q.hubPnL = r.hubPnL
    BY <2>1, <2>4 DEF Readings, InLoop
  <2>6. /\ IsInjective(q.vaults) /\ \A i \in DOMAIN q.vaults : Home[q.vaults[i]] = c
        /\ q.hubPnL \in HubTotals /\ q.hubPnL = 0
    BY <2>1, <2>5 DEF WholeReading
  <2>7. stage \in {"pnl", "done"} /\ (stage = "pnl" => c \in Hub)
    OBVIOUS
  <2> HIDE DEF q, stage
  <2>8. WholeReading(c, Advance(q, stage))
    BY <2>5, <2>6, <2>7, AdvanceWhole
  <2> QED
    BY <1>1, <2>2, <2>8, ReadListing
<1>4. CASE ReadPnL(s, c)
  <2> DEFINE r == epoch[s].reading[c]
             v == r.vaults[r.next]
             q == [r EXCEPT !.hubPnL = r.hubPnL + pnl[v]]
  <2>1. r \in Readings /\ InLoop(r) /\ r.stage = "pnl" /\ WholeReading(c, r)
    BY <1>4, HasReading DEF ReadPnL, Reading, ReadInv, ReadingsWhole
  <2>2. Learn(s, c, Advance(q, "done"))
    BY <1>4 DEF ReadPnL
  <2> HIDE DEF r
  <2>3. r.vaults \in Seq(Vault) /\ r.next \in DOMAIN r.vaults /\ r.next \in Nat
    BY <2>1 DEF Readings, InLoop
  <2>4. /\ c \in Hub /\ IsInjective(r.vaults) /\ \A i \in DOMAIN r.vaults : Home[r.vaults[i]] = c
    BY <2>1 DEF WholeReading
  <2>5. v \in HubVaults /\ pnl[v] \in PnL \cup {0} /\ pnl[v] \in Int
    <3>1. v \in Vault /\ Home[v] = c
      BY <2>3, <2>4
    <3> HIDE DEF v
    <3> QED
      BY <2>4, <3>1 DEF HubVaults, ReadInv, BasketsKnown, KeeperInv, MarketTypeOK
  <2> HIDE DEF v
  <2>6. /\ q \in Readings /\ InLoop(q) /\ q.stage = "pnl" /\ q.next = r.next
        /\ q.vaults = r.vaults /\ q.hubPnL = r.hubPnL + pnl[v]
    BY <2>1, <2>5 DEF Readings, InLoop
  <2> HIDE DEF q
  <2>7. PICK p \in [HubVaults -> PnL \cup {0}] :
          r.hubPnL = Total(p) /\ \A i \in DOMAIN r.vaults : i >= r.next => p[r.vaults[i]] = 0
    BY <2>1 DEF WholeReading, PnLSoFar
  <2> DEFINE p1 == [p EXCEPT ![v] = pnl[v]]
  <2>8. p[v] = 0
    BY <2>3, <2>7 DEF v
  <2>9. p1 \in [HubVaults -> PnL \cup {0}] /\ Total(p1) = q.hubPnL
    BY <2>5, <2>6, <2>7, <2>8, OnePnLMore
  <2>10. \A i \in DOMAIN q.vaults : i >= q.next + 1 => p1[q.vaults[i]] = 0
    <3> SUFFICES ASSUME NEW i \in DOMAIN r.vaults, i >= r.next + 1 PROVE p1[r.vaults[i]] = 0
      BY <2>6
    <3>1. i \in Nat /\ i >= r.next /\ i # r.next
      BY <2>3
    <3>2. r.vaults[i] # v
      BY <2>3, <2>4, <3>1 DEF IsInjective, v
    <3>3. r.vaults[i] \in HubVaults
      BY <2>3, <2>4 DEF HubVaults
    <3> QED
      BY <2>7, <3>1, <3>2, <3>3
  <2>11. q.hubPnL \in HubTotals
    BY <2>9 DEF HubTotals, HubVaults
  <2> HIDE DEF p1
  <2> DEFINE next == [q EXCEPT !.next = q.next + 1]
  <2>12. next.vaults = q.vaults /\ next.hubPnL = q.hubPnL /\ next.next = q.next + 1
    BY <2>6 DEF Readings
  <2> HIDE DEF next
  <2>13. PnLSoFar(next)
    BY <2>9, <2>10, <2>12 DEF PnLSoFar
  <2>14. /\ IsInjective(q.vaults) /\ \A i \in DOMAIN q.vaults : Home[q.vaults[i]] = c
    BY <2>4, <2>6
  <2>15. WholeReading(c, Advance(q, "done"))
    BY <2>4, <2>6, <2>11, <2>13, <2>14, AdvanceWhole DEF next
  <2> QED
    BY <1>1, <2>2, <2>15, ReadListing
<1> QED
  BY <1>2, <1>3, <1>4 DEF ReadStep

\* The update an epoch computes is whole.
LEMMA ComputesWhole ==
  ASSUME contexts \in Contexts, NEW reading \in [Chain -> Readings],
         \A c \in Chain : WholeReading(c, reading[c])
  PROVE  WholeUpdate(UpdateFrom(reading))
<1> DEFINE u == UpdateFrom(reading)
           total == HubPnLTotal(reading)
           part == computeGlobalNav(IdleRead(reading), IsHub, total)
           place(v) == CHOOSE i \in DOMAIN contexts : v \in ToSet(reading[contexts[i]].vaults)
<1>1. /\ u.table.chains = contexts /\ u.table.amounts = IdleRead(reading)
      /\ u.table.weights = computeRoutingWeights(IdleRead(reading))
      /\ u.vaults = ListedIn(reading) /\ u.pnl = AdjustmentOf(reading)
  BY DEF UpdateFrom, AmountsOf
<1>2. total \in HubTotals
  <2> DEFINE hubs == {i \in DOMAIN contexts : IsHub[i]}
             first == CHOOSE i \in hubs : \A j \in hubs : i <= j
  <2>1. CASE hubs = {}
    BY <2>1, NoPnL DEF HubPnLTotal
  <2>2. CASE hubs # {}
    <3>1. hubs \subseteq Nat
      BY ContextType
    <3>2. first \in hubs
      <4> HIDE DEF hubs
      <4> QED
        BY <2>2, <3>1, FirstPlace
    <3>3. contexts[first] \in Chain
      BY <3>2, ContextType
    <3>4. total = reading[contexts[first]].hubPnL
      BY <2>2 DEF HubPnLTotal
    <3> HIDE DEF first, total
    <3> QED
      BY <3>3, <3>4 DEF WholeReading
  <2> QED
    BY <2>1, <2>2
<1>3. \A v \in Vault : u.pnl[v] = IF v \in ListedIn(reading) THEN part[place(v)] ELSE 0
  BY <1>1 DEF AdjustmentOf
<1>4. [i \in DOMAIN contexts |-> contexts[i] \in Hub] = IsHub
  BY DEF IsHub
<1> HIDE DEF u, total, part
<1>5. ASSUME NEW i \in DOMAIN contexts, NEW v \in u.vaults, Home[v] = contexts[i]
      PROVE  u.pnl[v] = part[i]
  <2>1. v \in Vault /\ v \in ListedIn(reading)
    BY <1>1, <1>5, ListedType
  <2>2. \E j \in DOMAIN contexts : v \in ToSet(reading[contexts[j]].vaults)
    BY <2>1, ContextType DEF ListedIn
  <2>3. place(v) \in DOMAIN contexts /\ v \in ToSet(reading[contexts[place(v)]].vaults)
    BY <2>2
  <2>4. contexts[place(v)] \in Chain
    BY <2>3, ContextType
  <2>5. Home[v] = contexts[place(v)]
    BY <2>3, <2>4 DEF WholeReading, ToSet
  <2>6. place(v) = i
    BY <1>5, <2>3, <2>5, KeeperConstants DEF IsInjective
  <2> HIDE DEF place
  <2> QED
    BY <1>3, <2>1, <2>6
<1>6. PartsOf(u.table, u.vaults, u.pnl, total)
  BY <1>1, <1>4, <1>5 DEF PartsOf, part
<1> QED
  BY <1>1, <1>2, <1>6 DEF WholeUpdate, u

LEMMA ReadCompute ==
  ASSUME KeeperInv, KeeperInv', ReadInv, NEW s \in Slot, ComputeUpdate(s)
  PROVE  ReadInv'
<1> DEFINE u == UpdateFrom(epoch[s].reading)
           e == IF Context \cap Relayed = {} THEN NoEpoch
                ELSE [phase |-> "writing", reading |-> NothingRead,
                      update |-> u, unsent |-> Context \cap Relayed]
<1>1. epoch' = [epoch EXCEPT ![s] = e] /\ UNCHANGED <<posted, baskets, pnl, mempool>>
  BY DEF ComputeUpdate, relay, market, network
<1>2. contexts \in Contexts /\ epoch[s].reading \in [Chain -> Readings]
  BY DEF KeeperInv, ProgramInv, ProgramTypeOK, Epochs
<1>3. WholeUpdate(u)
  <2>1. \A c \in Chain : WholeReading(c, epoch[s].reading[c])
    BY DEF ReadInv, ReadingsWhole
  <2> QED
    BY <1>2, <2>1, ComputesWhole
<1> HIDE DEF u
<1>4. /\ e.reading = NothingRead /\ (e.unsent # {} => e.phase = "writing")
      /\ (e.phase = "writing" => e.update = u)
  BY DEF NoEpoch
<1> HIDE DEF e
<1>5. \A c \in Chain : WholeReading(c, e.reading[c])
  BY <1>4, UnreadWhole
<1>6. e.phase = "writing" => WholeUpdate(e.update)
  BY <1>3, <1>4
<1>7. \A c \in Chain : ToSet(mempool'[c]) \subseteq InFlight
  BY <1>1, Travelling DEF Travels
<1> QED
  BY <1>1, <1>4, <1>5, <1>6, <1>7, ReadEpoch

\* A new epoch, and one that is given up.
LEMMA ReadBegins ==
  ASSUME KeeperInv, KeeperInv', ReadInv, NEW s \in Slot, StartEpoch(s) \/ AbortEpoch(s)
  PROVE  ReadInv'
<1>1. PICK e : /\ epoch' = [epoch EXCEPT ![s] = e]
               /\ e = NoEpoch \/ e = [NoEpoch EXCEPT !.phase = "reading"]
  BY DEF StartEpoch, AbortEpoch
<1>2. e.reading = NothingRead /\ e.unsent = {} /\ e.phase # "writing"
  BY <1>1 DEF NoEpoch
<1>3. UNCHANGED <<posted, baskets, pnl, mempool>>
  BY DEF StartEpoch, AbortEpoch, relay, market, network
<1>4. \A c \in Chain : ToSet(mempool'[c]) \subseteq InFlight
  BY <1>3, Travelling DEF Travels
<1>5. \A c \in Chain : WholeReading(c, e.reading[c])
  BY <1>2, UnreadWhole
<1> QED
  BY <1>1, <1>2, <1>3, <1>4, <1>5, ReadEpoch

\* One relay less to write to.
LEMMA ReadWritten ==
  ASSUME KeeperInv, KeeperInv', ReadInv, NEW s \in Slot, NEW c \in Chain,
         c \in epoch[s].unsent, Written(s, c), UNCHANGED <<posted, baskets, pnl>>,
         \A d \in Chain : ToSet(mempool'[d]) \subseteq InFlight
  PROVE  ReadInv'
<1> DEFINE old == epoch[s]
           left == old.unsent \ {c}
           less == [old EXCEPT !.unsent = left]
           e == IF left = {} THEN NoEpoch ELSE less
<1>1. old \in Epochs /\ old.phase = "writing" /\ \A d \in Chain : WholeReading(d, old.reading[d])
  BY DEF KeeperInv, ProgramInv, ProgramTypeOK, ReadInv, SendsComputed, ReadingsWhole
<1>2. WholeUpdate(old.update)
  BY <1>1, Travelling DEF Travels, ReadInv
<1>3. epoch' = [epoch EXCEPT ![s] = e]
  BY DEF Written
<1> HIDE DEF old
<1>4. less.phase = "writing" /\ less.update = old.update /\ less.reading = old.reading
  BY <1>1 DEF Epochs
<1>5. NoEpoch.phase = "idle" /\ NoEpoch.unsent = {} /\ NoEpoch.reading = NothingRead
  BY DEF NoEpoch
<1> HIDE DEF less
<1>6. e = NoEpoch \/ e = less
  OBVIOUS
<1> HIDE DEF e
<1>7. /\ e.phase = "writing" => WholeUpdate(e.update)
      /\ e.unsent # {} => e.phase = "writing"
  BY <1>2, <1>4, <1>5, <1>6
<1>8. \A d \in Chain : WholeReading(d, e.reading[d])
  BY <1>1, <1>4, <1>5, <1>6, UnreadWhole
<1> QED
  BY <1>3, <1>7, <1>8, ReadEpoch

LEMMA ReadSend ==
  ASSUME KeeperInv, KeeperInv', ReadInv, NEW s \in Slot, NEW c \in Chain,
         SendUpdate(s, c) \/ FailToSend(s, c)
  PROVE  ReadInv'
<1>1. UNCHANGED <<posted, baskets, pnl>> /\ c \in epoch[s].unsent /\ Written(s, c)
  BY DEF SendUpdate, FailToSend, relay, market
<1>2. \A d \in Chain : ToSet(mempool'[d]) \subseteq InFlight
  <2>1. CASE FailToSend(s, c)
    BY <2>1, Travelling DEF Travels, FailToSend, network
  <2>2. CASE SendUpdate(s, c)
    <3>1. epoch[s].update \in InFlight
      BY <1>1, Travelling DEF Travels, ReadInv, SendsComputed
    <3> QED
      BY <2>2, <3>1, MempoolGrows
  <2> QED
    BY <2>1, <2>2
<1> QED
  BY <1>1, <1>2, ReadWritten

\* An update that lands replaces all of it at once.
LEMMA ReadLand ==
  ASSUME KeeperInv, KeeperInv', ReadInv, NEW c \in Chain, LandUpdate(c)
  PROVE  ReadInv'
<1> DEFINE u == MinedUpdate(c)
<1>1. Mine(c) /\ updateState(c, u)
  BY DEF LandUpdate
<1>2. /\ u \in InFlight /\ \A d \in Chain : ToSet(mempool'[d]) \subseteq InFlight
  BY <1>1, MempoolTail, Travelling DEF Mine, MinedUpdate, Travels
<1>3. UNCHANGED <<epoch, baskets, pnl>>
  BY <1>1 DEF Mine, program, market
<1>4. InFlight' \subseteq InFlight
  <2>1. \A s \in Slot : epoch'[s].phase = "writing" => epoch'[s].update \in InFlight
    BY <1>3, Travelling DEF Travels
  <2> QED
    BY <1>2, <2>1, NothingNew
<1>5. \A w \in InFlight' : WholeUpdate(w)
  BY <1>4 DEF ReadInv
<1>6. BasketsKnown' /\ SendsComputed' /\ ReadingsWhole'
  BY <1>3 DEF ReadInv, BasketsKnown, SendsComputed, ReadingsWhole, WholeReading, PnLSoFar
<1> HIDE DEF u
<1>7. /\ u \in Updates /\ u.ts \in Nat /\ u.ts > lastUpdateTime[c] /\ WholeUpdate(u)
      /\ lastUpdateTime \in [Chain -> Nat] /\ pnlUpdateTime \in [Chain -> [Vault -> Nat]]
      /\ table \in [Chain -> Tables] /\ globalPnLAdjustment \in [Chain -> [Vault -> Int]]
      /\ localWeight \in [Chain -> 0..BPS]
  BY <1>1, <1>2, FlightTyped DEF updateState, InTurn, Updates, ReadInv, KeeperInv, RelayTypeOK
<1>8. /\ \A d \in Chain : lastUpdateTime'[d] = IF d = c THEN u.ts ELSE lastUpdateTime[d]
      /\ \A d \in Chain : table'[d] = IF d = c THEN u.table ELSE table[d]
      /\ \A d \in Chain : localWeight'[d] = IF d = c THEN WeightOf(c, u.table) ELSE localWeight[d]
      /\ \A d \in Chain : pnlUpdateTime'[d] = IF d = c THEN Stamped(c, u) ELSE pnlUpdateTime[d]
      /\ \A d \in Chain : globalPnLAdjustment'[d] =
                            IF d = c THEN Adjusted(c, u) ELSE globalPnLAdjustment[d]
  BY <1>1, <1>7 DEF updateState
<1>9. \A v \in Vault : pnlUpdateTime[c][v] \in Nat /\ pnlUpdateTime[c][v] < u.ts
  BY <1>7 DEF ReadInv, PnLPast
<1>10. /\ \A v \in Vault : Stamped(c, u)[v] <= u.ts
       /\ \A v \in Vault : Stamped(c, u)[v] = u.ts <=> v \in u.vaults
       /\ \A v \in Vault : v \in u.vaults => Adjusted(c, u)[v] = u.pnl[v]
  BY <1>7, <1>9 DEF Stamped, Adjusted
<1>11. PnLPast'
  BY <1>8, <1>10 DEF PnLPast, ReadInv
<1>12. OneReading'
  <2> DEFINE Whole(d) ==
        LET t == table'[d]
            hubs == [i \in DOMAIN t.chains |-> t.chains[i] \in Hub]
        IN  /\ t.weights = computeRoutingWeights(t.amounts)
            /\ localWeight'[d] = WeightOf(d, t)
            /\ \E total \in HubTotals :
                 \A i \in DOMAIN t.chains :
                   \A v \in {w \in Vault : Home[w] = t.chains[i]
                                           /\ pnlUpdateTime'[d][w] = lastUpdateTime'[d]} :
                     globalPnLAdjustment'[d][v] = computeGlobalNav(t.amounts, hubs, total)[i]
  <2>1. ASSUME NEW d \in Chain, d # c, lastUpdateTime'[d] # 0 PROVE Whole(d)
    <3>1. lastUpdateTime[d] # 0 /\ table'[d] = table[d] /\ localWeight'[d] = localWeight[d]
          /\ pnlUpdateTime'[d] = pnlUpdateTime[d] /\ lastUpdateTime'[d] = lastUpdateTime[d]
          /\ globalPnLAdjustment'[d] = globalPnLAdjustment[d]
      BY <1>8, <2>1
    <3> QED
      BY <3>1 DEF ReadInv, OneReading, Listed
  <2>2. Whole(c)
    <3>1. PICK total \in HubTotals : PartsOf(u.table, u.vaults, u.pnl, total)
      BY <1>7 DEF WholeUpdate
    <3>2. table'[c] = u.table /\ localWeight'[c] = WeightOf(c, u.table)
          /\ u.table.weights = computeRoutingWeights(u.table.amounts)
          /\ lastUpdateTime'[c] = u.ts
      BY <1>7, <1>8 DEF WholeUpdate
    <3> DEFINE hubs == [i \in DOMAIN u.table.chains |-> u.table.chains[i] \in Hub]
    <3>3. ASSUME NEW i \in DOMAIN u.table.chains,
                 NEW v \in Vault, Home[v] = u.table.chains[i], pnlUpdateTime'[c][v] = u.ts
          PROVE  globalPnLAdjustment'[c][v] = computeGlobalNav(u.table.amounts, hubs, total)[i]
      <4>1. v \in u.vaults /\ globalPnLAdjustment'[c][v] = u.pnl[v]
        BY <1>8, <1>10, <3>3
      <4> QED
        BY <3>1, <3>3, <4>1 DEF PartsOf
    <3> QED
      BY <3>2, <3>3
  <2>3. \A d \in Chain : lastUpdateTime'[d] # 0 => Whole(d)
    BY <2>1, <2>2
  <2> QED
    BY <2>3 DEF OneReading, Listed
<1> QED
  BY <1>5, <1>6, <1>11, <1>12 DEF ReadInv, WholeUpdate, PartsOf

\* A new process knows nothing.
LEMMA ReadRestart ==
  ASSUME KeeperInv, KeeperInv', ReadInv, Restart
  PROVE  ReadInv'
<1>1. UNCHANGED <<posted, baskets, pnl, mempool>>
  BY DEF Restart, relay, market, network
<1>2. \A s \in Slot : epoch'[s] = NoEpoch
  BY DEF Restart
<1>3. NoEpoch.phase = "idle" /\ NoEpoch.unsent = {} /\ NoEpoch.reading = NothingRead
  BY DEF NoEpoch
<1>4. InFlight' \subseteq InFlight
  <2>1. \A c \in Chain : ToSet(mempool'[c]) \subseteq InFlight
    BY <1>1, Travelling DEF Travels
  <2>2. \A s \in Slot : epoch'[s].phase = "writing" => epoch'[s].update \in InFlight
    BY <1>2, <1>3
  <2> QED
    BY <2>1, <2>2, NothingNew
<1>5. \A u \in InFlight' : WholeUpdate(u)
  BY <1>4 DEF ReadInv
<1>6. SendsComputed'
  BY <1>2, <1>3 DEF SendsComputed
<1>7. ReadingsWhole'
  BY <1>2, <1>3, UnreadWhole DEF ReadingsWhole, WholeReading, PnLSoFar
<1>8. BasketsKnown' /\ PnLPast' /\ OneReading'
  BY <1>1, PostsKept DEF ReadInv, BasketsKnown
<1> QED
  BY <1>5, <1>6, <1>7, <1>8 DEF ReadInv, WholeUpdate, PartsOf

\* Baskets are created where they belong, and their PnL is one of the values.
LEMMA MarketKnown ==
  ASSUME KeeperInv, ReadInv, MarketStep
  PROVE  BasketsKnown'
<1>1. BasketsKnown
  BY DEF ReadInv
<1>2. ASSUME NEW v \in Vault, CreateBasket(v) PROVE BasketsKnown'
  <2> DEFINE old == baskets[Home[v]]
             new == Append(old, v)
  <2>1. Home[v] \in Chain /\ baskets \in [Chain -> Seq(Vault)] /\ old \in Seq(Vault)
    BY KeeperConstants DEF KeeperInv, MarketTypeOK
  <2>2. baskets' = [baskets EXCEPT ![Home[v]] = new] /\ UNCHANGED pnl
    BY <1>2 DEF CreateBasket
  <2>3. \A i \in DOMAIN old : Home[old[i]] = Home[v]
    BY <1>1, <2>1 DEF BasketsKnown
  <2> HIDE DEF old
  <2>4. /\ DOMAIN new = DOMAIN old \cup {Len(old) + 1}
        /\ new[Len(old) + 1] = v /\ \A i \in DOMAIN old : new[i] = old[i]
    BY <2>1
  <2> HIDE DEF new
  <2>5. \A i \in DOMAIN new : Home[new[i]] = Home[v]
    BY <2>3, <2>4
  <2>6. \A c \in Chain : baskets'[c] = IF c = Home[v] THEN new ELSE baskets[c]
    BY <2>1, <2>2
  <2> QED
    BY <1>1, <2>2, <2>5, <2>6 DEF BasketsKnown
<1>3. ASSUME NEW v \in Vault, NEW amount \in Amount, Deposit(v, amount) \/ Withdraw(v, amount)
      PROVE  BasketsKnown'
  BY <1>1, <1>3 DEF Deposit, Withdraw, BasketsKnown
<1>4. ASSUME NEW v \in Vault, NEW value \in PnL, MovePnL(v, value) PROVE BasketsKnown'
  <2>1. pnl \in [Vault -> Int] /\ pnl' = [pnl EXCEPT ![v] = value] /\ UNCHANGED baskets
    BY <1>4 DEF MovePnL, KeeperInv, MarketTypeOK
  <2>2. \A w \in Vault : pnl'[w] = IF w = v THEN value ELSE pnl[w]
    BY <2>1
  <2> QED
    BY <1>1, <2>1, <2>2 DEF BasketsKnown
<1> QED
  BY <1>2, <1>3, <1>4 DEF MarketStep

\* Every other step leaves what relays hold as it is.
LEMMA ReadRest ==
  ASSUME KeeperInv, ReadInv,
         \/ FinishFirst \/ MarketStep \/ Tick \/ UNCHANGED vars
         \/ \E c \in Chain : RevertUpdate(c) \/ LoseUpdate(c) \/ Outage(c)
                             \/ Recover(c) \/ RelayOwner(c)
  PROVE  ReadInv'
<1>1. BasketsKnown
  BY DEF ReadInv
<1>2. CASE MarketStep
  <2>1. UNCHANGED <<posted, epoch, mempool>>
    BY <1>2 DEF MarketStep, CreateBasket, Deposit, Withdraw, MovePnL, relay, program, network
  <2>2. \A c \in Chain : ToSet(mempool'[c]) \subseteq InFlight
    BY <2>1, Travelling DEF Travels
  <2>3. BasketsKnown'
    BY <1>2, MarketKnown
  <2> QED
    BY <2>1, <2>2, <2>3, ReadElsewhere
<1>3. CASE \/ FinishFirst \/ Tick \/ UNCHANGED vars
           \/ \E c \in Chain : Outage(c) \/ Recover(c) \/ RelayOwner(c)
  <2>1. UNCHANGED <<posted, epoch, mempool, market>>
    BY <1>3 DEF FinishFirst, Tick, Outage, Recover, RelayOwner, setKeeper, setMaxStaleness,
                vars, relay, program, network
  <2>2. \A c \in Chain : ToSet(mempool'[c]) \subseteq InFlight
    BY <2>1, Travelling DEF Travels
  <2>3. BasketsKnown'
    BY <1>1, <2>1 DEF BasketsKnown, market
  <2> QED
    BY <2>1, <2>2, <2>3, ReadElsewhere
<1>4. ASSUME NEW c \in Chain, RevertUpdate(c) \/ LoseUpdate(c) PROVE ReadInv'
  <2>1. /\ UNCHANGED <<posted, epoch, market>>
        /\ mempool[c] # <<>> /\ mempool' = [mempool EXCEPT ![c] = Tail(@)]
    BY <1>4 DEF RevertUpdate, LoseUpdate, Mine, relay, program
  <2>2. \A d \in Chain : ToSet(mempool'[d]) \subseteq InFlight
    BY <2>1, MempoolTail, Travelling DEF Travels
  <2>3. BasketsKnown'
    BY <1>1, <2>1 DEF BasketsKnown, market
  <2> QED
    BY <2>1, <2>2, <2>3, ReadElsewhere
<1> QED
  BY <1>2, <1>3, <1>4

LEMMA ReadStepKept == KeeperInv /\ ReadInv /\ [Next]_vars => ReadInv'
<1> SUFFICES ASSUME KeeperInv, ReadInv, [Next]_vars PROVE ReadInv'
  OBVIOUS
<1>1. KeeperInv'
  BY KeeperStep
<1>2. ASSUME NEW s \in Slot, StartEpoch(s) \/ AbortEpoch(s) \/ ComputeUpdate(s) PROVE ReadInv'
  BY <1>1, <1>2, ReadBegins, ReadCompute
<1>3. ASSUME NEW s \in Slot, NEW c \in Chain,
             ReadStep(s, c) \/ SendUpdate(s, c) \/ FailToSend(s, c)
      PROVE  ReadInv'
  BY <1>1, <1>3, ReadCalls, ReadSend
<1>4. ASSUME NEW c \in Chain, LandUpdate(c) PROVE ReadInv'
  BY <1>1, <1>4, ReadLand
<1>5. Restart => ReadInv'
  BY <1>1, ReadRestart
<1> QED
  BY <1>2, <1>3, <1>4, <1>5, ReadRest DEF Next, EpochStep, MineStep, FaultStep

LEMMA ReadInit == Init => ReadInv
<1> SUFFICES ASSUME Init PROVE ReadInv
  OBVIOUS
<1>1. /\ \A s \in Slot : epoch[s] = NoEpoch
      /\ \A c \in Chain : mempool[c] = <<>> /\ lastUpdateTime[c] = 0 /\ baskets[c] = <<>>
      /\ \A v \in Vault : pnl[v] = 0 /\ \A c \in Chain : pnlUpdateTime[c][v] = 0
  BY DEF Init, Fresh, RelayInit
<1>2. /\ \A s \in Slot : /\ epoch[s].phase = "idle" /\ epoch[s].unsent = {}
                         /\ epoch[s].reading = NothingRead
  BY <1>1 DEF NoEpoch
<1>3. InFlight = {}
  <2>1. \A c \in Chain : ToSet(mempool[c]) = {}
    BY <1>1 DEF ToSet
  <2> QED
    BY <1>2, <2>1, Travelling DEF Travels
<1>4. BasketsKnown /\ SendsComputed /\ ReadingsWhole
  BY <1>1, <1>2, UnreadWhole DEF BasketsKnown, SendsComputed, ReadingsWhole
<1>5. PnLPast /\ OneReading
  BY <1>1 DEF PnLPast, OneReading
<1> QED
  BY <1>3, <1>4, <1>5 DEF ReadInv

\* What a relay holds comes from one reading, in any overlap of epochs: its
\* weights are computed from its amounts, its cached weight is its own, and
\* the vaults of its last update were posted the parts of one PnL of the hub.
THEOREM TablesFromOneReading == Spec => []OneReading
<1>1. Init => KeeperInv /\ ReadInv
  BY KeeperInit, ReadInit
<1>2. KeeperInv /\ ReadInv /\ [Next]_vars => KeeperInv' /\ ReadInv'
  BY KeeperStep, ReadStepKept
<1>3. ReadInv => OneReading
  BY DEF ReadInv
<1> QED
  BY <1>1, <1>2, <1>3, PTL DEF Spec
=============================================================================
