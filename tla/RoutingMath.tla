---------------------------- MODULE RoutingMath ----------------------------
(***************************************************************************)
(* The two pure functions of an epoch,                                     *)
(* services/keeper/src/computeRoutingWeights.ts and computeGlobalNav.ts.   *)
(* A chain is its place in the list of chains the keeper read.             *)
(***************************************************************************)
EXTENDS Integers, Sequences, Functions

BPS == 10000

Total(amount) == SumFunctionOnSet(amount, DOMAIN amount)

\* What a chain has less than all of it: computeRoutingWeights' inverses.
Inverses(idle) == [i \in DOMAIN idle |-> Total(idle) - idle[i]]

\* The weight of every chain but the last, which rounds down.
Share(idle, i) ==
  IF Total(idle) = 0 \/ Total(Inverses(idle)) = 0
  THEN BPS \div Len(idle)
  ELSE (Inverses(idle)[i] * BPS) \div Total(Inverses(idle))

\* Mutation: the last chain rounds down too.
RoundedWeights(idle) == [i \in 1..Len(idle) |-> Share(idle, i)]

\* The last chain takes what is left of the basis points.
computeRoutingWeights(idle) ==
  LET front == [i \in 1..(Len(idle) - 1) |-> Share(idle, i)]
  IN  [i \in 1..Len(idle) |-> IF i = Len(idle) THEN BPS - Total(front) ELSE front[i]]

\* Division of bigints, which cuts towards zero.
Quotient(a, b) == IF a >= 0 THEN a \div b ELSE -((-a) \div b)

\* The part of the hub's PnL that a chain is posted.
computeGlobalNav(idle, isHub, hubPnL) ==
  [i \in DOMAIN idle |->
     IF isHub[i] \/ Total(idle) = 0 THEN 0 ELSE Quotient(idle[i] * hubPnL, Total(idle))]
=============================================================================
