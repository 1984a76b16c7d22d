--------------------------- MODULE MCWebDeposits ---------------------------
(* Two setups: one deposit split over two chains, and two deposits, one    *)
(* after the other, on one chain.  The allowance is read again between the *)
(* two, and the page is left while a deposit runs, if ever.                *)
EXTENDS WebDeposits

CONSTANTS a, b

MCOrder == <<a, b>>

VARIABLE setup

MCvars == <<vars, setup>>

MCInit == Init /\ setup \in {"split", "again"} /\ allowance[b] = 0

Within ==
  /\ mounted' # mounted => phase = "executing"
  /\ IF setup = "split" THEN Len(runs') <= 1 /\ cached' = cached
     ELSE \A r \in DOMAIN runs' : Len(runs'[r].split) = 1 /\ runs'[r].split[1].chain = a

MCNext == Next /\ Within /\ UNCHANGED setup

MCSpec == MCInit /\ [][MCNext]_MCvars /\ Fairness
=============================================================================
