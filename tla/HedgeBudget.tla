----------------------------- MODULE HedgeBudget -----------------------------
(***************************************************************************)
(* The hedge budget of internal/router/hedge.go, as operators on one       *)
(* budget.  Every method holds the budget's mutex, so it is atomic.  The   *)
(* code's counters are floats: hedges / unit is the exact value of its     *)
(* hedges, ShareNum / ShareDen that of maxExtra; rounding is left out.     *)
(***************************************************************************)
EXTENDS Naturals

CONSTANTS HedgeWindow,        \* requests the sliding window holds: 1000
          ShareNum, ShareDen  \* maxExtra, the share of requests that may be hedged

ASSUME HedgeBudgetAssumption ==
  /\ HedgeWindow \in Nat \ {0}
  /\ ShareNum \in Nat /\ ShareDen \in Nat \ {0}

Budget == [requests : Nat, hedges : Nat, unit : Nat \ {0}]

\* NewHedgeBudget.
NewBudget == [requests |-> 0, hedges |-> 0, unit |-> 1]

\* HedgeBudget.decay: both counters shrink by the same factor, to a full window.
Decayed(b) ==
  IF b.requests > HedgeWindow
  THEN [requests |-> HedgeWindow, hedges |-> b.hedges * HedgeWindow, unit |-> b.unit * b.requests]
  ELSE b

\* HedgeBudget.Request.
AfterRequest(b) == Decayed([b EXCEPT !.requests = @ + 1])

\* Mutant of AllowsHedge: the hedge at hand is not counted.
AllowsHedgeIfLeft(b) == b.hedges * ShareDen < ShareNum * b.requests * b.unit

\* HedgeBudget.Allow: the answer, and the budget a granted hedge leaves.
AllowsHedge(b) == (b.hedges + b.unit) * ShareDen <= ShareNum * b.requests * b.unit

AfterHedge(b) == [b EXCEPT !.hedges = @ + b.unit]

=============================================================================
