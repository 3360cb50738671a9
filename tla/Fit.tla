--------------------------------- MODULE Fit --------------------------------
(***************************************************************************)
(* The search of fitObservationSet and runLevenbergMarquardtTOA            *)
(* (mlat/solver.go): from each of five altitudes, at most 250 damped steps *)
(* downhill, and the end with the least cost.                              *)
(*                                                                         *)
(* A cost is a whole number, in units in which a difference below Tolerance *)
(* ends a search (1e-18 in the code), or NoCost, which stands for NaN: no  *)
(* comparison with it is true.  (An infinite cost is left out: receivers   *)
(* and arrival times are finite.)  Positions, residuals and matrices are   *)
(* abstracted to the cost of the place the next step leads to, which can   *)
(* be any.  Of lambda it matters whether it was raised during a search.    *)
(***************************************************************************)
EXTENDS Integers

CONSTANTS
  Costs,          \* the weighted sums of squares
  NoCost,         \* NaN
  Tolerance,      \* 1e-18
  Starts,         \* the number of startAltitudes
  MaxIterations   \* 250

ASSUME FitAssumption ==
  /\ Costs \subseteq Nat
  /\ NoCost \notin Int
  /\ Tolerance \in Nat \ {0}
  /\ Starts \in Nat \ {0}
  /\ MaxIterations \in Nat

\* fit.stage    "idle", "searching", "returned"
\* fit.start    the start altitude that is tried
\* fit.iter     iter
\* fit.cost     the cost of pos and emission
\* fit.prev     prevCost; NoCost for its first value MaxFloat64
\* fit.raised   lambda was raised in this search
\* fit.best     bestCost; NoCost as long as nothing was found
\* fit.least    history: the least cost that a search of this fit began with
VARIABLE fit

AnyCost == Costs \cup {NoCost}

Less(a, b) == a # NoCost /\ b # NoCost /\ a < b

Close(a, b) == a # NoCost /\ b # NoCost /\ a - b < Tolerance /\ b - a < Tolerance

\* a when b is no number
Lesser(a, b) == IF a = NoCost \/ Less(b, a) THEN b ELSE a

NoFit == [stage |-> "idle", start |-> 0, iter |-> 0, cost |-> NoCost, prev |-> NoCost,
          raised |-> FALSE, best |-> NoCost, least |-> NoCost]

FitInit == fit = NoFit

\* runLevenbergMarquardtTOA is called with the start altitude that comes next.
Search(f, cost) ==
  [f EXCEPT !.stage = "searching", !.start = @ + 1, !.iter = 0, !.cost = cost,
            !.prev = NoCost, !.raised = FALSE, !.least = Lesser(@, cost)]

\* fitObservationSet is called.  It returns at once for a centroid at the centre
\* of the earth, with nothing found.
CallFit ==
  /\ fit = NoFit
  /\ \/ \E cost \in AnyCost : fit' = Search(NoFit, cost)
     \/ fit' = [NoFit EXCEPT !.stage = "returned"]

Stops == Close(fit.prev, fit.cost)

Steps == fit.stage = "searching" /\ fit.iter < MaxIterations /\ ~Stops

\* solve4x4 finds a singular matrix, or the step leads no further down: lambda
\* is raised, and pos stays.
Damps ==
  /\ Steps
  /\ fit' = [fit EXCEPT !.iter = @ + 1, !.prev = fit.cost, !.raised = TRUE]

\* The step leads down and is taken; lambda is lowered.
Moves ==
  /\ Steps
  /\ \E cost \in AnyCost :
       /\ Less(cost, fit.cost)
       /\ fit' = [fit EXCEPT !.iter = @ + 1, !.prev = fit.cost, !.cost = cost]

\* Mutant: the end of the last search is taken, not the best.
EndSearchLatest ==
  /\ fit.stage = "searching"
  /\ Stops \/ fit.iter = MaxIterations
  /\ LET found == [fit EXCEPT !.best = fit.cost]
     IN  IF fit.start < Starts
           THEN \E cost \in AnyCost : fit' = Search(found, cost)
           ELSE fit' = [NoFit EXCEPT !.stage = "returned", !.best = found.best,
                                     !.least = fit.least]

\* The search ends, with no error in any case, and the next start altitude is
\* tried; after the last one, fitObservationSet returns.
EndSearch ==
  /\ fit.stage = "searching"
  /\ Stops \/ fit.iter = MaxIterations
  /\ LET found == [fit EXCEPT !.best = Lesser(@, fit.cost)]
     IN  IF fit.start < Starts
           THEN \E cost \in AnyCost : fit' = Search(found, cost)
           ELSE fit' = [NoFit EXCEPT !.stage = "returned", !.best = found.best,
                                     !.least = fit.least]

FitSteps == Damps \/ Moves \/ EndSearch

Found == fit.best # NoCost

-----------------------------------------------------------------------------

Fits ==
  [stage : {"idle", "searching", "returned"}, start : 0..Starts, iter : 0..MaxIterations,
   cost : AnyCost, prev : AnyCost, raised : BOOLEAN, best : AnyCost,
   least : AnyCost]

FitTypeOK == fit \in Fits

\* b is no cost, or a is one that is no greater.
AtMost(a, b) == b # NoCost => a # NoCost /\ a <= b

\* What fitObservationSet returns is no worse than the place where any of its
\* searches began, whatever steps were rejected, wherever a search gave up, and if
\* some of the costs are NaN: when one search began at a cost that is a number,
\* something is found (solver.go:367-388, 417-420, 451-457).
FitDownhill ==
  fit.stage = "returned" => AtMost(fit.best, fit.least)
=============================================================================
