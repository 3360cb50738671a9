---------------------------- MODULE SolverProofs ----------------------------
(***************************************************************************)
(* Theorems about modules Fit and Solver, for any batches, costs,          *)
(* tolerances, and numbers of starts and iterations.                       *)
(*                                                                         *)
(* First the search of a fit and the choice of the best candidate; then    *)
(* the subsets, by induction on the number of indices to come; then the    *)
(* run of Solve as a whole, with selections; last, that it runs out of     *)
(* things to do.  Induction is over sets (Least, Induction), the form the  *)
(* provers can instantiate.                                                *)
(***************************************************************************)
EXTENDS Solver, FiniteSetTheorems, SequenceTheorems, TLAPS

-----------------------------------------------------------------------------
(***************************************************************************)
(* The search of a fit                                                     *)
(***************************************************************************)

USE DEF Fits

\* After lambda was raised, the cost is that of the iteration before.  A search that
\* ended, or the one that goes on, has come as low as any search began.
FitInv ==
  /\ FitTypeOK
  /\ fit.stage = "searching" /\ fit.raised => fit.cost = fit.prev \/ fit.cost = NoCost
  /\ fit.stage = "searching" => AtMost(Lesser(fit.best, fit.cost), fit.least)
  /\ fit.stage # "searching" => AtMost(fit.best, fit.least)

\* Costs are ordered, and NaN comes after all of them.
LEMMA Costly ==
  ASSUME FitAssumption, NEW a \in AnyCost, NEW b \in AnyCost, NEW c \in AnyCost
  PROVE  /\ Lesser(a, b) \in AnyCost
         /\ AtMost(a, c) => AtMost(Lesser(a, b), Lesser(c, b))
         /\ AtMost(NoCost, NoCost)
<1>1. /\ \A x \in AnyCost : x # NoCost => x \in Nat
      /\ NoCost \notin Nat
  BY DEF FitAssumption, AnyCost
<1> QED
  BY <1>1 DEF Lesser, Less, AtMost

\* A step down cannot lose what was reached.
LEMMA DownKeeps ==
  ASSUME FitAssumption, NEW a \in AnyCost, NEW b \in AnyCost, NEW c \in AnyCost,
         NEW d \in AnyCost, Less(b, c), AtMost(Lesser(a, c), d)
  PROVE  AtMost(Lesser(a, b), d)
<1>1. /\ \A x \in AnyCost : x # NoCost => x \in Nat
      /\ NoCost \notin Nat
  BY DEF FitAssumption, AnyCost
<1> QED
  BY <1>1 DEF Lesser, Less, AtMost

LEMMA SearchTyped ==
  ASSUME FitAssumption, NEW f \in Fits, NEW cost \in AnyCost,
         f.start < Starts, AtMost(f.best, f.least), fit' = Search(f, cost)
  PROVE  FitInv'
<1>1. fit' = [stage |-> "searching", start |-> f.start + 1, iter |-> 0, cost |-> cost,
              prev |-> NoCost, raised |-> FALSE, best |-> f.best,
              least |-> Lesser(f.least, cost)]
  BY DEF Search
<1>2. f.start + 1 \in 0..Starts /\ 0 \in 0..MaxIterations /\ NoCost \in AnyCost
      /\ f.best \in AnyCost /\ f.least \in AnyCost
  BY DEF FitAssumption, AnyCost
<1>3. Lesser(f.least, cost) \in AnyCost
      /\ AtMost(Lesser(f.best, cost), Lesser(f.least, cost))
  BY <1>2, Costly
<1>4. FitTypeOK'
  BY <1>1, <1>2, <1>3 DEF FitTypeOK, AnyCost
<1> QED
  BY <1>1, <1>3, <1>4 DEF FitInv

\* fitObservationSet is reset, or not called at all.
LEMMA ResetKeeps ==
  ASSUME FitAssumption, fit' = NoFit
  PROVE  FitInv'
BY DEF FitAssumption, NoFit, FitInv, FitTypeOK, AnyCost, AtMost

LEMMA FitStepKeeps ==
  ASSUME FitAssumption, FitInv, CallFit \/ FitSteps
  PROVE  FitInv'
<1>0. fit \in Fits /\ Starts \in Nat /\ Starts > 0 /\ MaxIterations \in Nat
      /\ NoCost \in AnyCost /\ NoFit \in Fits
  BY DEF FitInv, FitTypeOK, FitAssumption, AnyCost, NoFit
<1>1. CASE CallFit
  <2>1. ASSUME NEW cost \in AnyCost, fit' = Search(NoFit, cost) PROVE FitInv'
    <3>1. NoFit.start < Starts /\ AtMost(NoFit.best, NoFit.least)
      BY <1>0 DEF NoFit, AtMost
    <3> QED
      BY <1>0, <2>1, <3>1, SearchTyped DEF FitInv
  <2>2. CASE fit' = [NoFit EXCEPT !.stage = "returned"]
    BY <1>0, <2>2 DEF NoFit, FitInv, FitTypeOK, AtMost
  <2> QED
    BY <1>1, <2>1, <2>2 DEF CallFit
<1>2. ASSUME Steps PROVE fit.iter + 1 \in 0..MaxIterations
  BY <1>0, <1>2 DEF Steps
<1>3. CASE Damps
  <2>1. fit' = [fit EXCEPT !.iter = @ + 1, !.prev = fit.cost, !.raised = TRUE]
    BY <1>3 DEF Damps
  <2>2. fit' \in Fits /\ fit'.cost = fit'.prev
    BY <1>0, <1>2, <1>3, <2>1 DEF Damps
  <2>3. fit.stage = "searching" /\ fit'.stage = "searching"
        /\ fit'.best = fit.best /\ fit'.cost = fit.cost /\ fit'.least = fit.least
    BY <1>0, <1>3, <2>1 DEF Damps, Steps
  <2> QED
    BY <2>2, <2>3 DEF FitInv, FitTypeOK
<1>4. CASE Moves
  <2>1. PICK cost \in AnyCost :
          /\ Less(cost, fit.cost)
          /\ fit' = [fit EXCEPT !.iter = @ + 1, !.prev = fit.cost, !.cost = cost]
    BY <1>4 DEF Moves
  <2>0. fit.iter + 1 \in 0..MaxIterations
    BY <1>2, <1>4 DEF Moves
  <2>2. fit' \in Fits
    BY <1>0, <2>0, <2>1
  <2>3. ~fit.raised
    <3>1. SUFFICES ASSUME fit.raised PROVE FALSE
      OBVIOUS
    <3>2. fit.cost # NoCost /\ fit.stage = "searching" /\ ~Close(fit.prev, fit.cost)
      BY <1>4, <2>1 DEF Less, Moves, Steps, Stops
    <3>3. fit.cost = fit.prev /\ fit.cost \in Nat
      BY <1>0, <3>1, <3>2 DEF FitInv, AnyCost, FitAssumption
    <3>4. Tolerance \in Nat /\ Tolerance > 0
      BY DEF FitAssumption
    <3> QED
      BY <3>2, <3>3, <3>4 DEF Close
  <2>4. fit'.raised = fit.raised /\ fit'.best = fit.best /\ fit'.least = fit.least
        /\ fit'.cost = cost /\ fit'.stage = "searching" /\ fit.stage = "searching"
    BY <1>0, <1>4, <2>1 DEF Moves, Steps
  <2>5. AtMost(Lesser(fit.best, fit.cost), fit.least)
    BY <2>4 DEF FitInv
  <2>6. fit.best \in AnyCost /\ fit.cost \in AnyCost /\ fit.least \in AnyCost
    BY <1>0
  <2>7. AtMost(Lesser(fit'.best, fit'.cost), fit'.least)
    BY <2>1, <2>4, <2>5, <2>6, DownKeeps
  <2> QED
    BY <2>2, <2>3, <2>4, <2>7 DEF FitInv, FitTypeOK
<1>5. CASE EndSearch
  <2> DEFINE found == [fit EXCEPT !.best = Lesser(@, fit.cost)]
  <2>1. found \in Fits /\ found.start = fit.start /\ found.least = fit.least
        /\ found.best = Lesser(fit.best, fit.cost)
    BY <1>0 DEF Lesser
  <2>4. AtMost(found.best, found.least)
    BY <1>5, <2>1 DEF FitInv, EndSearch
  <2>2. CASE fit.start < Starts
    <3>1. PICK cost \in AnyCost : fit' = Search(found, cost)
      BY <1>5, <2>2 DEF EndSearch
    <3> HIDE DEF found
    <3> QED
      BY <2>1, <2>2, <2>4, <3>1, SearchTyped DEF FitInv
  <2>3. CASE ~(fit.start < Starts)
    <3>1. fit' = [NoFit EXCEPT !.stage = "returned", !.best = found.best,
                                     !.least = fit.least]
      BY <1>5, <2>3 DEF EndSearch
    <3>2. found.best \in AnyCost /\ AtMost(found.best, fit.least)
      BY <2>1, <2>4
    <3> HIDE DEF found
    <3>3. fit' \in Fits /\ fit'.stage = "returned"
          /\ fit'.best = found.best /\ fit'.least = fit.least
      BY <1>0, <3>1, <3>2 DEF NoFit
    <3> QED
      BY <3>2, <3>3 DEF FitInv, FitTypeOK
  <2> QED
    BY <2>2, <2>3
<1> QED
  BY <1>1, <1>3, <1>4, <1>5 DEF FitSteps

LEMMA StepKeepsFit ==
  ASSUME FitAssumption, FitInv, [Next]_vars
  PROVE  FitInv'
<1>1. \/ CallFit \/ FitSteps
      \/ fit' = NoFit
      \/ fit' = fit
  BY DEF Next, vars, Reject, Accept, Fails, Call, Fitting, GiveUp, Refine, Compare,
         NoneFound, Select, Panic, Return, Unrealistic
<1>2. CASE fit' = fit
  BY <1>2 DEF FitInv, FitTypeOK
<1> QED
  BY <1>1, <1>2, FitStepKeeps, ResetKeeps

\* No fit is worse than the start of any of its searches (solver.go:367-388).
THEOREM FitGoesDownhill == Spec => []FitDownhill
<1>1. Init => FitInv
  BY FitAssumption DEF Init, FitInit, NoFit, FitInv, FitTypeOK, AnyCost, AtMost,
     FitAssumption
<1>2. FitInv /\ [Next]_vars => FitInv'
  BY FitAssumption, StepKeepsFit
<1>3. FitInv => FitDownhill
  BY DEF FitInv, FitDownhill
<1> QED
  BY <1>1, <1>2, <1>3, PTL DEF Spec

\* Once lambda was raised, because the matrix was singular or the step led up, the
\* search ends before it solves with the raised lambda: the cost is that of the
\* iteration before, which the code takes for convergence.  Only a search at a place
\* without a cost goes on, in vain (solver.go:417-420, 440-455).
LEMMA DampingUnused == FitInv /\ Steps /\ fit.raised => fit.cost = NoCost
<1> SUFFICES ASSUME FitInv, Steps, fit.raised, fit.cost # NoCost PROVE FALSE
  OBVIOUS
<1>1. fit.cost = fit.prev /\ ~Close(fit.prev, fit.cost)
  BY DEF FitInv, Steps, Stops
<1>2. fit.cost \in Nat
  BY FitAssumption DEF FitInv, FitTypeOK, AnyCost, FitAssumption
<1>3. Tolerance \in Nat /\ Tolerance > 0
  BY FitAssumption DEF FitAssumption
<1> QED
  BY <1>1, <1>2, <1>3 DEF Close

-----------------------------------------------------------------------------
(***************************************************************************)
(* The choice of the best candidate                                        *)
(***************************************************************************)

Drift(n) == RmsTolerance * (n - 1)

\* The best candidate so far and what is known of the others.
BestInv ==
  /\ obs \in Batches
  /\ Len(selected) \in Nat
  /\ rivals \in [number : Nat, most : Nat, least : Nat]
  /\ best = {} => rivals = NoRivals
  /\ best # {} => rivals.number >= 1 /\ \E c : best = {c}
  /\ \A c \in best : c.rms \in Nat /\ c.sumSq \in Nat
  /\ BestIsBest

LEMMA DriftGrows ==
  ASSUME SolverAssumption, NEW n \in Nat, n >= 1
  PROVE  /\ Drift(n) \in Nat
         /\ Drift(n + 1) = Drift(n) + RmsTolerance
<1>1. RmsTolerance \in Nat /\ n - 1 \in Nat /\ (n + 1) - 1 = (n - 1) + 1
  BY DEF SolverAssumption
<1>2. RmsTolerance * ((n - 1) + 1) = RmsTolerance * (n - 1) + RmsTolerance
      /\ RmsTolerance * (n - 1) \in Nat
  BY <1>1
<1> QED
  BY <1>1, <1>2 DEF Drift

LEMMA BestGiven ==
  ASSUME NEW c, best' = {c}, Cardinality(c.inliers) = rivals'.most,
         c.rms <= rivals'.least + Drift(rivals'.number),
         obs' \in Batches, Len(selected') \in Nat,
         rivals' \in [number : Nat, most : Nat, least : Nat], rivals'.number >= 1,
         c.rms \in Nat, c.sumSq \in Nat
  PROVE  BestInv'
<1>1. BestIsBest'
  BY Zenon DEF BestIsBest, Drift
<1>2. best' # {} /\ \A b \in best' : b.rms \in Nat /\ b.sumSq \in Nat
  OBVIOUS
<1> QED
  BY Zenon, <1>1, <1>2 DEF BestInv

LEMMA CandidateTyped ==
  ASSUME SolverAssumption, Len(selected) \in Nat, NEW c \in Candidates
  PROVE  /\ Cardinality(c.inliers) \in Nat /\ Cardinality(c.inliers) >= MinSensors
         /\ c.inliers \subseteq 1..Len(selected)
         /\ c.rms \in Nat /\ c.sumSq \in Nat
         /\ c.residuals = selected
<1>1. /\ c.inliers \subseteq 1..Len(selected) /\ Cardinality(c.inliers) >= MinSensors
      /\ c.rms \in Rms /\ c.sumSq \in SumSq /\ c.residuals = selected
  BY DEF Candidates
<1>2. IsFiniteSet(1..Len(selected))
  BY FS_Interval
<1>3. Cardinality(c.inliers) \in Nat
  BY <1>1, <1>2, FS_Subset, FS_CardinalityType
<1> QED
  BY <1>1, <1>3 DEF SolverAssumption

\* A comparison leaves the best as good as it may be.
LEMMA CompareKeeps ==
  ASSUME SolverAssumption, BestInv, Compare
  PROVE  BestInv'
<1> DEFINE T == RmsTolerance
<1>1. PICK c \in Candidates :
        /\ best' = IF \A b \in best : Better(c, b) THEN {c} ELSE best
        /\ rivals' = Rivals(c)
  BY DEF Compare
<1>2. UNCHANGED <<obs, selected>>
  BY DEF Compare, roundVars
<1> DEFINE n == Cardinality(c.inliers)
           ahead == n > rivals.most \/ (n = rivals.most /\ c.rms < rivals.least)
<1>3. /\ n \in Nat /\ n > 0 /\ c.rms \in Nat /\ c.sumSq \in Nat /\ T \in Nat
  <2>1. n \in Nat /\ n >= MinSensors /\ c.rms \in Nat /\ c.sumSq \in Nat
    BY CandidateTyped DEF BestInv
  <2>2. MinSensors \in Nat /\ MinSensors > 0 /\ T \in Nat
    BY DEF SolverAssumption
  <2> HIDE DEF n
  <2> QED
    BY <2>1, <2>2
<1>4. rivals.number \in Nat /\ rivals.most \in Nat /\ rivals.least \in Nat
  BY DEF BestInv
<1>5. /\ rivals'.number = rivals.number + 1
      /\ rivals'.most = (IF ahead THEN n ELSE rivals.most)
      /\ rivals'.least = (IF ahead THEN c.rms ELSE rivals.least)
      /\ rivals' \in [number : Nat, most : Nat, least : Nat]
  BY <1>1, <1>3, <1>4 DEF Rivals
<1> HIDE DEF n, ahead
<1>6. obs' \in Batches /\ Len(selected') \in Nat
  BY <1>2 DEF BestInv
<1>7. CASE best = {}
  <2>1. rivals.number = 0 /\ rivals.most = 0
    BY <1>7 DEF BestInv, NoRivals
  <2>2. ahead
    BY <1>3, <2>1 DEF ahead
  <2>3. best' = {c}
    BY <1>1, <1>7
  <2>4. rivals'.number = 1 /\ rivals'.most = n /\ rivals'.least = c.rms
    BY <1>5, <2>1, <2>2
  <2>5. Drift(1) = 0
    BY <1>3 DEF Drift
  <2>6. c.rms <= rivals'.least + Drift(rivals'.number) /\ rivals'.number >= 1
    BY <1>3, <2>4, <2>5
  <2> QED
    BY <1>3, <1>5, <1>6, <2>3, <2>4, <2>6, BestGiven DEF n
<1>8. CASE best # {}
  <2>1. PICK b : best = {b}
    BY <1>8 DEF BestInv
  <2> DEFINE drift == Drift(rivals.number)
             next == Drift(rivals.number + 1)
  <2>2. /\ rivals.number >= 1
        /\ Cardinality(b.inliers) = rivals.most
        /\ b.rms \in Nat /\ b.sumSq \in Nat
        /\ b.rms <= rivals.least + drift
    BY <1>8, <2>1 DEF BestInv, BestIsBest, Drift
  <2>3. drift \in Nat /\ next = drift + T
    BY <1>4, <2>2, DriftGrows
  <2>4. next = Drift(rivals'.number)
    BY <1>5
  <2>5. Better(c, b) <=>
          \/ n > rivals.most
          \/ /\ n = rivals.most
             /\ IF Apart(c.rms, b.rms) THEN c.rms < b.rms ELSE c.sumSq < b.sumSq
    BY <1>3, <1>4, <2>2 DEF Better, n
  <2>6. rivals'.number >= 1
    BY <1>4, <1>5, <2>2
  <2> HIDE DEF drift, next
  <2>7. CASE Better(c, b)
    <3>1. best' = {c}
      BY <1>1, <2>1, <2>7
    <3>2. n = rivals'.most
      BY <1>3, <1>4, <1>5, <2>5, <2>7 DEF ahead
    <3>3. c.rms <= rivals'.least + next
      <4>1. CASE ahead
        BY <1>3, <1>5, <2>3, <4>1
      <4>2. CASE ~ahead
        <5>1. n = rivals.most
          BY <1>3, <1>4, <2>5, <2>7, <4>2 DEF ahead
        <5>2. c.rms <= b.rms + T
          BY <1>3, <1>4, <2>2, <2>5, <2>7, <5>1 DEF Apart
        <5> QED
          BY <1>3, <1>4, <1>5, <2>2, <2>3, <4>2, <5>2, SMTT(40)
      <4> QED
        BY <4>1, <4>2
    <3> QED
      BY <1>3, <1>5, <1>6, <2>4, <2>6, <3>1, <3>2, <3>3, BestGiven DEF n
  <2>8. CASE ~Better(c, b)
    <3>1. best' = {b}
      BY <1>1, <2>1, <2>8
    <3>2. n <= rivals.most
      BY <1>3, <1>4, <2>5, <2>8
    <3>3. rivals'.most = rivals.most
      BY <1>3, <1>4, <1>5, <3>2 DEF ahead
    <3>4. b.rms <= rivals'.least + next
      <4>1. CASE ahead
        <5>1. n = rivals.most
          BY <1>3, <1>4, <3>2, <4>1 DEF ahead
        <5>2. b.rms <= c.rms + T
          BY <1>3, <2>2, <2>5, <2>8, <5>1 DEF Apart
        <5> QED
          BY <1>3, <1>5, <2>2, <2>3, <4>1, <5>2
      <4>2. CASE ~ahead
        BY <1>3, <1>4, <1>5, <2>2, <2>3, <4>2
      <4> QED
        BY <4>1, <4>2
    <3> QED
      BY <1>5, <1>6, <2>2, <2>4, <2>6, <3>1, <3>3, <3>4, BestGiven
  <2> QED
    BY <2>7, <2>8
<1> QED
  BY <1>7, <1>8

\* fitRobust begins anew.
LEMMA RobustKeeps ==
  ASSUME BestInv, NEW s, Len(s) \in Nat, Robust(s), obs' = obs
  PROVE  BestInv'
BY DEF Robust, BestInv, BestIsBest, NoRivals

LEMMA SequentialTyped ==
  ASSUME NEW n \in Nat
  PROVE  /\ Sequential(n) \in Seq(Nat) /\ Len(Sequential(n)) = n
         /\ \A i \in 1..n : Sequential(n)[i] = i
BY DEF Sequential

LEMMA BatchTyped ==
  ASSUME SolverAssumption, obs \in Batches
  PROVE  obs \in Seq(Nat) /\ Len(obs) \in Nat /\ DOMAIN obs = 1..Len(obs)
BY DEF SolverAssumption

LEMMA StepKeepsBest ==
  ASSUME SolverAssumption, BestInv, [Next]_vars
  PROVE  BestInv'
<1>1. \/ Compare
      \/ Accept
      \/ Select
      \/ UNCHANGED <<obs, selected, best, rivals>>
  BY DEF Next, vars, roundVars, Reject, Fails, Call, Fitting, GiveUp, Refine,
         NoneFound, Panic, Return, Unrealistic
<1>2. CASE Accept
  <2>1. Robust(Sequential(Len(obs))) /\ obs' = obs
    BY <1>2 DEF Accept
  <2>2. Len(Sequential(Len(obs))) \in Nat
    BY BatchTyped, SequentialTyped DEF BestInv
  <2> QED
    BY <2>1, <2>2, RobustKeeps
<1>3. CASE Select
  <2>1. PICK s : Len(s) \in MinSensors..(Len(obs) - 1) /\ Robust(s)
    BY <1>3 DEF Select
  <2>2. Len(s) \in Nat /\ obs' = obs
    BY <1>3, <2>1 DEF Select, SolverAssumption
  <2> QED
    BY <2>1, <2>2, RobustKeeps
<1>4. CASE UNCHANGED <<obs, selected, best, rivals>>
  BY <1>4 DEF BestInv, BestIsBest
<1> QED
  BY <1>1, <1>2, <1>3, <1>4, CompareKeeps

LEMMA InitBest ==
  ASSUME Init
  PROVE  BestInv
<1>1. selected = <<>> /\ Len(<<>>) = 0
  BY DEF Init
<1> QED
  BY <1>1 DEF Init, BestInv, BestIsBest, NoRivals

\* However candidates compare, no candidate has more inliers than the best one,
\* and its rms is near the least (solver.go:515-523).
THEOREM BestStaysBest == Spec => []BestIsBest
<1>1. Init => BestInv
  BY InitBest
<1>2. BestInv /\ [Next]_vars => BestInv'
  BY SolverAssumption, StepKeepsBest
<1>3. BestInv => BestIsBest
  BY DEF BestInv
<1> QED
  BY <1>1, <1>2, <1>3, PTL DEF Spec

-----------------------------------------------------------------------------
(***************************************************************************)
(* Induction                                                               *)
(***************************************************************************)

\* A set of numbers that is not empty has a least element.
LEMMA Least ==
  ASSUME NEW T, T \subseteq Nat, T # {}
  PROVE  \E x \in T : \A y \in T : x <= y
<1> DEFINE R == OpToRel(<, Nat)
<1>1. R = {r \in Nat \X Nat : r[1] < r[2]}
  BY DEF OpToRel
<1>2. IsWellFoundedOn(R, Nat)
  BY NatLessThanWellFounded
<1> HIDE DEF R
<1>3. PICK x \in T : \A y \in T : ~(<<y, x>> \in R)
  BY <1>2, WFMin
<1>4. \A y \in T : x <= y
  <2> SUFFICES ASSUME NEW y \in T, y < x PROVE FALSE
    OBVIOUS
  <2>1. <<y, x>> \in Nat \X Nat /\ <<y, x>>[1] = y /\ <<y, x>>[2] = x
    OBVIOUS
  <2>2. <<y, x>> \in R
    BY <1>1, <2>1, Zenon
  <2> QED
    BY <1>3, <2>2
<1> QED
  BY <1>4

LEMMA Induction ==
  ASSUME NEW S, 0 \in S, \A n \in Nat : n \in S => n + 1 \in S
  PROVE  Nat \subseteq S
<1> SUFFICES ASSUME Nat \ S # {} PROVE FALSE
  OBVIOUS
<1>1. PICK x \in Nat \ S : \A y \in Nat \ S : x <= y
  BY Least
<1>2. x - 1 \in Nat /\ x - 1 \notin S
  BY <1>1
<1> QED
  BY <1>1, <1>2

-----------------------------------------------------------------------------
(***************************************************************************)
(* Sequences of sequences, and the order in which they are flattened       *)
(***************************************************************************)

Sorted(all) == \A i, j \in DOMAIN all : i < j => Before(all[i], all[j])

\* Sorted sequences, of which each is before the next.
InOrder(ss) ==
  /\ \A i \in DOMAIN ss : Sorted(ss[i])
  /\ \A i, j \in DOMAIN ss : i < j =>
       \A a \in DOMAIN ss[i] : \A b \in DOMAIN ss[j] : Before(ss[i][a], ss[j][b])

LEMMA SortedConcat ==
  ASSUME NEW X, NEW s \in Seq(X), NEW t \in Seq(X), Sorted(s), Sorted(t),
         \A a \in DOMAIN s : \A b \in DOMAIN t : Before(s[a], t[b])
  PROVE  Sorted(s \o t)
<1>1. Len(s) \in Nat /\ Len(t) \in Nat /\ DOMAIN s = 1..Len(s) /\ DOMAIN t = 1..Len(t)
  OBVIOUS
<1>2. /\ DOMAIN (s \o t) = 1..(Len(s) + Len(t))
      /\ \A i \in 1..(Len(s) + Len(t)) :
           (s \o t)[i] = IF i <= Len(s) THEN s[i] ELSE t[i - Len(s)]
  BY ConcatProperties, LenProperties
<1> DEFINE u == s \o t
<1> HIDE DEF u
<1>3. ASSUME NEW i \in DOMAIN u, NEW j \in DOMAIN u, i < j PROVE Before(u[i], u[j])
  <2>1. i \in 1..(Len(s) + Len(t)) /\ j \in 1..(Len(s) + Len(t))
    BY <1>2, <1>3 DEF u
  <2>2. CASE j <= Len(s)
    <3>1. i \in DOMAIN s /\ j \in DOMAIN s /\ u[i] = s[i] /\ u[j] = s[j]
      BY <1>1, <1>2, <1>3, <2>1, <2>2 DEF u
    <3> QED
      BY <1>3, <3>1 DEF Sorted
  <2>3. CASE i <= Len(s) /\ j > Len(s)
    <3>1. i \in DOMAIN s /\ j - Len(s) \in DOMAIN t /\ u[i] = s[i] /\ u[j] = t[j - Len(s)]
      BY <1>1, <1>2, <2>1, <2>3 DEF u
    <3> QED
      BY <3>1
  <2>4. CASE i > Len(s)
    <3>1. /\ i - Len(s) \in DOMAIN t /\ j - Len(s) \in DOMAIN t
          /\ i - Len(s) < j - Len(s)
          /\ u[i] = t[i - Len(s)] /\ u[j] = t[j - Len(s)]
      BY <1>1, <1>2, <1>3, <2>1, <2>4 DEF u
    <3> QED
      BY <3>1 DEF Sorted
  <2> QED
    BY <1>1, <2>1, <2>2, <2>3, <2>4
<1> QED
  BY <1>3 DEF Sorted, u

\* The first m sequences of ss, flattened.
IsFlat(f, ss, m) ==
  f = [i \in 1..m |-> IF i = 1 THEN ss[i] ELSE f[i-1] \o ss[i]]

LEMMA FlatUnfolds ==
  ASSUME NEW ss, NEW m, NEW f
  PROVE  IsFlat(f, ss, m) <=>
           /\ f = [i \in 1..m |-> f[i]]
           /\ \A i \in 1..m : f[i] = IF i = 1 THEN ss[i] ELSE f[i-1] \o ss[i]
<1> DEFINE g == [i \in 1..m |-> IF i = 1 THEN ss[i] ELSE f[i-1] \o ss[i]]
<1>1. IsFlat(f, ss, m) <=> f = g
  BY DEF IsFlat
<1>2. DOMAIN g = 1..m /\ g = [i \in 1..m |-> g[i]]
      /\ \A i \in 1..m : g[i] = IF i = 1 THEN ss[i] ELSE f[i-1] \o ss[i]
  OBVIOUS
<1> HIDE DEF g
<1>3. f = g => f = [i \in 1..m |-> f[i]] /\ \A i \in 1..m : f[i] = g[i]
  BY <1>2
<1>4. f = [i \in 1..m |-> f[i]] /\ (\A i \in 1..m : f[i] = g[i]) => f = g
  BY <1>2
<1> QED
  BY <1>1, <1>2, <1>3, <1>4

LEMMA FlatExists ==
  ASSUME NEW ss, NEW m \in Nat
  PROVE  \E f : IsFlat(f, ss, m)
<1> DEFINE Ms == {l \in Nat : \E f : IsFlat(f, ss, l)}
<1>1. 0 \in Ms
  <2>1. IsFlat([i \in 1..0 |-> {}], ss, 0)
    BY DEF IsFlat
  <2> QED
    BY <2>1
<1>2. ASSUME NEW l \in Nat, l \in Ms PROVE l + 1 \in Ms
  <2>1. PICK f : IsFlat(f, ss, l)
    BY <1>2
  <2> DEFINE h == [i \in 1..(l + 1) |-> IF i = 1 THEN ss[i] ELSE f[i-1] \o ss[i]]
  <2>2. \A i \in 1..l : h[i] = f[i]
    BY <2>1, FlatUnfolds
  <2>3. \A i \in 1..(l + 1) : h[i] = IF i = 1 THEN ss[i] ELSE h[i-1] \o ss[i]
    <3> SUFFICES ASSUME NEW i \in 1..(l + 1)
                 PROVE  h[i] = IF i = 1 THEN ss[i] ELSE h[i-1] \o ss[i]
      OBVIOUS
    <3>1. i # 1 => h[i-1] = f[i-1]
      <4>1. i # 1 => i - 1 \in 1..l
        OBVIOUS
      <4> HIDE DEF h
      <4> QED
        BY <2>2, <4>1
    <3> QED
      BY <3>1
  <2>4. IsFlat(h, ss, l + 1)
    <3>1. h = [i \in 1..(l + 1) |-> h[i]]
      OBVIOUS
    <3> HIDE DEF h
    <3> QED
      BY <2>3, <3>1, FlatUnfolds
  <2> HIDE DEF h
  <2> QED
    BY <2>4
<1> HIDE DEF Ms
<1>3. Nat \subseteq Ms
  BY <1>1, <1>2, Induction
<1> QED
  BY <1>3 DEF Ms

LEMMA FlattenIs ==
  ASSUME NEW ss, Len(ss) \in Nat, Len(ss) # 0
  PROVE  \E f : IsFlat(f, ss, Len(ss)) /\ FlattenSeq(ss) = f[Len(ss)]
<1> DEFINE f == CHOOSE f : IsFlat(f, ss, Len(ss))
<1>1. IsFlat(f, ss, Len(ss))
  BY FlatExists
<1>2. FlattenSeq(ss) = f[Len(ss)]
  BY Zenon DEF FlattenSeq, IsFlat
<1> HIDE DEF f
<1> QED
  BY <1>1, <1>2

\* Flattening keeps the elements, and their order.
LEMMA FlattenKeeps ==
  ASSUME NEW X, NEW ss \in Seq(Seq(X))
  PROVE  /\ FlattenSeq(ss) \in Seq(X)
         /\ \A x : x \in Range(FlattenSeq(ss)) <=> \E i \in DOMAIN ss : x \in Range(ss[i])
         /\ InOrder(ss) => Sorted(FlattenSeq(ss))
<1> DEFINE n == Len(ss)
<1>1. n \in Nat /\ DOMAIN ss = 1..n /\ \A i \in 1..n : ss[i] \in Seq(X)
  OBVIOUS
<1>2. CASE n = 0
  <2>1. FlattenSeq(ss) = <<>> /\ DOMAIN ss = {}
    BY <1>1, <1>2 DEF FlattenSeq
  <2> QED
    BY <2>1 DEF Range, Sorted
<1>3. CASE n # 0
  <2>1. PICK f : IsFlat(f, ss, n) /\ FlattenSeq(ss) = f[n]
    BY <1>1, <1>3, FlattenIs
  <2>2. f[1] = ss[1] /\ \A i \in 1..(n - 1) : f[i + 1] = f[i] \o ss[i + 1]
    <3> HIDE DEF n
    <3>1. \A i \in 1..n : f[i] = IF i = 1 THEN ss[i] ELSE f[i-1] \o ss[i]
      BY <2>1, FlatUnfolds
    <3>2. f[1] = ss[1]
      BY <1>1, <1>3, <3>1
    <3>3. ASSUME NEW i \in 1..(n - 1) PROVE f[i + 1] = f[i] \o ss[i + 1]
      <4>1. i + 1 \in 1..n /\ i + 1 # 1 /\ (i + 1) - 1 = i
        BY <1>1
      <4> QED
        BY <3>1, <4>1
    <3> QED
      BY <3>2, <3>3
  <2> HIDE DEF n
  <2> DEFINE Good(m) == /\ f[m] \in Seq(X)
                        /\ \A x : x \in Range(f[m]) <=> \E i \in 1..m : x \in Range(ss[i])
                        /\ InOrder(ss) => Sorted(f[m])
             Ms == {m \in Nat : m + 1 <= n => Good(m + 1)}
  <2>3. 0 \in Ms
    <3>1. Good(1)
      BY <1>1, <1>3, <2>2 DEF InOrder
    <3> QED
      BY <3>1
  <2>4. ASSUME NEW m \in Nat, m \in Ms PROVE m + 1 \in Ms
    <3> SUFFICES ASSUME m + 2 <= n PROVE Good(m + 2)
      OBVIOUS
    <3>1. Good(m + 1)
      BY <1>1, <2>4
    <3>2. f[m + 2] = f[m + 1] \o ss[m + 2] /\ ss[m + 2] \in Seq(X)
      <4>1. m + 1 \in 1..(n - 1) /\ (m + 1) + 1 = m + 2 /\ m + 2 \in 1..n
        BY <1>1
      <4>2. f[(m + 1) + 1] = f[m + 1] \o ss[(m + 1) + 1]
        BY <2>2, <4>1
      <4> QED
        BY <1>1, <4>1, <4>2
    <3>3. f[m + 2] \in Seq(X)
      BY <3>1, <3>2
    <3>4. Range(f[m + 2]) = Range(f[m + 1]) \cup Range(ss[m + 2])
      BY <3>1, <3>2, RangeConcatenation
    <3>5. \A x : x \in Range(f[m + 2]) <=> \E i \in 1..(m + 2) : x \in Range(ss[i])
      <4>1. 1..(m + 2) = 1..(m + 1) \cup {m + 2}
        OBVIOUS
      <4>2. \A x : x \in Range(f[m + 1]) <=> \E i \in 1..(m + 1) : x \in Range(ss[i])
        BY <3>1
      <4> HIDE DEF Good
      <4> QED
        BY <3>4, <4>1, <4>2
    <3>6. InOrder(ss) =>
            \A a \in DOMAIN f[m + 1] : \A b \in DOMAIN ss[m + 2] :
              Before(f[m + 1][a], ss[m + 2][b])
      <4> SUFFICES ASSUME InOrder(ss), NEW a \in DOMAIN f[m + 1], NEW b \in DOMAIN ss[m + 2]
                   PROVE  Before(f[m + 1][a], ss[m + 2][b])
        OBVIOUS
      <4>1. f[m + 1][a] \in Range(f[m + 1])
        BY DEF Range
      <4>2. PICK i \in 1..(m + 1) : f[m + 1][a] \in Range(ss[i])
        BY <3>1, <4>1
      <4>3. PICK c \in DOMAIN ss[i] : f[m + 1][a] = ss[i][c]
        BY <4>2 DEF Range
      <4>4. i \in DOMAIN ss /\ m + 2 \in DOMAIN ss /\ i < m + 2
        BY <1>1
      <4> QED
        BY <4>3, <4>4 DEF InOrder
    <3>7. InOrder(ss) => Sorted(f[m + 2])
      <4> SUFFICES ASSUME InOrder(ss) PROVE Sorted(f[m + 2])
        OBVIOUS
      <4>1. f[m + 1] \in Seq(X) /\ Sorted(f[m + 1]) /\ Sorted(ss[m + 2])
        BY <1>1, <3>1 DEF InOrder
      <4> HIDE DEF Good
      <4> QED
        BY <3>2, <3>6, <4>1, SortedConcat
    <3> QED
      BY <3>3, <3>5, <3>7
  <2> HIDE DEF Ms, Good
  <2>5. Nat \subseteq Ms
    BY <2>3, <2>4, Induction
  <2>6. n - 1 \in Ms /\ (n - 1) + 1 <= n /\ (n - 1) + 1 = n
    BY <1>1, <1>3, <2>5
  <2>7. Good(n)
    BY <2>6 DEF Ms
  <2> QED
    BY <1>1, <2>1, <2>7 DEF Good
<1> QED
  BY <1>2, <1>3

-----------------------------------------------------------------------------
(***************************************************************************)
(* Combinations, by induction on the number of indices to come             *)
(***************************************************************************)

Increasing(s) == \A i, j \in DOMAIN s : i < j => s[i] < s[j]

\* The increasing sequences of r numbers in from..n.
RisingSeqs(r, from, n) == {s \in Seq(from..n) : Len(s) = r /\ Increasing(s)}

\* All of them, each once, in order.
Exact(all, r, from, n) ==
  /\ all \in Seq(RisingSeqs(r, from, n))
  /\ \A T \in kSubset(r, from..n) : \E i \in DOMAIN all : Range(all[i]) = T
  /\ Sorted(all)

\* The sequences of all, with x in front of each.
Extended(x, all) == [t \in DOMAIN all |-> <<x>> \o all[t]]

LEMMA Retyped ==
  ASSUME NEW X, NEW Y, NEW s \in Seq(X), \A i \in DOMAIN s : s[i] \in Y
  PROVE  s \in Seq(Y)
<1>1. Len(s) \in Nat /\ s \in [1..Len(s) -> X] /\ DOMAIN s = 1..Len(s)
  OBVIOUS
<1>2. s \in [1..Len(s) -> Y]
  BY <1>1
<1> QED
  BY <1>1, <1>2, SeqDef

LEMMA InFront ==
  ASSUME NEW x \in Nat, NEW s \in Seq(Nat)
  PROVE  /\ <<x>> \o s \in Seq(Nat)
         /\ Len(<<x>> \o s) = Len(s) + 1 /\ Len(s) \in Nat
         /\ DOMAIN (<<x>> \o s) = 1..(Len(s) + 1) /\ DOMAIN s = 1..Len(s)
         /\ (<<x>> \o s)[1] = x
         /\ \A i \in 1..Len(s) : (<<x>> \o s)[i + 1] = s[i]
         /\ Range(<<x>> \o s) = {x} \cup Range(s)
<1>1. <<x>> \in Seq(Nat) /\ Len(<<x>>) = 1 /\ <<x>>[1] = x /\ Range(<<x>>) = {x}
  BY DEF Range
<1>2. Range(<<x>> \o s) = {x} \cup Range(s)
  <2> DEFINE w == <<x>>
  <2>1. w \in Seq(Nat) /\ Range(w) = {x}
    BY <1>1
  <2> HIDE DEF w
  <2>2. Range(w \o s) = Range(w) \cup Range(s)
    BY <2>1, RangeConcatenation
  <2> QED
    BY <2>1, <2>2 DEF w
<1>3. /\ <<x>> \o s \in Seq(Nat) /\ Len(<<x>> \o s) = 1 + Len(s)
      /\ \A i \in 1..(1 + Len(s)) : (<<x>> \o s)[i] = IF i <= 1 THEN <<x>>[i] ELSE s[i - 1]
  BY <1>1, ConcatProperties
<1> DEFINE u == <<x>> \o s
<1>4. u \in Seq(Nat) /\ Len(u) = Len(s) + 1 /\ Len(s) \in Nat
      /\ \A i \in 1..(1 + Len(s)) : u[i] = IF i <= 1 THEN x ELSE s[i - 1]
  BY <1>1, <1>3
<1> HIDE DEF u
<1>5. DOMAIN u = 1..(Len(s) + 1) /\ DOMAIN s = 1..Len(s) /\ u[1] = x
      /\ \A i \in 1..Len(s) : u[i + 1] = s[i]
  BY <1>4
<1> QED
  BY <1>2, <1>4, <1>5 DEF u

LEMMA RangeOfChoice ==
  ASSUME NEW r \in Nat, NEW from \in Nat, NEW n \in Nat, NEW s \in RisingSeqs(r, from, n)
  PROVE  /\ s \in Seq(from..n) /\ Len(s) = r /\ IsInjective(s)
         /\ Range(s) \in kSubset(r, from..n)
<1>1. /\ s \in Seq(from..n) /\ Len(s) = r /\ DOMAIN s = 1..r
      /\ \A i, j \in DOMAIN s : i < j => s[i] < s[j]
  BY DEF RisingSeqs, Increasing
<1>2. \A i \in DOMAIN s : s[i] \in Nat
  BY <1>1
<1>3. IsInjective(s)
  BY <1>1, <1>2 DEF IsInjective
<1>4. Range(s) \subseteq from..n
  BY <1>1 DEF Range
<1>5. s \in Bijection(1..r, Range(s))
  BY <1>1, <1>3 DEF Bijection, Injection, Surjection, IsInjective, Range
<1>6. IsFiniteSet(1..r) /\ Cardinality(1..r) = r
  BY FS_Interval
<1>7. Cardinality(Range(s)) = r
  BY <1>5, <1>6, FS_Bijection DEF ExistsBijection
<1> QED
  BY <1>1, <1>3, <1>4, <1>7 DEF kSubset

LEMMA ChoiceInFront ==
  ASSUME NEW r \in Nat, NEW from \in Nat, NEW n \in Nat, NEW x \in from..n,
         NEW s \in RisingSeqs(r, x + 1, n)
  PROVE  <<x>> \o s \in RisingSeqs(r + 1, from, n)
<1>0. x \in Nat
  OBVIOUS
<1>1. /\ s \in Seq((x + 1)..n) /\ Len(s) = r /\ DOMAIN s = 1..r
      /\ \A i, j \in DOMAIN s : i < j => s[i] < s[j]
  BY DEF RisingSeqs, Increasing
<1>2. /\ s \in Seq(Nat)
      /\ \A i \in 1..r : s[i] \in (x + 1)..n
  BY <1>0, <1>1, SeqMonotonic
<1> DEFINE u == <<x>> \o s
<1>3. u \in Seq(Nat) /\ Len(u) = r + 1 /\ DOMAIN u = 1..(r + 1) /\ u[1] = x
      /\ \A i \in 1..r : u[i + 1] = s[i]
  BY <1>0, <1>1, <1>2, InFront
<1> HIDE DEF u
<1>4. \A i \in 1..(r + 1) : i # 1 => i - 1 \in 1..r /\ u[i] = s[i - 1] /\ s[i - 1] \in (x + 1)..n
  <2> SUFFICES ASSUME NEW i \in 1..(r + 1), i # 1
               PROVE  i - 1 \in 1..r /\ u[i] = s[i - 1] /\ s[i - 1] \in (x + 1)..n
    OBVIOUS
  <2>1. i - 1 \in 1..r /\ (i - 1) + 1 = i
    OBVIOUS
  <2> QED
    BY <1>2, <1>3, <2>1
<1>5. \A i \in DOMAIN u : u[i] \in from..n
  <2> SUFFICES ASSUME NEW i \in DOMAIN u PROVE u[i] \in from..n
    OBVIOUS
  <2>1. i \in 1..(r + 1)
    BY <1>3
  <2>2. CASE i = 1
    BY <1>3, <2>2
  <2>3. CASE i # 1
    BY <1>0, <1>4, <2>1, <2>3
  <2> QED
    BY <2>2, <2>3
<1>6. u \in Seq(from..n)
  BY <1>3, <1>5, Retyped
<1>7. ASSUME NEW i \in DOMAIN u, NEW j \in DOMAIN u, i < j PROVE u[i] < u[j]
  <2>1. j # 1 /\ i \in 1..(r + 1) /\ j \in 1..(r + 1)
    BY <1>3, <1>7
  <2>2. CASE i = 1
    BY <1>0, <1>3, <1>4, <2>1, <2>2
  <2>3. CASE i # 1
    <3>1. /\ i - 1 \in DOMAIN s /\ j - 1 \in DOMAIN s
          /\ u[i] = s[i - 1] /\ u[j] = s[j - 1]
      BY <1>1, <1>4, <2>1, <2>3
    <3>2. i - 1 < j - 1
      BY <1>7, <2>1
    <3> QED
      BY <1>1, <3>1, <3>2
  <2> QED
    BY <2>2, <2>3
<1> QED
  BY <1>3, <1>6, <1>7 DEF RisingSeqs, Increasing, u

LEMMA BeforeInFront ==
  ASSUME NEW x \in Nat, NEW y \in Nat, NEW s \in Seq(Nat), NEW t \in Seq(Nat),
         \/ x < y
         \/ x = y /\ Len(s) = Len(t) /\ Before(s, t)
  PROVE  Before(<<x>> \o s, <<y>> \o t)
<1> DEFINE u == <<x>> \o s
           v == <<y>> \o t
<1>1. Len(s) \in Nat /\ DOMAIN s = 1..Len(s) /\ DOMAIN u = 1..(Len(s) + 1) /\ u[1] = x
      /\ \A i \in 1..Len(s) : u[i + 1] = s[i]
  BY InFront
<1>2. v[1] = y /\ \A i \in 1..Len(t) : v[i + 1] = t[i]
  BY InFront
<1> HIDE DEF u, v
<1>3. CASE x < y
  <2>1. 1 \in DOMAIN u /\ u[1] < v[1] /\ \A j \in 1..(1 - 1) : u[j] = v[j]
    BY <1>1, <1>2, <1>3
  <2> QED
    BY <2>1 DEF Before, u, v
<1>4. CASE x = y /\ Len(s) = Len(t) /\ Before(s, t)
  <2>1. PICK k \in DOMAIN s : s[k] < t[k] /\ \A j \in 1..(k - 1) : s[j] = t[j]
    BY <1>4 DEF Before
  <2>2. k + 1 \in DOMAIN u /\ u[k + 1] < v[k + 1]
    BY <1>1, <1>2, <1>4, <2>1
  <2>3. ASSUME NEW j \in 1..((k + 1) - 1) PROVE u[j] = v[j]
    <3>1. CASE j = 1
      BY <1>1, <1>2, <1>4, <3>1
    <3>2. CASE j # 1
      <4>1. j - 1 \in 1..(k - 1) /\ j - 1 \in 1..Len(s) /\ (j - 1) + 1 = j
        BY <1>1, <2>1, <3>2
      <4> QED
        BY <1>1, <1>2, <1>4, <2>1, <4>1
    <3> QED
      BY <3>1, <3>2
  <2> QED
    BY <2>2, <2>3 DEF Before, u, v
<1> QED
  BY <1>3, <1>4

LEMMA NoRisingSeqs ==
  ASSUME NEW from \in Nat, NEW n \in Nat
  PROVE  Exact(<< <<>> >>, 0, from, n)
<1> DEFINE all == << <<>> >>
<1>1. Len(all) = 1 /\ all[1] = <<>> /\ DOMAIN all = {1}
  OBVIOUS
<1>2. <<>> \in RisingSeqs(0, from, n)
  BY DEF RisingSeqs, Increasing
<1>3. all \in Seq(RisingSeqs(0, from, n))
  BY <1>2
<1>4. ASSUME NEW T \in kSubset(0, from..n) PROVE T = {}
  <2>1. T \in SUBSET (from..n) /\ Cardinality(T) = 0
    BY DEF kSubset
  <2>2. IsFiniteSet(from..n)
    BY FS_Interval
  <2>3. IsFiniteSet(T)
    BY <2>1, <2>2, FS_Subset
  <2> QED
    BY <2>1, <2>3, FS_EmptySet
<1>5. Range(<<>>) = {}
  BY DEF Range
<1> HIDE DEF all
<1>6. Sorted(all)
  BY <1>1 DEF Sorted
<1> QED
  BY <1>1, <1>3, <1>4, <1>5, <1>6 DEF Exact, all

LEMMA SeqTyped ==
  ASSUME NEW X, NEW l \in Int, NEW f, f = [j \in 1..l |-> f[j]], \A j \in 1..l : f[j] \in X
  PROVE  f \in Seq(X) /\ DOMAIN f = 1..l
<1> DEFINE m == IF l < 0 THEN 0 ELSE l
<1>1. m \in Nat /\ 1..l = 1..m
  OBVIOUS
<1> HIDE DEF m
<1>2. f \in [1..m -> X]
  BY <1>1
<1> QED
  BY <1>1, <1>2, SeqDef

LEMMA ExtendedIs ==
  ASSUME NEW r \in Nat, NEW from \in Nat, NEW n \in Nat, NEW x \in from..n,
         NEW all, Exact(all, r, x + 1, n)
  PROVE  /\ Extended(x, all) \in Seq(RisingSeqs(r + 1, from, n))
         /\ DOMAIN Extended(x, all) = DOMAIN all
         /\ \A t \in DOMAIN all : /\ Extended(x, all)[t] = <<x>> \o all[t]
                                  /\ all[t] \in Seq(Nat)
         /\ Sorted(Extended(x, all))
<1> DEFINE e == Extended(x, all)
<1>0. x \in Nat
  OBVIOUS
<1>1. /\ all \in Seq(RisingSeqs(r, x + 1, n)) /\ Len(all) \in Nat /\ DOMAIN all = 1..Len(all)
      /\ \A i, j \in DOMAIN all : i < j => Before(all[i], all[j])
  BY DEF Exact, Sorted
<1>2. \A t \in DOMAIN all : /\ all[t] \in RisingSeqs(r, x + 1, n)
                            /\ all[t] \in Seq(Nat) /\ Len(all[t]) = r
  <2> SUFFICES ASSUME NEW t \in DOMAIN all
               PROVE  /\ all[t] \in RisingSeqs(r, x + 1, n)
                      /\ all[t] \in Seq(Nat) /\ Len(all[t]) = r
    OBVIOUS
  <2>1. all[t] \in RisingSeqs(r, x + 1, n)
    BY <1>1
  <2>2. all[t] \in Seq((x + 1)..n) /\ Len(all[t]) = r
    BY <2>1 DEF RisingSeqs
  <2>3. (x + 1)..n \subseteq Nat
    BY <1>0
  <2> QED
    BY <2>1, <2>2, <2>3, SeqMonotonic
<1>3. e = [t \in DOMAIN all |-> <<x>> \o all[t]]
  BY DEF Extended
<1> HIDE DEF e
<1>4. DOMAIN e = DOMAIN all /\ \A t \in DOMAIN all : e[t] = <<x>> \o all[t]
  BY <1>3
<1>5. \A t \in DOMAIN all : e[t] \in RisingSeqs(r + 1, from, n)
  BY <1>2, <1>4, ChoiceInFront
<1>6. e \in Seq(RisingSeqs(r + 1, from, n))
  <2>1. e = [t \in 1..Len(all) |-> e[t]]
    BY <1>1, <1>3
  <2> QED
    BY <1>1, <1>5, <2>1, SeqTyped
<1>7. Sorted(e)
  <2> SUFFICES ASSUME NEW i \in DOMAIN all, NEW j \in DOMAIN all, i < j
               PROVE  Before(e[i], e[j])
    BY <1>4 DEF Sorted
  <2>1. Before(all[i], all[j])
    BY <1>1
  <2> QED
    BY <1>0, <1>2, <1>4, <2>1, BeforeInFront
<1> QED
  BY <1>2, <1>4, <1>6, <1>7 DEF e

\* The least index of a subset comes early enough for the others to follow.
LEMMA LeastFirst ==
  ASSUME NEW r \in Nat, NEW from \in Nat, NEW n \in Nat, NEW T \in kSubset(r + 1, from..n)
  PROVE  \E x \in T : x \in from..(n - r) /\ T \ {x} \in kSubset(r, (x + 1)..n)
<1>1. T \subseteq from..n /\ Cardinality(T) = r + 1
  BY DEF kSubset
<1>2. IsFiniteSet(from..n)
  BY FS_Interval
<1>3. IsFiniteSet(T)
  BY <1>1, <1>2, FS_Subset
<1>4. T \subseteq Nat /\ T # {}
  <2>1. from..n \subseteq Nat
    OBVIOUS
  <2>2. Cardinality(T) # 0
    BY <1>1
  <2> QED
    BY <1>1, <2>1, <2>2, FS_EmptySet
<1>5. PICK x \in T : \A y \in T : x <= y
  BY <1>4, Least
<1>6. x \in Nat /\ from <= x /\ x <= n
  BY <1>1, <1>5
<1>7. Cardinality(x..n) = n - x + 1 /\ IsFiniteSet(x..n)
  BY <1>6, FS_Interval
<1>8. T \in SUBSET (x..n)
  BY <1>1, <1>4, <1>5, <1>6
<1>9. r + 1 <= n - x + 1
  <2>1. Cardinality(T) <= Cardinality(x..n)
    BY <1>7, <1>8, FS_Subset
  <2> QED
    BY <1>1, <1>7, <2>1
<1>10. Cardinality(T \ {x}) = r
  <2>1. Cardinality(T \ {x}) = Cardinality(T) - 1
    BY <1>3, <1>5, FS_RemoveElement
  <2> QED
    BY <1>1, <2>1
<1>11. T \ {x} \subseteq (x + 1)..n
  <2> SUFFICES ASSUME NEW y \in T, y # x PROVE y \in (x + 1)..n
    OBVIOUS
  <2>1. y \in Nat /\ x <= y /\ y <= n
    BY <1>1, <1>4, <1>5
  <2> QED
    BY <1>6, <2>1
<1> QED
  BY <1>5, <1>6, <1>9, <1>10, <1>11 DEF kSubset

\* One step of combinationIndices: every next index, before the combinations of
\* the indices after it.
Following(n, r, from, next) ==
  [j \in 1..(n - (r + 1) - from + 2) |-> Extended(from + j - 1, next[from + j])]

LEMMA FollowingExact ==
  ASSUME NEW r \in Nat, NEW n \in Nat, NEW from \in 1..(n + 1), NEW next,
         \A f \in 1..(n + 1) : Exact(next[f], r, f, n)
  PROVE  Exact(FlattenSeq(Following(n, r, from, next)), r + 1, from, n)
<1> DEFINE l == n - (r + 1) - from + 2
           ss == Following(n, r, from, next)
           C == RisingSeqs(r + 1, from, n)
<1>0. from \in Nat /\ l \in Int
  OBVIOUS
<1>1. ss = [j \in 1..l |-> ss[j]]
      /\ \A j \in 1..l : ss[j] = Extended(from + j - 1, next[from + j])
  BY DEF Following
<1>2. \A j \in 1..l : /\ from + j - 1 \in from..(n - r) /\ from + j - 1 \in from..n
                      /\ from + j \in 1..(n + 1) /\ from + j = (from + j - 1) + 1
  BY <1>0
<1> HIDE DEF ss, C
<1>3. ASSUME NEW j \in 1..l
      PROVE  /\ ss[j] \in Seq(C) /\ DOMAIN ss[j] = DOMAIN next[from + j]
             /\ \A t \in DOMAIN next[from + j] :
                  /\ ss[j][t] = <<from + j - 1>> \o next[from + j][t]
                  /\ next[from + j][t] \in Seq(Nat)
             /\ Sorted(ss[j])
  <2> DEFINE x == from + j - 1
             all == next[from + j]
  <2>1. x \in from..n /\ Exact(all, r, x + 1, n) /\ ss[j] = Extended(x, all)
    BY <1>1, <1>2
  <2> HIDE DEF x, all, l
  <2>2. /\ Extended(x, all) \in Seq(C)
        /\ DOMAIN Extended(x, all) = DOMAIN all
        /\ \A t \in DOMAIN all : /\ Extended(x, all)[t] = <<x>> \o all[t]
                                 /\ all[t] \in Seq(Nat)
        /\ Sorted(Extended(x, all))
    BY <1>0, <2>1, ExtendedIs DEF C
  <2> QED
    BY <2>1, <2>2 DEF x, all
<1>4. ss \in Seq(Seq(C)) /\ DOMAIN ss = 1..l
  <2> HIDE DEF l
  <2> QED
    BY <1>0, <1>1, <1>3, SeqTyped
<1>5. InOrder(ss)
  <2> SUFFICES ASSUME NEW i \in 1..l, NEW j \in 1..l, i < j,
                      NEW a \in DOMAIN ss[i], NEW b \in DOMAIN ss[j]
               PROVE  Before(ss[i][a], ss[j][b])
    BY <1>3, <1>4 DEF InOrder
  <2> DEFINE s == next[from + i][a]
             t == next[from + j][b]
             x == from + i - 1
             y == from + j - 1
  <2>1. ss[i][a] = <<x>> \o s /\ s \in Seq(Nat)
    BY <1>3
  <2>2. ss[j][b] = <<y>> \o t /\ t \in Seq(Nat)
    BY <1>3
  <2>3. x \in Nat /\ y \in Nat /\ x < y
    BY <1>0
  <2> HIDE DEF s, t, x, y, l
  <2> QED
    BY <2>1, <2>2, <2>3, BeforeInFront
<1>6. /\ FlattenSeq(ss) \in Seq(C) /\ Sorted(FlattenSeq(ss))
      /\ \A z : z \in Range(FlattenSeq(ss)) <=> \E i \in DOMAIN ss : z \in Range(ss[i])
  BY <1>4, <1>5, FlattenKeeps
<1>7. ASSUME NEW T \in kSubset(r + 1, from..n)
      PROVE  \E i \in DOMAIN FlattenSeq(ss) : Range(FlattenSeq(ss)[i]) = T
  <2>1. PICK x \in T : x \in from..(n - r) /\ T \ {x} \in kSubset(r, (x + 1)..n)
    BY <1>0, LeastFirst
  <2> DEFINE j == x - from + 1
  <2>2. j \in 1..l /\ from + j = x + 1 /\ from + j - 1 = x /\ x + 1 \in 1..(n + 1) /\ x \in Nat
    BY <1>0, <2>1
  <2> HIDE DEF j, l
  <2>3. PICK t \in DOMAIN next[x + 1] : Range(next[x + 1][t]) = T \ {x}
    BY <2>1, <2>2 DEF Exact
  <2>4. t \in DOMAIN ss[j] /\ ss[j][t] = <<x>> \o next[x + 1][t] /\ next[x + 1][t] \in Seq(Nat)
    <3>1. t \in DOMAIN next[from + j]
      BY <2>2, <2>3
    <3>2. /\ t \in DOMAIN ss[j] /\ ss[j][t] = <<from + j - 1>> \o next[from + j][t]
          /\ next[from + j][t] \in Seq(Nat)
      BY <1>3, <2>2, <3>1
    <3> QED
      BY <2>2, <3>2
  <2>5. Range(ss[j][t]) = T
    <3>1. Range(<<x>> \o next[x + 1][t]) = {x} \cup Range(next[x + 1][t])
      BY <2>2, <2>4, InFront
    <3> QED
      BY <2>1, <2>3, <2>4, <3>1
  <2>6. ss[j][t] \in Range(ss[j])
    BY <2>4 DEF Range
  <2>7. ss[j][t] \in Range(FlattenSeq(ss))
    BY <1>4, <1>6, <2>2, <2>6
  <2> QED
    BY <2>5, <2>7 DEF Range
<1> QED
  BY <1>6, <1>7 DEF Exact, C, ss

\* build of Combinations, as far as depth is in D.
Row(n, k, depth, next) ==
  [from \in 1..n+1 |->
     IF depth = k THEN << <<>> >>
     ELSE FlattenSeq([j \in 1..(n - (k - depth) - from + 2) |->
            Extended(from + j - 1, next[from + j])])]

IsBuild(b, n, k, D) == b = [depth \in D |-> Row(n, k, depth, b[depth + 1])]

LEMMA BuildUnfolds ==
  ASSUME NEW n, NEW k, NEW D, NEW b
  PROVE  IsBuild(b, n, k, D) <=>
           /\ b = [depth \in D |-> b[depth]]
           /\ \A depth \in D : b[depth] = Row(n, k, depth, b[depth + 1])
<1> DEFINE g == [depth \in D |-> Row(n, k, depth, b[depth + 1])]
<1>1. IsBuild(b, n, k, D) <=> b = g
  BY DEF IsBuild
<1>2. /\ g = [depth \in D |-> g[depth]]
      /\ \A depth \in D : g[depth] = Row(n, k, depth, b[depth + 1])
  OBVIOUS
<1> HIDE DEF g
<1> QED
  BY <1>1, <1>2

LEMMA BuildExists ==
  ASSUME NEW n \in Nat, NEW k \in Nat
  PROVE  \E b : IsBuild(b, n, k, 0..k)
<1> DEFINE D(m) == {depth \in 0..k : k - depth < m}
           Ms == {m \in Nat : \E b : IsBuild(b, n, k, D(m))}
<1>1. 0 \in Ms
  <2>1. D(0) = {}
    OBVIOUS
  <2>2. IsBuild([depth \in {} |-> {}], n, k, {})
    BY DEF IsBuild
  <2> QED
    BY <2>1, <2>2
<1>2. ASSUME NEW m \in Nat, m \in Ms PROVE m + 1 \in Ms
  <2>1. PICK b : IsBuild(b, n, k, D(m))
    BY <1>2
  <2> DEFINE h == [depth \in D(m + 1) |-> Row(n, k, depth, b[depth + 1])]
  <2>2. \A depth \in D(m) : depth \in D(m + 1) /\ b[depth] = Row(n, k, depth, b[depth + 1])
    <3>1. \A depth \in D(m) : depth \in D(m + 1)
      OBVIOUS
    <3> HIDE DEF D
    <3> QED
      BY <2>1, <3>1, BuildUnfolds
  <2>3. \A depth \in D(m + 1) : depth = k \/ depth + 1 \in D(m)
    OBVIOUS
  <2>4. \A depth \in D(m + 1) : h[depth] = Row(n, k, depth, b[depth + 1])
    OBVIOUS
  <2>5. h = [depth \in D(m + 1) |-> h[depth]]
    OBVIOUS
  <2> HIDE DEF h, D
  <2>6. \A depth \in D(m + 1) : Row(n, k, depth, b[depth + 1]) = Row(n, k, depth, h[depth + 1])
    <3>1. Row(n, k, k, b[k + 1]) = Row(n, k, k, h[k + 1])
      BY DEF Row
    <3>2. \A depth \in D(m) : h[depth] = b[depth]
      BY <2>2, <2>4
    <3> QED
      BY <2>3, <3>1, <3>2
  <2>7. IsBuild(h, n, k, D(m + 1))
    BY <2>4, <2>5, <2>6, BuildUnfolds
  <2> QED
    BY <2>7
<1>3. k + 1 \in Ms
  <2> HIDE DEF Ms
  <2>1. Nat \subseteq Ms
    BY <1>1, <1>2, Induction
  <2> QED
    BY <2>1
<1>4. D(k + 1) = 0..k
  OBVIOUS
<1> QED
  BY <1>3, <1>4

LEMMA CombinationsAre ==
  ASSUME NEW n \in Nat, NEW k \in Nat
  PROVE  \E b : /\ IsBuild(b, n, k, 0..k)
                /\ Combinations(n, k) = IF k <= 0 \/ n < k THEN <<>> ELSE b[0][1]
<1> DEFINE b == CHOOSE b : IsBuild(b, n, k, 0..k)
<1>1. IsBuild(b, n, k, 0..k)
  BY BuildExists
<1>2. Combinations(n, k) = IF k <= 0 \/ n < k THEN <<>> ELSE b[0][1]
  BY Zenon DEF Combinations, IsBuild, Row, Extended
<1> HIDE DEF b
<1> QED
  BY <1>1, <1>2

\* combinationIndices returns the combinations, each once, in lexicographic order.
LEMMA CombinationsExactly ==
  ASSUME NEW n \in Nat, NEW k \in Nat, k > 0
  PROVE  Exact(Combinations(n, k), k, 1, n)
<1>1. PICK b : /\ IsBuild(b, n, k, 0..k)
               /\ Combinations(n, k) = IF k <= 0 \/ n < k THEN <<>> ELSE b[0][1]
  BY CombinationsAre
<1>2. \A depth \in 0..k : b[depth] = Row(n, k, depth, b[depth + 1])
  BY <1>1, BuildUnfolds
<1>3. CASE n < k
  <2>1. Combinations(n, k) = <<>>
    BY <1>1, <1>3
  <2>2. kSubset(k, 1..n) = {}
    <3> SUFFICES ASSUME NEW T \in kSubset(k, 1..n) PROVE FALSE
      OBVIOUS
    <3>1. T \in SUBSET (1..n) /\ Cardinality(T) = k
      BY DEF kSubset
    <3>2. IsFiniteSet(1..n) /\ Cardinality(1..n) = n
      BY FS_Interval
    <3>3. Cardinality(T) <= Cardinality(1..n)
      BY <3>1, <3>2, FS_Subset
    <3> QED
      BY <1>3, <3>1, <3>2, <3>3
  <2> QED
    BY <2>1, <2>2 DEF Exact, Sorted
<1>4. CASE n >= k
  <2> DEFINE Rs == {r \in Nat : r <= k =>
                      \A from \in 1..(n + 1) : Exact(b[k - r][from], r, from, n)}
  <2>1. 0 \in Rs
    <3>1. b[k] = Row(n, k, k, b[k + 1])
      BY <1>2
    <3>2. \A from \in 1..(n + 1) : b[k][from] = << <<>> >>
      BY <3>1 DEF Row
    <3>3. ASSUME NEW from \in 1..(n + 1) PROVE Exact(b[k][from], 0, from, n)
      <4>1. from \in Nat /\ b[k][from] = << <<>> >>
        BY <3>2
      <4> HIDE DEF Rs
      <4>2. Exact(<< <<>> >>, 0, from, n)
        BY <4>1, NoRisingSeqs
      <4> QED
        BY <4>1, <4>2
    <3>4. k - 0 = k
      OBVIOUS
    <3> QED
      BY <3>3, <3>4
  <2>2. ASSUME NEW r \in Nat, r \in Rs PROVE r + 1 \in Rs
    <3> SUFFICES ASSUME r + 1 <= k, NEW from \in 1..(n + 1)
                 PROVE  Exact(b[k - (r + 1)][from], r + 1, from, n)
      OBVIOUS
    <3> DEFINE depth == k - (r + 1)
               next == b[depth + 1]
    <3>1. depth \in 0..k /\ depth # k /\ depth + 1 = k - r /\ k - depth = r + 1
      OBVIOUS
    <3>2. b[depth] = Row(n, k, depth, next)
      BY <1>2, <3>1
    <3>3. \A f \in 1..(n + 1) : Exact(next[f], r, f, n)
      <4>1. r <= k
        OBVIOUS
      <4> QED
        BY <2>2, <3>1, <4>1
    <3> HIDE DEF depth, next, Rs
    <3>4. b[depth][from] = FlattenSeq(Following(n, r, from, next))
      BY <3>1, <3>2 DEF Row, Following
    <3> QED
      BY <3>3, <3>4, FollowingExact DEF depth
  <2> HIDE DEF Rs
  <2>3. Nat \subseteq Rs
    BY <2>1, <2>2, Induction
  <2>4. Exact(b[k - k][1], k, 1, n)
    BY <2>3 DEF Rs
  <2>5. k - k = 0
    OBVIOUS
  <2> QED
    BY <1>1, <1>4, <2>4, <2>5
<1> QED
  BY <1>3, <1>4

\* The first part of SubsetsExact, for all numbers of observations.
LEMMA AllCombinations ==
  ASSUME NEW n \in Nat, NEW k \in Nat, k > 0
  PROVE  LET all == Combinations(n, k)
         IN  /\ {Range(all[i]) : i \in DOMAIN all} = kSubset(k, 1..n)
             /\ \A i \in DOMAIN all : Len(all[i]) = k
             /\ \A i, j \in DOMAIN all : i < j => Before(all[i], all[j])
             /\ all \in Seq(Seq(1..n))
             /\ \A i \in DOMAIN all : IsInjective(all[i])
<1> DEFINE all == Combinations(n, k)
<1>1. Exact(all, k, 1, n)
  BY CombinationsExactly
<1> HIDE DEF all
<1>2. \A i \in DOMAIN all : all[i] \in RisingSeqs(k, 1, n)
  BY <1>1 DEF Exact
<1>3. \A i \in DOMAIN all : /\ all[i] \in Seq(1..n) /\ Len(all[i]) = k /\ IsInjective(all[i])
                            /\ Range(all[i]) \in kSubset(k, 1..n)
  BY <1>2, RangeOfChoice
<1>4. all \in Seq(Seq(1..n))
  BY <1>1, <1>3, Retyped DEF Exact
<1>5. {Range(all[i]) : i \in DOMAIN all} = kSubset(k, 1..n)
  BY <1>1, <1>3 DEF Exact
<1> QED
  BY <1>1, <1>3, <1>4, <1>5 DEF Exact, Sorted, all

-----------------------------------------------------------------------------
(***************************************************************************)
(* The sample of too many subsets                                          *)
(***************************************************************************)

LEMMA Divided ==
  ASSUME NEW x \in Nat, NEW d \in Nat, d > 0
  PROVE  /\ x \div d \in Nat /\ x % d \in 0..(d - 1)
         /\ x = (d * (x \div d)) + (x % d)
OBVIOUS

\* A quotient is the only one.
LEMMA Quotient ==
  ASSUME NEW d \in Nat, d > 0, NEW q \in Int, NEW r \in 0..(d - 1),
         NEW p \in Int, NEW s \in 0..(d - 1), d * q + r = d * p + s
  PROVE  q = p
<1>1. d * (q - p) = s - r
  BY SMT
<1>2. CASE q - p >= 1
  <2>1. d * (q - p) >= d * 1
    BY <1>2, SMT
  <2> QED
    BY <1>1, <2>1
<1>3. CASE p - q >= 1
  <2>1. d * (p - q) >= d * 1
    BY <1>3, SMT
  <2>2. d * (p - q) = r - s
    BY SMT
  <2> QED
    BY <2>1, <2>2
<1> QED
  BY <1>2, <1>3

LEMMA DividedBy ==
  ASSUME NEW x \in Nat, NEW d \in Nat, d > 0, NEW q \in Int, NEW r \in 0..(d - 1),
         x = d * q + r
  PROVE  x \div d = q
BY Divided, Quotient

LEMMA Rises ==
  ASSUME NEW d \in Nat, NEW x \in Nat, NEW y \in Nat, x <= y
  PROVE  d * x \in Nat /\ d * x <= d * y
<1>1. d * (y - x) >= 0 /\ d * x \in Nat
  BY SMT
<1>2. d * (y - x) = d * y - d * x
  BY SMT
<1> QED
  BY <1>1, <1>2

\* Two places in a sample are as far apart as they must be: x to x + 2 * a, in units
\* of 2 * b.
LEMMA Gap ==
  ASSUME NEW a \in Nat, NEW b \in Nat, b > 0, NEW x \in Nat
  PROVE  (x + 2 * a) \div (2 * b) - x \div (2 * b) \in {a \div b, (a + b - 1) \div b}
<1> DEFINE d == 2 * b
           p == x \div d
           s == x % d
           q == a \div b
           r == a % b
<1>1. d \in Nat /\ d > 0
  OBVIOUS
<1>2. p \in Nat /\ s \in 0..(d - 1) /\ x = (d * p) + s
  <2> HIDE DEF d
  <2> QED
    BY <1>1, Divided
<1>3. q \in Nat /\ r \in 0..(b - 1) /\ a = (b * q) + r
  BY Divided
<1>4. d = 2 * b
  OBVIOUS
<1> HIDE DEF d, p, s, q, r
<1>5. b * q \in Nat /\ d * p \in Nat /\ d * q = 2 * (b * q)
  BY <1>1, <1>2, <1>3, <1>4, SMT
<1>6. d * (p + q) = d * p + d * q /\ d * (p + q + 1) = d * p + d * q + d /\ b * (q + 1) = b * q + b
  BY <1>1, <1>2, <1>3, SMT
<1>7. CASE s + 2 * r < d
  <2>1. x + 2 * a = (d * (p + q)) + (s + 2 * r) /\ s + 2 * r \in 0..(d - 1)
    BY <1>1, <1>2, <1>3, <1>5, <1>6, <1>7
  <2>2. (x + 2 * a) \div d = p + q
    BY <1>1, <1>2, <1>3, <2>1, DividedBy
  <2> QED
    BY <1>2, <1>3, <2>2 DEF d, p, q
<1>8. CASE s + 2 * r >= d
  <2>1. x + 2 * a = (d * (p + q + 1)) + (s + 2 * r - d) /\ s + 2 * r - d \in 0..(d - 1)
    BY <1>1, <1>2, <1>3, <1>4, <1>5, <1>6, <1>8
  <2>2. (x + 2 * a) \div d = p + q + 1
    BY <1>1, <1>2, <1>3, <2>1, DividedBy
  <2>3. a + b - 1 = (b * (q + 1)) + (r - 1) /\ r - 1 \in 0..(b - 1)
    BY <1>1, <1>2, <1>3, <1>4, <1>5, <1>6, <1>8
  <2>4. (a + b - 1) \div b = q + 1
    BY <1>3, <2>3, DividedBy
  <2>5. (x + 2 * a) \div d - p = (a + b - 1) \div b
    BY <1>2, <1>3, <2>2, <2>4
  <2> QED
    BY <2>5 DEF d, p
<1> QED
  BY <1>1, <1>2, <1>3, <1>7, <1>8

Place(i, l, m) == 1 + ((2 * (i - 1) * (l - 1) + m - 1) \div (2 * (m - 1)))

LEMMA Placed ==
  ASSUME NEW l \in Nat, l >= 1, NEW m \in Nat, m >= 2
  PROVE  /\ \A i \in 1..m : Place(i, l, m) \in 1..l
         /\ Place(1, l, m) = 1
         /\ Place(m, l, m) = l
         /\ \A i \in 1..(m - 1) : Place(i + 1, l, m) - Place(i, l, m) \in
                {(l - 1) \div (m - 1), (l + m - 3) \div (m - 1)}
<1> DEFINE a == l - 1
           b == m - 1
           d == 2 * b
           X(i) == 2 * (i - 1) * a + m - 1
<1>1. a \in Nat /\ b \in Nat /\ b > 0 /\ d \in Nat /\ d > 0 /\ b < d /\ m = b + 1 /\ l = a + 1
  OBVIOUS
<1>2. \A i : Place(i, l, m) = 1 + (X(i) \div d)
  BY DEF Place
<1> HIDE DEF a
<1>3. ASSUME NEW i \in 1..m
      PROVE  2 * (i - 1) * a \in Nat /\ X(i) = 2 * (i - 1) * a + b
  <2> DEFINE e == 2 * (i - 1)
  <2>1. e \in Nat
    OBVIOUS
  <2> HIDE DEF e
  <2>2. e * a \in Nat
    BY <1>1, <2>1, SMT
  <2> QED
    BY <1>1, <2>2 DEF e
<1>4. ASSUME NEW i \in 1..m PROVE Place(i, l, m) \in 1..l
  <2> DEFINE x == X(i)
             q == x \div d
             e == 2 * (i - 1)
  <2>1. x \in Nat /\ x = e * a + b /\ e * a \in Nat
    BY <1>1, <1>3
  <2>2. e \in Nat /\ e <= d
    BY <1>1
  <2> HIDE DEF x, d, e, X
  <2>3. q \in Nat /\ x = (d * q) + (x % d) /\ x % d \in 0..(d - 1)
    BY <1>1, <2>1, Divided
  <2>4. a * e <= a * d /\ a * e = e * a /\ a * d = d * a /\ d * a \in Nat
    BY <1>1, <2>2, Rises
  <2>5. q <= a
    <3> SUFFICES ASSUME q >= a + 1 PROVE FALSE
      BY <1>1, <2>3
    <3> HIDE DEF q
    <3>1. d * (a + 1) <= d * q /\ d * q \in Nat
      BY <1>1, <2>3, Rises
    <3>2. d * (a + 1) = d * a + d
      BY <1>1, SMT
    <3> QED
      BY <1>1, <2>1, <2>3, <2>4, <3>1, <3>2
  <2> QED
    BY <1>1, <1>2, <2>3, <2>5 DEF x
<1>5. Place(1, l, m) = 1
  <2>1. X(1) = b
    <3>1. 2 * (1 - 1) * a = 0
      BY <1>1, SMT
    <3> QED
      BY <1>1, <3>1
  <2>2. b = (d * 0) + b /\ b \in 0..(d - 1)
    BY <1>1
  <2> HIDE DEF d, b, X
  <2>3. b \div d = 0
    BY <1>1, <2>2, DividedBy
  <2> QED
    BY <1>2, <2>1, <2>3
<1>6. Place(m, l, m) = l
  <2>1. X(m) = (d * a) + b /\ b \in 0..(d - 1) /\ d * a \in Nat
    <3>1. 2 * (m - 1) = d
      OBVIOUS
    <3>2. d * a \in Nat /\ X(m) = 2 * (m - 1) * a + b
      BY <1>1, <1>3
    <3> QED
      BY <1>1, <3>1, <3>2
  <2>2. (d * a) + b \in Nat
    BY <1>1, <2>1
  <2> HIDE DEF d, b, X
  <2>3. ((d * a) + b) \div d = a
    BY <1>1, <2>1, <2>2, DividedBy
  <2> QED
    BY <1>1, <1>2, <2>1, <2>3
<1>7. ASSUME NEW i \in 1..(m - 1)
      PROVE  Place(i + 1, l, m) - Place(i, l, m) \in
                {(l - 1) \div (m - 1), (l + m - 3) \div (m - 1)}
  <2> DEFINE x == X(i)
  <2>1. x \in Nat /\ X(i + 1) = x + 2 * a
    <3> DEFINE e == i - 1
    <3>1. e \in Nat /\ i \in 1..m /\ i + 1 \in 1..m /\ (i + 1) - 1 = e + 1
      OBVIOUS
    <3>2. X(i) = 2 * e * a + b /\ X(i + 1) = 2 * (e + 1) * a + b /\ 2 * e * a \in Nat
      BY <1>3, <3>1
    <3> HIDE DEF e, X
    <3>3. 2 * (e + 1) * a = 2 * e * a + 2 * a
      BY <1>1, <3>1, SMT
    <3> QED
      BY <1>1, <3>2, <3>3
  <2> HIDE DEF x
  <2>2. (x + 2 * a) \div (2 * b) - x \div (2 * b) \in {a \div b, (a + b - 1) \div b}
    BY <1>1, <2>1, Gap
  <2>3. a = l - 1 /\ a + b - 1 = l + m - 3
    BY <1>1
  <2>4. (x + 2 * a) \div d \in Int /\ x \div d \in Int
    BY <1>1, <2>1
  <2>5. Place(i + 1, l, m) - Place(i, l, m) = (x + 2 * a) \div d - x \div d
    BY <1>2, <2>1, <2>4 DEF x
  <2> QED
    BY <2>2, <2>3, <2>5
<1> QED
  BY <1>4, <1>5, <1>6, <1>7

\* The second part of SubsetsExact, for all numbers of subsets.
LEMMA SampledEvenly ==
  SampleEven
<1> SUFFICES ASSUME NEW m \in 2..MaxSelectionCombinations,
                    NEW n \in (m + 1)..(4 * MaxSelectionCombinations)
             PROVE  LET picked == Sampled(Sequential(n), m)
                    IN  /\ picked[1] = 1 /\ picked[m] = n
                        /\ \A i \in 1..m - 1 :
                             picked[i + 1] - picked[i] \in
                               {(n - 1) \div (m - 1), (n + m - 3) \div (m - 1)}
  BY DEF SampleEven
<1> DEFINE picked == Sampled(Sequential(n), m)
<1>1. n \in Nat /\ n >= 1 /\ m \in Nat /\ m >= 2
  BY SolverAssumption DEF SolverAssumption
<1>2. Len(Sequential(n)) = n /\ \A i \in 1..n : Sequential(n)[i] = i
  BY <1>1 DEF Sequential
<1>3. \A i \in 1..m : picked[i] = Sequential(n)[Place(i, n, m)]
  BY <1>2 DEF Sampled, Place
<1> HIDE DEF picked
<1>4. \A i \in 1..m : picked[i] = Place(i, n, m)
  BY <1>1, <1>2, <1>3, Placed
<1>5. 1 \in 1..m /\ m \in 1..m /\ \A i \in 1..m - 1 : i \in 1..m /\ i + 1 \in 1..m
  BY <1>1
<1>6. picked[1] = 1 /\ picked[m] = n
  BY <1>1, <1>4, <1>5, Placed
<1>7. ASSUME NEW i \in 1..m - 1
      PROVE  picked[i + 1] - picked[i] \in {(n - 1) \div (m - 1), (n + m - 3) \div (m - 1)}
  <2>1. picked[i + 1] = Place(i + 1, n, m) /\ picked[i] = Place(i, n, m)
    BY <1>4, <1>5
  <2> QED
    BY <1>1, <2>1, Placed
<1> QED
  BY <1>6, <1>7 DEF picked

\* The subsets from which selectBestSubset chooses.
LEMMA CandidateSubsetsTyped ==
  ASSUME SolverAssumption, NEW n \in Nat, NEW s \in Range(CandidateSubsets(n))
  PROVE  s \in Seq(1..n) /\ IsInjective(s)
<1> DEFINE largest == IF n < MaxSelectionSubsetSize THEN n ELSE MaxSelectionSubsetSize
           l == largest - MinSensors + 1
           ss == [i \in 1..l |-> Combinations(n, MinSensors + i - 1)]
           all == FlattenSeq(ss)
           m == MaxSelectionCombinations
           X == {t \in Seq(1..n) : IsInjective(t)}
<1>1. l \in Int /\ MinSensors \in Nat /\ MinSensors >= 2 /\ m \in Nat /\ m >= 2
  BY DEF SolverAssumption
<1>2. CandidateSubsets(n) = IF Len(all) <= m THEN all ELSE Sampled(all, m)
  BY DEF CandidateSubsets
<1> HIDE DEF l, m
<1>3. ASSUME NEW i \in 1..l PROVE ss[i] \in Seq(X)
  <2> DEFINE k == MinSensors + i - 1
             combinations == Combinations(n, k)
  <2>1. k \in Nat /\ k > 0 /\ ss[i] = combinations
    BY <1>1
  <2> HIDE DEF k, ss
  <2>2. /\ combinations \in Seq(Seq(1..n))
        /\ \A j \in DOMAIN combinations : IsInjective(combinations[j])
    BY <2>1, AllCombinations
  <2> HIDE DEF combinations
  <2>3. \A j \in DOMAIN combinations : combinations[j] \in X
    BY <2>2
  <2> HIDE DEF X
  <2>4. combinations \in Seq(X)
    BY <2>2, <2>3, Retyped
  <2> QED
    BY <2>1, <2>4
<1>4. all \in Seq(X)
  <2>1. ss = [i \in 1..l |-> ss[i]]
    OBVIOUS
  <2> HIDE DEF ss, X
  <2>2. ss \in Seq(Seq(X))
    BY <1>1, <1>3, <2>1, SeqTyped
  <2> QED
    BY <2>2, FlattenKeeps
<1> HIDE DEF all, X
<1>5. Len(all) \in Nat /\ DOMAIN all = 1..Len(all) /\ \A i \in DOMAIN all : all[i] \in X
  BY <1>4
<1>6. s \in X
  <2>1. CASE Len(all) <= m
    BY <1>2, <1>5, <2>1 DEF Range
  <2>2. CASE ~(Len(all) <= m)
    <3>1. s \in Range(Sampled(all, m))
      BY <1>2, <2>2
    <3>2. PICK i \in 1..m : s = all[Place(i, Len(all), m)]
      BY <3>1 DEF Range, Sampled, Place
    <3>3. Len(all) >= 1
      BY <1>1, <1>5, <2>2
    <3>4. Place(i, Len(all), m) \in 1..Len(all)
      BY <1>1, <1>5, <3>3, Placed
    <3> QED
      BY <1>5, <3>2, <3>4
  <2> QED
    BY <2>1, <2>2
<1> QED
  BY <1>6 DEF X

\* The subsets tried are all there are, each once and in order, and the sample of
\* too many is even, for any batch and any limits (solver.go:181-204, 525-545).
THEOREM SubsetsAreExact == Spec => []SubsetsExact
<1>1. ASSUME obs \in Batches PROVE SubsetsExact
  <2>1. Len(obs) \in Nat
    BY <1>1, SolverAssumption, BatchTyped
  <2>2. CombinationsExact
    <3> SUFFICES ASSUME NEW n \in 0..Len(obs) + 2, NEW k \in 1..Len(obs) + 2
                 PROVE  LET all == Combinations(n, k)
                        IN  /\ {Range(all[i]) : i \in DOMAIN all} = kSubset(k, 1..n)
                            /\ \A i \in DOMAIN all : Len(all[i]) = k
                            /\ \A i, j \in DOMAIN all : i < j => Before(all[i], all[j])
      BY DEF CombinationsExact
    <3>1. n \in Nat /\ k \in Nat /\ k > 0
      BY <2>1
    <3> QED
      BY <3>1, AllCombinations
  <2> QED
    BY <2>2, SampledEvenly DEF SubsetsExact
<1>2. Init => obs \in Batches
  BY DEF Init
<1>3. obs \in Batches /\ [Next]_vars => (obs \in Batches)'
  BY DEF Next, vars, roundVars, Reject, Accept, Fails, Call, Fitting, GiveUp, Refine, Compare,
         NoneFound, Select, Panic, Return, Unrealistic
<1> QED
  BY <1>1, <1>2, <1>3, PTL DEF Spec

-----------------------------------------------------------------------------
(***************************************************************************)
(* Selections and results                                                  *)
(***************************************************************************)

\* A candidate about observations of the batch, with their own residuals.
Named(c) ==
  /\ c.inliers \subseteq DOMAIN obs
  /\ Cardinality(c.inliers) >= MinSensors
  /\ \A i \in c.inliers : i <= Len(c.residuals) /\ c.residuals[i] = i

\* fitRobust works on the whole batch, or on a selection of it; what it found for
\* the whole batch waits in first.
Run ==
  /\ obs \in Batches
  /\ stage \in {"called", "fitting", "refining", "failed", "panicked", "returned"}
  /\ selected \in Seq(DOMAIN obs) /\ IsInjective(selected) /\ Len(selected) <= Len(obs)
  /\ subsets \in Seq(Seq(DOMAIN selected))
  /\ fit.stage # "idle" => subsets # <<>> /\ stage \in {"fitting", "refining"}
  /\ stage \notin {"called", "failed"} => IsInjective(obs)
  /\ stage \in {"fitting", "refining"} /\ first = {} => selected = Sequential(Len(obs))
  /\ first # {} => Len(obs) > MinSensors
  /\ stage = "panicked" => first # {}
  /\ best \subseteq Candidates
  /\ \A c \in first : Named(c)
  /\ ResultIsTrue

LEMMA SelectionTyped ==
  ASSUME SolverAssumption, obs \in Batches, NEW s \in Selections
  PROVE  s \in Seq(DOMAIN obs) /\ IsInjective(s) /\ Len(s) \in Nat
<1>1. Len(obs) \in Nat /\ DOMAIN obs = 1..Len(obs)
  BY BatchTyped
<1>2. CASE s = Sequential(Len(obs))
  BY <1>1, <1>2 DEF Sequential, IsInjective
<1>3. CASE s \in SelectionSubsets[Len(obs)]
  <2>1. s \in Range(CandidateSubsets(Len(obs)))
    BY <1>3 DEF SelectionSubsets
  <2>2. s \in Seq(1..Len(obs)) /\ IsInjective(s)
    BY <1>1, <2>1, CandidateSubsetsTyped
  <2> QED
    BY <1>1, <2>2
<1> QED
  BY <1>2, <1>3 DEF Selections

\* A candidate for the whole batch.
LEMMA WholeNamed ==
  ASSUME SolverAssumption, Run, selected = Sequential(Len(obs)), NEW c \in best
  PROVE  Named(c)
<1>1. Len(obs) \in Nat /\ DOMAIN obs = 1..Len(obs)
  BY BatchTyped DEF Run
<1>2. Len(selected) = Len(obs) /\ \A i \in 1..Len(obs) : selected[i] = i
  BY <1>1, SequentialTyped
<1>3. /\ c.inliers \subseteq 1..Len(obs) /\ Cardinality(c.inliers) >= MinSensors
      /\ c.residuals = selected
  BY <1>1, <1>2, CandidateTyped DEF Run
<1> QED
  BY <1>1, <1>2, <1>3 DEF Named

\* A candidate for a selection, lifted to the batch.
LEMMA LiftedNamed ==
  ASSUME SolverAssumption, Run, first # {}, ~LiftPanics, NEW c \in best
  PROVE  Named(Lifted(c))
<1> DEFINE inliers == {selected[i] : i \in c.inliers}
           Local(j) == {i \in c.inliers : selected[i] = j}
           residuals == [j \in 1..Len(selected) |->
                           IF Local(j) = {} THEN 0 ELSE c.residuals[CHOOSE i \in Local(j) : TRUE]]
<1>1. /\ selected \in Seq(DOMAIN obs) /\ Len(selected) \in Nat
      /\ DOMAIN selected = 1..Len(selected)
      /\ \A i, j \in DOMAIN selected : selected[i] = selected[j] => i = j
      /\ \A i \in DOMAIN selected : selected[i] \in DOMAIN obs /\ selected[i] \in Nat
  <2>1. selected \in Seq(DOMAIN obs) /\ DOMAIN obs \subseteq Nat
    BY BatchTyped DEF Run
  <2> QED
    BY <2>1 DEF Run, IsInjective
<1>2. /\ c.inliers \subseteq DOMAIN selected /\ Cardinality(c.inliers) >= MinSensors
      /\ c.residuals = selected
  BY <1>1, CandidateTyped DEF Run
<1>3. /\ Lifted(c).inliers = inliers
      /\ Lifted(c).residuals = residuals
  BY DEF Lifted, Run, Candidates
<1>4. \A i \in c.inliers : selected[i] <= Len(selected)
  BY <1>1, <1>2 DEF LiftPanics
<1>5. Len(residuals) = Len(selected)
  BY <1>1
<1>6. ASSUME NEW i \in c.inliers
      PROVE  selected[i] <= Len(residuals) /\ residuals[selected[i]] = selected[i]
  <2>1. selected[i] \in 1..Len(selected)
    <3>1. selected[i] \in DOMAIN obs /\ DOMAIN obs = 1..Len(obs) /\ Len(obs) \in Nat
      BY <1>1, <1>2, BatchTyped DEF Run
    <3> QED
      BY <1>1, <1>4, <3>1
  <2>2. Local(selected[i]) = {i}
    BY <1>1, <1>2
  <2>3. (CHOOSE k \in Local(selected[i]) : TRUE) = i
    BY <2>2
  <2>4. residuals[selected[i]] = c.residuals[i]
    BY <2>1, <2>2, <2>3
  <2> HIDE DEF residuals
  <2> QED
    BY <1>2, <1>4, <1>5, <2>4
<1>7. Cardinality(inliers) = Cardinality(c.inliers)
  <2> DEFINE f == [i \in c.inliers |-> selected[i]]
  <2>1. f \in Bijection(c.inliers, inliers)
    BY <1>1, <1>2 DEF Bijection, Injection, Surjection, IsInjective
  <2>2. IsFiniteSet(c.inliers)
    <3>1. IsFiniteSet(1..Len(selected))
      BY <1>1, FS_Interval
    <3> QED
      BY <1>1, <1>2, <3>1, FS_Subset
  <2> QED
    BY <2>1, <2>2, FS_Bijection DEF ExistsBijection
<1>8. inliers \subseteq DOMAIN obs
  BY <1>1, <1>2
<1>9. \A j \in inliers : j <= Len(residuals) /\ residuals[j] = j
  BY <1>6
<1> HIDE DEF residuals, inliers
<1> QED
  BY <1>2, <1>3, <1>7, <1>8, <1>9 DEF Named

LEMMA FinalNamed ==
  ASSUME SolverAssumption, Run, Chosen, ~LiftPanics, NEW c \in Final
  PROVE  Named(c)
<1>1. CASE first = {}
  <2>1. selected = Sequential(Len(obs)) /\ c \in best
    BY <1>1 DEF Run, Chosen, Done, Final
  <2> QED
    BY <2>1, WholeNamed
<1>2. CASE first # {} /\ best = {}
  BY <1>2 DEF Final, Run
<1>3. CASE first # {} /\ best # {}
  <2>1. PICK b \in best : c = Lifted(b)
    BY <1>3 DEF Final
  <2> QED
    BY <1>3, <2>1, LiftedNamed
<1> QED
  BY <1>1, <1>2, <1>3

\* A result is about the observations that it names.
LEMMA ReturnIsTrue ==
  ASSUME SolverAssumption, Run, Return
  PROVE  ResultIsTrue'
<1>1. PICK c \in Final :
        result' = [numSensors   |-> Cardinality(c.inliers),
                   residuals    |-> {<<obs[i], c.residuals[i]>> : i \in Usable(c)},
                   contributors |-> [i \in Usable(c) |-> obs[i]]]
  BY DEF Return
<1>2. obs' = obs /\ IsInjective(obs)
  BY DEF Return, Run, Chosen, Done
<1>3. obs \in Seq(Nat) /\ Len(obs) \in Nat /\ DOMAIN obs = 1..Len(obs)
  BY BatchTyped DEF Run
<1>4. Named(c)
  BY FinalNamed DEF Return
<1>5. /\ c.inliers \subseteq 1..Len(obs) /\ Cardinality(c.inliers) >= MinSensors
      /\ \A i \in c.inliers : i <= Len(c.residuals) /\ c.residuals[i] = i
  BY <1>3, <1>4 DEF Named
<1>6. Usable(c) = c.inliers
  BY <1>3, <1>5 DEF Usable
<1> DEFINE f == [i \in c.inliers |-> obs[i]]
<1>7. /\ result'.numSensors = Cardinality(c.inliers)
      /\ result'.contributors = f
      /\ result'.residuals = {<<obs[i], c.residuals[i]>> : i \in c.inliers}
  BY <1>1, <1>6
<1>8. {<<obs[i], c.residuals[i]>> : i \in c.inliers} = {<<obs[i], i>> : i \in c.inliers}
  BY <1>5
<1>9. Cardinality(Range(f)) = Cardinality(c.inliers)
  <2>1. IsFiniteSet(c.inliers)
    <3>1. IsFiniteSet(1..Len(obs))
      BY <1>3, FS_Interval
    <3> QED
      BY <1>5, <3>1, FS_Subset
  <2>2. \A i, j \in c.inliers : obs[i] = obs[j] => i = j
    BY <1>2, <1>3, <1>5 DEF IsInjective
  <2>3. f \in Bijection(c.inliers, Range(f))
    BY <2>2 DEF Bijection, Injection, Surjection, IsInjective, Range
  <2> QED
    BY <2>1, <2>3, FS_Bijection DEF ExistsBijection
<1> HIDE DEF f
<1>10. DOMAIN f = c.inliers
  BY DEF f
<1> QED
  BY <1>2, <1>5, <1>7, <1>8, <1>9, <1>10 DEF ResultIsTrue

LEMMA TailTyped ==
  ASSUME NEW X, NEW s \in Seq(X), s # <<>>
  PROVE  Tail(s) \in Seq(X)
BY HeadTailProperties

LEMMA OneTyped ==
  ASSUME NEW X, NEW x \in X
  PROVE  <<x>> \in Seq(X)
OBVIOUS

LEMMA AcceptKeeps ==
  ASSUME SolverAssumption, Run, Accept
  PROVE  Run'
<1> DEFINE n == Len(obs)
           all == Combinations(n, RobustSubsetSize)
<1>1. n \in Nat /\ DOMAIN obs = 1..n
  BY BatchTyped DEF Run
<1>2. /\ IsInjective(obs) /\ selected' = Sequential(n) /\ best' = {}
      /\ subsets' = IF all = <<>> THEN <<Sequential(n)>> ELSE all
      /\ stage = "called" /\ stage' = "fitting" /\ UNCHANGED <<fit, obs, first, result>>
  BY DEF Accept, Valid, Robust
<1>3. fit.stage = "idle"
  BY <1>2 DEF Run
<1>4. /\ Sequential(n) \in Seq(1..n) /\ IsInjective(Sequential(n)) /\ Len(Sequential(n)) = n
      /\ DOMAIN Sequential(n) = 1..n
  BY <1>1 DEF Sequential, IsInjective
<1>5. all \in Seq(Seq(1..n))
  <2>1. RobustSubsetSize \in Nat /\ RobustSubsetSize > 0
    BY DEF SolverAssumption
  <2> QED
    BY <1>1, <2>1, AllCombinations
<1> HIDE DEF all, n
<1>6. subsets' \in Seq(Seq(1..n))
  <2>1. <<Sequential(n)>> \in Seq(Seq(1..n))
    BY <1>4, OneTyped
  <2> QED
    BY <1>2, <1>5, <2>1
<1>7. /\ selected' \in Seq(DOMAIN obs') /\ IsInjective(selected') /\ Len(selected') <= Len(obs')
      /\ DOMAIN selected' = 1..n
  BY <1>1, <1>2, <1>4 DEF n
<1> QED
  BY <1>1, <1>2, <1>3, <1>6, <1>7 DEF Run, ResultIsTrue, Named, n

LEMMA SelectKeeps ==
  ASSUME SolverAssumption, Run, Select
  PROVE  Run'
<1>1. Len(obs) \in Nat /\ MinSensors \in Nat
  BY BatchTyped DEF Run, SolverAssumption
<1>2. PICK s \in Selections :
        /\ Len(s) \in MinSensors..(Len(obs) - 1)
        /\ selected' = s /\ best' = {}
        /\ subsets' = Combinations(Len(s), RobustSubsetSize)
  BY DEF Select, Robust
<1>3. /\ stage = "fitting" /\ subsets = <<>> /\ best # {} /\ first = {} /\ first' = best
      /\ UNCHANGED <<fit, stage, obs, result>>
  BY DEF Select, Done
<1>4. s \in Seq(DOMAIN obs) /\ IsInjective(s) /\ Len(s) \in Nat /\ DOMAIN s = 1..Len(s)
  BY <1>2, SelectionTyped DEF Run
<1>5. fit.stage = "idle"
  BY <1>3 DEF Run
<1>6. Len(s) <= Len(obs) /\ Len(obs) > MinSensors
  BY <1>1, <1>2, <1>4
<1>7. subsets' \in Seq(Seq(1..Len(s)))
  <2>1. RobustSubsetSize \in Nat /\ RobustSubsetSize > 0
    BY DEF SolverAssumption
  <2> QED
    BY <1>2, <1>4, <2>1, AllCombinations
<1>8. \A c \in best : Named(c)
  BY <1>3, WholeNamed DEF Run
<1>9. \A c \in first' : Named(c)'
  BY <1>3, <1>8 DEF Named
<1> QED
  BY <1>2, <1>3, <1>4, <1>5, <1>6, <1>7, <1>9 DEF Run, ResultIsTrue

\* A step that changes neither the batch nor the selection, and no result.
LEMMA RunKeeps ==
  ASSUME Run, UNCHANGED <<obs, selected, first, result>>,
         best' \subseteq Candidates, subsets' \in Seq(Seq(DOMAIN selected)),
         fit'.stage # "idle" => subsets' # <<>> /\ stage' \in {"fitting", "refining"},
         \/ stage' \in {"fitting", "refining"} /\ stage \in {"fitting", "refining"}
         \/ stage' = "failed"
         \/ stage' = "panicked" /\ first # {} /\ stage \in {"fitting", "refining"}
         \/ stage' = stage
  PROVE  Run'
<1>1. Candidates' = Candidates
  BY DEF Candidates
<1>2. /\ stage' \in {"called", "fitting", "refining", "failed", "panicked", "returned"}
      /\ stage' \notin {"called", "failed"} => IsInjective(obs)
      /\ stage' \in {"fitting", "refining"} /\ first = {} => selected = Sequential(Len(obs))
      /\ stage' = "panicked" => first # {}
  BY DEF Run
<1>3. ResultIsTrue' /\ \A c \in first' : Named(c)'
  BY DEF Run, ResultIsTrue, Named
<1> QED
  BY <1>1, <1>2, <1>3 DEF Run

LEMMA StepKeepsRun ==
  ASSUME SolverAssumption, Run, [Next]_vars
  PROVE  Run'
<1>0. NoFit.stage = "idle"
  BY DEF NoFit
<1>1. CASE Reject \/ NoneFound \/ Unrealistic
  <2>1. stage' = "failed" /\ UNCHANGED <<obs, selected, first, result, best, subsets, fit>>
    BY <1>1 DEF Reject, NoneFound, Unrealistic, Fails, roundVars
  <2>2. fit.stage = "idle"
    BY <1>1 DEF Run, Reject, NoneFound, Unrealistic, Chosen, Done
  <2> QED
    BY <2>1, <2>2, RunKeeps DEF Run
<1>2. CASE Call \/ Fitting
  <2>1. UNCHANGED <<obs, selected, first, result, best, subsets, stage>>
    BY <1>2 DEF Call, Fitting, roundVars
  <2>2. subsets # <<>> /\ stage \in {"fitting", "refining"}
    BY <1>2 DEF Call, Fitting, FitSteps, Damps, Moves, Steps, EndSearch, Run
  <2> QED
    BY <2>1, <2>2, RunKeeps DEF Run
<1>3. CASE GiveUp \/ Refine
  <2>1. /\ UNCHANGED <<obs, selected, first, result, best>> /\ fit' = NoFit
        /\ stage' \in {"fitting", "refining"} /\ stage \in {"fitting", "refining"}
        /\ fit.stage = "returned" /\ subsets' \in {subsets, Tail(subsets)}
    BY <1>3 DEF GiveUp, Refine, roundVars
  <2>2. subsets # <<>> /\ subsets \in Seq(Seq(DOMAIN selected))
    BY <2>1 DEF Run
  <2>3. subsets' \in Seq(Seq(DOMAIN selected))
    BY <2>1, <2>2, TailTyped
  <2> QED
    BY <1>0, <2>1, <2>3, RunKeeps DEF Run
<1>4. CASE Compare
  <2>1. /\ UNCHANGED <<obs, selected, first, result>> /\ fit' = NoFit
        /\ stage' = "fitting" /\ stage = "refining"
        /\ fit.stage = "returned" /\ subsets' = Tail(subsets)
        /\ \E c \in Candidates : best' \subseteq best \cup {c}
    BY <1>4 DEF Compare, roundVars
  <2>2. subsets # <<>> /\ subsets \in Seq(Seq(DOMAIN selected)) /\ best \subseteq Candidates
    BY <2>1 DEF Run
  <2>3. subsets' \in Seq(Seq(DOMAIN selected)) /\ best' \subseteq Candidates
    BY <2>1, <2>2, TailTyped
  <2> QED
    BY <1>0, <2>1, <2>3, RunKeeps
<1>5. CASE Panic
  <2>1. /\ stage' = "panicked" /\ UNCHANGED <<obs, selected, first, result, best, subsets, fit>>
        /\ stage = "fitting" /\ subsets = <<>> /\ first # {}
    BY <1>5 DEF Panic, LiftPanics, Chosen, Done, roundVars
  <2>2. fit.stage = "idle"
    BY <2>1 DEF Run
  <2> QED
    BY <2>1, <2>2, RunKeeps DEF Run
<1>6. CASE Return
  <2>1. /\ stage' = "returned" /\ UNCHANGED <<obs, selected, first, best, subsets, fit>>
        /\ stage = "fitting" /\ subsets = <<>>
    BY <1>6 DEF Return, Chosen, Done
  <2>2. fit.stage = "idle" /\ IsInjective(obs)
    BY <2>1 DEF Run
  <2>3. ResultIsTrue'
    BY <1>6, ReturnIsTrue
  <2>4. Candidates' = Candidates /\ \A c \in first' : Named(c)'
    BY <2>1 DEF Candidates, Named, Run
  <2> QED
    BY <2>1, <2>2, <2>3, <2>4 DEF Run
<1>7. CASE UNCHANGED vars
  <2>1. UNCHANGED <<obs, selected, first, result, best, subsets, fit, stage>>
    BY <1>7 DEF vars, roundVars
  <2> QED
    BY <2>1, RunKeeps DEF Run
<1> QED
  BY <1>1, <1>2, <1>3, <1>4, <1>5, <1>6, <1>7, AcceptKeeps, SelectKeeps DEF Next

\* Run is an invariant.
THEOREM RunInvariant == Spec => []Run
<1>1. Init => Run
  <2> SUFFICES ASSUME Init PROVE Run
    OBVIOUS
  <2>1. obs \in Seq(Nat) /\ Len(obs) \in Nat
    BY SolverAssumption, BatchTyped DEF Init
  <2>2. <<>> \in Seq(DOMAIN obs) /\ Len(<<>>) = 0 /\ IsInjective(<<>>)
    BY DEF IsInjective
  <2> QED
    BY <2>1, <2>2 DEF Init, FitInit, NoFit, Run, ResultIsTrue
<1>2. Run /\ [Next]_vars => Run'
  BY SolverAssumption, StepKeepsRun
<1> QED
  BY <1>1, <1>2, PTL DEF Spec

\* The subsets that are tried and the inliers that are found are indices of the
\* batch, in a selection as well (solver.go:72-145, 206-225).
THEOREM TypeCorrect == Spec => []TypeOK
<1>1. Init => FitInv
  BY FitAssumption DEF Init, FitInit, NoFit, FitInv, FitTypeOK, AnyCost, AtMost,
     FitAssumption
<1>2. FitInv /\ [Next]_vars => FitInv'
  BY FitAssumption, StepKeepsFit
<1>3. FitInv /\ Run => TypeOK
  <2> SUFFICES ASSUME FitInv, Run PROVE TypeOK
    OBVIOUS
  <2>1. Len(obs) \in Nat /\ DOMAIN obs = 1..Len(obs)
    BY SolverAssumption, BatchTyped DEF Run
  <2>2. Len(selected) \in Nat /\ Len(selected) <= Len(obs)
    BY DEF Run
  <2>3. \A c \in best : c.inliers \subseteq DOMAIN obs /\ Cardinality(c.inliers) >= MinSensors
    BY SolverAssumption, <2>1, <2>2, CandidateTyped DEF Run
  <2> QED
    BY <2>3 DEF Run, Named, TypeOK, FitInv
<1> QED
  BY <1>1, <1>2, <1>3, RunInvariant, PTL DEF Spec

\* A result names at least MinSensors sensors, all contributors, each with the
\* residual of its own observation, after a selection too (solver.go:206-233,
\* 591-627).
THEOREM ResultsAreTrue == Spec => []ResultIsTrue
<1>1. Run => ResultIsTrue
  BY DEF Run
<1> QED
  BY <1>1, RunInvariant, PTL

\* Only for a batch of more than MinSensors can Solve panic (solver.go:206-225).
THEOREM PanicsNeedSelection == Spec => [](stage = "panicked" => Len(obs) > MinSensors)
<1>1. Run => (stage = "panicked" => Len(obs) > MinSensors)
  BY DEF Run
<1> QED
  BY <1>1, RunInvariant, PTL

\* For batches of at most MinSensors observations, which are all the buffer makes,
\* Solve does not panic, whatever the fits find (solver.go:206-225).
THEOREM MinimalBatchesSafe ==
  ASSUME \A b \in Batches : Len(b) <= MinSensors
  PROVE  Spec => [](stage # "panicked")
<1>1. Run /\ (stage = "panicked" => Len(obs) > MinSensors) => stage # "panicked"
  BY SolverAssumption, BatchTyped DEF Run, SolverAssumption
<1> QED
  BY <1>1, RunInvariant, PanicsNeedSelection, PTL

-----------------------------------------------------------------------------
(***************************************************************************)
(* The end of Solve                                                        *)
(***************************************************************************)

\* The passes of fitRobust that may come yet, this one included, and one before
\* the first.
PassesLeft ==
  IF stage = "called" THEN 3
  ELSE IF stage \notin {"fitting", "refining"} THEN 0
  ELSE IF first = {} THEN 2 ELSE 1

FitsLeft == IF stage = "refining" THEN 0 ELSE 1

FitStagesLeft ==
  IF fit.stage = "idle" THEN 2 ELSE IF fit.stage = "searching" THEN 1 ELSE 0

\* What is left to do, from the outermost loop to the innermost.
Left ==
  <<PassesLeft, Len(subsets), FitsLeft, FitStagesLeft,
    Starts - fit.start, MaxIterations - fit.iter>>

\* Everything that is ever left to do, ordered by the outermost loop that differs.
Chores == [1..6 -> Nat]

Fewer == LexProductOrdering(OpToRel(<, Nat), Nat, 6)

\* There is no end to doing nothing, but to having less and less left there is.
LEMMA FewerEnds == IsWellFoundedOn(Fewer, Chores)
BY NatLessThanWellFounded, WFLexProductOrdering DEF Fewer, Chores

LeavesFewer == Left \in Chores /\ <<Left', Left>> \in Fewer

LEMMA FewerAt ==
  ASSUME NEW s \in Chores, NEW t \in Chores, NEW k \in 1..6,
         \A j \in 1..(k - 1) : s[j] = t[j], s[k] < t[k]
  PROVE  <<s, t>> \in Fewer
<1>1. <<s[k], t[k]>> \in OpToRel(<, Nat)
  <2>1. s[k] \in Nat /\ t[k] \in Nat
    BY DEF Chores
  <2> QED
    BY <2>1 DEF OpToRel
<1> DEFINE ff == <<s, t>>
<1>2. ff \in Chores \X Chores /\ ff[1] = s /\ ff[2] = t
  OBVIOUS
<1>3. \E j \in 1..6 : /\ \A i \in 1..(j - 1) : ff[1][i] = ff[2][i]
                      /\ <<ff[1][j], ff[2][j]>> \in OpToRel(<, Nat)
  BY <1>1, <1>2, Zenon
<1> HIDE DEF ff
<1>4. ff \in Fewer
  BY <1>2, <1>3, Zenon DEF Fewer, LexProductOrdering, Chores
<1> QED
  BY <1>4 DEF ff

LEMMA LeftIs ==
  /\ Left[1] = PassesLeft
  /\ Left[2] = Len(subsets)
  /\ Left[3] = FitsLeft
  /\ Left[4] = FitStagesLeft
  /\ Left[5] = Starts - fit.start
  /\ Left[6] = MaxIterations - fit.iter
BY DEF Left

LEMMA LeftTyped ==
  ASSUME FitAssumption, FitInv, Run
  PROVE  Left \in Chores
<1>1. PassesLeft \in Nat /\ FitsLeft \in Nat /\ FitStagesLeft \in Nat
  BY DEF PassesLeft, FitsLeft, FitStagesLeft
<1>2. Len(subsets) \in Nat
  BY DEF Run
<1>3. Starts - fit.start \in Nat /\ MaxIterations - fit.iter \in Nat
  BY DEF FitInv, FitTypeOK, FitAssumption
<1> QED
  BY <1>1, <1>2, <1>3 DEF Left, Chores

\* The loop that a step carries forward, and that no loop around it goes back.
LEMMA StepLeavesFewer ==
  ASSUME FitAssumption, FitInv, Run, Left \in Chores, Left' \in Chores, Next
  PROVE  <<Left', Left>> \in Fewer
<1>1. /\ Left[1] = PassesLeft /\ Left[2] = Len(subsets) /\ Left[3] = FitsLeft
      /\ Left[4] = FitStagesLeft /\ Left[5] = Starts - fit.start
      /\ Left[6] = MaxIterations - fit.iter
  BY LeftIs
<1>2. /\ Left'[1] = PassesLeft' /\ Left'[2] = Len(subsets') /\ Left'[3] = FitsLeft'
      /\ Left'[4] = FitStagesLeft' /\ Left'[5] = Starts - fit'.start
      /\ Left'[6] = MaxIterations - fit'.iter
  BY DEF Left
<1>3. CASE Reject \/ Accept \/ NoneFound \/ Select \/ Panic \/ Return \/ Unrealistic
  <2>1. PassesLeft' < PassesLeft
    <3>1. CASE Reject \/ Accept
      BY <3>1 DEF Reject, Fails, Accept, PassesLeft, FitAssumption
    <3>2. CASE Select
      BY <3>2 DEF Select, Done, PassesLeft
    <3>3. CASE NoneFound \/ Panic \/ Return \/ Unrealistic
      BY <3>3 DEF NoneFound, Panic, Return, Unrealistic, Fails, Chosen, Done, PassesLeft
    <3> QED
      BY <1>3, <3>1, <3>2, <3>3
  <2>2. \A j \in 1..(1 - 1) : Left'[j] = Left[j]
    OBVIOUS
  <2> QED
    BY <1>1, <1>2, <2>1, <2>2, FewerAt
<1>4. CASE GiveUp \/ Compare
  <2>1. /\ subsets' = Tail(subsets) /\ UNCHANGED first /\ stage' = "fitting"
        /\ stage \in {"fitting", "refining"} /\ fit.stage = "returned"
    BY <1>4 DEF GiveUp, Compare, roundVars
  <2>2. Len(subsets') < Len(subsets)
    <3>1. subsets # <<>> /\ subsets \in Seq(Seq(DOMAIN selected))
      BY <2>1 DEF Run
    <3> QED
      BY <2>1, <3>1
  <2>3. PassesLeft' = PassesLeft
    BY <2>1 DEF PassesLeft
  <2>4. \A j \in 1..(2 - 1) : j = 1
    OBVIOUS
  <2> QED
    BY <1>1, <1>2, <2>2, <2>3, <2>4, FewerAt
<1>5. CASE Refine
  <2>1. /\ UNCHANGED <<subsets, first>> /\ stage = "fitting" /\ stage' = "refining"
    BY <1>5 DEF Refine, roundVars
  <2>2. PassesLeft' = PassesLeft /\ Len(subsets') = Len(subsets) /\ FitsLeft' < FitsLeft
    BY <2>1 DEF PassesLeft, FitsLeft
  <2>3. \A j \in 1..(3 - 1) : j \in {1, 2}
    OBVIOUS
  <2> QED
    BY <1>1, <1>2, <2>2, <2>3, FewerAt
<1>6. CASE Call \/ Fitting
  <2>1. UNCHANGED <<subsets, first, stage>>
    BY <1>6 DEF Call, Fitting, roundVars
  <2>2. PassesLeft' = PassesLeft /\ Len(subsets') = Len(subsets) /\ FitsLeft' = FitsLeft
    BY <2>1 DEF PassesLeft, FitsLeft
  <2>3. /\ \A j \in 1..(4 - 1) : j \in {1, 2, 3}
        /\ \A j \in 1..(5 - 1) : j \in {1, 2, 3, 4}
        /\ \A j \in 1..(6 - 1) : j \in {1, 2, 3, 4, 5}
    OBVIOUS
  <2>4. CASE FitStagesLeft' < FitStagesLeft
    BY <1>1, <1>2, <2>2, <2>3, <2>4, FewerAt
  <2>5. CASE FitStagesLeft' = FitStagesLeft /\ Starts - fit'.start < Starts - fit.start
    BY <1>1, <1>2, <2>2, <2>3, <2>5, FewerAt
  <2>6. CASE /\ FitStagesLeft' = FitStagesLeft /\ fit'.start = fit.start
             /\ MaxIterations - fit'.iter < MaxIterations - fit.iter
    BY <1>1, <1>2, <2>2, <2>3, <2>6, FewerAt
  <2>7. fit \in Fits /\ Starts \in Nat /\ MaxIterations \in Nat
    BY DEF FitInv, FitTypeOK, FitAssumption
  <2>8. CASE Call
    <3>1. fit.stage = "idle" /\ fit'.stage \in {"searching", "returned"}
      BY <2>8 DEF Call, CallFit, NoFit, Search
    <3> QED
      BY <2>4, <3>1 DEF FitStagesLeft
  <2>9. CASE Damps \/ Moves
    <3>1. fit.stage = "searching" /\ fit'.stage = "searching" /\ fit'.start = fit.start
          /\ fit'.iter = fit.iter + 1
      BY <2>7, <2>9 DEF Damps, Moves, Steps
    <3> QED
      BY <2>6, <2>7, <3>1 DEF FitStagesLeft
  <2>10. CASE EndSearch
    <3>1. \/ fit.stage = "searching" /\ fit'.stage = "returned"
          \/ /\ fit.stage = "searching" /\ fit'.stage = "searching"
             /\ fit'.start = fit.start + 1
      BY <2>7, <2>10 DEF EndSearch, Search, NoFit
    <3> QED
      BY <2>4, <2>5, <2>7, <3>1 DEF FitStagesLeft
  <2> QED
    BY <1>6, <2>8, <2>9, <2>10 DEF Fitting, FitSteps
<1> QED
  BY <1>3, <1>4, <1>5, <1>6 DEF Next

\* Every step of Solve leaves less to do, whatever costs and candidates the fits
\* find, and that cannot go on for ever (solver.go:72-145, 247-310, 351-460).
THEOREM SolveRunsOut ==
  /\ IsWellFoundedOn(Fewer, Chores)
  /\ Spec => [][LeavesFewer]_vars
<1>1. Init => FitInv
  BY FitAssumption DEF Init, FitInit, NoFit, FitInv, FitTypeOK, AnyCost, AtMost,
     FitAssumption
<1>2. FitInv /\ [Next]_vars => FitInv'
  BY FitAssumption, StepKeepsFit
<1>3. FitInv /\ Run => Left \in Chores
  BY FitAssumption, LeftTyped
<1>4. FitInv /\ Run /\ Left \in Chores /\ (Left \in Chores)' /\ [Next]_vars =>
        [LeavesFewer]_vars
  BY FitAssumption, StepLeavesFewer DEF LeavesFewer
<1>5. Spec => [][LeavesFewer]_vars
  BY <1>1, <1>2, <1>3, <1>4, RunInvariant, PTL DEF Spec
<1> QED
  BY <1>5, FewerEnds
=============================================================================
