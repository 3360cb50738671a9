------------------------------- MODULE Solver -------------------------------
(***************************************************************************)
(* Solve (mlat/solver.go) for one batch: validation, a fit for each subset *)
(* of observations, the choice of the best candidate, the selection of a   *)
(* stronger subset, a second round of fits on it, and the result.          *)
(*                                                                         *)
(* The control is the code's.  What floating-point arithmetic decides is   *)
(* open: which observations are inliers, how good a candidate is, which    *)
(* subset has the highest score, whether an altitude is plausible.  A      *)
(* residual is represented by the observation it was computed for, so that *)
(* it shows when one is read as another's.  Module Fit has the fits.       *)
(*                                                                         *)
(* Indices are those of the code plus one.                                 *)
(***************************************************************************)
EXTENDS Fit, Sequences, FiniteSets, Functions, SequencesExt

CONSTANTS
  Batches,                  \* the sensor ids of each batch, in the order of time
  MinSensors,
  RobustSubsetSize,         \* robustSubsetSize
  MaxSelectionSubsetSize,
  MaxSelectionCombinations,
  Rms,                      \* values of rms, in units of 1e-12 s
  SumSq,                    \* values of sumSq
  RmsTolerance,             \* 1e-12 s
  NoResult

ASSUME SolverAssumption ==
  /\ Batches \subseteq Seq(Nat)
  /\ MinSensors \in Nat \ {0, 1}
  /\ RobustSubsetSize \in Nat \ {0}
  /\ MaxSelectionSubsetSize \in Nat
  /\ MaxSelectionCombinations \in Nat \ {0, 1}
  /\ Rms \subseteq Nat /\ SumSq \subseteq Nat
  /\ RmsTolerance \in Nat

VARIABLES
  stage,     \* where Solve is
  obs,       \* the sensors of the observations, sorted by time
  selected,  \* the indices that fitRobust works on
  subsets,   \* the subsets that fitRobust has not tried yet, as local indices
  best,      \* best of fitRobust: {} or {[inliers, residuals, rms, sumSq]}
  first,     \* best of Solve while fitRobust runs a second time
  result,    \* the MLATResult
  rivals     \* history: of the candidates that fitRobust compared, their number,
             \* the most inliers, and the least rms of those that have so many

roundVars == <<obs, selected, first, result>>
vars == <<fit, stage, roundVars, subsets, best, rivals>>

-----------------------------------------------------------------------------
(***************************************************************************)
(* Subsets                                                                 *)
(***************************************************************************)

\* The sequence 1..n.
Sequential(n) == [i \in 1..n |-> i]

\* Mutant: the loop of build ends one index early.
CombinationsShort(n, k) ==
  LET build[depth \in 0..k] == [from \in 1..n+1 |->
        IF depth = k THEN << <<>> >>
        ELSE FlattenSeq([j \in 1..(n - (k - depth) - from + 1) |->
               LET longer == build[depth + 1][from + j]
               IN  [t \in DOMAIN longer |-> <<from + j - 1>> \o longer[t]]])]
  IN  IF k <= 0 \/ n < k THEN <<>> ELSE build[0][1]

\* combinationIndices: build[depth][from] is what the inner function appends
\* to the first depth indices, the next of which is at least from.
Combinations(n, k) ==
  LET build[depth \in 0..k] == [from \in 1..n+1 |->
        IF depth = k THEN << <<>> >>
        ELSE FlattenSeq([j \in 1..(n - (k - depth) - from + 2) |->
               LET longer == build[depth + 1][from + j]
               IN  [t \in DOMAIN longer |-> <<from + j - 1>> \o longer[t]]])]
  IN  IF k <= 0 \/ n < k THEN <<>> ELSE build[0][1]

\* m of the elements of all, at distances of (Len(all) - 1) / (m - 1) rounded
\* half up.
Sampled(all, m) ==
  [i \in 1..m |-> all[1 + ((2 * (i - 1) * (Len(all) - 1) + m - 1) \div (2 * (m - 1)))]]

\* candidateSelectionSubsets
CandidateSubsets(n) ==
  LET largest == IF n < MaxSelectionSubsetSize THEN n ELSE MaxSelectionSubsetSize
      all == FlattenSeq([i \in 1..(largest - MinSensors + 1) |->
                           Combinations(n, MinSensors + i - 1)])
  IN  IF Len(all) <= MaxSelectionCombinations THEN all
      ELSE Sampled(all, MaxSelectionCombinations)

\* The same for each length of a batch; TLC evaluates this once.
SelectionSubsets == [n \in {Len(b) : b \in Batches} |-> Range(CandidateSubsets(n))]

-----------------------------------------------------------------------------
(***************************************************************************)
(* fitRobust                                                               *)
(***************************************************************************)

NoRivals == [number |-> 0, most |-> 0, least |-> 0]

\* The rivals with one more.
Rivals(c) ==
  LET n == Cardinality(c.inliers)
      ahead == n > rivals.most \/ (n = rivals.most /\ c.rms < rivals.least)
  IN  [number |-> rivals.number + 1,
       most   |-> IF ahead THEN n ELSE rivals.most,
       least  |-> IF ahead THEN c.rms ELSE rivals.least]

Init ==
  /\ FitInit
  /\ stage = "called"
  /\ obs \in Batches
  /\ selected = <<>>
  /\ subsets = <<>>
  /\ best = {}
  /\ first = {}
  /\ result = NoResult
  /\ rivals = NoRivals

\* fitRobust is called with the observations at the given indices.
Robust(indices) ==
  /\ selected' = indices
  /\ best' = {}
  /\ rivals' = NoRivals

Fails ==
  /\ stage' = "failed"
  /\ UNCHANGED <<fit, roundVars, subsets, best, rivals>>

\* The parts of validateObservations that do not depend on numbers.
Valid == IsInjective(obs)

\* Solve returns an error for a batch that is too small or not valid, which
\* includes sensors all in one place and arrivals too far apart; such a batch
\* may be any.
Reject ==
  /\ stage = "called"
  /\ Fails

Accept ==
  /\ stage = "called"
  /\ Len(obs) >= MinSensors
  /\ Valid
  /\ Robust(Sequential(Len(obs)))
  /\ LET all == Combinations(Len(obs), RobustSubsetSize)
     IN  subsets' = IF all = <<>> THEN <<Sequential(Len(obs))>> ELSE all
  /\ stage' = "fitting"
  /\ UNCHANGED <<fit, obs, first, result>>

\* fitObservationSet is called for the next subset, or again for the inliers.
Call ==
  /\ stage \in {"fitting", "refining"}
  /\ subsets # <<>>
  /\ CallFit
  /\ UNCHANGED <<stage, roundVars, subsets, best, rivals>>

Fitting ==
  /\ FitSteps
  /\ UNCHANGED <<stage, roundVars, subsets, best, rivals>>

\* Mutant: the loop does not go on to the next subset.
GiveUpRetries ==
  /\ stage \in {"fitting", "refining"}
  /\ fit.stage = "returned"
  /\ fit' = NoFit
  /\ stage' = "fitting"
  /\ UNCHANGED <<roundVars, subsets, best, rivals>>

\* The candidate of a subset is given up: no fit, too few inliers, or too large
\* an rms.
GiveUp ==
  /\ stage \in {"fitting", "refining"}
  /\ fit.stage = "returned"
  /\ fit' = NoFit
  /\ stage' = "fitting"
  /\ subsets' = Tail(subsets)
  /\ UNCHANGED <<roundVars, best, rivals>>

\* The subset was fitted, and enough observations are near the fit: refine it.
Refine ==
  /\ stage = "fitting"
  /\ fit.stage = "returned" /\ Found
  /\ fit' = NoFit
  /\ stage' = "refining"
  /\ UNCHANGED <<roundVars, subsets, best, rivals>>

Candidates ==
  [inliers : {s \in SUBSET (1..Len(selected)) : Cardinality(s) >= MinSensors},
   residuals : {selected}, rms : Rms, sumSq : SumSq]

Apart(x, y) == x - y > RmsTolerance \/ y - x > RmsTolerance

\* Mutant: candidates of almost the same rms are compared by sumSq first.
BetterBySum(a, b) ==
  \/ a.sumSq < b.sumSq
  \/ a.sumSq = b.sumSq /\ Cardinality(a.inliers) > Cardinality(b.inliers)

\* betterCandidate
Better(a, b) ==
  LET more == Cardinality(a.inliers)
      less == Cardinality(b.inliers)
  IN  IF more # less THEN more > less
      ELSE IF Apart(a.rms, b.rms) THEN a.rms < b.rms
      ELSE a.sumSq < b.sumSq

\* The inliers were fitted, and give a candidate.
Compare ==
  /\ stage = "refining"
  /\ fit.stage = "returned" /\ Found
  /\ fit' = NoFit
  /\ \E c \in Candidates :
       /\ best' = IF \A b \in best : Better(c, b) THEN {c} ELSE best
       /\ rivals' = Rivals(c)
  /\ stage' = "fitting"
  /\ subsets' = Tail(subsets)
  /\ UNCHANGED roundVars

-----------------------------------------------------------------------------
(***************************************************************************)
(* The rest of Solve                                                       *)
(***************************************************************************)

Done == stage = "fitting" /\ subsets = <<>>

\* All subsets are tried, and none gave a candidate.
NoneFound ==
  /\ Done /\ best = {} /\ first = {}
  /\ Fails

\* selectBestSubset returns the candidate subset with the highest score; all
\* indices when no candidate has a finite GDOP, or there is nothing to choose.
Selections ==
  {Sequential(Len(obs))} \cup
    IF Len(obs) <= MinSensors THEN {} ELSE SelectionSubsets[Len(obs)]

\* Mutant: the selection is fitted with the subsets of the whole batch.
SelectWhole ==
  /\ Done /\ best # {} /\ first = {}
  /\ \E s \in Selections :
       /\ Len(s) \in MinSensors..(Len(obs) - 1)
       /\ Robust(s)
       /\ subsets' = Combinations(Len(obs), RobustSubsetSize)
  /\ first' = best
  /\ UNCHANGED <<fit, stage, obs, result>>

\* A selection of fewer observations is fitted again.
Select ==
  /\ Done /\ best # {} /\ first = {}
  /\ \E s \in Selections :
       /\ Len(s) \in MinSensors..(Len(obs) - 1)
       /\ Robust(s)
       /\ subsets' = Combinations(Len(s), RobustSubsetSize)
  /\ first' = best
  /\ UNCHANGED <<fit, stage, obs, result>>

\* Mutant: the inliers keep the indices of the selection.
LiftedLocal(c) == c

\* liftCandidate: indices of the selection become indices of the batch.  The
\* residuals stay as many as were selected; the others are infinite, here 0.
Lifted(c) ==
  [c EXCEPT !.inliers = {selected[i] : i \in @},
            !.residuals = [j \in 1..Len(selected) |->
                             LET local == {i \in c.inliers : selected[i] = j}
                             IN  IF local = {} THEN 0
                                 ELSE c.residuals[CHOOSE i \in local : TRUE]]]

\* liftedResiduals, as long as the selection, is indexed with an index of the
\* batch.
LiftPanics ==
  /\ first # {}
  /\ \E c \in best : \E i \in c.inliers : selected[i] > Len(selected)

\* The candidate that Solve goes on with, if there is one.
Final ==
  IF first = {} THEN best
  ELSE IF best = {} THEN first ELSE {Lifted(c) : c \in best}

Chosen == Done /\ Final # {}

Panic ==
  /\ Chosen
  /\ LiftPanics
  /\ stage' = "panicked"
  /\ UNCHANGED <<fit, roundVars, subsets, best, rivals>>

\* residualMapForInliers and contributorsForInliers skip what is out of range.
Usable(c) == {i \in c.inliers : i <= Len(obs) /\ i <= Len(c.residuals)}

\* The altitude of the candidate is plausible.
Return ==
  /\ Chosen
  /\ ~LiftPanics
  /\ \E c \in Final :
       result' = [numSensors   |-> Cardinality(c.inliers),
                  residuals    |-> {<<obs[i], c.residuals[i]>> : i \in Usable(c)},
                  contributors |-> [i \in Usable(c) |-> obs[i]]]
  /\ stage' = "returned"
  /\ UNCHANGED <<fit, obs, selected, first, subsets, best, rivals>>

\* It is not.
Unrealistic ==
  /\ Chosen
  /\ ~LiftPanics
  /\ Fails

Next ==
  \/ Reject \/ Accept
  \/ Call \/ Fitting \/ GiveUp \/ Refine \/ Compare
  \/ NoneFound \/ Select \/ Panic \/ Return \/ Unrealistic

Spec == Init /\ [][Next]_vars

\* Solve is sequential, and runs on.
FairSpec == Spec /\ WF_vars(Next)

-----------------------------------------------------------------------------
(***************************************************************************)
(* Properties                                                              *)
(***************************************************************************)

\* The types, and that fitRobust works on a subset of the batch, tries subsets of
\* that, and takes candidates with enough inliers.
TypeOK ==
  /\ FitTypeOK
  /\ stage \in {"called", "fitting", "refining", "failed", "panicked", "returned"}
  /\ selected \in Seq(DOMAIN obs) /\ IsInjective(selected)
  /\ subsets \in Seq(Seq(DOMAIN selected))
  /\ \A c \in best \cup first :
       c.inliers \subseteq DOMAIN obs /\ Cardinality(c.inliers) >= MinSensors

Before(s, t) ==
  \E k \in DOMAIN s : s[k] < t[k] /\ \A j \in 1..(k - 1) : s[j] = t[j]

CombinationsExact ==
  \A n \in 0..Len(obs) + 2 : \A k \in 1..Len(obs) + 2 :
    LET all == Combinations(n, k)
    IN  /\ {Range(all[i]) : i \in DOMAIN all} = kSubset(k, 1..n)
        /\ \A i \in DOMAIN all : Len(all[i]) = k
        /\ \A i, j \in DOMAIN all : i < j => Before(all[i], all[j])

SampleEven ==
  \A m \in 2..MaxSelectionCombinations : \A n \in m + 1..4 * MaxSelectionCombinations :
    LET picked == Sampled(Sequential(n), m)
    IN  /\ picked[1] = 1 /\ picked[m] = n
        /\ \A i \in 1..m - 1 :
             picked[i + 1] - picked[i] \in {(n - 1) \div (m - 1), (n + m - 3) \div (m - 1)}

\* The subsets tried are all there are, each once, in lexicographic order.  The
\* sample taken of too many has as many as it may, none twice, the first and the
\* last, and leaves out no more between two of them than it must (solver.go:181-204,
\* 525-545).
SubsetsExact == stage = "called" => CombinationsExact /\ SampleEven

\* The best candidate has as many inliers as any.  Its rms need not be the least:
\* candidates within the tolerance of each other are compared by sumSq, which is
\* not transitive, and the best can drift away from the least by a tolerance per
\* comparison, but no further (solver.go:515-523).
BestIsBest ==
  \A c \in best :
    /\ Cardinality(c.inliers) = rivals.most
    /\ c.rms <= rivals.least + RmsTolerance * (rivals.number - 1)

\* A result is about the observations it names: at least MinSensors sensors, each
\* one a contributor, with the residual of its own observation, whether or not a
\* selection was fitted.  The calibrator learns clocks from these residuals
\* (solver.go:206-233, 591-627).
ResultIsTrue ==
  result # NoResult =>
    /\ result.numSensors >= MinSensors
    /\ Cardinality(DOMAIN result.contributors) = result.numSensors
    /\ Cardinality(Range(result.contributors)) = result.numSensors
    /\ result.residuals = {<<obs[i], i>> : i \in DOMAIN result.contributors}

\* Solve comes to an end, whatever the costs do, with a result or an error.  Only
\* a batch of more than MinSensors, which the buffer does not make, can end in a
\* panic: when a selection was fitted again, and an inlier comes later in the batch
\* than the selection is long (solver.go:72-145, 206-225, 413-460).
SolveEnds ==
  <>(\/ stage \in {"failed", "returned"}
     \/ stage = "panicked" /\ Len(obs) > MinSensors)
=============================================================================
