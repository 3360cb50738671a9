----------------------------- MODULE Calibrator -----------------------------
(***************************************************************************)
(* What mlat/calibration.go learns about the sensors' clocks: per sensor a *)
(* jitter, a residual and a trust score, per pair of sensors an offset.    *)
(* The goroutine of a batch calls Apply, solves, and calls Update.  Each   *)
(* of the two runs under c.mu and is one action; between them other        *)
(* goroutines apply and update as well.                                    *)
(*                                                                         *)
(* A batch is what the buffer hands over, MinSensors observations.  The    *)
(* solver accepts no fewer inliers, so each observation of a solved batch  *)
(* has a residual, no larger than the solver's inlier gate; Solve sorted   *)
(* them by receive time, so any order of the sensors is possible.          *)
(*                                                                         *)
(* Times are whole units, with the fractions of an average dropped.  The   *)
(* corrections are abstracted to what an Update makes of them, the error   *)
(* of the predicted one: the residual or less when the correction applied  *)
(* was the clock's own and is still the same, else any of                  *)
(* CorrectionErrors.                                                       *)
(***************************************************************************)
EXTENDS Integers, Sequences, FiniteSets, Functions

CONSTANTS
  Workers,             \* goroutines that may be between Apply and Update
  Sensors,             \* sensor ids, ordered
  MinSensors,          \* observations of a batch
  InlierGate,          \* inlierResidualMeters / C
  Residuals,           \* |residualNs|: sizes that pass the gate
  CorrectionErrors,    \* |correctionErrorNs|
  MaxResidualUpdate,   \* maxResidualUpdateNs
  JitterScale,         \* 3_000_000 ns in computeTrust
  ResidualScale,       \* 2_500_000 ns in computeTrust
  FullSamples,         \* 18 samples in computeTrust
  MinTrustedScore,     \* minTrustedScore
  MinReliableSamples,  \* minReliableSamples
  MaxReliableJitter,   \* maxReliableJitterNs
  MinPairSamples,      \* 4 samples in consensusCorrection
  MaxBatches           \* bound: calls of Apply

ASSUME ConstantsAssumption ==
  /\ Sensors \subseteq Int
  /\ MinSensors \in Nat /\ MinSensors >= 2
  /\ InlierGate \in Nat
  /\ Residuals \subseteq 0..InlierGate
  /\ CorrectionErrors \subseteq Nat
  /\ MaxResidualUpdate \in Nat
  /\ JitterScale \in Nat \ {0}
  /\ ResidualScale \in Nat \ {0}
  /\ FullSamples \in Nat \ {0}
  /\ MinTrustedScore \in 0..70
  /\ MinReliableSamples \in Nat
  /\ MaxReliableJitter \in Nat
  /\ MinPairSamples \in Nat
  /\ MaxBatches \in Nat

\* The residual part of a score alone keeps it above the limit.
ASSUME GateAssumption ==
  /\ InlierGate <= ResidualScale
  /\ 40 * (ResidualScale - InlierGate) >= MinTrustedScore * ResidualScale

\* A residual that passes the gate teaches, and makes no clock unreliable.
ASSUME LimitsAssumption ==
  InlierGate <= MaxResidualUpdate /\ InlierGate <= MaxReliableJitter

VARIABLES
  sensors,   \* c.sensors: [jitter, residual, trust, samples]
  pairs,     \* c.pairs: [samples, reversed]; reversed: history, the samples
             \* that measured B - A for the key (A, B)
  inflight,  \* what the goroutine of each worker got from Apply
  batches,   \* calls of Apply so far
  raced      \* history: sensors updated with a correction from before another
             \* Update of them

vars == <<sensors, pairs, inflight, batches, raced>>

\* Scores are kept as multiples of 1 / Scale.
Scale == JitterScale * ResidualScale * FullSamples

Clock == [jitter : Nat, residual : Nat, trust : Nat, samples : Nat \ {0}]

Batches == {b \in [1..MinSensors -> Sensors] : IsInjective(b)}

\* peered: the sensors whose correction rests on peers as well; stale: those
\* that were updated since.
Idle == [batch |-> <<>>, peered |-> {}, stale |-> {}]

-----------------------------------------------------------------------------
(* Helpers *)

\* blend with weight 0.2.
Blend(current, measured) == (4 * current + measured) \div 5

Left(scale, value) == IF value < scale THEN scale - value ELSE 0

\* Mutant: jitter weighs more than the residual.
ComputeTrustByJitter(jitter, residual, samples) ==
  60 * ResidualScale * FullSamples * Left(JitterScale, jitter)
    + 20 * JitterScale * FullSamples * Left(ResidualScale, residual)
    + 20 * JitterScale * ResidualScale * (FullSamples - Left(FullSamples, samples))

\* 40 points for little jitter, 40 for small residuals, 20 for samples.
ComputeTrust(jitter, residual, samples) ==
  40 * ResidualScale * FullSamples * Left(JitterScale, jitter)
    + 40 * JitterScale * FullSamples * Left(ResidualScale, residual)
    + 20 * JitterScale * ResidualScale * (FullSamples - Left(FullSamples, samples))

Score(clock) == IF clock.trust = 0 THEN 70 * Scale ELSE clock.trust

NewClock(residual) ==
  [jitter |-> residual, residual |-> residual, trust |-> 70 * Scale, samples |-> 1]

\* A large residual is remembered, but teaches nothing.
Learn(clock, residual, error) ==
  LET jitter  == Blend(clock.jitter, error)
      average == Blend(clock.residual, residual)
      samples == IF residual > MaxResidualUpdate THEN clock.samples
                                                 ELSE clock.samples + 1
  IN  [jitter   |-> jitter,
       residual |-> average,
       trust    |-> ComputeTrust(jitter, average, samples),
       samples  |-> samples]

\* Mutant: the sensors are not put in order.
PairKeyAsIs(a, b) == <<a, b>>

PairKey(a, b) == IF a < b THEN <<a, b>> ELSE <<b, a>>

\* Mutant: the inner loop of updatePairOffsets starts at 0.
PlacesTwice(batch) ==
  {p \in (DOMAIN batch) \X (DOMAIN batch) : p[1] # p[2]}

\* The places i < j that updatePairOffsets visits.
Places(batch) == {p \in (1..MinSensors) \X (1..MinSensors) : p[1] < p[2]}

\* The offset measured at a place is that of the earlier observation against
\* the later one.
Measured(batch, key) ==
  {p \in Places(batch) : PairKey(batch[p[1]], batch[p[2]]) = key}

Reversed(batch, key) == {p \in Measured(batch, key) : batch[p[1]] > batch[p[2]]}

PairBefore(key) ==
  IF key \in DOMAIN pairs THEN pairs[key] ELSE [samples |-> 0, reversed |-> 0]

UpdatePairOffsets(batch) ==
  LET keys == {PairKey(batch[p[1]], batch[p[2]]) : p \in Places(batch)}
  IN  pairs' = [key \in DOMAIN pairs \cup keys |->
                  [samples  |-> PairBefore(key).samples
                                  + Cardinality(Measured(batch, key)),
                   reversed |-> PairBefore(key).reversed
                                  + Cardinality(Reversed(batch, key))]]

\* A young clock is given the benefit of the doubt.
Reliable(clock) ==
  \/ clock.samples < MinReliableSamples
  \/ clock.jitter <= MaxReliableJitter

Usable(s) ==
  s \in DOMAIN sensors =>
    /\ Reliable(sensors[s])
    /\ Score(sensors[s]) >= MinTrustedScore * Scale

\* Apply drops what is not usable when enough is left.
Filtered(batch) ==
  LET reliableIdx == {i \in DOMAIN batch : Usable(batch[i])}
  IN  IF Cardinality(reliableIdx) \in MinSensors..(Len(batch) - 1)
        THEN SelectSeq(batch, Usable)
        ELSE batch

\* Mutant: a pair counts from its first sample.
PeersAtOnce(batch, s) ==
  {t \in Range(batch) \ {s} :
     /\ t \in DOMAIN sensors
     /\ Reliable(sensors[t])
     /\ PairKey(s, t) \in DOMAIN pairs}

\* The peers from which consensusCorrection takes an estimate for s.
Peers(batch, s) ==
  {t \in Range(batch) \ {s} :
     /\ t \in DOMAIN sensors
     /\ Reliable(sensors[t])
     /\ PairKey(s, t) \in DOMAIN pairs
     /\ pairs[PairKey(s, t)].samples >= MinPairSamples}

-----------------------------------------------------------------------------

Init ==
  /\ sensors = <<>>
  /\ pairs = <<>>
  /\ inflight = [w \in Workers |-> Idle]
  /\ batches = 0
  /\ raced = {}

Apply(w, batch) ==
  /\ batches < MaxBatches
  /\ inflight[w] = Idle
  /\ inflight' = [inflight EXCEPT ![w] =
                    [batch  |-> Filtered(batch),
                     peered |-> {s \in Range(batch) : Peers(batch, s) # {}},
                     stale  |-> {}]]
  /\ batches' = batches + 1
  /\ UNCHANGED <<sensors, pairs, raced>>

\* No solution, or none that is accepted.
SolveFails(w) ==
  /\ inflight[w] # Idle
  /\ inflight' = [inflight EXCEPT ![w] = Idle]
  /\ UNCHANGED <<sensors, pairs, batches, raced>>

\* The errors an Update may find for a sensor with this residual.
ErrorsOf(w, s, residual) ==
  IF s \in inflight[w].peered \cup inflight[w].stale
    THEN CorrectionErrors
    ELSE 0..residual

Update(w, residual, error) ==
  LET heard == Range(inflight[w].batch)
  IN  /\ inflight[w] # Idle
      /\ sensors' = [s \in DOMAIN sensors \cup heard |->
                       CASE s \notin heard -> sensors[s]
                         [] s \in heard \ DOMAIN sensors -> NewClock(residual[s])
                         [] OTHER -> Learn(sensors[s], residual[s], error[s])]
      /\ UpdatePairOffsets(inflight[w].batch)
      /\ inflight' = [v \in Workers |->
                        IF v = w THEN Idle
                        ELSE IF inflight[v] = Idle THEN Idle
                        ELSE [inflight[v] EXCEPT !.stale = @ \cup heard]]
      /\ raced' = raced \cup (inflight[w].stale \cap heard)
      /\ UNCHANGED batches

Updates(w) ==
  LET heard == Range(inflight[w].batch)
      known == heard \cap DOMAIN sensors
  IN  \E residual \in [heard -> Residuals] :
        \E error \in [known -> CorrectionErrors \cup 0..InlierGate] :
           /\ \A s \in known : error[s] \in ErrorsOf(w, s, residual[s])
           /\ Update(w, residual, error)

Next ==
  \E w \in Workers :
     \/ \E batch \in Batches : Apply(w, batch)
     \/ SolveFails(w)
     \/ Updates(w)

Spec == Init /\ [][Next]_vars

-----------------------------------------------------------------------------
(* Properties *)

\* A sensor that is known has at least one sample, and a pair has one entry,
\* with the smaller id first (calibration.go:125-135, 269-278 and 287-292).
TypeOK ==
  /\ DOMAIN sensors \subseteq Sensors
  /\ sensors \in [DOMAIN sensors -> Clock]
  /\ \A key \in DOMAIN pairs :
        /\ key \in Sensors \X Sensors
        /\ key[1] < key[2]
        /\ pairs[key].samples \in Nat \ {0}
        /\ pairs[key].reversed \in 0..pairs[key].samples
  /\ \A w \in Workers : Range(inflight[w].batch) \subseteq Sensors
  /\ batches \in 0..MaxBatches
  /\ raced \subseteq Sensors

\* No history of a sensor brings its score below minTrustedScore: residuals
\* that pass the solver's gate leave the residual part of the score near its
\* full 40 points.  The trust test of Apply never excludes anybody; only
\* jitter does (calibration.go:82, 142-147 and 322-327; solver.go:281).
TrustNeverExcludes ==
  \A s \in DOMAIN sensors : Score(sensors[s]) >= MinTrustedScore * Scale

\* A pair is known no better than its two clocks: each of its samples is also
\* one of both sensors, so the peer estimates that consensusCorrection takes
\* from it stand on learned clocks (calibration.go:139-162 and 227-233).
PairsBackedByClocks ==
  \A key \in DOMAIN pairs : \A i \in 1..2 :
     /\ key[i] \in DOMAIN sensors
     /\ pairs[key].samples <= sensors[key[i]].samples

\* A clock becomes unreliable for a cause: the estimates of a peer it shared
\* MinPairSamples batches with, or an Update with a correction that another
\* batch had made stale.  Residuals alone never do it (calibration.go:118-143,
\* 229-234 and 298-300).
UnreliableHasCause ==
  \A s \in DOMAIN sensors :
     \/ Reliable(sensors[s])
     \/ s \in raced
     \/ \E key \in DOMAIN pairs :
           s \in {key[1], key[2]} /\ pairs[key].samples >= MinPairSamples

\* README.md:134, "pairwise sensor offset learning": the offset learned for
\* (A, B) is A's against B's, as consensusCorrection reads it, and not the
\* opposite whenever B heard the frame first (calibration.go:235-238).
PairOffsetsAligned ==
  \A key \in DOMAIN pairs : pairs[key].reversed = 0
=============================================================================
