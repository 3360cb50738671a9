-------------------------- MODULE CalibratorProofs --------------------------
(***************************************************************************)
(* Proofs about module Calibrator for every set of sensors, batch size and *)
(* set of correction errors, and for every gate of the solver that meets   *)
(* GateAssumption.                                                         *)
(***************************************************************************)
EXTENDS Calibrator, FiniteSetTheorems, TLAPS

\* A clock whose average residual passes the gate and whose score is above
\* the limit.
SoundClock ==
  [jitter : Nat, residual : 0..InlierGate, trust : Nat, samples : Nat \ {0}]

\* Averages of residuals below the gate stay below it, and that holds the
\* score up.
IInv ==
  /\ sensors \in [DOMAIN sensors -> SoundClock]
  /\ \A s \in DOMAIN sensors : sensors[s].trust >= MinTrustedScore * Scale

-----------------------------------------------------------------------------
(* Arithmetic *)

LEMMA ProductNat == ASSUME NEW a \in Nat, NEW b \in Nat PROVE a * b \in Nat
  BY SMT

LEMMA ProductGrows ==
  ASSUME NEW k \in Nat, NEW a \in Nat, NEW b \in Nat, a <= b
  PROVE  k * a <= k * b
  <1>1. k * (b - a) \in Nat
    <2>1. b - a \in Nat  BY SMT
    <2>2. QED  BY <2>1, ProductNat
  <1>2. k * (b - a) = k * b - k * a  BY SMT
  <1>3. k * a \in Nat /\ k * b \in Nat  BY ProductNat
  <1>4. QED  BY <1>1, <1>2, <1>3, SMT

LEMMA LeftNat ==
  ASSUME NEW scale \in Nat, NEW value \in Nat
  PROVE  Left(scale, value) \in 0..scale
  BY DEF Left

LEMMA BlendNat ==
  ASSUME NEW current \in Nat, NEW measured \in Nat
  PROVE  Blend(current, measured) \in Nat
  BY DEF Blend

\* An average stays within the bounds of what it averages.
LEMMA BlendBound ==
  ASSUME NEW bound \in Nat, NEW current \in 0..bound, NEW measured \in 0..bound
  PROVE  Blend(current, measured) \in 0..bound
  BY DEF Blend

LEMMA ScaleNat == Scale \in Nat
  <1>1. JitterScale \in Nat /\ ResidualScale \in Nat /\ FullSamples \in Nat
    BY ConstantsAssumption
  <1>2. JitterScale * ResidualScale \in Nat  BY <1>1, ProductNat
  <1>3. (JitterScale * ResidualScale) * FullSamples \in Nat
    BY <1>1, <1>2, ProductNat
  <1>4. QED  BY <1>3 DEF Scale

\* A residual below the gate earns enough points on its own.
LEMMA ResidualPoints ==
  ASSUME NEW residual \in 0..InlierGate
  PROVE  MinTrustedScore * ResidualScale <= 40 * Left(ResidualScale, residual)
  <1> USE ConstantsAssumption, GateAssumption
  <1>1. CASE residual < ResidualScale
    <2>1. ResidualScale - InlierGate <= Left(ResidualScale, residual)
      BY <1>1 DEF Left
    <2>2. Left(ResidualScale, residual) \in Nat  BY LeftNat
    <2>3. MinTrustedScore * ResidualScale \in Nat  BY ProductNat
    <2>4. QED  BY <2>1, <2>2, <2>3
  <1>2. CASE ~(residual < ResidualScale)
    <2>1. InlierGate = ResidualScale  BY <1>2
    <2>2. MinTrustedScore * ResidualScale \in Nat  BY ProductNat
    <2>3. Left(ResidualScale, residual) = 0  BY <1>2 DEF Left
    <2>4. QED  BY <2>1, <2>2, <2>3
  <1>3. QED  BY <1>1, <1>2

\* Whatever the jitter and the number of samples, the score is above the limit.
LEMMA TrustFloor ==
  ASSUME NEW jitter \in Nat, NEW residual \in 0..InlierGate, NEW samples \in Nat
  PROVE  /\ ComputeTrust(jitter, residual, samples) \in Nat
         /\ ComputeTrust(jitter, residual, samples) >= MinTrustedScore * Scale
  <1> USE ConstantsAssumption
  <1> DEFINE lj == Left(JitterScale, jitter)
             lr == Left(ResidualScale, residual)
             ls == FullSamples - Left(FullSamples, samples)
             k  == JitterScale * FullSamples
  <1>1. lj \in Nat /\ lr \in Nat /\ ls \in Nat
    <2>1. lj \in 0..JitterScale  BY LeftNat
    <2>2. lr \in 0..ResidualScale  BY LeftNat
    <2>3. Left(FullSamples, samples) \in 0..FullSamples  BY LeftNat
    <2>4. QED  BY <2>1, <2>2, <2>3
  <1>2. 40 * ResidualScale * FullSamples * lj \in Nat
    <2>1. 40 * ResidualScale \in Nat  BY ProductNat
    <2>2. 40 * ResidualScale * FullSamples \in Nat  BY <2>1, ProductNat
    <2>3. QED  BY <1>1, <2>2, ProductNat
  <1>3. 20 * JitterScale * ResidualScale * ls \in Nat
    <2>1. 20 * JitterScale \in Nat  BY ProductNat
    <2>2. 20 * JitterScale * ResidualScale \in Nat  BY <2>1, ProductNat
    <2>3. QED  BY <1>1, <2>2, ProductNat
  <1>4. k * (MinTrustedScore * ResidualScale) <= k * (40 * lr)
    <2>1. k \in Nat  BY ProductNat
    <2>2. MinTrustedScore * ResidualScale \in Nat  BY ProductNat
    <2>3. 40 * lr \in Nat  BY <1>1
    <2>4. MinTrustedScore * ResidualScale <= 40 * lr  BY ResidualPoints
    <2> HIDE DEF k, lr
    <2>5. QED  BY <2>1, <2>2, <2>3, <2>4, ProductGrows
  <1>5. k * (MinTrustedScore * ResidualScale) = MinTrustedScore * Scale
    BY SMT DEF Scale
  <1>6. k * (40 * lr) = 40 * JitterScale * FullSamples * lr
    <2> HIDE DEF lr
    <2>1. QED  BY <1>1, SMT
  <1>7. k * (40 * lr) \in Nat
    <2>1. k \in Nat  BY ProductNat
    <2>2. 40 * lr \in Nat  BY <1>1
    <2> HIDE DEF k, lr
    <2>3. QED  BY <2>1, <2>2, ProductNat
  <1>8. ComputeTrust(jitter, residual, samples) =
          40 * ResidualScale * FullSamples * lj + k * (40 * lr)
            + 20 * JitterScale * ResidualScale * ls
    BY <1>6 DEF ComputeTrust
  <1>9. MinTrustedScore * Scale \in Nat  BY ScaleNat, ProductNat
  <1> HIDE DEF k, lj, lr, ls
  <1>10. QED  BY <1>2, <1>3, <1>4, <1>5, <1>7, <1>8, <1>9, SMT
-----------------------------------------------------------------------------
(* The clocks *)

LEMMA NewClockSound ==
  ASSUME NEW residual \in Residuals
  PROVE  /\ NewClock(residual) \in SoundClock
         /\ NewClock(residual).trust >= MinTrustedScore * Scale
  <1> USE ConstantsAssumption
  <1>1. residual \in 0..InlierGate /\ residual \in Nat  OBVIOUS
  <1>2. 70 * Scale \in Nat  BY ScaleNat
  <1>3. MinTrustedScore * Scale <= 70 * Scale
    <2>1. Scale * MinTrustedScore <= Scale * 70  BY ScaleNat, ProductGrows
    <2> HIDE DEF Scale
    <2>2. QED  BY <2>1, ScaleNat, SMT
  <1> HIDE DEF Scale
  <1>4. QED  BY <1>1, <1>2, <1>3 DEF NewClock, SoundClock

LEMMA LearnSound ==
  ASSUME NEW clock \in SoundClock, NEW residual \in Residuals, NEW error \in Nat
  PROVE  /\ Learn(clock, residual, error) \in SoundClock
         /\ Learn(clock, residual, error).trust >= MinTrustedScore * Scale
  <1> USE ConstantsAssumption
  <1> DEFINE jitter  == Blend(clock.jitter, error)
             average == Blend(clock.residual, residual)
             samples == IF residual > MaxResidualUpdate THEN clock.samples
                                                        ELSE clock.samples + 1
  <1>1. jitter \in Nat  BY BlendNat DEF SoundClock
  <1>2. average \in 0..InlierGate  BY BlendBound DEF SoundClock
  <1>3. samples \in Nat \ {0}  BY DEF SoundClock
  <1>4. /\ ComputeTrust(jitter, average, samples) \in Nat
        /\ ComputeTrust(jitter, average, samples) >= MinTrustedScore * Scale
    <2> HIDE DEF jitter, average, samples
    <2>1. QED  BY <1>1, <1>2, <1>3, TrustFloor
  <1>5. Learn(clock, residual, error) =
          [jitter |-> jitter, residual |-> average,
           trust |-> ComputeTrust(jitter, average, samples), samples |-> samples]
    BY DEF Learn
  <1> HIDE DEF jitter, average, samples
  <1>6. QED  BY <1>1, <1>2, <1>3, <1>4, <1>5 DEF SoundClock

LEMMA InitIInv == Init => IInv
  BY DEF Init, IInv

\* What an Update does to the clocks, whatever other goroutines did since Apply.
LEMMA UpdateIInv ==
  ASSUME IInv, NEW w \in Workers,
         NEW residual \in [Range(inflight[w].batch) -> Residuals],
         NEW error \in [Range(inflight[w].batch) \cap DOMAIN sensors ->
                          CorrectionErrors \cup 0..InlierGate],
         Update(w, residual, error)
  PROVE  IInv'
  <1> DEFINE heard == Range(inflight[w].batch)
  <1>1. sensors' = [s \in DOMAIN sensors \cup heard |->
                      CASE s \notin heard -> sensors[s]
                        [] s \in heard \ DOMAIN sensors -> NewClock(residual[s])
                        [] OTHER -> Learn(sensors[s], residual[s], error[s])]
    BY DEF Update
  <1>2. /\ \A s \in heard : residual[s] \in Residuals
        /\ \A s \in heard \cap DOMAIN sensors : error[s] \in Nat
    <2>1. CorrectionErrors \cup 0..InlierGate \subseteq Nat
      BY ConstantsAssumption
    <2> HIDE DEF heard
    <2>2. residual \in [heard -> Residuals]  BY DEF heard
    <2>3. error \in [heard \cap DOMAIN sensors -> CorrectionErrors \cup 0..InlierGate]
      BY DEF heard
    <2>4. QED  BY <2>1, <2>2, <2>3
  <1> HIDE DEF heard
  <1>3. ASSUME NEW s \in DOMAIN sensors'
        PROVE  /\ sensors'[s] \in SoundClock
               /\ sensors'[s].trust >= MinTrustedScore * Scale
    <2>1. s \in DOMAIN sensors \cup heard  BY <1>1, <1>3
    <2>2. CASE s \notin heard
      <3>1. s \in DOMAIN sensors /\ sensors'[s] = sensors[s]
        BY <1>1, <2>1, <2>2
      <3>2. QED  BY <3>1 DEF IInv
    <2>3. CASE s \in heard \ DOMAIN sensors
      <3>1. sensors'[s] = NewClock(residual[s])  BY <1>1, <2>1, <2>3
      <3>2. residual[s] \in Residuals  BY <1>2, <2>3
      <3>3. QED  BY <3>1, <3>2, NewClockSound
    <2>4. CASE s \in heard /\ s \in DOMAIN sensors
      <3>1. sensors'[s] = Learn(sensors[s], residual[s], error[s])
        BY <1>1, <2>1, <2>4
      <3>2. residual[s] \in Residuals /\ error[s] \in Nat  BY <1>2, <2>4
      <3>3. sensors[s] \in SoundClock  BY <2>4 DEF IInv
      <3>4. QED  BY <3>1, <3>2, <3>3, LearnSound
    <2>5. QED  BY <2>1, <2>2, <2>3, <2>4
  <1>4. sensors' \in [DOMAIN sensors' -> SoundClock]  BY <1>1, <1>3
  <1>5. QED  BY <1>3, <1>4 DEF IInv, Scale

LEMMA NextIInv == IInv /\ [Next]_vars => IInv'
  <1> SUFFICES ASSUME IInv, [Next]_vars PROVE IInv'
    OBVIOUS
  <1>1. CASE UNCHANGED sensors  BY <1>1 DEF IInv, Scale
  <1>2. ASSUME NEW w \in Workers, NEW batch \in Batches, Apply(w, batch)
        PROVE  IInv'
    BY <1>1, <1>2 DEF Apply
  <1>3. ASSUME NEW w \in Workers, SolveFails(w) PROVE IInv'
    BY <1>1, <1>3 DEF SolveFails
  <1>4. ASSUME NEW w \in Workers, Updates(w) PROVE IInv'
    BY <1>4, UpdateIInv DEF Updates
  <1>5. CASE UNCHANGED vars  BY <1>1, <1>5 DEF vars
  <1>6. QED  BY <1>2, <1>3, <1>4, <1>5 DEF Next

\* The averages of residuals stay below the solver's gate, and no score falls
\* below the limit, in every behaviour (calibration.go:102-163).
THEOREM Invariance == Spec => []IInv
  <1>1. QED  BY InitIInv, NextIInv, PTL DEF Spec

\* Apply's trust test excludes no sensor, whatever it went through
\* (calibration.go:82, 302-307 and 322-327).
THEOREM TrustExcludesNobody == Spec => []TrustNeverExcludes
  <1>1. IInv => TrustNeverExcludes
    <2> SUFFICES ASSUME IInv, NEW s \in DOMAIN sensors
                 PROVE  Score(sensors[s]) >= MinTrustedScore * Scale
      BY DEF TrustNeverExcludes
    <2>1. MinTrustedScore * Scale <= 70 * Scale
      <3>1. MinTrustedScore \in Nat /\ MinTrustedScore <= 70
        BY ConstantsAssumption
      <3>2. Scale * MinTrustedScore <= Scale * 70
        BY <3>1, ScaleNat, ProductGrows
      <3> HIDE DEF Scale
      <3>3. QED  BY <3>1, <3>2, ScaleNat, SMT
    <2>2. sensors[s].trust >= MinTrustedScore * Scale  BY DEF IInv
    <2>3. 70 * Scale \in Nat /\ MinTrustedScore * Scale \in Nat
      BY ConstantsAssumption, ScaleNat, ProductNat
    <2> HIDE DEF Scale
    <2>4. QED  BY <2>1, <2>2, <2>3 DEF Score
  <1>2. QED  BY <1>1, Invariance, PTL

-----------------------------------------------------------------------------
(* What is in flight, and the pairs *)

\* A goroutine holds a whole batch: the filter of Apply needs fewer usable
\* observations than there are, and MinSensors, which is all there are.
FlightInv ==
  \A w \in Workers : inflight[w] = Idle \/ inflight[w].batch \in Batches

LEMMA FilteredIsBatch ==
  ASSUME NEW batch \in Batches
  PROVE  Filtered(batch) = batch
  <1> DEFINE reliableIdx == {i \in DOMAIN batch : Usable(batch[i])}
  <1>1. Len(batch) = MinSensors  BY ConstantsAssumption DEF Batches
  <1>2. Cardinality(reliableIdx) \notin MinSensors..(Len(batch) - 1)
    <2>1. MinSensors..(Len(batch) - 1) = {}  BY <1>1, ConstantsAssumption
    <2>2. QED  BY <2>1
  <1>3. QED  BY <1>2 DEF Filtered

LEMMA NextFlightInv == FlightInv /\ [Next]_vars => FlightInv'
  <1> SUFFICES ASSUME FlightInv, [Next]_vars PROVE FlightInv'
    OBVIOUS
  <1>1. ASSUME NEW w \in Workers, NEW batch \in Batches, Apply(w, batch)
        PROVE  FlightInv'
    BY <1>1, FilteredIsBatch DEF Apply, FlightInv, Idle
  <1>2. ASSUME NEW w \in Workers, SolveFails(w) PROVE FlightInv'
    BY <1>2 DEF SolveFails, FlightInv, Idle
  <1>3. ASSUME NEW w \in Workers, Updates(w) PROVE FlightInv'
    BY <1>3 DEF Updates, Update, FlightInv, Idle
  <1>4. CASE UNCHANGED vars  BY <1>4 DEF vars, FlightInv, Idle
  <1>5. QED  BY <1>1, <1>2, <1>3, <1>4 DEF Next

\* A pair is measured at most once in a batch.
LEMMA MeasuredOnce ==
  ASSUME NEW batch \in Batches, NEW key
  PROVE  /\ Cardinality(Measured(batch, key)) \in 0..1
         /\ Cardinality(Reversed(batch, key)) \in 0..Cardinality(Measured(batch, key))
         /\ Cardinality(Measured(batch, key)) = 1 <=> Measured(batch, key) # {}
  <1> DEFINE measured == Measured(batch, key)
  <1>1. batch \in [1..MinSensors -> Sensors] /\ IsInjective(batch)
    BY DEF Batches
  <1>2. ASSUME NEW p \in measured, NEW q \in measured PROVE p = q
    <2>1. /\ p \in (1..MinSensors) \X (1..MinSensors) /\ p[1] < p[2]
          /\ q \in (1..MinSensors) \X (1..MinSensors) /\ q[1] < q[2]
          /\ PairKey(batch[p[1]], batch[p[2]]) = PairKey(batch[q[1]], batch[q[2]])
      BY <1>1, <1>2 DEF Measured, Places
    <2>2. /\ batch[p[1]] \in Int /\ batch[p[2]] \in Int
          /\ batch[q[1]] \in Int /\ batch[q[2]] \in Int
      BY <1>1, <2>1, ConstantsAssumption
    <2>3. \/ batch[p[1]] = batch[q[1]] /\ batch[p[2]] = batch[q[2]]
          \/ batch[p[1]] = batch[q[2]] /\ batch[p[2]] = batch[q[1]]
      BY <2>1, <2>2 DEF PairKey
    <2>4. \/ p[1] = q[1] /\ p[2] = q[2]
          \/ p[1] = q[2] /\ p[2] = q[1]
      BY <1>1, <2>1, <2>3 DEF IsInjective
    <2>5. p[1] = q[1] /\ p[2] = q[2]
      BY <2>1, <2>4, ConstantsAssumption
    <2>6. QED  BY <2>1, <2>5
  <1>3. measured = {} \/ \E p : measured = {p}
    <2>1. CASE measured # {}
      <3>1. PICK p \in measured : TRUE  BY <2>1
      <3>2. measured = {p}  BY <1>2, <3>1
      <3>3. QED  BY <3>2
    <2>2. QED  BY <2>1
  <1>4. IsFiniteSet(measured)  BY <1>3, FS_EmptySet, FS_Singleton
  <1>5. /\ measured = {} => Cardinality(measured) = 0
        /\ measured # {} => Cardinality(measured) = 1
    BY <1>3, FS_EmptySet, FS_Singleton
  <1>6. /\ IsFiniteSet(Reversed(batch, key))
        /\ Cardinality(Reversed(batch, key)) <= Cardinality(measured)
    <2>1. Reversed(batch, key) \in SUBSET measured  BY DEF Reversed
    <2>2. QED  BY <1>4, <2>1, FS_Subset
  <1>7. Cardinality(Reversed(batch, key)) \in Nat  BY <1>6, FS_CardinalityType
  <1> HIDE DEF measured
  <1>8. Cardinality(measured) \in 0..1  BY <1>5
  <1>9. Cardinality(measured) = 1 <=> measured # {}  BY <1>5
  <1>10. Cardinality(Reversed(batch, key)) \in 0..Cardinality(measured)
    BY <1>6, <1>7, <1>8
  <1>11. QED  BY <1>8, <1>9, <1>10 DEF measured

\* A measured pair is one of two sensors of the batch, in order.
LEMMA MeasuredPair ==
  ASSUME NEW batch \in Batches, NEW key, Measured(batch, key) # {}
  PROVE  /\ key \in Sensors \X Sensors
         /\ key[1] < key[2]
         /\ key[1] \in Range(batch) /\ key[2] \in Range(batch)
  <1>1. batch \in [1..MinSensors -> Sensors] /\ IsInjective(batch)
    BY DEF Batches
  <1>2. PICK p \in Measured(batch, key) : TRUE  OBVIOUS
  <1>3. /\ p \in (1..MinSensors) \X (1..MinSensors) /\ p[1] < p[2]
        /\ key = PairKey(batch[p[1]], batch[p[2]])
    BY <1>1, <1>2 DEF Measured, Places
  <1>4. /\ batch[p[1]] \in Sensors /\ batch[p[2]] \in Sensors
        /\ batch[p[1]] \in Int /\ batch[p[2]] \in Int
        /\ batch[p[1]] \in Range(batch) /\ batch[p[2]] \in Range(batch)
    BY <1>1, <1>3, ConstantsAssumption DEF Range
  <1>5. batch[p[1]] # batch[p[2]]
    <2>1. p[1] # p[2]  BY <1>3, ConstantsAssumption
    <2>2. QED  BY <1>1, <1>3, <2>1 DEF IsInjective
  <1>6. QED  BY <1>3, <1>4, <1>5 DEF PairKey

\* Pairs are ordered, measured, and backed by the clocks of their sensors.
PairInv ==
  /\ pairs \in [DOMAIN pairs -> [samples : Nat \ {0}, reversed : Nat]]
  /\ \A key \in DOMAIN pairs :
        /\ key \in Sensors \X Sensors
        /\ key[1] < key[2]
        /\ pairs[key].reversed <= pairs[key].samples
  /\ PairsBackedByClocks

\* An Update adds a sample to every clock it hears, and takes none away.
LEMMA UpdateTeaches ==
  ASSUME IInv, NEW w \in Workers,
         NEW residual \in [Range(inflight[w].batch) -> Residuals],
         NEW error \in [Range(inflight[w].batch) \cap DOMAIN sensors ->
                          CorrectionErrors \cup 0..InlierGate],
         Update(w, residual, error)
  PROVE  /\ \A s \in DOMAIN sensors :
               s \in DOMAIN sensors' /\ sensors'[s].samples >= sensors[s].samples
         /\ \A s \in Range(inflight[w].batch) :
               /\ s \in DOMAIN sensors'
               /\ sensors'[s].samples >=
                    (IF s \in DOMAIN sensors THEN sensors[s].samples ELSE 0) + 1
  <1> DEFINE heard == Range(inflight[w].batch)
  <1>1. sensors' = [s \in DOMAIN sensors \cup heard |->
                      CASE s \notin heard -> sensors[s]
                        [] s \in heard \ DOMAIN sensors -> NewClock(residual[s])
                        [] OTHER -> Learn(sensors[s], residual[s], error[s])]
    BY DEF Update
  <1>2. \A s \in heard : residual[s] \in Nat /\ residual[s] <= MaxResidualUpdate
    <2>1. \A r \in Residuals : r \in Nat /\ r <= MaxResidualUpdate
      BY ConstantsAssumption, LimitsAssumption
    <2>2. QED  BY <2>1
  <1>3. \A s \in DOMAIN sensors : sensors[s].samples \in Nat
    BY DEF IInv, SoundClock
  <1> HIDE DEF heard
  <1>4. ASSUME NEW s \in heard, s \in DOMAIN sensors
        PROVE  s \in DOMAIN sensors' /\ sensors'[s].samples = sensors[s].samples + 1
    <2>1. sensors'[s] = Learn(sensors[s], residual[s], error[s])  BY <1>1, <1>4
    <2>2. ~(residual[s] > MaxResidualUpdate)
      BY <1>2, <1>4, ConstantsAssumption
    <2>3. Learn(sensors[s], residual[s], error[s]).samples = sensors[s].samples + 1
      BY <2>2 DEF Learn
    <2>4. QED  BY <1>1, <1>4, <2>1, <2>3
  <1>5. ASSUME NEW s \in heard, s \notin DOMAIN sensors
        PROVE  s \in DOMAIN sensors' /\ sensors'[s].samples = 1
    BY <1>1, <1>5 DEF NewClock
  <1>6. ASSUME NEW s \in DOMAIN sensors, s \notin heard
        PROVE  s \in DOMAIN sensors' /\ sensors'[s].samples = sensors[s].samples
    BY <1>1, <1>6
  <1>7. \A s \in DOMAIN sensors :
          s \in DOMAIN sensors' /\ sensors'[s].samples >= sensors[s].samples
    BY <1>3, <1>4, <1>6
  <1>8. \A s \in heard :
          /\ s \in DOMAIN sensors'
          /\ sensors'[s].samples >=
               (IF s \in DOMAIN sensors THEN sensors[s].samples ELSE 0) + 1
    BY <1>3, <1>4, <1>5
  <1>9. QED  BY <1>7, <1>8 DEF heard

LEMMA UpdatePairInv ==
  ASSUME IInv, FlightInv, PairInv, NEW w \in Workers,
         NEW residual \in [Range(inflight[w].batch) -> Residuals],
         NEW error \in [Range(inflight[w].batch) \cap DOMAIN sensors ->
                          CorrectionErrors \cup 0..InlierGate],
         Update(w, residual, error)
  PROVE  PairInv'
  <1> DEFINE batch == inflight[w].batch
             keys == {PairKey(batch[p[1]], batch[p[2]]) : p \in Places(batch)}
             count(key) == Cardinality(Measured(batch, key))
             back(key) == Cardinality(Reversed(batch, key))
  <1>1. batch \in Batches  BY DEF Update, FlightInv
  <1>2. pairs' = [key \in DOMAIN pairs \cup keys |->
                    [samples  |-> PairBefore(key).samples + count(key),
                     reversed |-> PairBefore(key).reversed + back(key)]]
    BY DEF Update, UpdatePairOffsets
  <1>3. ASSUME NEW key
        PROVE  /\ count(key) \in 0..1
               /\ back(key) \in 0..count(key)
               /\ key \in keys <=> count(key) = 1
    <2>1. key \in keys <=> Measured(batch, key) # {}  BY DEF Measured
    <2>2. QED  BY <1>1, <2>1, MeasuredOnce
  <1>4. ASSUME NEW key \in keys
        PROVE  /\ key \in Sensors \X Sensors
               /\ key[1] < key[2]
               /\ key[1] \in Range(batch) /\ key[2] \in Range(batch)
    <2>1. Measured(batch, key) # {}  BY <1>4 DEF Measured
    <2>2. QED  BY <1>1, <2>1, MeasuredPair
  <1>5. ASSUME NEW key \in DOMAIN pairs
        PROVE  /\ PairBefore(key) = pairs[key]
               /\ pairs[key].samples \in Nat \ {0} /\ pairs[key].reversed \in Nat
               /\ pairs[key].reversed <= pairs[key].samples
    BY <1>5 DEF PairInv, PairBefore
  <1>6. ASSUME NEW key, key \notin DOMAIN pairs
        PROVE  PairBefore(key) = [samples |-> 0, reversed |-> 0]
    BY <1>6 DEF PairBefore
  <1>7. /\ \A s \in DOMAIN sensors :
              s \in DOMAIN sensors' /\ sensors'[s].samples >= sensors[s].samples
        /\ \A s \in Range(batch) :
              /\ s \in DOMAIN sensors'
              /\ sensors'[s].samples >=
                   (IF s \in DOMAIN sensors THEN sensors[s].samples ELSE 0) + 1
    BY UpdateTeaches
  <1>8. \A s \in DOMAIN sensors : sensors[s].samples \in Nat
    BY DEF IInv, SoundClock
  <1>9. \A s \in DOMAIN sensors' : sensors'[s].samples \in Nat
    BY UpdateIInv DEF IInv, SoundClock
  <1> HIDE DEF batch, keys, count, back
  <1>10. ASSUME NEW key \in DOMAIN pairs'
         PROVE  /\ pairs'[key].samples \in Nat \ {0}
                /\ pairs'[key].reversed \in Nat
                /\ pairs'[key].reversed <= pairs'[key].samples
                /\ key \in Sensors \X Sensors
                /\ key[1] < key[2]
                /\ pairs'[key] = [samples |-> pairs'[key].samples,
                                  reversed |-> pairs'[key].reversed]
    <2>1. /\ key \in DOMAIN pairs \cup keys
          /\ pairs'[key] = [samples  |-> PairBefore(key).samples + count(key),
                            reversed |-> PairBefore(key).reversed + back(key)]
      BY <1>2, <1>10
    <2>2. key \in Sensors \X Sensors /\ key[1] < key[2]
      BY <1>4, <2>1 DEF PairInv
    <2>3. CASE key \in DOMAIN pairs  BY <1>3, <1>5, <2>1, <2>2, <2>3
    <2>4. CASE key \notin DOMAIN pairs  BY <1>3, <1>6, <2>1, <2>2, <2>4
    <2>5. QED  BY <2>3, <2>4
  <1>11. ASSUME NEW key \in DOMAIN pairs', NEW i \in 1..2
         PROVE  /\ key[i] \in DOMAIN sensors'
                /\ pairs'[key].samples <= sensors'[key[i]].samples
    <2>1. /\ key \in DOMAIN pairs \cup keys
          /\ pairs'[key].samples = PairBefore(key).samples + count(key)
      BY <1>2, <1>11
    <2>2. key \in keys => key[i] \in Range(batch)
      <3>1. i = 1 \/ i = 2  BY <1>11
      <3>2. QED  BY <1>4, <3>1
    <2>3. key \in DOMAIN pairs =>
            key[i] \in DOMAIN sensors /\ pairs[key].samples <= sensors[key[i]].samples
      BY <1>11 DEF PairInv, PairsBackedByClocks
    <2>4. key[i] \in DOMAIN sensors'  BY <1>7, <2>1, <2>2, <2>3
    <2>5. sensors'[key[i]].samples \in Nat  BY <1>9, <2>4
    <2>6. CASE key \in DOMAIN pairs /\ key \in keys
      <3>1. /\ key[i] \in DOMAIN sensors
            /\ sensors'[key[i]].samples >= sensors[key[i]].samples + 1
        BY <1>7, <2>2, <2>3, <2>6
      <3>2. pairs'[key].samples = pairs[key].samples + 1
        BY <1>3, <1>5, <2>1, <2>6
      <3>3. QED  BY <1>5, <1>8, <2>3, <2>4, <2>5, <2>6, <3>1, <3>2
    <2>7. CASE key \in DOMAIN pairs /\ key \notin keys
      <3>1. /\ key[i] \in DOMAIN sensors
            /\ sensors'[key[i]].samples >= sensors[key[i]].samples
        BY <1>7, <2>3, <2>7
      <3>2. pairs'[key].samples = pairs[key].samples
        BY <1>3, <1>5, <2>1, <2>7
      <3>3. QED  BY <1>5, <1>8, <2>3, <2>4, <2>5, <2>7, <3>1, <3>2
    <2>8. CASE key \notin DOMAIN pairs
      <3>1. key \in keys  BY <2>1, <2>8
      <3>2. pairs'[key].samples = 1  BY <1>3, <1>6, <2>1, <2>8, <3>1
      <3>3. sensors'[key[i]].samples >= 1  BY <1>7, <1>8, <2>2, <2>5, <3>1
      <3>4. QED  BY <2>4, <3>2, <3>3
    <2>9. QED  BY <2>6, <2>7, <2>8
  <1>12. pairs' \in [DOMAIN pairs' -> [samples : Nat \ {0}, reversed : Nat]]
    <2>1. \A key \in DOMAIN pairs' :
            pairs'[key] \in [samples : Nat \ {0}, reversed : Nat]
      BY <1>10
    <2>2. pairs' = [key \in DOMAIN pairs' |-> pairs'[key]]  BY <1>2
    <2>3. QED  BY <2>1, <2>2
  <1>13. QED  BY <1>10, <1>11, <1>12 DEF PairInv, PairsBackedByClocks

LEMMA NextPairInv == IInv /\ FlightInv /\ PairInv /\ [Next]_vars => PairInv'
  <1> SUFFICES ASSUME IInv, FlightInv, PairInv, [Next]_vars PROVE PairInv'
    OBVIOUS
  <1>1. CASE UNCHANGED <<sensors, pairs>>
    BY <1>1 DEF PairInv, PairsBackedByClocks
  <1>2. ASSUME NEW w \in Workers, NEW batch \in Batches, Apply(w, batch)
        PROVE  PairInv'
    BY <1>1, <1>2 DEF Apply
  <1>3. ASSUME NEW w \in Workers, SolveFails(w) PROVE PairInv'
    BY <1>1, <1>3 DEF SolveFails
  <1>4. ASSUME NEW w \in Workers, Updates(w) PROVE PairInv'
    BY <1>4, UpdatePairInv DEF Updates
  <1>5. CASE UNCHANGED vars  BY <1>1, <1>5 DEF vars
  <1>6. QED  BY <1>2, <1>3, <1>4, <1>5 DEF Next

\* The three invariants hold in every behaviour, whatever overlaps
\* (calibration.go:102-163 and 258-285).
THEOREM PairInvariance == Spec => [](IInv /\ FlightInv /\ PairInv)
  <1>1. Init => IInv /\ FlightInv /\ PairInv
    BY InitIInv DEF Init, FlightInv, PairInv, PairsBackedByClocks
  <1>2. QED  BY <1>1, NextIInv, NextFlightInv, NextPairInv, PTL DEF Spec

\* A pair never has more samples than either of its clocks
\* (calibration.go:139-162 and 258-285).
THEOREM PairsAreBacked == Spec => []PairsBackedByClocks
  <1>1. PairInv => PairsBackedByClocks  BY DEF PairInv
  <1>2. QED  BY <1>1, PairInvariance, PTL

-----------------------------------------------------------------------------
(* The rest of the type, and why a clock becomes unreliable *)

SensorsInv ==
  /\ DOMAIN sensors \subseteq Sensors
  /\ raced \subseteq Sensors
  /\ batches \in 0..MaxBatches

LEMMA NextSensorsInv == FlightInv /\ SensorsInv /\ [Next]_vars => SensorsInv'
  <1> SUFFICES ASSUME FlightInv, SensorsInv, [Next]_vars PROVE SensorsInv'
    OBVIOUS
  <1>1. ASSUME NEW w \in Workers, NEW batch \in Batches, Apply(w, batch)
        PROVE  SensorsInv'
    BY <1>1, ConstantsAssumption DEF Apply, SensorsInv
  <1>2. ASSUME NEW w \in Workers, SolveFails(w) PROVE SensorsInv'
    BY <1>2 DEF SolveFails, SensorsInv
  <1>3. ASSUME NEW w \in Workers, Updates(w) PROVE SensorsInv'
    <2>1. inflight[w].batch \in Batches
      BY <1>3 DEF Updates, Update, FlightInv
    <2>2. Range(inflight[w].batch) \subseteq Sensors  BY <2>1 DEF Batches, Range
    <2>3. /\ DOMAIN sensors' = DOMAIN sensors \cup Range(inflight[w].batch)
          /\ raced' \subseteq raced \cup Range(inflight[w].batch)
          /\ batches' = batches
      BY <1>3 DEF Updates, Update
    <2>4. QED  BY <2>2, <2>3 DEF SensorsInv
  <1>4. CASE UNCHANGED vars  BY <1>4 DEF vars, SensorsInv
  <1>5. QED  BY <1>1, <1>2, <1>3, <1>4 DEF Next

\* s shares a pair that counts.
Shared(s) ==
  \E key \in DOMAIN pairs :
     s \in {key[1], key[2]} /\ pairs[key].samples >= MinPairSamples

\* Without a cause the jitter of a clock is an average of residuals.
CauseInv ==
  /\ \A w \in Workers : \A s \in inflight[w].peered : Shared(s)
  /\ \A s \in DOMAIN sensors :
        s \in raced \/ Shared(s) \/ sensors[s].jitter <= InlierGate

\* Pairs only gain samples.
LEMMA SharedStays ==
  ASSUME PairInv, FlightInv, NEW w \in Workers,
         NEW residual, NEW error, Update(w, residual, error),
         NEW s, Shared(s)
  PROVE  Shared(s)'
  <1> DEFINE batch == inflight[w].batch
  <1>1. PICK key \in DOMAIN pairs :
          s \in {key[1], key[2]} /\ pairs[key].samples >= MinPairSamples
    BY DEF Shared
  <1>2. key \in DOMAIN pairs' /\ pairs'[key].samples =
          pairs[key].samples + Cardinality(Measured(batch, key))
    BY <1>1 DEF Update, UpdatePairOffsets, PairBefore
  <1>3. Cardinality(Measured(batch, key)) \in Nat
    <2>1. batch \in Batches  BY DEF Update, FlightInv
    <2>2. QED  BY <2>1, MeasuredOnce
  <1>4. pairs[key].samples \in Nat  BY <1>1 DEF PairInv
  <1>5. pairs'[key].samples >= MinPairSamples
    BY <1>1, <1>2, <1>3, <1>4, ConstantsAssumption
  <1>6. QED  BY <1>1, <1>2, <1>5 DEF Shared

LEMMA UpdateCauseInv ==
  ASSUME IInv, FlightInv, PairInv, CauseInv, NEW w \in Workers,
         NEW residual \in [Range(inflight[w].batch) -> Residuals],
         NEW error \in [Range(inflight[w].batch) \cap DOMAIN sensors ->
                          CorrectionErrors \cup 0..InlierGate],
         \A s \in Range(inflight[w].batch) \cap DOMAIN sensors :
            error[s] \in ErrorsOf(w, s, residual[s]),
         Update(w, residual, error)
  PROVE  CauseInv'
  <1> DEFINE heard == Range(inflight[w].batch)
  <1>1. sensors' = [s \in DOMAIN sensors \cup heard |->
                      CASE s \notin heard -> sensors[s]
                        [] s \in heard \ DOMAIN sensors -> NewClock(residual[s])
                        [] OTHER -> Learn(sensors[s], residual[s], error[s])]
    BY DEF Update
  <1>2. \A s \in heard : residual[s] \in 0..InlierGate
    <2>1. Residuals \subseteq 0..InlierGate  BY ConstantsAssumption
    <2>2. QED  BY <2>1
  <1>3. raced' = raced \cup (inflight[w].stale \cap heard)  BY DEF Update
  <1>4. \A s : Shared(s) => Shared(s)'  BY SharedStays
  <1>5. \A s \in heard \cap DOMAIN sensors : error[s] \in ErrorsOf(w, s, residual[s])
    OBVIOUS
  <1>6. \A v \in Workers : inflight'[v].peered \subseteq inflight[v].peered
    BY DEF Update, Idle
  <1> HIDE DEF heard
  <1>7. ASSUME NEW v \in Workers, NEW s \in inflight'[v].peered
        PROVE  Shared(s)'
    BY <1>4, <1>6, <1>7 DEF CauseInv
  <1>8. ASSUME NEW s \in DOMAIN sensors'
        PROVE  s \in raced' \/ Shared(s)' \/ sensors'[s].jitter <= InlierGate
    <2>1. s \in DOMAIN sensors \cup heard  BY <1>1, <1>8
    <2>2. CASE s \notin heard
      <3>1. s \in DOMAIN sensors /\ sensors'[s] = sensors[s]
        BY <1>1, <2>1, <2>2
      <3>2. QED  BY <1>3, <1>4, <3>1 DEF CauseInv
    <2>3. CASE s \in heard \ DOMAIN sensors
      <3>1. sensors'[s].jitter = residual[s]  BY <1>1, <2>1, <2>3 DEF NewClock
      <3>2. QED  BY <1>2, <2>3, <3>1, ConstantsAssumption
    <2>4. CASE s \in heard /\ s \in DOMAIN sensors
      <3>1. CASE s \in inflight[w].stale  BY <1>3, <2>4, <3>1
      <3>2. CASE s \in inflight[w].peered  BY <1>4, <3>2 DEF CauseInv
      <3>3. CASE s \in raced \/ Shared(s)  BY <1>3, <1>4, <3>3
      <3>4. CASE /\ s \notin inflight[w].peered \cup inflight[w].stale
                 /\ sensors[s].jitter <= InlierGate
        <4>1. error[s] \in 0..residual[s]  BY <1>5, <2>4, <3>4 DEF ErrorsOf
        <4>2. error[s] \in 0..InlierGate
          BY <1>2, <2>4, <4>1, ConstantsAssumption
        <4>3. sensors[s].jitter \in 0..InlierGate
          BY <2>4, <3>4, ConstantsAssumption DEF IInv, SoundClock
        <4>4. Blend(sensors[s].jitter, error[s]) \in 0..InlierGate
          BY <4>2, <4>3, BlendBound, ConstantsAssumption
        <4>5. sensors'[s].jitter = Blend(sensors[s].jitter, error[s])
          BY <1>1, <2>4 DEF Learn
        <4>6. QED  BY <4>4, <4>5
      <3>5. QED  BY <2>4, <3>1, <3>2, <3>3, <3>4 DEF CauseInv
    <2>5. QED  BY <2>1, <2>2, <2>3, <2>4
  <1>9. QED  BY <1>7, <1>8 DEF CauseInv

LEMMA NextCauseInv ==
  IInv /\ FlightInv /\ PairInv /\ CauseInv /\ [Next]_vars => CauseInv'
  <1> SUFFICES ASSUME IInv, FlightInv, PairInv, CauseInv, [Next]_vars
               PROVE  CauseInv'
    OBVIOUS
  <1>1. ASSUME UNCHANGED <<sensors, pairs, raced>>,
               \A w \in Workers : \A s \in inflight'[w].peered : Shared(s)
        PROVE  CauseInv'
    BY <1>1 DEF CauseInv, Shared
  <1>2. ASSUME NEW w \in Workers, NEW batch \in Batches, Apply(w, batch)
        PROVE  CauseInv'
    <2>1. \A s : Peers(batch, s) # {} => Shared(s)
      BY DEF Peers, PairKey, Shared
    <2>2. \A v \in Workers : \A s \in inflight'[v].peered :
            Shared(s) \/ Peers(batch, s) # {}
      BY <1>2 DEF Apply, CauseInv
    <2>3. QED  BY <1>1, <1>2, <2>1, <2>2 DEF Apply
  <1>3. ASSUME NEW w \in Workers, SolveFails(w) PROVE CauseInv'
    BY <1>1, <1>3 DEF SolveFails, Idle, CauseInv
  <1>4. ASSUME NEW w \in Workers, Updates(w) PROVE CauseInv'
    BY <1>4, UpdateCauseInv DEF Updates
  <1>5. CASE UNCHANGED vars  BY <1>1, <1>5 DEF vars, CauseInv
  <1>6. QED  BY <1>2, <1>3, <1>4, <1>5 DEF Next

\* All invariants together.
THEOREM FullInvariance ==
  Spec => [](IInv /\ FlightInv /\ PairInv /\ SensorsInv /\ CauseInv)
  <1>1. Init => IInv /\ FlightInv /\ PairInv /\ SensorsInv /\ CauseInv
    BY InitIInv, ConstantsAssumption
    DEF Init, Idle, FlightInv, PairInv, PairsBackedByClocks, SensorsInv, CauseInv
  <1>2. QED
    BY <1>1, NextIInv, NextFlightInv, NextPairInv, NextSensorsInv, NextCauseInv,
       PTL DEF Spec

\* Sensors and pairs are well formed (calibration.go:125-135 and 269-292).
THEOREM TypeCorrect == Spec => []TypeOK
  <1>1. IInv /\ FlightInv /\ PairInv /\ SensorsInv => TypeOK
    <2> SUFFICES ASSUME IInv, FlightInv, PairInv, SensorsInv PROVE TypeOK
      OBVIOUS
    <2>1. sensors \in [DOMAIN sensors -> Clock]
      BY ConstantsAssumption DEF IInv, SoundClock, Clock
    <2>2. ASSUME NEW key \in DOMAIN pairs
          PROVE  /\ key \in Sensors \X Sensors
                 /\ key[1] < key[2]
                 /\ pairs[key].samples \in Nat \ {0}
                 /\ pairs[key].reversed \in 0..pairs[key].samples
      BY <2>2 DEF PairInv
    <2>3. ASSUME NEW w \in Workers PROVE Range(inflight[w].batch) \subseteq Sensors
      <3>1. CASE inflight[w] = Idle
        <4>1. inflight[w].batch = <<>>  BY <3>1 DEF Idle
        <4>2. Range(<<>>) = {}  BY DEF Range
        <4>3. QED  BY <4>1, <4>2
      <3>2. CASE inflight[w].batch \in Batches
        <4>1. inflight[w].batch \in [1..MinSensors -> Sensors]
          BY <3>2 DEF Batches
        <4>2. QED  BY <4>1 DEF Range
      <3>3. QED  BY <3>1, <3>2, <2>3 DEF FlightInv
    <2>4. QED  BY <2>1, <2>2, <2>3 DEF TypeOK, SensorsInv
  <1>2. QED  BY <1>1, FullInvariance, PTL

\* No clock becomes unreliable by its own residuals: it takes a peer's
\* estimate or a correction gone stale (calibration.go:118-143 and 298-300).
THEOREM UnreliabilityHasCause == Spec => []UnreliableHasCause
  <1>1. IInv /\ CauseInv => UnreliableHasCause
    <2> SUFFICES ASSUME IInv, CauseInv, NEW s \in DOMAIN sensors,
                        ~Reliable(sensors[s]), s \notin raced
                 PROVE  Shared(s)
      BY DEF UnreliableHasCause, Shared
    <2>1. sensors[s].jitter \in Nat /\ sensors[s].samples \in Nat
      BY DEF IInv, SoundClock
    <2>2. ~(sensors[s].jitter <= InlierGate)
      BY <2>1, ConstantsAssumption, LimitsAssumption DEF Reliable
    <2>3. QED  BY <2>2 DEF CauseInv
  <1>2. QED  BY <1>1, FullInvariance, PTL
=============================================================================
