---------------------------- MODULE MCCalibrator ----------------------------
(***************************************************************************)
(* Instances of module Calibrator for TLC.  A unit of time is 10 us: the   *)
(* solver's inlier gate of 3000 m is one unit, the scales of computeTrust  *)
(* are those of the code, and a correction is either as predicted or off   *)
(* by 20 ms.                                                               *)
(***************************************************************************)
EXTENDS Calibrator, TLC

ThreeSensors == 1..3

GateResiduals == 0..1

NoneOrLarge == {0, 2000}

WorkerSymmetry == Permutations(Workers)
=============================================================================
