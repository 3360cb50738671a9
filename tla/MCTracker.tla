----------------------------- MODULE MCTracker ------------------------------
(***************************************************************************)
(* Instances of module Tracker for TLC.  With a MaxGap of 2 units, the     *)
(* times below hold the first unit of a day (0), times within a gap of     *)
(* midnight and times beyond it.                                           *)
(***************************************************************************)
EXTENDS Tracker, TLC

DayTimes == 0..4

AircraftSymmetry == Permutations(Aircraft)
=============================================================================
