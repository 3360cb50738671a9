------------------------------ MODULE MCBuffer ------------------------------
(***************************************************************************)
(* Instances of module Buffer for TLC.  A unit of time is the              *)
(* CorrelationWindow, 10 ms in the code.                                   *)
(***************************************************************************)
EXTENDS Buffer, TLC

TwoStamps == 0..1

WideStamps == 0..4

\* Sensors are interchangeable: no definition orders them.
SensorSymmetry == Permutations(Sensors)
=============================================================================
