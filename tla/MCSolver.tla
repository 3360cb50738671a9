------------------------------ MODULE MCSolver ------------------------------
(***************************************************************************)
(* Instances of module Solver for TLC.                                     *)
(***************************************************************************)
EXTENDS Solver

FewCosts == 0..2

FewRms == 0..2

FewSumSq == 0..1

\* Batches of the minimal size and larger, too small ones, and one with a sensor
\* that is there twice.
SmallBatches == {<<1>>, <<1, 2>>, <<2, 3, 1>>, <<1, 2, 2>>, <<4, 2, 3, 1>>}
=============================================================================
