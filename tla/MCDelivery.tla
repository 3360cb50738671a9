----------------------------- MODULE MCDelivery -----------------------------
(***************************************************************************)
(* Instances of module Delivery for TLC.                                   *)
(***************************************************************************)
EXTENDS Delivery, TLC

CONSTANT a1

\* All batches are of one aircraft.
OneIcao == [g \in Goroutines |-> a1]

\* Goroutines of one aircraft are interchangeable.
GoroutineSymmetry == Permutations(Goroutines)
=============================================================================
