----------------------------- MODULE MCSellers ------------------------------
(***************************************************************************)
(* Instances of module Sellers for TLC.                                    *)
(***************************************************************************)
EXTENDS Sellers, TLC

StreamSymmetry == Permutations(Streams)
=============================================================================
