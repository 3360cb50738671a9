-------------------------------- MODULE MCHub -------------------------------
(***************************************************************************)
(* Instances of module Hub for TLC.                                        *)
(***************************************************************************)
EXTENDS Hub
=============================================================================
