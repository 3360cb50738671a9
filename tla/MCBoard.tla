------------------------------ MODULE MCBoard -------------------------------
(***************************************************************************)
(* Instances of module Board for TLC.  A unit of time stands for 45 s, the *)
(* waitingRetention; the longer retentions keep their order.               *)
(***************************************************************************)
EXTENDS Board, TLC

TwoAircraft == 1..2

SmallGroups == 1..2
=============================================================================
