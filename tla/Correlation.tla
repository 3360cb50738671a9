----------------------------- MODULE Correlation -----------------------------
(***************************************************************************)
(* What the correlation buffer promises to the rest of the pipeline,       *)
(* without groups, anchors, timers or locks: every received observation    *)
(* ends with exactly one fate.  It is solved together with MinSensors - 1  *)
(* other observations of the same frame from other sensors, or it is       *)
(* superseded by another observation of its own sensor, or it is discarded *)
(* with a handful too small to solve.  A fate, once given, is final.       *)
(* Module Buffer is shown to implement this specification.                 *)
(***************************************************************************)
EXTENDS Integers, FiniteSets

CONSTANTS
  Observations,  \* every observation that can be received
  MinSensors     \* observations needed for a solve

VARIABLES
  pending,     \* received, fate not yet decided
  superseded,  \* dropped for another observation of the same sensor
  solved,      \* the sets of observations handed to the solver
  discarded    \* dropped because too few sensors heard the frame

vars == <<pending, superseded, solved, discarded>>

Known == pending \cup superseded \cup (UNION solved) \cup discarded

SameFrame(S) == \A o, p \in S : o.key = p.key

DistinctSensors(S) == \A o, p \in S : o.sensor = p.sensor => o = p

Init ==
  /\ pending = {}
  /\ superseded = {}
  /\ solved = {}
  /\ discarded = {}

\* A new observation waits for others of its frame.
Accept(o) ==
  /\ pending' = pending \cup {o}
  /\ UNCHANGED <<superseded, solved, discarded>>

\* A new observation competes with a pending one p of the same sensor and
\* frame: one of the two is dropped, the other one waits.
Supersede(o, p) ==
  /\ p.sensor = o.sensor
  /\ p.key = o.key
  /\ \E loser \in {o, p} :
        /\ pending' = (pending \cup {o}) \ {loser}
        /\ superseded' = superseded \cup {loser}
  /\ UNCHANGED <<solved, discarded>>

\* A new observation completes a solvable set with the pending ones of S.
Complete(o, S) ==
  /\ Cardinality(S) = MinSensors - 1
  /\ SameFrame(S \cup {o})
  /\ DistinctSensors(S \cup {o})
  /\ solved' = solved \cup {S \cup {o}}
  /\ pending' = pending \ S
  /\ UNCHANGED <<superseded, discarded>>

\* A frame that too few sensors heard is given up.
Discard(S) ==
  /\ S # {}
  /\ Cardinality(S) < MinSensors
  /\ SameFrame(S)
  /\ DistinctSensors(S)
  /\ pending' = pending \ S
  /\ discarded' = discarded \cup S
  /\ UNCHANGED <<superseded, solved>>

Next ==
  \/ \E o \in Observations \ Known :
        \/ Accept(o)
        \/ \E p \in pending : Supersede(o, p)
        \/ \E S \in SUBSET pending : Complete(o, S)
  \/ \E S \in SUBSET pending : Discard(S)

Spec == Init /\ [][Next]_vars

-----------------------------------------------------------------------------
(***************************************************************************)
(* What follows from it                                                    *)
(***************************************************************************)

\* An observation has one fate, and is solved once.
OneFateEach ==
  /\ pending \cap (superseded \cup (UNION solved) \cup discarded) = {}
  /\ superseded \cap (UNION solved) = {}
  /\ superseded \cap discarded = {}
  /\ (UNION solved) \cap discarded = {}
  /\ \A S, T \in solved : S \cap T # {} => S = T

\* A fate is final, and no observation is lost before it has one.
FatesKept ==
  [][/\ superseded \subseteq superseded'
     /\ solved \subseteq solved'
     /\ discarded \subseteq discarded'
     /\ pending \subseteq Known']_vars

=============================================================================
