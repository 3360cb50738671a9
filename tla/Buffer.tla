------------------------------- MODULE Buffer -------------------------------
(***************************************************************************)
(* mlat/buffer.go: the buffer that correlates observations of one          *)
(* transmitted frame across sensors.  Stream handlers call Add             *)
(* concurrently; each group of observations has a timer (time.AfterFunc)   *)
(* whose callback runs in a goroutine of its own.  Add and the first half  *)
(* of the callback run under b.mu, so each is one action; the second half  *)
(* of the callback runs after the unlock and is an action of its own.      *)
(*                                                                         *)
(* A timer that has fired cannot be stopped: its callback waits for b.mu   *)
(* while Add may still find the group, extend it and arm a new timer.      *)
(* Real time is abstracted: an armed timer may fire at any moment.         *)
(* The callbacks OnObservation and OnReady belong to other components: the *)
(* batch passed to OnReady is this module's output `batches`, and          *)
(* OnObservation is nil, as in the buffer's tests.                         *)
(***************************************************************************)
EXTENDS Integers, Sequences, FiniteSets, Functions

CONSTANTS
  Sensors,            \* sensor ids (Observation.SensorID)
  Keys,               \* correlation keys: aircraft and raw frame
  Stamps,             \* receive timestamps (Observation.TimestampNs)
  MinSensors,         \* observations that make a group ready
  CorrelationWindow,  \* how far from the anchor a timestamp may lie
  MaxArrivals         \* bound: calls of Add in a behaviour

ASSUME ConstantsAssumption ==
  /\ Stamps \subseteq Int
  /\ MinSensors \in Nat /\ MinSensors >= 2
  /\ CorrelationWindow \in Nat
  /\ MaxArrivals \in Nat

VARIABLES
  arrivals,    \* calls of Add so far
  nextGroup,   \* b.nextGroup
  groups,      \* b.groups: group id -> group
  index,       \* b.index: key -> ids, in creation order, which is id order;
               \* {} for no entry
  timers,      \* b.timers: group id -> state of the newest timer
  callbacks,   \* groups with a fired callback that waits for b.mu
  expired,     \* groups a callback took out of b.groups and still holds
  batches,     \* observations handed to OnReady, one sequence per call
  superseded,  \* history: observations dropped by observationGroup.add
  discarded    \* history: observations dropped by a callback

vars == <<arrivals, nextGroup, groups, index, timers, callbacks, expired,
          batches, superseded, discarded>>

Observations == [n : 1..MaxArrivals, sensor : Sensors, key : Keys, ts : Stamps]

Group == [key : Keys, anchor : Int, obs : Seq(Observations)]

Ids == 1..nextGroup

-----------------------------------------------------------------------------
(* Helpers *)

absInt64(v) == IF v < 0 THEN -v ELSE v

With(f, x, v) == [y \in DOMAIN f \cup {x} |-> IF y = x THEN v ELSE f[y]]

Without(f, x) == Restrict(f, DOMAIN f \ {x})

Delta(o, group) == absInt64(o.ts - group.anchor)

\* Mutant: the receive time is not compared.
NearAtAnyTime(o) == index[o.key] \cap DOMAIN groups

\* Mutant: the frame is not compared.
NearOfAnyFrame(o) == {g \in DOMAIN groups : Delta(o, groups[g]) <= CorrelationWindow}

\* The groups of o's frame that o is close enough to.
Near(o) ==
  {g \in index[o.key] :
      g \in DOMAIN groups /\ Delta(o, groups[g]) <= CorrelationWindow}

\* Mutant: the first group that is close enough will do.
ClosestIsFirst(o, g) == \A h \in Near(o) : g <= h

\* The closest of them; the oldest group wins a tie.
Closest(o, g) ==
  \A h \in Near(o) :
     \/ Delta(o, groups[g]) < Delta(o, groups[h])
     \/ Delta(o, groups[g]) = Delta(o, groups[h]) /\ g <= h

EmptyGroup(o) == [key |-> o.key, anchor |-> o.ts, obs |-> <<>>]

SameSensor(group, o) ==
  {i \in DOMAIN group.obs : group.obs[i].sensor = o.sensor}

\* The position where observationGroup.add meets o's sensor first.
Rival(group, o) ==
  CHOOSE i \in SameSensor(group, o) : \A j \in SameSensor(group, o) : i <= j

Replaces(group, o) ==
  Delta(o, group) < Delta(group.obs[Rival(group, o)], group)

\* observationGroup.add: a sensor counts once, with its timestamp closest to
\* the anchor; only a new sensor can move the anchor, and only backwards.
AddTo(group, o) ==
  IF SameSensor(group, o) # {}
    THEN IF Replaces(group, o)
           THEN [group EXCEPT !.obs[Rival(group, o)] = o]
           ELSE group
    ELSE [key    |-> group.key,
          anchor |-> IF o.ts < group.anchor THEN o.ts ELSE group.anchor,
          obs    |-> Append(group.obs, o)]

\* The observation that add drops, if any.
Dropped(group, o) ==
  CASE SameSensor(group, o) = {} -> {}
    [] SameSensor(group, o) # {} /\ Replaces(group, o) ->
         {group.obs[Rival(group, o)]}
    [] OTHER -> {o}

\* Mutant: the timer of a removed group stays in b.timers.
RemoveGroupKeepsTimer(g, key, ids) ==
  /\ groups' = Without(groups, g)
  /\ index' = [ids EXCEPT ![key] = @ \ {g}]
  /\ UNCHANGED timers

\* Mutant: the whole entry of the frame goes with one of its groups.
RemoveGroupDropsIndex(g, key, ids) ==
  /\ groups' = Without(groups, g)
  /\ timers' = Without(timers, g)
  /\ index' = [ids EXCEPT ![key] = {}]

\* Everything removeGroupLocked does to the three maps.
RemoveGroup(g, key, ids) ==
  /\ groups' = Without(groups, g)
  /\ timers' = Without(timers, g)
  /\ index' = [ids EXCEPT ![key] = @ \ {g}]

-----------------------------------------------------------------------------
(* Actions *)

Init ==
  /\ arrivals = 0
  /\ nextGroup = 0
  /\ groups = <<>>
  /\ index = [k \in Keys |-> {}]
  /\ timers = <<>>
  /\ callbacks = {}
  /\ expired = <<>>
  /\ batches = {}
  /\ superseded = {}
  /\ discarded = {}

\* Mutant: the old timer is stopped and no new one is armed.
ExtendStopsTimer(o, g, found, ids) ==
  LET group == AddTo(found, o)
  IN  /\ superseded' = superseded \cup Dropped(found, o)
      /\ IF Len(group.obs) >= MinSensors
           THEN /\ batches' = batches \cup {group.obs}
                /\ RemoveGroup(g, o.key, ids)
           ELSE /\ groups' = With(groups, g, group)
                /\ timers' = With(timers, g, IF g \in DOMAIN timers
                                              THEN "stopped" ELSE "armed")
                /\ index' = ids
                /\ UNCHANGED batches

\* The part of Add after the group is found: extend it, then hand it over
\* when enough sensors are in it, else (re)arm its timer.  Stopping the old
\* timer leaves a callback that already fired in `callbacks`.
Extend(o, g, found, ids) ==
  LET group == AddTo(found, o)
  IN  /\ superseded' = superseded \cup Dropped(found, o)
      /\ IF Len(group.obs) >= MinSensors
           THEN /\ batches' = batches \cup {group.obs}
                /\ RemoveGroup(g, o.key, ids)
           ELSE /\ groups' = With(groups, g, group)
                /\ timers' = With(timers, g, "armed")
                /\ index' = ids
                /\ UNCHANGED batches

JoinGroup(o) ==
  \E g \in Near(o) :
     /\ Closest(o, g)
     /\ Extend(o, g, groups[g], index)
     /\ UNCHANGED nextGroup

OpenGroup(o) ==
  /\ Near(o) = {}
  /\ nextGroup' = nextGroup + 1
  /\ Extend(o, nextGroup + 1, EmptyGroup(o),
            [index EXCEPT ![o.key] = @ \cup {nextGroup + 1}])

Add(sensor, key, ts) ==
  LET o == [n |-> arrivals + 1, sensor |-> sensor, key |-> key, ts |-> ts]
  IN  /\ arrivals < MaxArrivals
      /\ arrivals' = arrivals + 1
      /\ JoinGroup(o) \/ OpenGroup(o)
      /\ UNCHANGED <<callbacks, expired, discarded>>

TimerFires(g) ==
  /\ g \in DOMAIN timers
  /\ timers[g] = "armed"
  /\ timers' = [timers EXCEPT ![g] = "fired"]
  /\ callbacks' = callbacks \cup {g}
  /\ UNCHANGED <<arrivals, nextGroup, groups, index, expired, batches,
                 superseded, discarded>>

\* Mutant: the callback leaves the group in the maps.
CallbackTakesCopy(g) ==
  /\ g \in callbacks
  /\ g \in DOMAIN groups
  /\ callbacks' = callbacks \ {g}
  /\ expired' = With(expired, g, groups[g])
  /\ UNCHANGED <<arrivals, nextGroup, groups, index, timers, batches,
                 superseded, discarded>>

\* The callback under b.mu, for a group that is still there ...
CallbackTakes(g) ==
  /\ g \in callbacks
  /\ g \in DOMAIN groups
  /\ callbacks' = callbacks \ {g}
  /\ expired' = With(expired, g, groups[g])
  /\ RemoveGroup(g, groups[g].key, index)
  /\ UNCHANGED <<arrivals, nextGroup, batches, superseded, discarded>>

\* ... and for one that Add handed over while the callback was waiting.
CallbackTooLate(g) ==
  /\ g \in callbacks
  /\ g \notin DOMAIN groups
  /\ callbacks' = callbacks \ {g}
  /\ UNCHANGED <<arrivals, nextGroup, groups, index, timers, expired, batches,
                 superseded, discarded>>

\* The callback after the unlock.
CallbackSettles(g) ==
  /\ g \in DOMAIN expired
  /\ expired' = Without(expired, g)
  /\ IF Len(expired[g].obs) >= MinSensors
       THEN /\ batches' = batches \cup {expired[g].obs}
            /\ UNCHANGED discarded
       ELSE /\ discarded' = discarded \cup Range(expired[g].obs)
            /\ UNCHANGED batches
  /\ UNCHANGED <<arrivals, nextGroup, groups, index, timers, callbacks,
                 superseded>>

Next ==
  \/ \E s \in Sensors, k \in Keys, t \in Stamps : Add(s, k, t)
  \/ \E g \in Ids : TimerFires(g)
  \/ \E g \in Ids : CallbackTakes(g)
  \/ \E g \in Ids : CallbackTooLate(g)
  \/ \E g \in Ids : CallbackSettles(g)

Spec == Init /\ [][Next]_vars

\* A timer that is left alone fires, and a goroutine that can run does run.
\* Nothing obliges a sensor to send.
FairSpec ==
  /\ Spec
  /\ \A g \in 1..MaxArrivals :
        /\ WF_vars(TimerFires(g))
        /\ WF_vars(CallbackTakes(g))
        /\ WF_vars(CallbackTooLate(g))
        /\ WF_vars(CallbackSettles(g))

-----------------------------------------------------------------------------
(* Properties *)

Live == DOMAIN groups

Members(group) == Range(group.obs)

\* Every live group has exactly one timer and every id is one that was given
\* out: Add and removeGroupLocked keep b.groups and b.timers in step
\* (buffer.go:58-90 and 144-153).
TypeOK ==
  /\ arrivals \in 0..MaxArrivals
  /\ nextGroup \in 0..arrivals
  /\ Live \subseteq Ids
  /\ groups \in [Live -> Group]
  /\ index \in [Keys -> SUBSET Ids]
  /\ timers \in [Live -> {"armed", "fired"}]
  /\ callbacks \subseteq Ids
  /\ DOMAIN expired \subseteq Ids
  /\ expired \in [DOMAIN expired -> Group]
  /\ batches \subseteq Seq(Observations)
  /\ superseded \subseteq Observations
  /\ discarded \subseteq Observations

\* The index of a key names exactly the live groups of that key: no entry
\* outlives its group, and when one of several groups of a frame goes, the
\* others stay in findOrCreateGroup's sight (buffer.go:93-125 and 155-166).
IndexConsistent ==
  \A k \in Keys : index[k] = {g \in Live : groups[g].key = k}

OneFrame(obs) == \A i, j \in DOMAIN obs : obs[i].key = obs[j].key

OnePerSensor(obs) ==
  \A i, j \in DOMAIN obs : obs[i].sensor = obs[j].sensor => i = j

\* A group in the buffer holds one observation per sensor of its own frame,
\* at least one and fewer than a solve needs (buffer.go:62-68 and 127-142).
GroupsUnsolved ==
  \A g \in Live :
     /\ Len(groups[g].obs) \in 1..(MinSensors - 1)
     /\ OnePerSensor(groups[g].obs)
     /\ \A i \in DOMAIN groups[g].obs : groups[g].obs[i].key = groups[g].key

\* What OnReady is called with is solvable and minimal: observations of one
\* frame, of MinSensors different sensors.  The solver's weights and the
\* contributor list of a fix count on it (buffer.go:62-68 and 84-86).
BatchesSolvable ==
  \A b \in batches :
     /\ Len(b) = MinSensors
     /\ OnePerSensor(b)
     /\ OneFrame(b)

\* The anchor moves back with early observations, so a batch can stretch over
\* more than one CorrelationWindow, but not over more than MinSensors - 1 of
\* them (buffer.go:104-108 and 138-140).
BatchSpread ==
  \A b \in batches : \A i, j \in DOMAIN b :
     b[i].ts - b[j].ts <= (MinSensors - 1) * CorrelationWindow

\* The anchors of the live groups of one frame differ, even after anchors
\* moved towards each other: an observation between two groups goes to the
\* nearer one, so two groups never collapse onto one instant and the choice
\* between them is by time (buffer.go:97-109 and 138-140).
AnchorsDistinct ==
  \A g, h \in Live :
     /\ groups[g].key = groups[h].key
     /\ groups[g].anchor = groups[h].anchor
     => g = h

\* No group is stranded: while it is in b.groups, either its newest timer has
\* yet to fire or a callback that will take it waits for the lock, although
\* Stop may come too late for a timer (buffer.go:58-60 and 70-78).
NoOrphanGroup ==
  \A g \in Live : timers[g] = "armed" \/ g \in callbacks

\* Every observation has exactly one fate, and a final one: the buffer
\* implements the promise of module Correlation.
pending ==
  (UNION {Members(groups[g]) : g \in Live})
    \cup (UNION {Members(expired[g]) : g \in DOMAIN expired})

Promise == INSTANCE Correlation
             WITH solved <- {Range(b) : b \in batches}

OneFate == Promise!Spec

\* Whatever the order of timers, callbacks and calls of Add, a received
\* observation leaves the buffer once the sensors of its frame fall silent
\* (buffer.go:70-90).
IsPending(n) == \E o \in pending : o.n = n

EveryObservationSettles ==
  \A n \in 1..MaxArrivals : IsPending(n) ~> ~IsPending(n)
=============================================================================
