---------------------------- MODULE BufferProofs ----------------------------
(***************************************************************************)
(* Theorems about module Buffer, for every set of sensors, keys and        *)
(* timestamps, every threshold and window and any number of arrivals.      *)
(*                                                                         *)
(* The invariants hold together or not at all: a batch is exact because    *)
(* live groups are unsolved, a group is unsolved because Add closes it,    *)
(* and Add finds it because the index is consistent.  IInv collects them   *)
(* with the two facts they need about groups out of the map and about the  *)
(* distance of timestamps from the anchor.                                 *)
(*                                                                         *)
(* The last part shows that the buffer implements Correlation.             *)
(***************************************************************************)
EXTENDS Buffer, FiniteSetTheorems, TLAPS

\* A group taken by a callback is too small to solve.
ExpiredUnsolved ==
  \A g \in DOMAIN expired : Len(expired[g].obs) < MinSensors

\* How far the timestamps of a group lie from its anchor.  A replacement may
\* lie before the anchor, an appended observation lowers it to itself.
Windowed(group) ==
  /\ \A i \in DOMAIN group.obs :
        /\ group.anchor - CorrelationWindow <= group.obs[i].ts
        /\ group.obs[i].ts <= group.anchor + (Len(group.obs) - 1) * CorrelationWindow
  /\ Len(group.obs) = 1 => group.obs[1].ts = group.anchor

GroupsWindowed == \A g \in Live : Windowed(groups[g])

IInv ==
  /\ TypeOK
  /\ IndexConsistent
  /\ GroupsUnsolved
  /\ ExpiredUnsolved
  /\ BatchesSolvable
  /\ NoOrphanGroup
  /\ GroupsWindowed
  /\ BatchSpread
  /\ AnchorsDistinct

-----------------------------------------------------------------------------
(* observationGroup.add *)

\* A group that Add may extend: of the right type, one observation a sensor.
Sound(group) ==
  /\ group \in Group
  /\ OnePerSensor(group.obs)
  /\ \A i \in DOMAIN group.obs : group.obs[i].key = group.key

\* The sensor of an observation occurs at most once, so add's loop stops at
\* the one position there is.
LEMMA RivalUnique ==
  ASSUME NEW group, Sound(group), NEW o \in Observations,
         SameSensor(group, o) # {}
  PROVE  /\ Rival(group, o) \in DOMAIN group.obs
         /\ group.obs[Rival(group, o)].sensor = o.sensor
         /\ SameSensor(group, o) = {Rival(group, o)}
<1> DEFINE S == SameSensor(group, o)
<1>1. PICK i \in S : TRUE
  OBVIOUS
<1>2. /\ S \subseteq DOMAIN group.obs
      /\ \A j \in S : group.obs[j].sensor = o.sensor
  BY DEF SameSensor
<1>3. \A j \in S : j = i
  BY <1>1, <1>2 DEF Sound, OnePerSensor
<1>4. i \in Nat
  BY <1>1, <1>2 DEF Sound, Group
<1>5. \A j \in S : i <= j
  BY <1>3, <1>4
<1>6. Rival(group, o) \in S
  BY <1>1, <1>5 DEF Rival
<1> QED
  BY <1>1, <1>2, <1>3, <1>6

\* The three outcomes of add.
LEMMA AddToCases ==
  ASSUME NEW group, Sound(group), NEW o \in Observations
  PROVE  \/ AddTo(group, o) = group /\ SameSensor(group, o) # {}
         \/ \E r \in DOMAIN group.obs :
              /\ group.obs[r].sensor = o.sensor
              /\ Delta(o, group) < Delta(group.obs[r], group)
              /\ AddTo(group, o) = [group EXCEPT !.obs[r] = o]
         \/ /\ \A i \in DOMAIN group.obs : group.obs[i].sensor # o.sensor
            /\ AddTo(group, o) =
                 [key    |-> group.key,
                  anchor |-> IF o.ts < group.anchor THEN o.ts ELSE group.anchor,
                  obs    |-> Append(group.obs, o)]
<1>1. CASE SameSensor(group, o) = {}
  BY <1>1 DEF AddTo, SameSensor
<1>2. CASE SameSensor(group, o) # {} /\ ~Replaces(group, o)
  BY <1>2 DEF AddTo
<1>3. CASE SameSensor(group, o) # {} /\ Replaces(group, o)
  BY <1>3, RivalUnique DEF AddTo, Replaces
<1> QED
  BY <1>1, <1>2, <1>3

\* add keeps the group sound and never loses an entry.
LEMMA AddToSound ==
  ASSUME ConstantsAssumption,
         NEW group, Sound(group), NEW o \in Observations, o.key = group.key
  PROVE  /\ Sound(AddTo(group, o))
         /\ AddTo(group, o).key = group.key
         /\ Len(AddTo(group, o).obs) \in {Len(group.obs), Len(group.obs) + 1}
         /\ Len(AddTo(group, o).obs) >= 1
<1> USE DEF Group
<1> DEFINE result == AddTo(group, o)
<1>0. /\ group.obs \in Seq(Observations) /\ group.anchor \in Int
      /\ group.key \in Keys /\ o.ts \in Int
  BY DEF Sound, Observations, ConstantsAssumption
<1>1. CASE result = group /\ SameSensor(group, o) # {}
  BY <1>0, <1>1 DEF Sound, SameSensor
<1>2. ASSUME NEW r \in DOMAIN group.obs, group.obs[r].sensor = o.sensor,
             result = [group EXCEPT !.obs[r] = o]
      PROVE  /\ Sound(result) /\ result.key = group.key
             /\ Len(result.obs) = Len(group.obs) /\ Len(result.obs) >= 1
  <2>0. group = [key |-> group.key, anchor |-> group.anchor, obs |-> group.obs]
    BY DEF Sound
  <2> DEFINE seq == [group.obs EXCEPT ![r] = o]
  <2>a. seq \in Seq(Observations)
    BY <1>0
  <2>b. result = [group EXCEPT !.obs = seq]
    BY <1>2
  <2>c. [group EXCEPT !.obs = seq]
          = [key |-> group.key, anchor |-> group.anchor, obs |-> seq]
    <3> HIDE DEF seq
    <3> QED
      BY <2>0
  <2>1. result = [key |-> group.key, anchor |-> group.anchor, obs |-> seq]
    BY <2>b, <2>c
  <2>2. /\ DOMAIN result.obs = DOMAIN group.obs
        /\ Len(result.obs) = Len(group.obs)
        /\ Len(result.obs) >= 1
    BY <1>0, <1>2, <2>1
  <2>3. \A i \in DOMAIN group.obs : result.obs[i] = IF i = r THEN o ELSE group.obs[i]
    BY <1>0, <2>1
  <2>4. OnePerSensor(result.obs)
    BY <1>2, <2>2, <2>3 DEF Sound, OnePerSensor
  <2> QED
    BY <1>0, <2>1, <2>2, <2>3, <2>4 DEF Sound
<1>3. ASSUME \A i \in DOMAIN group.obs : group.obs[i].sensor # o.sensor,
             result = [key    |-> group.key,
                       anchor |-> IF o.ts < group.anchor THEN o.ts
                                                         ELSE group.anchor,
                       obs    |-> Append(group.obs, o)]
      PROVE  /\ Sound(result) /\ result.key = group.key
             /\ Len(result.obs) = Len(group.obs) + 1
  <2>1. result \in Group
    BY <1>0, <1>3
  <2>2. /\ DOMAIN result.obs = 1..(Len(group.obs) + 1)
        /\ DOMAIN group.obs = 1..Len(group.obs)
        /\ Len(result.obs) = Len(group.obs) + 1
        /\ result.obs[Len(group.obs) + 1] = o
        /\ \A i \in DOMAIN group.obs : result.obs[i] = group.obs[i]
    BY <1>0, <1>3
  <2>3. OnePerSensor(result.obs)
    BY <1>0, <1>3, <2>2 DEF Sound, OnePerSensor
  <2> QED
    BY <1>0, <1>3, <2>1, <2>2, <2>3 DEF Sound
<1>4. CASE \E r \in DOMAIN group.obs : /\ group.obs[r].sensor = o.sensor
                                      /\ result = [group EXCEPT !.obs[r] = o]
  <2>1. /\ Sound(result) /\ result.key = group.key
        /\ Len(result.obs) = Len(group.obs) /\ Len(result.obs) >= 1
    <3> HIDE DEF result
    <3> QED
      BY <1>2, <1>4
  <2> QED
    BY <2>1
<1>5. CASE /\ \A i \in DOMAIN group.obs : group.obs[i].sensor # o.sensor
           /\ result = [key    |-> group.key,
                        anchor |-> IF o.ts < group.anchor THEN o.ts
                                                          ELSE group.anchor,
                        obs    |-> Append(group.obs, o)]
  <2>1. /\ Sound(result) /\ result.key = group.key
        /\ Len(result.obs) = Len(group.obs) + 1
    <3> HIDE DEF result
    <3> QED
      BY <1>3, <1>5
  <2>2. Len(group.obs) \in Nat
    BY <1>0
  <2> HIDE DEF result
  <2>3. Len(result.obs) >= 1
    BY <2>1, <2>2
  <2> QED
    BY <2>1, <2>3 DEF result
<1>6. \/ result = group /\ SameSensor(group, o) # {}
      \/ \E r \in DOMAIN group.obs : /\ group.obs[r].sensor = o.sensor
                                    /\ result = [group EXCEPT !.obs[r] = o]
      \/ /\ \A i \in DOMAIN group.obs : group.obs[i].sensor # o.sensor
         /\ result = [key    |-> group.key,
                      anchor |-> IF o.ts < group.anchor THEN o.ts
                                                        ELSE group.anchor,
                      obs    |-> Append(group.obs, o)]
  <2>1. \/ result = group /\ SameSensor(group, o) # {}
        \/ \E r \in DOMAIN group.obs : /\ group.obs[r].sensor = o.sensor
                                      /\ Delta(o, group) < Delta(group.obs[r], group)
                                      /\ result = [group EXCEPT !.obs[r] = o]
        \/ /\ \A i \in DOMAIN group.obs : group.obs[i].sensor # o.sensor
           /\ result = [key    |-> group.key,
                        anchor |-> IF o.ts < group.anchor THEN o.ts
                                                          ELSE group.anchor,
                        obs    |-> Append(group.obs, o)]
    BY AddToCases
  <2> HIDE DEF result
  <2> QED
    BY <2>1
<1> QED
  BY <1>1, <1>4, <1>5, <1>6

\* (n + 1) * W written without a product of variables, for the solver.
LEMMA NextMultiple ==
  ASSUME NEW n \in Nat, NEW W \in Nat
  PROVE  /\ (n + 1) * W = n * W + W
         /\ n * W \in Nat
         /\ n >= 1 => n * W >= W
<1>1. (n + 1) * W = n * W + W /\ n * W \in Nat
  OBVIOUS
<1>2. ASSUME n >= 1 PROVE n * W >= W
  <2>1. n - 1 \in Nat /\ (n - 1) * W \in Nat
    BY <1>2
  <2>2. n * W = (n - 1) * W + W
    BY <2>1
  <2> QED
    BY <2>1, <2>2
<1> QED
  BY <1>1, <1>2

\* add keeps the timestamps of a group around its anchor: a replacement is
\* nearer to the anchor than what it replaces, and an appended observation is
\* within the window and lowers the anchor by at most one window.
LEMMA AddToWindowed ==
  ASSUME ConstantsAssumption,
         NEW group, Sound(group), Windowed(group),
         NEW o \in Observations, o.key = group.key,
         Delta(o, group) <= CorrelationWindow,
         Len(group.obs) = 0 => group.anchor = o.ts
  PROVE  Windowed(AddTo(group, o))
<1> DEFINE W == CorrelationWindow
           n == Len(group.obs)
           result == AddTo(group, o)
<1>0. /\ group.obs \in Seq(Observations) /\ group.anchor \in Int
      /\ o.ts \in Int /\ W \in Nat /\ n \in Nat
      /\ \A i \in DOMAIN group.obs : group.obs[i].ts \in Int
      /\ DOMAIN group.obs = 1..n
  <2>1. group.obs \in Seq(Observations) /\ group.anchor \in Int
    BY DEF Sound, Group
  <2>2. n \in Nat /\ DOMAIN group.obs = 1..n
    BY <2>1
  <2>3. \A i \in DOMAIN group.obs : group.obs[i] \in Observations
    BY <2>1
  <2>4. \A p \in Observations : p.ts \in Int
    BY DEF Observations, ConstantsAssumption
  <2> QED
    BY <2>1, <2>2, <2>3, <2>4 DEF ConstantsAssumption
<1>1. CASE result = group
  BY <1>1
<1>2. ASSUME NEW r \in DOMAIN group.obs,
             Delta(o, group) < Delta(group.obs[r], group),
             result = [group EXCEPT !.obs[r] = o]
      PROVE  Windowed(result)
  <2> DEFINE seq == [group.obs EXCEPT ![r] = o]
  <2>1. /\ result.obs = seq /\ result.anchor = group.anchor
    BY <1>2 DEF Sound, Group
  <2>2. /\ DOMAIN seq = 1..n /\ Len(seq) = n
        /\ \A i \in 1..n : seq[i] = IF i = r THEN o ELSE group.obs[i]
    BY <1>0
  <2>3. group.anchor - W <= o.ts /\ o.ts <= group.anchor + W
    BY <1>0 DEF Delta, absInt64
  <2>4. n > 1
    <3>1. ASSUME n = 1 PROVE FALSE
      <4>1. r = 1 /\ group.obs[r].ts = group.anchor
        BY <1>0, <3>1 DEF Windowed
      <4> QED
        BY <1>0, <1>2, <4>1 DEF Delta, absInt64
    <3>2. r \in 1..n
      BY <1>0
    <3> QED
      <4> HIDE DEF n
      <4> QED
        BY <1>0, <3>1, <3>2
  <2>5. (n - 1) * W >= W
    <3>1. n - 1 \in Nat /\ n - 1 >= 1
      BY <1>0, <2>4
    <3> QED
      BY <1>0, <3>1, NextMultiple
  <2>6. (n - 1) * W \in Int
    BY <1>0
  <2> DEFINE span == (n - 1) * W
  <2>7. \A i \in 1..n : /\ group.anchor - W <= seq[i].ts
                        /\ seq[i].ts <= group.anchor + span
    <3> HIDE DEF seq, W, n, span
    <3>1. \A i \in 1..n : /\ group.anchor - W <= group.obs[i].ts
                          /\ group.obs[i].ts <= group.anchor + span
      BY <1>0 DEF Windowed, W, n, span
    <3>2. span \in Int /\ span >= W
      BY <2>5, <2>6 DEF span
    <3>3. SUFFICES ASSUME NEW i \in 1..n
                   PROVE  /\ group.anchor - W <= seq[i].ts
                          /\ seq[i].ts <= group.anchor + span
      OBVIOUS
    <3>4. CASE i = r
      BY <1>0, <2>2, <2>3, <3>2, <3>4
    <3>5. CASE i # r
      BY <1>0, <2>2, <3>1, <3>5
    <3> QED
      BY <3>4, <3>5
  <2> QED
    <3>1. n # 1
      BY <1>0, <2>4
    <3>2. Len(result.obs) = n /\ DOMAIN result.obs = 1..n
      BY <2>1, <2>2
    <3> HIDE DEF seq, n, result
    <3> QED
      BY <2>1, <2>7, <3>1, <3>2 DEF Windowed, W, span
<1>3. ASSUME result = [key    |-> group.key,
                       anchor |-> IF o.ts < group.anchor THEN o.ts
                                                         ELSE group.anchor,
                       obs    |-> Append(group.obs, o)]
      PROVE  Windowed(result)
  <2> DEFINE seq == Append(group.obs, o)
             low == IF o.ts < group.anchor THEN o.ts ELSE group.anchor
  <2>1. result.obs = seq /\ result.anchor = low
    BY <1>3
  <2>2. /\ DOMAIN seq = 1..(n + 1) /\ Len(seq) = n + 1
        /\ seq[n + 1] = o
        /\ \A i \in 1..n : seq[i] = group.obs[i]
    BY <1>0
  <2>3. group.anchor - W <= o.ts /\ o.ts <= group.anchor + W
    BY <1>0 DEF Delta, absInt64
  <2>4. /\ n >= 1 => n * W = (n - 1) * W + W /\ n * W >= W
        /\ n * W \in Nat /\ (n - 1) * W \in Int
    <3>1. ASSUME n >= 1
          PROVE  n * W = (n - 1) * W + W /\ n * W >= W /\ n * W \in Nat
      <4>1. n - 1 \in Nat /\ (n - 1) + 1 = n
        BY <1>0, <3>1
      <4>2. ((n - 1) + 1) * W = (n - 1) * W + W
        BY <1>0, <4>1, NextMultiple
      <4> QED
        BY <1>0, <3>1, <4>1, <4>2, NextMultiple
    <3> QED
      BY <1>0, <3>1
  <2>5. low \in Int /\ low <= group.anchor /\ low <= o.ts
        /\ group.anchor <= low + W
    BY <1>0, <2>3
  <2>6. \A i \in 1..n : /\ low - W <= group.obs[i].ts
                        /\ group.obs[i].ts <= low + n * W
    <3> HIDE DEF seq, low, W, n
    <3>1. \A i \in 1..n : /\ group.anchor - W <= group.obs[i].ts
                          /\ group.obs[i].ts <= group.anchor + (n - 1) * W
      BY <1>0 DEF Windowed, W, n
    <3>2. SUFFICES ASSUME NEW i \in 1..n
                   PROVE  /\ low - W <= group.obs[i].ts
                          /\ group.obs[i].ts <= low + n * W
      OBVIOUS
    <3>3. n >= 1 /\ group.obs[i].ts \in Int
      BY <1>0, <3>2
    <3> QED
      BY <1>0, <2>4, <2>5, <3>1, <3>3, SMTT(40)
  <2>7. low - W <= o.ts /\ o.ts <= low + n * W
    <3>1. CASE n = 0
      BY <1>0, <2>4, <2>5, <3>1
    <3>2. CASE n >= 1
      <4> DEFINE span == n * W
      <4>1. span \in Int /\ span >= W
        BY <2>4, <3>2
      <4>2. low = o.ts \/ low = group.anchor
        OBVIOUS
      <4> HIDE DEF low, W, n, span
      <4>3. low - W <= o.ts /\ o.ts <= low + span
        BY <1>0, <2>3, <2>5, <4>1, <4>2
      <4> QED
        BY <4>3 DEF span
    <3> QED
      BY <1>0, <3>1, <3>2
  <2>8. n + 1 = 1 => seq[1].ts = low
    BY <1>0, <2>2
  <2> QED
    <3> HIDE DEF seq, low, W, n
    <3>1. (n + 1) - 1 = n
      BY <1>0
    <3>2. \A i \in 1..(n + 1) : /\ low - W <= seq[i].ts
                                /\ seq[i].ts <= low + n * W
      <4>1. \A i \in 1..(n + 1) : i \in 1..n \/ i = n + 1
        BY <1>0
      <4> QED
        BY <2>2, <2>6, <2>7, <4>1
    <3>3. DOMAIN result.obs = 1..(n + 1) /\ Len(result.obs) = n + 1
      BY <2>1, <2>2
    <3>4. Len(result.obs) = 1 => result.obs[1].ts = result.anchor
      BY <2>1, <2>8, <3>3
    <3>5. \A i \in DOMAIN result.obs :
            /\ result.anchor - W <= result.obs[i].ts
            /\ result.obs[i].ts <= result.anchor + (Len(result.obs) - 1) * W
      BY <2>1, <3>1, <3>2, <3>3
    <3> HIDE DEF result
    <3> QED
      BY <3>4, <3>5 DEF Windowed, W
<1> QED
  BY <1>1, <1>2, <1>3, AddToCases

\* add moves the anchor only to the new timestamp.
LEMMA AddToAnchor ==
  ASSUME NEW group, Sound(group), NEW o \in Observations
  PROVE  AddTo(group, o).anchor \in {group.anchor, o.ts}
BY AddToCases DEF Sound, Group

-----------------------------------------------------------------------------
(* Add *)

\* What findOrCreateGroup guarantees about the group it returns: `found` is
\* group g as Add meets it, live or new, and ids the index at that moment.
\* No other live group of the frame shares its anchor or is closer to o.
Ready(o, g, found, ids, top) ==
  /\ g \in 1..top
  /\ Sound(found)
  /\ found.key = o.key
  /\ Len(found.obs) < MinSensors
  /\ Len(found.obs) = 0 => found.anchor = o.ts
  /\ Delta(o, found) <= CorrelationWindow
  /\ Windowed(found)
  /\ ids \in [Keys -> SUBSET (1..top)]
  /\ \A k \in Keys : /\ ids[k] \ {g} = {h \in Live \ {g} : groups[h].key = k}
                     /\ g \in ids[k] <=> k = o.key
  /\ \A h \in Live \ {g} :
        groups[h].key = o.key =>
           /\ groups[h].anchor # found.anchor
           /\ groups[h].anchor = o.ts => found.anchor = o.ts

LEMMA LiveSound ==
  ASSUME IInv, NEW g \in Live
  PROVE  Sound(groups[g])
<1>1. groups[g] \in Group
  BY DEF IInv, TypeOK
<1> QED
  BY <1>1 DEF IInv, GroupsUnsolved, Sound

LEMMA JoinReady ==
  ASSUME ConstantsAssumption, IInv, NEW o \in Observations,
         NEW g \in Near(o), Closest(o, g)
  PROVE  Ready(o, g, groups[g], index, nextGroup)
<1>0. o.key \in Keys /\ o.ts \in Int
  BY DEF Observations, ConstantsAssumption
<1>1. /\ g \in index[o.key] /\ g \in Live
      /\ Delta(o, groups[g]) <= CorrelationWindow
  BY DEF Near, Live
<1>2. groups[g].key = o.key
  BY <1>0, <1>1 DEF IInv, IndexConsistent
<1>3. Sound(groups[g])
  BY <1>1, LiveSound
<1>4. Len(groups[g].obs) \in 1..(MinSensors - 1)
  BY <1>1 DEF IInv, GroupsUnsolved
<1>5. g \in 1..nextGroup
  BY <1>1 DEF IInv, TypeOK, Ids
<1>6. \A h \in Live : groups[h].anchor \in Int
  BY DEF IInv, TypeOK, Group
<1>7. ASSUME NEW h \in Live \ {g}, groups[h].key = o.key
      PROVE  /\ groups[h].anchor # groups[g].anchor
             /\ groups[h].anchor = o.ts => groups[g].anchor = o.ts
  <2>1. groups[h].anchor # groups[g].anchor
    BY <1>1, <1>2, <1>7 DEF IInv, AnchorsDistinct
  <2>2. ASSUME groups[h].anchor = o.ts PROVE groups[g].anchor = o.ts
    <3>1. Delta(o, groups[h]) = 0
      BY <1>0, <2>2 DEF Delta, absInt64
    <3>2. h \in Near(o)
      BY <1>0, <1>7, <3>1 DEF Near, IInv, IndexConsistent, Live, ConstantsAssumption
    <3>3. Delta(o, groups[g]) <= 0
      BY <1>0, <1>1, <1>6, <3>1, <3>2 DEF Closest, Delta, absInt64
    <3> QED
      BY <1>0, <1>1, <1>6, <3>3 DEF Delta, absInt64
  <2> QED
    BY <2>1, <2>2
<1>8. \A k \in Keys : /\ index[k] \ {g} = {h \in Live \ {g} : groups[h].key = k}
                      /\ g \in index[k] <=> k = o.key
  BY <1>1, <1>2 DEF IInv, IndexConsistent
<1>9. index \in [Keys -> SUBSET (1..nextGroup)]
  BY DEF IInv, TypeOK, Ids
<1>10. Windowed(groups[g])
  BY <1>1 DEF IInv, GroupsWindowed
<1>11. /\ Len(groups[g].obs) < MinSensors
       /\ Len(groups[g].obs) # 0
  BY <1>4 DEF ConstantsAssumption
<1> QED
  BY <1>1, <1>2, <1>3, <1>5, <1>7, <1>8, <1>9, <1>10, <1>11 DEF Ready

LEMMA OpenReady ==
  ASSUME ConstantsAssumption, IInv, NEW o \in Observations, Near(o) = {}
  PROVE  Ready(o, nextGroup + 1, EmptyGroup(o),
               [index EXCEPT ![o.key] = @ \cup {nextGroup + 1}],
               nextGroup + 1)
<1> DEFINE g == nextGroup + 1
           found == EmptyGroup(o)
           ids == [index EXCEPT ![o.key] = @ \cup {g}]
<1>0. /\ o.key \in Keys /\ o.ts \in Int /\ nextGroup \in Nat
      /\ CorrelationWindow \in Nat /\ MinSensors \in Nat /\ MinSensors >= 2
      /\ index \in [Keys -> SUBSET (1..nextGroup)] /\ Live \subseteq 1..nextGroup
  BY DEF Observations, ConstantsAssumption, IInv, TypeOK, Ids
<1>1. /\ found = [key |-> o.key, anchor |-> o.ts, obs |-> <<>>]
      /\ Sound(found)
  BY <1>0 DEF EmptyGroup, Sound, Group, OnePerSensor
<1>2. Delta(o, found) = 0 /\ Len(found.obs) = 0 /\ Windowed(found)
  BY <1>0, <1>1 DEF Delta, absInt64, Windowed
<1>3. g \in 1..g /\ g \notin Live /\ \A k \in Keys : g \notin index[k]
  BY <1>0
<1>4. ids \in [Keys -> SUBSET (1..g)]
  <2>1. \A k \in Keys : ids[k] \subseteq 1..g
    BY <1>0
  <2> QED
    BY <1>0, <2>1
<1>5. \A k \in Keys : /\ ids[k] \ {g} = {h \in Live \ {g} : groups[h].key = k}
                      /\ g \in ids[k] <=> k = o.key
  <2>1. \A k \in Keys : ids[k] = IF k = o.key THEN index[k] \cup {g} ELSE index[k]
    BY <1>0
  <2> QED
    BY <1>3, <2>1 DEF IInv, IndexConsistent
<1>6. \A h \in Live : groups[h].key = o.key => groups[h].anchor # o.ts
  <2>1. SUFFICES ASSUME NEW h \in Live, groups[h].key = o.key,
                        groups[h].anchor = o.ts
                 PROVE  FALSE
    OBVIOUS
  <2>2. Delta(o, groups[h]) = 0
    BY <1>0, <2>1 DEF Delta, absInt64
  <2>3. h \in Near(o)
    BY <1>0, <2>1, <2>2 DEF Near, IInv, IndexConsistent, Live
  <2> QED
    BY <2>3
<1> QED
  <2> HIDE DEF g, found, ids
  <2>1. found.key = o.key /\ found.anchor = o.ts
    BY <1>1
  <2>2. Ready(o, g, found, ids, g)
    BY <1>0, <1>1, <1>2, <1>3, <1>4, <1>5, <1>6, <2>1 DEF Ready
  <2> QED
    BY <2>2 DEF g, found, ids

\* Every call of Add extends one group that is Ready.
LEMMA AddExtends ==
  ASSUME ConstantsAssumption, IInv, NEW sensor \in Sensors, NEW key \in Keys,
         NEW ts \in Stamps, Add(sensor, key, ts)
  PROVE  \E o, g, found, ids :
            /\ o \in Observations
            /\ Ready(o, g, found, ids, nextGroup')
            /\ Extend(o, g, found, ids)
            /\ nextGroup' \in {nextGroup, nextGroup + 1}
            /\ arrivals' \in 0..MaxArrivals
            /\ nextGroup' <= arrivals'
            /\ UNCHANGED <<callbacks, expired, discarded>>
            /\ o.n = arrivals + 1 /\ arrivals' = arrivals + 1
            /\ \/ g \in Live /\ found = groups[g]
               \/ g \notin Live \cup DOMAIN expired /\ found.obs = <<>>
<1> DEFINE o == [n |-> arrivals + 1, sensor |-> sensor, key |-> key, ts |-> ts]
<1>1. /\ o \in Observations
      /\ arrivals' \in 0..MaxArrivals
      /\ arrivals' = arrivals + 1
      /\ nextGroup \in Nat /\ arrivals \in Nat /\ nextGroup <= arrivals
      /\ o.n = arrivals + 1
  BY DEF Add, Observations, IInv, TypeOK, ConstantsAssumption
<1>2. (JoinGroup(o) \/ OpenGroup(o)) /\ UNCHANGED <<callbacks, expired, discarded>>
  BY DEF Add
<1> HIDE DEF o
<1>3. CASE JoinGroup(o)
  <2>1. PICK g \in Near(o) : /\ Closest(o, g)
                             /\ Extend(o, g, groups[g], index)
                             /\ nextGroup' = nextGroup
    BY <1>3 DEF JoinGroup
  <2>2. Ready(o, g, groups[g], index, nextGroup')
    BY <1>1, <2>1, JoinReady
  <2>3. g \in Live
    BY <2>1 DEF Near, Live
  <2> QED
    BY <1>1, <1>2, <2>1, <2>2, <2>3
<1>4. CASE OpenGroup(o)
  <2> DEFINE ids == [index EXCEPT ![o.key] = @ \cup {nextGroup + 1}]
  <2>1. /\ Near(o) = {}
        /\ Extend(o, nextGroup + 1, EmptyGroup(o), ids)
        /\ nextGroup' = nextGroup + 1
    BY <1>4 DEF OpenGroup
  <2>2. Ready(o, nextGroup + 1, EmptyGroup(o), ids, nextGroup')
    BY <1>1, <2>1, OpenReady
  <2>3. nextGroup + 1 \notin Live \cup DOMAIN expired /\ EmptyGroup(o).obs = <<>>
    BY <1>1 DEF IInv, TypeOK, Ids, EmptyGroup
  <2> QED
    BY <1>1, <1>2, <2>1, <2>2, <2>3
<1> QED
  BY <1>2, <1>3, <1>4

\* The timestamps of a completed group: before the last observation they lie
\* within one window before and MinSensors - 2 windows after the anchor, and
\* the last one lies within a window of it.
LEMMA SpreadOfBatch ==
  ASSUME ConstantsAssumption, NEW found, Sound(found), Windowed(found),
         NEW o \in Observations, Delta(o, found) <= CorrelationWindow,
         Len(found.obs) < MinSensors,
         Len(AddTo(found, o).obs) = MinSensors
  PROVE  \A i, j \in DOMAIN AddTo(found, o).obs :
            AddTo(found, o).obs[i].ts - AddTo(found, o).obs[j].ts
              <= (MinSensors - 1) * CorrelationWindow
<1> DEFINE W == CorrelationWindow
           batch == AddTo(found, o).obs
           n == Len(found.obs)
           span == (MinSensors - 1) * W
           tail == (n - 1) * W
<1>0. /\ found.obs \in Seq(Observations) /\ found.anchor \in Int
      /\ DOMAIN found.obs = 1..n /\ n \in Nat
      /\ W \in Nat /\ MinSensors \in Nat /\ MinSensors >= 2
  BY DEF Sound, Group, ConstantsAssumption
<1>1. \A p \in Observations : p.ts \in Int
  BY DEF Observations, ConstantsAssumption
<1>2. batch = Append(found.obs, o)
  <2>1. ASSUME NEW r \in DOMAIN found.obs, AddTo(found, o) = [found EXCEPT !.obs[r] = o]
        PROVE  FALSE
    <3>1. AddTo(found, o).obs = [found.obs EXCEPT ![r] = o]
      BY <2>1 DEF Sound, Group
    <3>2. Len([found.obs EXCEPT ![r] = o]) = Len(found.obs)
      BY <1>0
    <3> QED
      BY <1>0, <3>1, <3>2
  <2> QED
    BY <1>0, <2>1, AddToCases
<1>3. /\ MinSensors = n + 1 /\ n >= 1
      /\ DOMAIN batch = 1..(n + 1) /\ batch[n + 1] = o
      /\ \A i \in 1..n : batch[i] = found.obs[i] /\ found.obs[i].ts \in Int
  BY <1>0, <1>1, <1>2
<1>4. /\ span = tail + W /\ tail \in Nat
      /\ n = 1 => tail = 0
      /\ n >= 2 => tail >= W
  <2>1. n - 1 \in Nat /\ MinSensors - 1 = (n - 1) + 1
    BY <1>0, <1>3
  <2>2. (n - 1) * W \in Nat /\ ((n - 1) + 1) * W = (n - 1) * W + W
    BY <1>0, <2>1, NextMultiple
  <2>3. n >= 2 => (n - 1) * W >= W
    BY <1>0, <2>1, NextMultiple
  <2>4. n = 1 => (n - 1) * W = 0
    BY <1>0
  <2> QED
    BY <2>1, <2>2, <2>3, <2>4
<1>5. found.anchor - W <= o.ts /\ o.ts <= found.anchor + W /\ o.ts \in Int
  BY <1>0, <1>1 DEF Delta, absInt64
<1>6. ASSUME NEW i \in 1..n
      PROVE  /\ found.anchor - W <= found.obs[i].ts
             /\ found.obs[i].ts <= found.anchor + tail
             /\ n = 1 => found.obs[i].ts = found.anchor
  <2>1. n = 1 => i = 1
    <3> HIDE DEF n
    <3> QED
      BY <1>0
  <2>2. n = 1 => found.obs[i].ts = found.anchor
    BY <2>1 DEF Windowed
  <2>3. i \in DOMAIN found.obs
    BY <1>0
  <2> QED
    BY <2>2, <2>3 DEF Windowed
<1> DEFINE low == found.anchor - W
           high == found.anchor + tail
<1> HIDE DEF W, batch, n, span, tail
<1>7. ASSUME NEW i \in DOMAIN batch
      PROVE  /\ batch[i].ts \in Int
             /\ i \in 1..n => /\ low <= batch[i].ts /\ batch[i].ts <= high
                              /\ n = 1 => batch[i].ts = found.anchor
             /\ i \notin 1..n => batch[i].ts = o.ts
  BY <1>0, <1>3, <1>5, <1>6
<1>8. ASSUME NEW i \in DOMAIN batch, NEW j \in DOMAIN batch
      PROVE  batch[i].ts - batch[j].ts <= span
  <2> DEFINE x == batch[i].ts
             y == batch[j].ts
  <2>1. x \in Int /\ y \in Int /\ span \in Nat
    BY <1>0, <1>4, <1>7
  <2>2. /\ x = o.ts \/ (low <= x /\ x <= high /\ (n = 1 => x = found.anchor))
        /\ y = o.ts \/ (low <= y /\ y <= high /\ (n = 1 => y = found.anchor))
    BY <1>7
  <2>3. n = 1 \/ n >= 2
    BY <1>0, <1>3
  <2> HIDE DEF x, y
  <2>4. x - y <= span
    <3>1. tail \in Nat /\ span = tail + W /\ W \in Nat /\ found.anchor \in Int
          /\ (n = 1 => tail = 0) /\ (n >= 2 => tail >= W)
      BY <1>0, <1>4
    <3>2. CASE n >= 2
      <4>1. low <= o.ts /\ o.ts <= high
        BY <1>5, <3>1, <3>2
      <4>2. low <= y /\ x <= high
        BY <2>2, <4>1
      <4>3. low \in Int /\ high \in Int /\ high - low = span
        BY <3>1
      <4> HIDE DEF low, high
      <4> QED
        BY <2>1, <4>2, <4>3
    <3>3. CASE n = 1
      <4>1. x \in {o.ts, found.anchor} /\ y \in {o.ts, found.anchor}
        BY <2>2, <3>3
      <4>2. span = W
        BY <3>1, <3>3
      <4> QED
        BY <1>5, <2>1, <3>1, <4>1, <4>2
    <3> QED
      BY <2>3, <3>2, <3>3
  <2> QED
    BY <2>4 DEF x, y
<1> QED
  BY <1>8 DEF W, batch, span

\* The observation add drops is one that was received.
LEMMA DroppedReceived ==
  ASSUME NEW group, Sound(group), NEW o \in Observations
  PROVE  Dropped(group, o) \subseteq Observations
<1>1. CASE SameSensor(group, o) = {}
  BY <1>1 DEF Dropped
<1>2. CASE SameSensor(group, o) # {}
  <2>1. group.obs[Rival(group, o)] \in Observations
    BY <1>2, RivalUnique DEF Sound, Group
  <2> QED
    BY <1>2, <2>1 DEF Dropped
<1> QED
  BY <1>1, <1>2

\* removeGroupLocked takes one group out of the maps and leaves the rest of
\* the buffer as it was.
LEMMA RemoveKeeps ==
  ASSUME IInv, NEW g, NEW key \in Keys, NEW ids,
         ids \in [Keys -> SUBSET Ids'],
         \A k \in Keys : /\ ids[k] \ {g} = {h \in Live \ {g} : groups[h].key = k}
                         /\ g \in ids[k] => k = key,
         nextGroup' \in {nextGroup, nextGroup + 1},
         RemoveGroup(g, key, ids)
  PROVE  /\ Live' = Live \ {g}
         /\ Live' \subseteq Ids'
         /\ groups' \in [Live' -> Group]
         /\ timers' \in [Live' -> {"armed", "fired"}]
         /\ \A h \in Live' : groups'[h] = groups[h] /\ timers'[h] = timers[h]
         /\ index' \in [Keys -> SUBSET Ids']
         /\ IndexConsistent' /\ GroupsUnsolved' /\ GroupsWindowed'
         /\ AnchorsDistinct'
<1>0. /\ groups \in [Live -> Group] /\ timers \in [Live -> {"armed", "fired"}]
      /\ Live \subseteq Ids /\ Ids \subseteq Ids' /\ nextGroup \in Nat
  BY DEF IInv, TypeOK, Ids
<1>1. /\ groups' = [h \in Live \ {g} |-> groups[h]]
      /\ timers' = [h \in Live \ {g} |-> timers[h]]
      /\ index' = [ids EXCEPT ![key] = @ \ {g}]
  BY <1>0 DEF RemoveGroup, Without, Restrict, Live
<1>2. Live' = Live \ {g}
  BY <1>1 DEF Live
<1>3. \A h \in Live' : groups'[h] = groups[h] /\ timers'[h] = timers[h]
  BY <1>1, <1>2
<1>4. \A k \in Keys : index'[k] = ids[k] \ {g}
  BY <1>1
<1>5. IndexConsistent'
  BY <1>2, <1>3, <1>4 DEF IndexConsistent
<1>6. GroupsUnsolved'
  BY <1>2, <1>3 DEF IInv, GroupsUnsolved
<1>7. GroupsWindowed'
  BY <1>2, <1>3 DEF IInv, GroupsWindowed, Windowed
<1>8. AnchorsDistinct'
  BY <1>2, <1>3 DEF IInv, AnchorsDistinct
<1>9. index' \in [Keys -> SUBSET Ids']
  BY <1>1
<1> QED
  BY <1>0, <1>1, <1>2, <1>3, <1>5, <1>6, <1>7, <1>8, <1>9

\* The observation that makes the group large enough: the batch is exact and
\* no wider than MinSensors - 1 windows.
LEMMA CompletingKeeps ==
  ASSUME ConstantsAssumption, IInv, NEW o \in Observations, NEW g, NEW found,
         NEW ids, Ready(o, g, found, ids, nextGroup'),
         nextGroup' \in {nextGroup, nextGroup + 1},
         arrivals' \in 0..MaxArrivals, nextGroup' <= arrivals',
         UNCHANGED <<callbacks, expired, discarded>>,
         Extend(o, g, found, ids), Len(AddTo(found, o).obs) >= MinSensors
  PROVE  IInv'
<1> DEFINE batch == AddTo(found, o).obs
<1>0. /\ Sound(found) /\ found.key = o.key /\ Len(found.obs) < MinSensors
      /\ Windowed(found) /\ Delta(o, found) <= CorrelationWindow
      /\ Len(found.obs) = 0 => found.anchor = o.ts
      /\ o.key \in Keys
  BY DEF Ready, Observations
<1>1. /\ batches' = batches \cup {batch}
      /\ superseded' = superseded \cup Dropped(found, o)
      /\ RemoveGroup(g, o.key, ids)
  BY DEF Extend
<1>2. /\ ids \in [Keys -> SUBSET Ids']
      /\ \A k \in Keys : /\ ids[k] \ {g} = {h \in Live \ {g} : groups[h].key = k}
                         /\ g \in ids[k] => k = o.key
  BY DEF Ready, Ids
<1>3. /\ Live' = Live \ {g}
      /\ Live' \subseteq Ids'
      /\ groups' \in [Live' -> Group]
      /\ timers' \in [Live' -> {"armed", "fired"}]
      /\ \A h \in Live' : groups'[h] = groups[h] /\ timers'[h] = timers[h]
      /\ index' \in [Keys -> SUBSET Ids']
      /\ IndexConsistent' /\ GroupsUnsolved' /\ GroupsWindowed'
      /\ AnchorsDistinct'
  BY <1>0, <1>1, <1>2, RemoveKeeps
<1>4. /\ Sound(AddTo(found, o)) /\ Len(batch) = MinSensors
      /\ batch \in Seq(Observations)
  <2>1. /\ Sound(AddTo(found, o))
        /\ Len(batch) \in {Len(found.obs), Len(found.obs) + 1}
    BY <1>0, AddToSound
  <2>2. batch \in Seq(Observations) /\ found.obs \in Seq(Observations)
    BY <1>0, <2>1 DEF Sound, Group
  <2> QED
    BY <1>0, <2>1, <2>2 DEF ConstantsAssumption
<1>5. TypeOK'
  <2>1. Dropped(found, o) \subseteq Observations
    BY <1>0, DroppedReceived
  <2>2. Ids \subseteq Ids' /\ nextGroup' \in 0..arrivals'
    BY DEF IInv, TypeOK, Ids
  <2> QED
    BY <1>1, <1>3, <1>4, <2>1, <2>2 DEF IInv, TypeOK
<1>6. BatchesSolvable'
  <2>1. OnePerSensor(batch) /\ OneFrame(batch)
    BY <1>4 DEF Sound, OneFrame
  <2> QED
    BY <1>1, <1>4, <2>1 DEF IInv, BatchesSolvable
<1>7. BatchSpread'
  <2>1. \A i, j \in DOMAIN batch :
           batch[i].ts - batch[j].ts <= (MinSensors - 1) * CorrelationWindow
    BY <1>0, <1>4, SpreadOfBatch
  <2> QED
    BY <1>1, <2>1 DEF IInv, BatchSpread
<1>8. ExpiredUnsolved' /\ NoOrphanGroup'
  BY <1>3 DEF IInv, ExpiredUnsolved, NoOrphanGroup
<1> QED
  BY <1>3, <1>5, <1>6, <1>7, <1>8 DEF IInv

\* The observation that leaves the group too small: it is put back, with a
\* timer armed anew and its anchor still different from all others.
LEMMA WaitingKeeps ==
  ASSUME ConstantsAssumption, IInv, NEW o \in Observations, NEW g, NEW found,
         NEW ids, Ready(o, g, found, ids, nextGroup'),
         nextGroup' \in {nextGroup, nextGroup + 1},
         arrivals' \in 0..MaxArrivals, nextGroup' <= arrivals',
         UNCHANGED <<callbacks, expired, discarded>>,
         Extend(o, g, found, ids), ~(Len(AddTo(found, o).obs) >= MinSensors)
  PROVE  IInv'
<1> DEFINE group == AddTo(found, o)
<1>0. /\ Sound(found) /\ found.key = o.key /\ Len(found.obs) < MinSensors
      /\ Windowed(found) /\ Delta(o, found) <= CorrelationWindow
      /\ Len(found.obs) = 0 => found.anchor = o.ts
      /\ o.key \in Keys
  BY DEF Ready, Observations
<1>1. /\ groups' = With(groups, g, group)
      /\ timers' = With(timers, g, "armed")
      /\ index' = ids /\ batches' = batches
      /\ superseded' = superseded \cup Dropped(found, o)
  BY DEF Extend
<1>2. /\ groups \in [Live -> Group] /\ timers \in [Live -> {"armed", "fired"}]
      /\ Live \subseteq Ids /\ Ids \subseteq Ids' /\ g \in Ids'
  BY DEF IInv, TypeOK, Ids, Ready
<1>3. /\ Sound(group) /\ group.key = o.key
      /\ Len(group.obs) \in 1..(MinSensors - 1)
  <2>1. /\ Sound(group) /\ group.key = found.key /\ Len(group.obs) >= 1
    BY <1>0, AddToSound
  <2>2. Len(group.obs) \in Nat
    BY <2>1 DEF Sound, Group
  <2> QED
    BY <1>0, <2>1, <2>2 DEF ConstantsAssumption
<1> HIDE DEF group
<1>4. /\ Live' = Live \cup {g}
      /\ groups' = [h \in Live \cup {g} |-> IF h = g THEN group ELSE groups[h]]
      /\ timers' = [h \in Live \cup {g} |-> IF h = g THEN "armed" ELSE timers[h]]
  BY <1>1, <1>2 DEF With, Live
<1>5. /\ groups' \in [Live' -> Group]
      /\ timers' \in [Live' -> {"armed", "fired"}]
      /\ Live' \subseteq Ids'
  BY <1>2, <1>3, <1>4 DEF Sound
<1>6. TypeOK'
  <2>1. Dropped(found, o) \subseteq Observations
    BY <1>0, DroppedReceived
  <2>2. index' \in [Keys -> SUBSET Ids']
    BY <1>1 DEF Ready, Ids
  <2>3. nextGroup' \in 0..arrivals'
    BY DEF IInv, TypeOK
  <2> QED
    BY <1>1, <1>2, <1>5, <2>1, <2>2, <2>3 DEF IInv, TypeOK
<1>7. IndexConsistent'
  <2>1. \A k \in Keys : /\ ids[k] \ {g} = {h \in Live \ {g} : groups[h].key = k}
                        /\ g \in ids[k] <=> k = o.key
    BY DEF Ready
  <2>2. SUFFICES ASSUME NEW k \in Keys
                 PROVE  ids[k] = {h \in Live' : groups'[h].key = k}
    BY <1>1 DEF IndexConsistent
  <2>3. \A h \in Live \ {g} : groups'[h] = groups[h]
    BY <1>4
  <2>4. groups'[g].key = o.key
    BY <1>3, <1>4
  <2> QED
    BY <1>4, <2>1, <2>3, <2>4
<1>8. GroupsUnsolved'
  BY <1>3, <1>4 DEF IInv, GroupsUnsolved, Sound
<1>9. GroupsWindowed'
  <2>1. Windowed(group)
    BY <1>0, AddToWindowed DEF group
  <2>2. \A h \in Live' : Windowed(groups'[h])
    BY <1>4, <2>1 DEF IInv, GroupsWindowed
  <2> QED
    BY <2>2 DEF GroupsWindowed, Windowed
<1>10. AnchorsDistinct'
  <2>1. group.anchor \in {found.anchor, o.ts}
    BY <1>0, AddToAnchor DEF group
  <2>2. \A h \in Live \ {g} :
           groups[h].key = group.key => groups[h].anchor # group.anchor
    BY <1>3, <2>1 DEF Ready
  <2> QED
    BY <1>4, <2>2 DEF IInv, AnchorsDistinct
<1>11. NoOrphanGroup'
  BY <1>4 DEF IInv, NoOrphanGroup
<1>12. ExpiredUnsolved' /\ BatchesSolvable' /\ BatchSpread'
  BY <1>1 DEF IInv, ExpiredUnsolved, BatchesSolvable, BatchSpread
<1> QED
  BY <1>6, <1>7, <1>8, <1>9, <1>10, <1>11, <1>12 DEF IInv

-----------------------------------------------------------------------------
(* The inductive invariant *)

LEMMA InitIInv ==
  ASSUME ConstantsAssumption, Init
  PROVE  IInv
<1>1. Live = {} /\ DOMAIN expired = {} /\ batches = {}
  BY DEF Init, Live
<1>2. TypeOK
  BY <1>1 DEF Init, TypeOK, Ids, ConstantsAssumption
<1>3. IndexConsistent
  BY <1>1 DEF Init, IndexConsistent
<1>4. /\ GroupsUnsolved /\ ExpiredUnsolved /\ BatchesSolvable
      /\ NoOrphanGroup /\ GroupsWindowed /\ BatchSpread /\ AnchorsDistinct
  BY <1>1 DEF GroupsUnsolved, ExpiredUnsolved, BatchesSolvable, NoOrphanGroup,
              GroupsWindowed, BatchSpread, AnchorsDistinct
<1> QED
  BY <1>2, <1>3, <1>4 DEF IInv

LEMMA AddKeeps ==
  ASSUME ConstantsAssumption, IInv, NEW sensor \in Sensors, NEW key \in Keys,
         NEW ts \in Stamps, Add(sensor, key, ts)
  PROVE  IInv'
<1>1. PICK o, g, found, ids :
         /\ o \in Observations
         /\ Ready(o, g, found, ids, nextGroup')
         /\ Extend(o, g, found, ids)
         /\ nextGroup' \in {nextGroup, nextGroup + 1}
         /\ arrivals' \in 0..MaxArrivals
         /\ nextGroup' <= arrivals'
         /\ UNCHANGED <<callbacks, expired, discarded>>
  BY AddExtends
<1>2. CASE Len(AddTo(found, o).obs) >= MinSensors
  BY <1>1, <1>2, CompletingKeeps
<1>3. CASE ~(Len(AddTo(found, o).obs) >= MinSensors)
  BY <1>1, <1>3, WaitingKeeps
<1> QED
  BY <1>2, <1>3

\* The groups and batches of a step that does not touch them.
LEMMA TimerFiresKeeps ==
  ASSUME IInv, NEW g \in Ids, TimerFires(g)
  PROVE  IInv'
<1>1. /\ g \in Live /\ groups' = groups /\ index' = index
      /\ timers' = [timers EXCEPT ![g] = "fired"]
      /\ callbacks' = callbacks \cup {g}
      /\ nextGroup' = nextGroup /\ arrivals' = arrivals
      /\ expired' = expired /\ batches' = batches
      /\ superseded' = superseded /\ discarded' = discarded
  BY DEF TimerFires, IInv, TypeOK
<1>2. TypeOK'
  BY <1>1 DEF IInv, TypeOK, Live, Ids
<1>3. NoOrphanGroup'
  BY <1>1 DEF IInv, TypeOK, NoOrphanGroup, Live
<1>4. IndexConsistent' /\ GroupsUnsolved' /\ AnchorsDistinct'
  BY <1>1 DEF IInv, IndexConsistent, GroupsUnsolved, AnchorsDistinct, Live
<1>5. GroupsWindowed'
  BY <1>1 DEF IInv, GroupsWindowed, Windowed, Live
<1>6. ExpiredUnsolved' /\ BatchesSolvable' /\ BatchSpread'
  BY <1>1 DEF IInv, ExpiredUnsolved, BatchesSolvable, BatchSpread
<1> QED
  BY <1>2, <1>3, <1>4, <1>5, <1>6 DEF IInv

LEMMA CallbackTakesKeeps ==
  ASSUME ConstantsAssumption, IInv, NEW g \in Ids, CallbackTakes(g)
  PROVE  IInv'
<1>1. /\ g \in Live
      /\ callbacks' = callbacks \ {g}
      /\ expired' = With(expired, g, groups[g])
      /\ RemoveGroup(g, groups[g].key, index)
      /\ nextGroup' = nextGroup /\ arrivals' = arrivals /\ batches' = batches
      /\ superseded' = superseded /\ discarded' = discarded
  BY DEF CallbackTakes, Live
<1>2. groups[g] \in Group /\ groups[g].key \in Keys /\ Ids' = Ids
  BY <1>1 DEF IInv, TypeOK, Group, Ids
<1>3. /\ index \in [Keys -> SUBSET Ids']
      /\ \A k \in Keys :
            /\ index[k] \ {g} = {h \in Live \ {g} : groups[h].key = k}
            /\ g \in index[k] => k = groups[g].key
  BY <1>2 DEF IInv, TypeOK, IndexConsistent
<1>4. /\ Live' = Live \ {g}
      /\ Live' \subseteq Ids'
      /\ groups' \in [Live' -> Group]
      /\ timers' \in [Live' -> {"armed", "fired"}]
      /\ \A h \in Live' : groups'[h] = groups[h] /\ timers'[h] = timers[h]
      /\ index' \in [Keys -> SUBSET Ids']
      /\ IndexConsistent' /\ GroupsUnsolved' /\ GroupsWindowed'
      /\ AnchorsDistinct'
  BY <1>1, <1>2, <1>3, RemoveKeeps
<1>5. /\ DOMAIN expired' = DOMAIN expired \cup {g}
      /\ \A h \in DOMAIN expired' :
            expired'[h] = IF h = g THEN groups[g] ELSE expired[h]
      /\ expired' \in [DOMAIN expired' -> Group]
  BY <1>1, <1>2 DEF With, IInv, TypeOK
<1>6. TypeOK'
  BY <1>1, <1>2, <1>4, <1>5 DEF IInv, TypeOK
<1>7. ExpiredUnsolved'
  <2>1. Len(groups[g].obs) < MinSensors
    BY <1>1, <1>2 DEF IInv, GroupsUnsolved, Group, ConstantsAssumption
  <2> QED
    BY <1>5, <2>1 DEF IInv, ExpiredUnsolved
<1>8. NoOrphanGroup'
  BY <1>1, <1>4 DEF IInv, NoOrphanGroup
<1>9. BatchesSolvable' /\ BatchSpread'
  BY <1>1 DEF IInv, BatchesSolvable, BatchSpread
<1> QED
  BY <1>4, <1>6, <1>7, <1>8, <1>9 DEF IInv

LEMMA CallbackTooLateKeeps ==
  ASSUME IInv, NEW g \in Ids, CallbackTooLate(g)
  PROVE  IInv'
<1>1. /\ g \notin Live /\ groups' = groups /\ index' = index
      /\ timers' = timers /\ callbacks' = callbacks \ {g}
      /\ nextGroup' = nextGroup /\ arrivals' = arrivals
      /\ expired' = expired /\ batches' = batches
      /\ superseded' = superseded /\ discarded' = discarded
  BY DEF CallbackTooLate, Live
<1>2. TypeOK'
  BY <1>1 DEF IInv, TypeOK, Live, Ids
<1>3. NoOrphanGroup'
  BY <1>1 DEF IInv, NoOrphanGroup, Live
<1>4. IndexConsistent' /\ GroupsUnsolved' /\ AnchorsDistinct'
  BY <1>1 DEF IInv, IndexConsistent, GroupsUnsolved, AnchorsDistinct, Live
<1>5. GroupsWindowed'
  BY <1>1 DEF IInv, GroupsWindowed, Windowed, Live
<1>6. ExpiredUnsolved' /\ BatchesSolvable' /\ BatchSpread'
  BY <1>1 DEF IInv, ExpiredUnsolved, BatchesSolvable, BatchSpread
<1> QED
  BY <1>2, <1>3, <1>4, <1>5, <1>6 DEF IInv

LEMMA CallbackSettlesKeeps ==
  ASSUME ConstantsAssumption, IInv, NEW g \in Ids, CallbackSettles(g)
  PROVE  IInv'
<1>1. g \in DOMAIN expired /\ expired[g] \in Group
  BY DEF CallbackSettles, IInv, TypeOK
<1>2. ~(Len(expired[g].obs) >= MinSensors)
  BY <1>1 DEF IInv, ExpiredUnsolved, Group, ConstantsAssumption
<1>3. /\ discarded' = discarded \cup Range(expired[g].obs)
      /\ batches' = batches
      /\ expired' = [h \in DOMAIN expired \ {g} |-> expired[h]]
      /\ groups' = groups /\ index' = index /\ timers' = timers
      /\ callbacks' = callbacks
      /\ nextGroup' = nextGroup /\ arrivals' = arrivals
      /\ superseded' = superseded
  BY <1>2 DEF CallbackSettles, Without, Restrict
<1>4. Range(expired[g].obs) \subseteq Observations
  BY <1>1 DEF Range, Group
<1>5. TypeOK'
  BY <1>3, <1>4 DEF IInv, TypeOK, Live, Ids
<1>6. NoOrphanGroup'
  BY <1>3 DEF IInv, NoOrphanGroup, Live
<1>7. IndexConsistent' /\ GroupsUnsolved' /\ AnchorsDistinct'
  BY <1>3 DEF IInv, IndexConsistent, GroupsUnsolved, AnchorsDistinct, Live
<1>8. GroupsWindowed'
  BY <1>3 DEF IInv, GroupsWindowed, Windowed, Live
<1>9. ExpiredUnsolved' /\ BatchesSolvable' /\ BatchSpread'
  BY <1>3 DEF IInv, ExpiredUnsolved, BatchesSolvable, BatchSpread
<1> QED
  BY <1>5, <1>6, <1>7, <1>8, <1>9 DEF IInv

LEMMA StutterKeeps ==
  ASSUME IInv, UNCHANGED vars
  PROVE  IInv'
BY DEF IInv, vars, TypeOK, Live, Ids, IndexConsistent, GroupsUnsolved,
       ExpiredUnsolved, BatchesSolvable, NoOrphanGroup, GroupsWindowed, Windowed,
       BatchSpread, AnchorsDistinct

\* IInv holds in every reachable state: one case per action.
THEOREM Invariance == Spec => []IInv
<1>1. Init => IInv
  BY ConstantsAssumption, InitIInv
<1>2. IInv /\ [Next]_vars => IInv'
  <2> SUFFICES ASSUME IInv, [Next]_vars PROVE IInv'
    OBVIOUS
  <2>1. ASSUME NEW s \in Sensors, NEW k \in Keys, NEW t \in Stamps, Add(s, k, t)
        PROVE  IInv'
    BY <2>1, ConstantsAssumption, AddKeeps
  <2>2. ASSUME NEW g \in Ids, TimerFires(g) PROVE IInv'
    BY <2>2, TimerFiresKeeps
  <2>3. ASSUME NEW g \in Ids, CallbackTakes(g) PROVE IInv'
    BY <2>3, ConstantsAssumption, CallbackTakesKeeps
  <2>4. ASSUME NEW g \in Ids, CallbackTooLate(g) PROVE IInv'
    BY <2>4, CallbackTooLateKeeps
  <2>5. ASSUME NEW g \in Ids, CallbackSettles(g) PROVE IInv'
    BY <2>5, ConstantsAssumption, CallbackSettlesKeeps
  <2>6. CASE UNCHANGED vars
    BY <2>6, StutterKeeps
  <2> QED
    BY <2>1, <2>2, <2>3, <2>4, <2>5, <2>6 DEF Next
<1> QED
  BY <1>1, <1>2, PTL DEF Spec

\* b.groups, b.index and b.timers keep their shape and stay in step.
THEOREM TypeCorrect == Spec => []TypeOK
<1>1. IInv => TypeOK
  BY DEF IInv
<1> QED
  BY <1>1, Invariance, PTL

\* findOrCreateGroup sees every live group of a frame and nothing else.
THEOREM IndexIsConsistent == Spec => []IndexConsistent
<1>1. IInv => IndexConsistent
  BY DEF IInv
<1> QED
  BY <1>1, Invariance, PTL

\* A group in the map is never solvable; Add hands it over at once.
THEOREM LiveGroupsUnsolved == Spec => []GroupsUnsolved
<1>1. IInv => GroupsUnsolved
  BY DEF IInv
<1> QED
  BY <1>1, Invariance, PTL

\* Every batch holds MinSensors observations of one frame and as many sensors.
THEOREM BatchesAreSolvable == Spec => []BatchesSolvable
<1>1. IInv => BatchesSolvable
  BY DEF IInv
<1> QED
  BY <1>1, Invariance, PTL

\* No batch stretches over more than MinSensors - 1 windows.
THEOREM BatchesAreNarrow == Spec => []BatchSpread
<1>1. IInv => BatchSpread
  BY DEF IInv
<1> QED
  BY <1>1, Invariance, PTL

\* Two live groups of a frame never collapse onto one anchor.
THEOREM AnchorsStayDistinct == Spec => []AnchorsDistinct
<1>1. IInv => AnchorsDistinct
  BY DEF IInv
<1> QED
  BY <1>1, Invariance, PTL

\* A group in the map always has a timer or a callback to come.
THEOREM NoGroupOrphaned == Spec => []NoOrphanGroup
<1>1. IInv => NoOrphanGroup
  BY DEF IInv
<1> QED
  BY <1>1, Invariance, PTL
-----------------------------------------------------------------------------
(***************************************************************************)
(* The buffer implements Correlation.                                      *)
(*                                                                         *)
(* An observation that waits is held by exactly one group, in the map or   *)
(* with a callback.  A step then changes what one group holds, and the     *)
(* pending observations change with it.                                    *)
(***************************************************************************)

Holders == Live \cup DOMAIN expired

Held(g) == Members(IF g \in Live THEN groups[g] ELSE expired[g])

FateInv ==
  /\ Live \cap DOMAIN expired = {}
  /\ \A g \in DOMAIN expired : Sound(expired[g]) /\ expired[g].obs # <<>>
  /\ \A g, h \in Holders : Held(g) \cap Held(h) # {} => g = h
  /\ \A o \in Promise!Known : o \in Observations /\ o.n <= arrivals

LEMMA PendingIsHeld ==
  ASSUME FateInv
  PROVE  pending = UNION {Held(g) : g \in Holders}
BY DEF FateInv, pending, Holders, Held

\* Correlation counts like Buffer does.
LEMMA SameCount ==
  ASSUME NEW S
  PROVE  Promise!Cardinality(S) = Cardinality(S)
BY DEF Promise!Cardinality, Cardinality

\* Observations of one sensor each are as many as there are positions.
LEMMA MembersCounted ==
  ASSUME NEW group, Sound(group)
  PROVE  Cardinality(Members(group)) = Len(group.obs)
<1> DEFINE n == Len(group.obs)
           f == group.obs
<1>1. f \in Seq(Observations) /\ n \in Nat /\ DOMAIN f = 1..n
  BY DEF Sound, Group
<1>2. \A i, j \in 1..n : f[i] = f[j] => i = j
  BY <1>1 DEF Sound, OnePerSensor
<1>3. f \in [1..n -> Range(f)] /\ \A m \in Range(f) : \E i \in 1..n : f[i] = m
  BY <1>1 DEF Range
<1>4. f \in Bijection(1..n, Range(f))
  BY <1>2, <1>3 DEF Bijection, Injection, Surjection, IsInjective
<1>5. ExistsBijection(1..n, Range(f))
  BY <1>4 DEF ExistsBijection
<1>6. IsFiniteSet(1..n) /\ Cardinality(1..n) = n
  BY <1>1, FS_Interval
<1> QED
  BY <1>5, <1>6, FS_Bijection DEF Members

\* The members of a sound group are of one frame and of different sensors.
LEMMA MembersApart ==
  ASSUME NEW group, Sound(group)
  PROVE  /\ Members(group) \subseteq Observations
         /\ \A o \in Members(group) : o.key = group.key
         /\ \A o, p \in Members(group) : o.sensor = p.sensor => o = p
<1>1. \A o \in Members(group) : \E i \in DOMAIN group.obs : o = group.obs[i]
  BY DEF Members, Range
<1>2. group.obs \in Seq(Observations)
  BY DEF Sound, Group
<1>3. \A i \in DOMAIN group.obs : group.obs[i] \in Observations
  BY <1>2
<1> QED
  BY <1>1, <1>3 DEF Sound, OnePerSensor

\* What add does to the members of a group: the new one is dropped for an old
\* one of its sensor, or takes its place, or joins.
LEMMA AddToMembers ==
  ASSUME NEW group, Sound(group), NEW o \in Observations
  PROVE  \/ /\ AddTo(group, o) = group /\ Dropped(group, o) = {o}
            /\ \E p \in Members(group) : p.sensor = o.sensor
         \/ \E p \in Members(group) :
              /\ p.sensor = o.sensor
              /\ Dropped(group, o) = {p}
              /\ Members(AddTo(group, o)) = (Members(group) \ {p}) \cup {o}
              /\ Len(AddTo(group, o).obs) = Len(group.obs)
         \/ /\ \A p \in Members(group) : p.sensor # o.sensor
            /\ Dropped(group, o) = {}
            /\ Members(AddTo(group, o)) = Members(group) \cup {o}
            /\ Len(AddTo(group, o).obs) = Len(group.obs) + 1
<1> DEFINE r == Rival(group, o)
           n == Len(group.obs)
<1>0. /\ group.obs \in Seq(Observations) /\ n \in Nat /\ DOMAIN group.obs = 1..n
      /\ Members(group) = {group.obs[i] : i \in 1..n}
  BY DEF Sound, Group, Members, Range
<1>1. CASE SameSensor(group, o) = {}
  <2>1. AddTo(group, o).obs = Append(group.obs, o) /\ Dropped(group, o) = {}
    BY <1>1 DEF AddTo, Dropped
  <2>2. \A i \in 1..n : group.obs[i].sensor # o.sensor
    BY <1>0, <1>1 DEF SameSensor
  <2>3. Range(Append(group.obs, o)) = Range(group.obs) \cup {o}
    <3>1. /\ DOMAIN Append(group.obs, o) = 1..(n + 1)
          /\ Append(group.obs, o)[n + 1] = o
          /\ \A i \in 1..n : Append(group.obs, o)[i] = group.obs[i]
      BY <1>0
    <3>2. 1..(n + 1) = 1..n \cup {n + 1}
      BY <1>0
    <3> QED
      BY <1>0, <3>1, <3>2 DEF Range
  <2>4. Len(Append(group.obs, o)) = n + 1
    BY <1>0
  <2> QED
    BY <1>0, <2>1, <2>2, <2>3, <2>4 DEF Members
<1>2. ASSUME SameSensor(group, o) # {}
      PROVE  /\ r \in 1..n
             /\ group.obs[r] \in Members(group) /\ group.obs[r].sensor = o.sensor
  BY <1>0, <1>2, RivalUnique
<1>3. CASE SameSensor(group, o) # {} /\ ~Replaces(group, o)
  BY <1>2, <1>3 DEF AddTo, Dropped
<1>4. CASE SameSensor(group, o) # {} /\ Replaces(group, o)
  <2>1. Dropped(group, o) = {group.obs[r]}
    BY <1>4 DEF Dropped
  <2> DEFINE seq == [group.obs EXCEPT ![r] = o]
  <2>2. AddTo(group, o).obs = seq
    BY <1>4 DEF AddTo, Sound, Group
  <2>3. /\ DOMAIN seq = 1..n /\ Len(seq) = n
        /\ \A i \in 1..n : seq[i] = IF i = r THEN o ELSE group.obs[i]
    BY <1>0
  <2>4. \A i \in 1..n : i # r => group.obs[i] # group.obs[r]
    BY <1>0, <1>2, <1>4 DEF Sound, OnePerSensor
  <2>5. Range(seq) = (Members(group) \ {group.obs[r]}) \cup {o}
    <3> HIDE DEF seq
    <3> QED
      BY <1>0, <1>2, <1>4, <2>3, <2>4 DEF Range
  <2> QED
    BY <1>2, <1>4, <2>1, <2>2, <2>3, <2>5 DEF Members
<1> QED
  BY <1>1, <1>3, <1>4

\* A step after which group g holds other observations, and the rest as before.
LEMMA PendingChanges ==
  ASSUME FateInv, NEW g, NEW old, NEW new,
         IF g \in Holders THEN old = Held(g) ELSE old = {},
         Live' \cap (DOMAIN expired)' = {},
         \/ Holders' = Holders \cup {g} /\ Held(g)' = new
         \/ Holders' = Holders \ {g} /\ new = {},
         \A h \in Holders \ {g} : Held(h)' = Held(h)
  PROVE  pending' = (pending \ old) \cup new
<1>1. pending = UNION {Held(h) : h \in Holders}
  BY PendingIsHeld
<1>2. pending' = UNION {Held(h)' : h \in Holders'}
  BY DEF pending, Holders, Held
<1>3. \A h \in Holders \ {g} : Held(h) \cap old = {}
  BY DEF FateInv
<1>4. Holders' \ {g} = Holders \ {g}
  OBVIOUS
<1>5. pending = old \cup UNION {Held(h) : h \in Holders \ {g}}
  BY <1>1
<1>6. pending' = new \cup UNION {Held(h) : h \in Holders \ {g}}
  BY <1>2, <1>4
<1> QED
  BY <1>3, <1>5, <1>6

\* What Add does: it extends the group that it found, and keeps it or hands it
\* over.
LEMMA AddChanges ==
  ASSUME ConstantsAssumption, IInv, FateInv, NEW sensor \in Sensors, NEW key \in Keys,
         NEW ts \in Stamps, Add(sensor, key, ts)
  PROVE  \E o \in Observations : \E g, found :
            /\ o.n = arrivals + 1 /\ arrivals' = arrivals + 1
            /\ Sound(found) /\ found.key = o.key /\ Len(found.obs) < MinSensors
            /\ \/ g \in Live /\ found = groups[g]
               \/ g \notin Holders /\ found.obs = <<>>
            /\ superseded' = superseded \cup Dropped(found, o)
            /\ UNCHANGED <<expired, discarded>>
            /\ IF Len(AddTo(found, o).obs) >= MinSensors
                 THEN /\ Live' = Live \ {g}
                      /\ batches' = batches \cup {AddTo(found, o).obs}
                 ELSE /\ Live' = Live \cup {g}
                      /\ groups'[g] = AddTo(found, o)
                      /\ UNCHANGED batches
            /\ \A h \in Live \ {g} : groups'[h] = groups[h]
<1>1. PICK o, g, found, ids :
         /\ o \in Observations
         /\ Ready(o, g, found, ids, nextGroup')
         /\ Extend(o, g, found, ids)
         /\ UNCHANGED <<callbacks, expired, discarded>>
         /\ o.n = arrivals + 1 /\ arrivals' = arrivals + 1
         /\ \/ g \in Live /\ found = groups[g]
            \/ g \notin Live \cup DOMAIN expired /\ found.obs = <<>>
  BY AddExtends
<1>2. Sound(found) /\ found.key = o.key /\ Len(found.obs) < MinSensors
  BY <1>1 DEF Ready
<1>3. superseded' = superseded \cup Dropped(found, o)
  BY <1>1 DEF Extend
<1>4. ASSUME Len(AddTo(found, o).obs) >= MinSensors
      PROVE  /\ Live' = Live \ {g}
             /\ batches' = batches \cup {AddTo(found, o).obs}
             /\ \A h \in Live \ {g} : groups'[h] = groups[h]
  <2>1. batches' = batches \cup {AddTo(found, o).obs} /\ groups' = Without(groups, g)
    BY <1>1, <1>4 DEF Extend, RemoveGroup
  <2> QED
    BY <2>1 DEF Without, Restrict, Live
<1>5. ASSUME ~(Len(AddTo(found, o).obs) >= MinSensors)
      PROVE  /\ Live' = Live \cup {g}
             /\ groups'[g] = AddTo(found, o)
             /\ batches' = batches
             /\ \A h \in Live \ {g} : groups'[h] = groups[h]
  <2>1. batches' = batches /\ groups' = With(groups, g, AddTo(found, o))
    BY <1>1, <1>5 DEF Extend
  <2> QED
    BY <2>1 DEF With, Live
<1> QED
  BY <1>1, <1>2, <1>3, <1>4, <1>5 DEF Holders

\* The observation of a call of Add is new.
LEMMA NewIsUnknown ==
  ASSUME IInv, FateInv, NEW o, o.n = arrivals + 1
  PROVE  o \notin Promise!Known
BY DEF FateInv, IInv, TypeOK

\* A call of Add that keeps the group lets the observation wait or compete; one
\* that hands it over completes a set.  Either way the observation is known.
LEMMA AddDecides ==
  ASSUME ConstantsAssumption, IInv, FateInv, NEW sensor \in Sensors, NEW key \in Keys,
         NEW ts \in Stamps, Add(sensor, key, ts)
  PROVE  /\ Promise!Next /\ FateInv'
         /\ \E o : /\ o.n = arrivals + 1 /\ arrivals' = arrivals + 1
                  /\ Promise!Known' = Promise!Known \cup {o}
<1>1. PICK o \in Observations : \E g, found :
            /\ o.n = arrivals + 1 /\ arrivals' = arrivals + 1
            /\ Sound(found) /\ found.key = o.key /\ Len(found.obs) < MinSensors
            /\ \/ g \in Live /\ found = groups[g]
               \/ g \notin Holders /\ found.obs = <<>>
            /\ superseded' = superseded \cup Dropped(found, o)
            /\ UNCHANGED <<expired, discarded>>
            /\ IF Len(AddTo(found, o).obs) >= MinSensors
                 THEN /\ Live' = Live \ {g}
                      /\ batches' = batches \cup {AddTo(found, o).obs}
                 ELSE /\ Live' = Live \cup {g}
                      /\ groups'[g] = AddTo(found, o)
                      /\ UNCHANGED batches
            /\ \A h \in Live \ {g} : groups'[h] = groups[h]
  BY AddChanges
<1>2. PICK g, found :
            /\ o.n = arrivals + 1 /\ arrivals' = arrivals + 1
            /\ Sound(found) /\ found.key = o.key /\ Len(found.obs) < MinSensors
            /\ \/ g \in Live /\ found = groups[g]
               \/ g \notin Holders /\ found.obs = <<>>
            /\ superseded' = superseded \cup Dropped(found, o)
            /\ UNCHANGED <<expired, discarded>>
            /\ IF Len(AddTo(found, o).obs) >= MinSensors
                 THEN /\ Live' = Live \ {g}
                      /\ batches' = batches \cup {AddTo(found, o).obs}
                 ELSE /\ Live' = Live \cup {g}
                      /\ groups'[g] = AddTo(found, o)
                      /\ UNCHANGED batches
            /\ \A h \in Live \ {g} : groups'[h] = groups[h]
  BY <1>1
<1> DEFINE old == Members(found)
           result == AddTo(found, o)
           complete == Len(result.obs) >= MinSensors
           new == IF complete THEN {} ELSE Members(result)
<1>3. IF g \in Holders THEN old = Held(g) ELSE old = {}
  BY <1>2 DEF Held, Holders, Members, Range
<1>4. /\ Live' \cap (DOMAIN expired)' = {}
      /\ \/ Holders' = Holders \cup {g} /\ Held(g)' = new
         \/ Holders' = Holders \ {g} /\ new = {}
      /\ \A h \in Holders \ {g} : Held(h)' = Held(h)
  <2>1. g \notin DOMAIN expired /\ Live \cap DOMAIN expired = {} /\ expired' = expired
    BY <1>2 DEF FateInv, Holders
  <2>2. CASE complete
    BY <1>2, <2>1, <2>2 DEF Holders, Held
  <2>3. CASE ~complete
    BY <1>2, <2>1, <2>3 DEF Holders, Held
  <2> QED
    BY <2>2, <2>3
<1>5. pending' = (pending \ old) \cup new
  <2> HIDE DEF old, new
  <2> QED
    BY <1>3, <1>4, PendingChanges
<1>6. old \subseteq pending /\ o \notin Promise!Known /\ o \notin old /\ o \notin pending
  <2>1. old \subseteq pending
    BY <1>3, PendingIsHeld
  <2>2. o \notin Promise!Known
    BY <1>2, NewIsUnknown
  <2> QED
    BY <2>1, <2>2 DEF Promise!Known
<1>7. \A p \in old : p.key = o.key /\ p \in pending
  BY <1>2, <1>6, MembersApart
<1>8. /\ new \subseteq old \cup {o}
      /\ Dropped(found, o) \subseteq old \cup {o}
      /\ Members(result) \subseteq old \cup {o}
  BY <1>2, AddToMembers
<1>9. ASSUME complete
      PROVE  Promise!Next /\ Promise!Known' = Promise!Known \cup {o}
  <2>1. /\ \A p \in old : p.sensor # o.sensor
        /\ Dropped(found, o) = {}
        /\ Members(result) = old \cup {o}
        /\ Len(result.obs) = Len(found.obs) + 1
    BY <1>2, <1>9, AddToMembers
  <2>2. Cardinality(old) = MinSensors - 1
    <3>1. Len(found.obs) \in Nat /\ MinSensors \in Nat
      BY <1>2 DEF Sound, Group, ConstantsAssumption
    <3> QED
      BY <1>2, <1>9, <2>1, <3>1, MembersCounted
  <2>3. Promise!SameFrame(old \cup {o}) /\ Promise!DistinctSensors(old \cup {o})
    BY <1>2, <1>7, <2>1, MembersApart DEF Promise!SameFrame, Promise!DistinctSensors
  <2>4. {Range(b) : b \in batches'} = {Range(b) : b \in batches} \cup {old \cup {o}}
    <3>1. batches' = batches \cup {result.obs}
      BY <1>2, <1>9
    <3>2. Range(result.obs) = old \cup {o}
      BY <2>1 DEF Members
    <3> QED
      BY <3>1, <3>2
  <2>5. pending' = pending \ old /\ superseded' = superseded /\ discarded' = discarded
    BY <1>2, <1>5, <1>9, <2>1
  <2> HIDE DEF old, result
  <2>6. Promise!Complete(o, old)
    BY <2>2, <2>3, <2>4, <2>5, SameCount DEF Promise!Complete
  <2>7. old \in SUBSET pending
    BY <1>6
  <2>8. Promise!Next
    BY <1>6, <2>6, <2>7 DEF Promise!Next
  <2>9. Promise!Known' = Promise!Known \cup {o}
    <3>1. UNION {Range(b) : b \in batches'}
            = (UNION {Range(b) : b \in batches}) \cup old \cup {o}
      BY <2>4
    <3> QED
      BY <1>6, <2>5, <3>1 DEF Promise!Known
  <2> QED
    BY <2>8, <2>9
<1>10. ASSUME ~complete
       PROVE  Promise!Next /\ Promise!Known' = Promise!Known \cup {o}
  <2>0. {Range(b) : b \in batches'} = {Range(b) : b \in batches} /\ discarded' = discarded
    BY <1>2, <1>10
  <2>1. CASE /\ AddTo(found, o) = found /\ Dropped(found, o) = {o}
             /\ \E p \in Members(found) : p.sensor = o.sensor
    <3>1. PICK p \in old : p.sensor = o.sensor
      BY <2>1
    <3>2. superseded' = superseded \cup {o} /\ pending' = (pending \cup {o}) \ {o}
      BY <1>2, <1>5, <1>6, <1>10, <2>1
    <3> HIDE DEF old, new, result
    <3>3. Promise!Supersede(o, p) /\ p \in pending
      BY <1>7, <2>0, <3>1, <3>2 DEF Promise!Supersede
    <3> QED
      BY <1>6, <2>0, <3>2, <3>3 DEF Promise!Next, Promise!Known
  <2>2. CASE \E p \in Members(found) :
               /\ p.sensor = o.sensor
               /\ Dropped(found, o) = {p}
               /\ Members(AddTo(found, o)) = (Members(found) \ {p}) \cup {o}
    <3>1. PICK p \in old : /\ p.sensor = o.sensor
                           /\ Dropped(found, o) = {p}
                           /\ Members(result) = (old \ {p}) \cup {o}
      BY <2>2
    <3>2. superseded' = superseded \cup {p} /\ pending' = (pending \cup {o}) \ {p}
      BY <1>2, <1>5, <1>6, <1>10, <3>1
    <3> HIDE DEF old, new, result
    <3>3. Promise!Supersede(o, p) /\ p \in pending
      BY <1>7, <2>0, <3>1, <3>2 DEF Promise!Supersede
    <3> QED
      BY <1>6, <2>0, <3>2, <3>3 DEF Promise!Next, Promise!Known
  <2>3. CASE /\ Dropped(found, o) = {}
             /\ Members(AddTo(found, o)) = Members(found) \cup {o}
    <3>1. superseded' = superseded /\ pending' = pending \cup {o}
      BY <1>2, <1>5, <1>6, <1>10, <2>3
    <3> HIDE DEF old, new, result
    <3>2. Promise!Accept(o)
      BY <2>0, <3>1 DEF Promise!Accept
    <3> QED
      BY <1>6, <2>0, <3>1, <3>2 DEF Promise!Next, Promise!Known
  <2> QED
    BY <1>2, <2>1, <2>2, <2>3, AddToMembers
<1>11. Promise!Next /\ Promise!Known' = Promise!Known \cup {o}
  BY <1>9, <1>10
<1>12. FateInv'
  <2>1. \A h \in (DOMAIN expired)' : Sound(expired'[h]) /\ expired'[h].obs # <<>>
    BY <1>2 DEF FateInv
  <2>2. \A h \in Holders \ {g} : Held(h) \cap old = {} /\ o \notin Held(h)
    BY <1>3, <1>6, PendingIsHeld DEF FateInv
  <2>3. \A h, k \in Holders' : Held(h)' \cap Held(k)' # {} => h = k
    <3> HIDE DEF old, new, result
    <3>1. \A h \in Holders' \ {g} : h \in Holders \ {g} /\ Held(h)' = Held(h)
      BY <1>4
    <3>2. g \in Holders' => Held(g)' \subseteq old \cup {o}
      BY <1>4, <1>8, <2>2
    <3> QED
      BY <2>2, <3>1, <3>2 DEF FateInv
  <2>4. \A p \in Promise!Known' : p \in Observations /\ p.n <= arrivals'
    <3>1. \A p \in Promise!Known : p \in Observations /\ p.n <= arrivals
      BY DEF FateInv
    <3>2. arrivals \in Nat
      BY DEF IInv, TypeOK
    <3>3. \A p \in Observations : p.n \in Nat
      BY DEF Observations
    <3> QED
      BY <1>2, <1>11, <3>1, <3>2, <3>3
  <2> QED
    BY <1>4, <2>1, <2>3, <2>4 DEF FateInv
<1> QED
  BY <1>2, <1>11, <1>12

\* A callback takes a group out of the map and holds it.
LEMMA TakeKeepsFates ==
  ASSUME IInv, FateInv, NEW g \in Ids, CallbackTakes(g)
  PROVE  UNCHANGED Promise!vars /\ FateInv'
<1>1. g \in Live /\ g \notin DOMAIN expired
  BY DEF CallbackTakes, Live, FateInv
<1>2. /\ Live' = Live \ {g}
      /\ \A h \in Live' : groups'[h] = groups[h]
  BY DEF CallbackTakes, RemoveGroup, Without, Restrict, Live
<1>3. /\ (DOMAIN expired)' = DOMAIN expired \cup {g}
      /\ expired'[g] = groups[g]
      /\ \A h \in DOMAIN expired : expired'[h] = expired[h]
  BY <1>1 DEF CallbackTakes, With
<1>4. UNCHANGED <<arrivals, batches, superseded, discarded>>
  BY DEF CallbackTakes
<1>5. Live' \cap (DOMAIN expired)' = {}
  BY <1>1, <1>2, <1>3 DEF FateInv
<1>6. Holders' = Holders
  BY <1>1, <1>2, <1>3 DEF Holders
<1>7. \A h \in Holders : Held(h)' = Held(h)
  BY <1>1, <1>2, <1>3, <1>5 DEF Holders, Held
<1>8. pending' = pending
  <2>1. pending = UNION {Held(h) : h \in Holders}
    BY PendingIsHeld
  <2>2. pending' = UNION {Held(h)' : h \in Holders'}
    BY <1>5 DEF pending, Holders, Held
  <2> QED
    BY <1>6, <1>7, <2>1, <2>2
<1>9. {Range(b) : b \in batches'} = {Range(b) : b \in batches}
  BY <1>4
<1>10. Sound(groups[g]) /\ groups[g].obs # <<>>
  <2>1. Len(groups[g].obs) \in 1..(MinSensors - 1)
    BY <1>1 DEF IInv, GroupsUnsolved
  <2>2. Len(<<>>) = 0
    OBVIOUS
  <2>3. groups[g].obs # <<>>
    BY <2>1, <2>2
  <2> QED
    BY <1>1, <2>3, LiveSound
<1>11. UNCHANGED Promise!vars /\ UNCHANGED Promise!Known
  BY <1>4, <1>8, <1>9 DEF Promise!vars, Promise!Known
<1>12. FateInv'
  <2>1. \A h \in (DOMAIN expired)' : Sound(expired'[h]) /\ expired'[h].obs # <<>>
    BY <1>3, <1>10 DEF FateInv
  <2> QED
    BY <1>4, <1>5, <1>6, <1>7, <1>11, <2>1 DEF FateInv
<1> QED
  BY <1>11, <1>12

\* A callback that settles gives up the group that it holds.
LEMMA SettleDiscards ==
  ASSUME ConstantsAssumption, IInv, FateInv, NEW g \in Ids, CallbackSettles(g)
  PROVE  /\ Promise!Next /\ FateInv'
         /\ UNCHANGED <<Promise!Known, arrivals>>
<1> DEFINE old == Members(expired[g])
<1>1. /\ g \in DOMAIN expired /\ g \notin Live
      /\ Sound(expired[g]) /\ expired[g].obs # <<>>
  BY DEF CallbackSettles, FateInv
<1>2. Len(expired[g].obs) < MinSensors /\ ~(Len(expired[g].obs) >= MinSensors)
  <2>1. Len(expired[g].obs) < MinSensors
    BY <1>1 DEF IInv, ExpiredUnsolved
  <2>2. Len(expired[g].obs) \in Nat /\ MinSensors \in Nat
    BY <1>1 DEF Sound, Group, ConstantsAssumption
  <2> QED
    BY <2>1, <2>2
<1>3. /\ discarded' = discarded \cup old
      /\ UNCHANGED <<arrivals, groups, batches, superseded>>
      /\ expired' = Without(expired, g)
  BY <1>2 DEF CallbackSettles, Members
<1>4. /\ (DOMAIN expired)' = DOMAIN expired \ {g}
      /\ \A h \in (DOMAIN expired)' : expired'[h] = expired[h]
      /\ Live' = Live
  BY <1>3 DEF Without, Restrict, Live
<1>5. old = Held(g) /\ g \in Holders
  BY <1>1 DEF Held, Holders
<1>6. /\ Live' \cap (DOMAIN expired)' = {}
      /\ Holders' = Holders \ {g}
      /\ \A h \in Holders \ {g} : Held(h)' = Held(h)
  BY <1>1, <1>3, <1>4 DEF Holders, Held, FateInv
<1>7. pending' = pending \ old
  <2> HIDE DEF old
  <2>1. pending' = (pending \ old) \cup {}
    BY <1>5, <1>6, PendingChanges
  <2> QED
    BY <2>1
<1>8. old \subseteq pending
  BY <1>5, PendingIsHeld
<1>9. Promise!Discard(old)
  <2>1. old # {}
    <3>1. expired[g].obs \in Seq(Observations)
      BY <1>1 DEF Sound, Group
    <3>2. 1 \in DOMAIN expired[g].obs
      BY <1>1, <3>1
    <3> QED
      BY <3>2 DEF Members, Range
  <2>2. Promise!Cardinality(old) < MinSensors
    BY <1>1, <1>2, MembersCounted, SameCount
  <2>3. Promise!SameFrame(old) /\ Promise!DistinctSensors(old)
    BY <1>1, MembersApart DEF Promise!SameFrame, Promise!DistinctSensors
  <2>4. {Range(b) : b \in batches'} = {Range(b) : b \in batches}
    BY <1>3
  <2> QED
    BY <1>3, <1>7, <2>1, <2>2, <2>3, <2>4 DEF Promise!Discard
<1>10. Promise!Next
  BY <1>8, <1>9 DEF Promise!Next
<1>11. Promise!Known' = Promise!Known
  <2>1. {Range(b) : b \in batches'} = {Range(b) : b \in batches}
    BY <1>3
  <2> HIDE DEF old
  <2> QED
    BY <1>3, <1>7, <1>8, <2>1 DEF Promise!Known
<1>12. FateInv'
  <2>1. \A h \in (DOMAIN expired)' : Sound(expired'[h]) /\ expired'[h].obs # <<>>
    BY <1>4 DEF FateInv
  <2> QED
    BY <1>3, <1>6, <1>11, <2>1 DEF FateInv
<1> QED
  BY <1>3, <1>10, <1>11, <1>12

\* The other steps give no observation a fate.
LEMMA OthersKeepFates ==
  ASSUME FateInv,
         \/ \E g \in Ids : TimerFires(g) \/ CallbackTooLate(g)
         \/ UNCHANGED vars
  PROVE  UNCHANGED Promise!vars /\ FateInv'
<1>1. UNCHANGED <<arrivals, groups, expired, batches, superseded, discarded>>
  BY DEF TimerFires, CallbackTooLate, vars
<1>2. UNCHANGED pending /\ UNCHANGED {Range(b) : b \in batches}
  BY <1>1 DEF pending, Live
<1>3. UNCHANGED Promise!vars /\ UNCHANGED Promise!Known
  BY <1>1, <1>2 DEF Promise!vars, Promise!Known
<1>4. UNCHANGED Live /\ UNCHANGED Holders
  BY <1>1 DEF Live, Holders
<1>5. \A g : Held(g)' = Held(g)
  BY <1>1, <1>4 DEF Held
<1> QED
  BY <1>1, <1>3, <1>4, <1>5 DEF FateInv

LEMMA InitFates ==
  ASSUME Init
  PROVE  Promise!Init /\ FateInv
<1>1. Live = {} /\ DOMAIN expired = {}
  BY DEF Init, Live
<1>2. pending = {} /\ {Range(b) : b \in batches} = {}
  BY <1>1 DEF Init, pending
<1>3. Promise!Init /\ Promise!Known = {}
  BY <1>2 DEF Init, Promise!Init, Promise!Known
<1> QED
  BY <1>1, <1>3 DEF FateInv, Holders

LEMMA StepFates ==
  ASSUME ConstantsAssumption, IInv, FateInv, [Next]_vars
  PROVE  [Promise!Next]_Promise!vars /\ FateInv'
<1>1. ASSUME NEW s \in Sensors, NEW k \in Keys, NEW t \in Stamps, Add(s, k, t)
      PROVE  Promise!Next /\ FateInv'
  BY <1>1, AddDecides
<1>2. ASSUME NEW g \in Ids, CallbackTakes(g)
      PROVE  UNCHANGED Promise!vars /\ FateInv'
  BY <1>2, TakeKeepsFates
<1>3. ASSUME NEW g \in Ids, CallbackSettles(g)
      PROVE  Promise!Next /\ FateInv'
  BY <1>3, SettleDiscards
<1>4. ASSUME \/ \E g \in Ids : TimerFires(g) \/ CallbackTooLate(g)
             \/ UNCHANGED vars
      PROVE  UNCHANGED Promise!vars /\ FateInv'
  BY <1>4, OthersKeepFates
<1> QED
  BY <1>1, <1>2, <1>3, <1>4 DEF Next

\* Whatever the order of calls, timers and callbacks, an observation gets one
\* fate and keeps it: solved with MinSensors - 1 others, superseded, or
\* discarded (buffer.go:46-90).
THEOREM ImplementsCorrelation == Spec => OneFate
<1>1. Init => Promise!Init /\ FateInv
  BY InitFates
<1>2. IInv /\ FateInv /\ [Next]_vars => [Promise!Next]_Promise!vars /\ FateInv'
  BY ConstantsAssumption, StepFates
<1> QED
  BY <1>1, <1>2, Invariance, PTL DEF Spec, OneFate, Promise!Spec

-----------------------------------------------------------------------------
(***************************************************************************)
(* What the buffer has promised                                            *)
(***************************************************************************)

\* The observations of a new set, or of one given up, are taken from those that
\* wait; so are losers, but for the new observation.
LEMMA FatesAreFinal ==
  ASSUME Promise!OneFateEach, [Promise!Next]_Promise!vars
  PROVE  /\ Promise!OneFateEach'
         /\ superseded \subseteq superseded' /\ discarded \subseteq discarded'
         /\ {Range(b) : b \in batches} \subseteq {Range(b) : b \in batches}'
         /\ pending \subseteq Promise!Known'
<1> DEFINE solved == {Range(b) : b \in batches}
           next == {Range(b) : b \in batches'}
           Fates(P, D, S, G) ==
             /\ P \cap (D \cup (UNION S) \cup G) = {}
             /\ D \cap (UNION S) = {} /\ D \cap G = {} /\ (UNION S) \cap G = {}
             /\ \A s, t \in S : s \cap t # {} => s = t
<1>1. Promise!OneFateEach <=> Fates(pending, superseded, solved, discarded)
  BY DEF Promise!OneFateEach
<1>2. Promise!OneFateEach' <=> Fates(pending', superseded', next, discarded')
  BY DEF Promise!OneFateEach
<1>3. Promise!Known = pending \cup superseded \cup (UNION solved) \cup discarded
  BY DEF Promise!Known
<1>4. Promise!Known' = pending' \cup superseded' \cup (UNION next) \cup discarded'
  BY DEF Promise!Known
<1>5. SUFFICES /\ Fates(pending', superseded', next, discarded')
               /\ superseded \subseteq superseded' /\ discarded \subseteq discarded'
               /\ solved \subseteq next
               /\ pending \subseteq Promise!Known'
  BY <1>2
<1>6. CASE UNCHANGED Promise!vars
  <2>1. /\ UNCHANGED <<pending, superseded, discarded>> /\ next = solved
    BY <1>6 DEF Promise!vars
  <2> HIDE DEF solved, next
  <2> QED
    BY <1>1, <1>4, <2>1
<1>7. ASSUME NEW o \in Observations \ Promise!Known, Promise!Accept(o)
      PROVE  /\ Fates(pending', superseded', next, discarded')
             /\ superseded \subseteq superseded' /\ discarded \subseteq discarded'
             /\ solved \subseteq next /\ pending \subseteq Promise!Known'
  <2>1. pending' = pending \cup {o} /\ UNCHANGED <<superseded, discarded>> /\ next = solved
    BY <1>7 DEF Promise!Accept
  <2> HIDE DEF solved, next
  <2> QED
    BY <1>1, <1>3, <1>4, <2>1
<1>8. ASSUME NEW o \in Observations \ Promise!Known, NEW p \in pending,
             Promise!Supersede(o, p)
      PROVE  /\ Fates(pending', superseded', next, discarded')
             /\ superseded \subseteq superseded' /\ discarded \subseteq discarded'
             /\ solved \subseteq next /\ pending \subseteq Promise!Known'
  <2>1. next = solved /\ discarded' = discarded
    BY <1>8 DEF Promise!Supersede
  <2>2. PICK loser \in {o, p} : /\ pending' = (pending \cup {o}) \ {loser}
                                /\ superseded' = superseded \cup {loser}
    BY <1>8 DEF Promise!Supersede
  <2> HIDE DEF solved, next
  <2> QED
    BY <1>1, <1>3, <1>4, <2>1, <2>2
<1>9. ASSUME NEW o \in Observations \ Promise!Known, NEW S \in SUBSET pending,
             Promise!Complete(o, S)
      PROVE  /\ Fates(pending', superseded', next, discarded')
             /\ superseded \subseteq superseded' /\ discarded \subseteq discarded'
             /\ solved \subseteq next /\ pending \subseteq Promise!Known'
  <2>1. /\ next = solved \cup {S \cup {o}} /\ pending' = pending \ S
        /\ UNCHANGED <<superseded, discarded>>
    BY <1>9 DEF Promise!Complete
  <2> HIDE DEF solved, next
  <2>2. UNION next = (UNION solved) \cup S \cup {o}
    BY <2>1
  <2>3. \A s \in solved : s \cap (S \cup {o}) = {}
    <3>1. pending \cap (UNION solved) = {} /\ o \notin UNION solved
      BY <1>1, <1>3
    <3> QED
      BY <3>1
  <2>4. \A s, t \in next : s \cap t # {} => s = t
    <3>1. \A s, t \in solved : s \cap t # {} => s = t
      BY <1>1
    <3>2. \A s \in next : s \in solved \/ s = S \cup {o}
      BY <2>1
    <3> SUFFICES ASSUME NEW s \in next, NEW t \in next, s # t PROVE s \cap t = {}
      OBVIOUS
    <3>3. CASE s \in solved /\ t \in solved
      BY <3>1, <3>3
    <3>4. CASE s \in solved /\ t = S \cup {o}
      BY <2>3, <3>4
    <3>5. CASE t \in solved /\ s = S \cup {o}
      BY <2>3, <3>5
    <3> QED
      BY <3>2, <3>3, <3>4, <3>5
  <2>5. /\ pending' \cap (superseded \cup (UNION next) \cup discarded) = {}
        /\ superseded \cap (UNION next) = {} /\ superseded \cap discarded = {}
        /\ (UNION next) \cap discarded = {}
    <3>1. /\ pending \cap (superseded \cup (UNION solved) \cup discarded) = {}
          /\ superseded \cap (UNION solved) = {} /\ superseded \cap discarded = {}
          /\ (UNION solved) \cap discarded = {}
      BY <1>1
    <3> HIDE DEF Fates
    <3> QED
      BY <1>3, <2>1, <2>2, <3>1
  <2>6. pending \subseteq Promise!Known'
    BY <1>4, <2>1, <2>2
  <2> QED
    BY <2>1, <2>4, <2>5, <2>6
<1>10. ASSUME NEW S \in SUBSET pending, Promise!Discard(S)
       PROVE  /\ Fates(pending', superseded', next, discarded')
              /\ superseded \subseteq superseded' /\ discarded \subseteq discarded'
              /\ solved \subseteq next /\ pending \subseteq Promise!Known'
  <2>1. /\ next = solved /\ pending' = pending \ S
        /\ discarded' = discarded \cup S /\ UNCHANGED superseded
    BY <1>10 DEF Promise!Discard
  <2> HIDE DEF solved, next
  <2> QED
    BY <1>1, <1>3, <1>4, <2>1
<1> HIDE DEF solved, next, Fates
<1> QED
  BY <1>6, <1>7, <1>8, <1>9, <1>10 DEF Promise!Next

\* An observation is in one place only, waiting or with one fate, and in one batch
\* only (buffer.go:46-90, 138-164).
THEOREM FatesApart == Spec => []Promise!OneFateEach
<1>1. Init => Promise!OneFateEach
  <2> SUFFICES ASSUME Init PROVE Promise!OneFateEach
    OBVIOUS
  <2>1. pending = {} /\ {Range(b) : b \in batches} = {} /\ superseded = {} /\ discarded = {}
    BY InitFates DEF Promise!Init
  <2> QED
    BY <2>1 DEF Promise!OneFateEach
<1>2. Promise!OneFateEach /\ [Promise!Next]_Promise!vars => Promise!OneFateEach'
  BY FatesAreFinal
<1> QED
  BY <1>1, <1>2, ImplementsCorrelation, PTL DEF Spec, OneFate, Promise!Spec

\* A fate is never taken back, and what waits is never lost (buffer.go:46-90).
THEOREM FatesStay == Spec => Promise!FatesKept
<1>1. Promise!OneFateEach /\ [Promise!Next]_Promise!vars
        => [/\ superseded \subseteq superseded'
            /\ {Range(b) : b \in batches} \subseteq {Range(b) : b \in batches}'
            /\ discarded \subseteq discarded'
            /\ pending \subseteq Promise!Known']_Promise!vars
  BY FatesAreFinal
<1> QED
  BY <1>1, FatesApart, ImplementsCorrelation, PTL
     DEF OneFate, Promise!Spec, Promise!FatesKept

\* The observations that wait or have a fate are those of the calls of Add, one of
\* each.
Accounted ==
  /\ \A n \in 1..arrivals : \E o \in Promise!Known : o.n = n
  /\ \A o, p \in Promise!Known : o.n = p.n => o = p

LEMMA InitAccounted ==
  ASSUME Init
  PROVE  Accounted
<1>1. arrivals = 0
  BY DEF Init
<1>2. Promise!Known = {}
  BY InitFates DEF Promise!Init, Promise!Known
<1> QED
  BY <1>1, <1>2 DEF Accounted

LEMMA StepAccounts ==
  ASSUME ConstantsAssumption, IInv, FateInv, Accounted, [Next]_vars
  PROVE  Accounted'
<1>1. arrivals \in Nat /\ \A o \in Promise!Known : o.n \in Nat /\ o.n <= arrivals
  <2>1. \A o \in Observations : o.n \in Nat
    BY DEF Observations
  <2> QED
    BY <2>1 DEF IInv, TypeOK, FateInv
<1>2. ASSUME NEW s \in Sensors, NEW k \in Keys, NEW t \in Stamps, Add(s, k, t)
      PROVE  Accounted'
  <2>1. PICK o : /\ o.n = arrivals + 1 /\ arrivals' = arrivals + 1
                 /\ Promise!Known' = Promise!Known \cup {o}
    BY <1>2, AddDecides
  <2>2. \A n \in 1..arrivals' : n \in 1..arrivals \/ n = o.n
    BY <1>1, <2>1
  <2>3. \A p \in Promise!Known : p.n # o.n
    BY <1>1, <2>1
  <2> QED
    BY <2>1, <2>2, <2>3 DEF Accounted
<1>3. ASSUME NEW g \in Ids, CallbackTakes(g)
      PROVE  Accounted'
  <2>1. UNCHANGED Promise!vars /\ UNCHANGED arrivals
    BY <1>3, TakeKeepsFates DEF CallbackTakes
  <2>2. UNCHANGED Promise!Known
    BY <2>1 DEF Promise!vars, Promise!Known
  <2> QED
    BY <2>1, <2>2 DEF Accounted
<1>4. ASSUME NEW g \in Ids, CallbackSettles(g)
      PROVE  Accounted'
  <2>1. Promise!Known' = Promise!Known /\ UNCHANGED arrivals
    BY <1>4, SettleDiscards
  <2> QED
    BY <2>1 DEF Accounted
<1>5. ASSUME \/ \E g \in Ids : TimerFires(g) \/ CallbackTooLate(g)
             \/ UNCHANGED vars
      PROVE  Accounted'
  <2>1. UNCHANGED Promise!vars /\ UNCHANGED arrivals
    BY <1>5, OthersKeepFates DEF TimerFires, CallbackTooLate, vars
  <2>2. UNCHANGED Promise!Known
    BY <2>1 DEF Promise!vars, Promise!Known
  <2> QED
    BY <2>1, <2>2 DEF Accounted
<1> QED
  BY <1>2, <1>3, <1>4, <1>5 DEF Next

\* No observation is lost and none is counted twice: every call of Add has
\* one that waits, or has a fate (buffer.go:46-90).
THEOREM NothingIsLost == Spec => []Accounted
<1>1. Init => Accounted /\ FateInv
  BY InitAccounted, InitFates
<1>2. IInv /\ FateInv /\ [Next]_vars => FateInv'
  BY ConstantsAssumption, StepFates
<1>3. IInv /\ FateInv /\ Accounted /\ [Next]_vars => Accounted'
  BY ConstantsAssumption, StepAccounts
<1> QED
  BY <1>1, <1>2, <1>3, Invariance, PTL DEF Spec
=============================================================================
