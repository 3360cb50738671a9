----------------------------- MODULE BoardProofs ----------------------------
(***************************************************************************)
(* Theorems about module Board, for any aircraft, retentions, lengths of   *)
(* the list, and any number of observations, fixes and snapshots.          *)
(*                                                                         *)
(* A snapshot is checked against histories that it does not see.  IInv says *)
(* what the three maps know of them at any time: that what a snapshot has  *)
(* dropped was too old then, and can only get older.                       *)
(***************************************************************************)
EXTENDS Board, FiniteSetTheorems, TLAPS

Hearing == [sensors : GroupSizes, at : Times]

FixRecord == [aircraft : Aircraft, at : Times]

\* The histories are of the past.
Histories ==
  /\ heard \in [Aircraft -> Seq(Hearing)]
  /\ \A a \in Aircraft : /\ Len(heard[a]) <= MaxHeard
                         /\ \A i \in DOMAIN heard[a] : heard[a][i].at <= now
  /\ fixes \in Seq(FixRecord)
  /\ Len(fixes) = totalFixes
  /\ \A n \in DOMAIN fixes : fixes[n].at <= now

\* The window has the times of fixes, and those of all but old ones.
WindowExact ==
  /\ \A n \in DOMAIN fixWindow : fixWindow[n] = fixes[n].at
  /\ \A n \in DOMAIN fixes \ DOMAIN fixWindow : fixes[n].at <= now - FixRateWindow

\* An entry of s.active is of the last fix, and aircraft without one have old
\* fixes only.
ActiveExact ==
  /\ \A a \in DOMAIN active :
       /\ active[a].fixes <= totalFixes
       /\ \E n \in DOMAIN fixes : fixes[n].aircraft = a /\ fixes[n].at = active[a].lastSeen
  /\ \A n \in DOMAIN fixes :
       IF fixes[n].aircraft \in DOMAIN active
         THEN fixes[n].at <= active[fixes[n].aircraft].lastSeen
         ELSE now - fixes[n].at > ActiveRetention

LastHeard(a) == heard[a][Len(heard[a])].at

\* An aircraft that does not wait was not heard, not lately, or while it was
\* tracked.
UnheardElsewhere ==
  \A a \in Aircraft \ DOMAIN waiting :
     \/ heard[a] = <<>>
     \/ LastHeard(a) < now - WaitingRetention
     \/ TrackedAt(a, LastHeard(a))

IInv ==
  /\ TypeOK
  /\ IsFiniteSet(DOMAIN waiting)
  /\ Histories
  /\ WindowExact
  /\ ActiveExact
  /\ UnheardElsewhere
  /\ WaitingSinceFix
  /\ SnapshotExact
  /\ NoBetterLeftOut

-----------------------------------------------------------------------------
(* Sequences that grow at their end. *)

LEMMA Grows ==
  ASSUME NEW S, NEW s \in Seq(S), NEW e \in S
  PROVE  /\ Append(s, e) \in Seq(S)
         /\ DOMAIN s = 1..Len(s) /\ Len(s) \in Nat
         /\ DOMAIN Append(s, e) = DOMAIN s \cup {Len(s) + 1}
         /\ \A i \in DOMAIN s : Append(s, e)[i] = s[i]
         /\ Append(s, e)[Len(s) + 1] = e
         /\ Len(Append(s, e)) = Len(s) + 1
         /\ Append(s, e) # <<>>
  OBVIOUS

-----------------------------------------------------------------------------
(***************************************************************************)
(* The list of waiting aircraft                                            *)
(*                                                                         *)
(* The position of an aircraft, the number of those before it, is          *)
(* different for each, and so takes every value below the number of all:   *)
(* no induction is needed to see that the first ListSize are ListSize.     *)
(***************************************************************************)

Preceding(S, a) == {b \in S : Before(b, a)}

LEMMA WaitingTyped ==
  ASSUME ConstantsAssumption, TypeOK
  PROVE  \A a \in DOMAIN waiting :
           a \in Int /\ waiting[a].sensors \in Nat /\ waiting[a].frames \in Nat
<1>1. \A a \in DOMAIN waiting : waiting[a] \in WaitingState
  BY DEF TypeOK
<1> QED
  BY <1>1 DEF TypeOK, WaitingState, ConstantsAssumption

LEMMA BeforeIsOrder ==
  ASSUME ConstantsAssumption, TypeOK,
         NEW a \in DOMAIN waiting, NEW b \in DOMAIN waiting, NEW c \in DOMAIN waiting
  PROVE  /\ ~Before(a, a)
         /\ a # b => Before(a, b) \/ Before(b, a)
         /\ Before(a, b) /\ Before(b, c) => Before(a, c)
         /\ ~Before(a, b) => waiting[b].sensors >= waiting[a].sensors
BY WaitingTyped DEF Before

LEMMA PrecedingGrows ==
  ASSUME ConstantsAssumption, TypeOK,
         NEW S \in SUBSET DOMAIN waiting, IsFiniteSet(S),
         NEW a \in S, NEW b \in S, Before(a, b)
  PROVE  Cardinality(Preceding(S, a)) < Cardinality(Preceding(S, b))
<1>1. /\ Preceding(S, a) \cup {a} \subseteq Preceding(S, b)
      /\ a \notin Preceding(S, a)
  BY BeforeIsOrder DEF Preceding
<1>2. IsFiniteSet(Preceding(S, a)) /\ IsFiniteSet(Preceding(S, b))
  BY FS_Subset DEF Preceding
<1>3. Cardinality(Preceding(S, a) \cup {a}) = Cardinality(Preceding(S, a)) + 1
  BY <1>1, <1>2, FS_AddElement
<1>4. Cardinality(Preceding(S, a) \cup {a}) <= Cardinality(Preceding(S, b))
  BY <1>1, <1>2, FS_Subset
<1>5. Cardinality(Preceding(S, a)) \in Nat /\ Cardinality(Preceding(S, b)) \in Nat
  BY <1>2, FS_CardinalityType
<1> QED
  BY <1>3, <1>4, <1>5

\* An aircraft is left out only when ListSize others are listed, and none of them
\* has fewer sensors.
LEMMA ListedAreBest ==
  ASSUME ConstantsAssumption, TypeOK,
         NEW S \in SUBSET DOMAIN waiting, IsFiniteSet(S), NEW a \in S \ Listed(S)
  PROVE  /\ Cardinality(Listed(S)) = ListSize
         /\ \A b \in Listed(S) : waiting[b].sensors >= waiting[a].sensors
<1> DEFINE N == Cardinality(S)
           rank == [b \in S |-> Cardinality(Preceding(S, b))]
<1>0. N \in Nat /\ ListSize \in Nat
  BY FS_CardinalityType DEF ConstantsAssumption
<1>1. \A b \in S : rank[b] \in 0..(N - 1)
  <2>1. SUFFICES ASSUME NEW b \in S PROVE rank[b] \in 0..(N - 1)
    OBVIOUS
  <2>2. Preceding(S, b) \subseteq S \ {b}
    BY BeforeIsOrder DEF Preceding
  <2>3. IsFiniteSet(S \ {b}) /\ Cardinality(S \ {b}) = N - 1
    BY FS_RemoveElement
  <2>4. IsFiniteSet(Preceding(S, b)) /\ Cardinality(Preceding(S, b)) <= N - 1
    BY <2>2, <2>3, FS_Subset
  <2>5. Cardinality(Preceding(S, b)) \in Nat
    BY <2>4, FS_CardinalityType
  <2> QED
    BY <1>0, <2>4, <2>5
<1>2. \A b, c \in S : rank[b] = rank[c] => b = c
  <2>1. SUFFICES ASSUME NEW b \in S, NEW c \in S, b # c PROVE rank[b] # rank[c]
    OBVIOUS
  <2>2. rank[b] \in Nat /\ rank[c] \in Nat
    BY <1>1
  <2>3. rank[b] < rank[c] \/ rank[c] < rank[b]
    BY <2>1, BeforeIsOrder, PrecedingGrows
  <2> QED
    BY <2>2, <2>3
<1>3. IsFiniteSet(0..(N - 1)) /\ Cardinality(0..(N - 1)) = N
  <2> HIDE DEF N
  <2>1. N - 1 \in Int /\ 0 \in Int /\ (N - 1) - 0 + 1 = N /\ (0 > N - 1 => N = 0)
    BY <1>0
  <2> QED
    BY <2>1, FS_Interval
<1>4. rank \in Injection(S, 0..(N - 1))
  BY <1>1, <1>2 DEF Injection, IsInjective
<1>5. rank \in Surjection(S, 0..(N - 1))
  BY <1>3, <1>4, FS_Injection
<1>6. \A k \in 0..(N - 1) : \E b \in S : rank[b] = k
  BY <1>5 DEF Surjection
<1>7. Listed(S) = {b \in S : rank[b] < ListSize}
  BY DEF Listed, Preceding
<1>8. rank[a] >= ListSize /\ rank[a] \in 0..(N - 1)
  <2>1. ~(rank[a] < ListSize)
    BY <1>7
  <2> HIDE DEF rank
  <2> QED
    BY <1>0, <1>1, <2>1
<1>9. Cardinality(Listed(S)) = ListSize
  <2> DEFINE f == [b \in Listed(S) |-> rank[b]]
  <2> HIDE DEF rank
  <2>1. Listed(S) \subseteq S /\ IsFiniteSet(Listed(S))
    BY FS_Subset DEF Listed
  <2>2. f \in [Listed(S) -> 0..(ListSize - 1)]
    BY <1>0, <1>1, <1>7
  <2>3. \A k \in 0..(ListSize - 1) : \E b \in Listed(S) : f[b] = k
    BY <1>0, <1>6, <1>7, <1>8
  <2>4. \A b, c \in Listed(S) : f[b] = f[c] => b = c
    BY <1>2, <2>1
  <2>5. f \in Bijection(Listed(S), 0..(ListSize - 1))
    BY <2>2, <2>3, <2>4 DEF Bijection, Injection, Surjection, IsInjective
  <2>6. Cardinality(0..(ListSize - 1)) = Cardinality(Listed(S))
    BY <2>1, <2>5, FS_Bijection DEF ExistsBijection
  <2>7. Cardinality(0..(ListSize - 1)) = ListSize
    BY <1>0, FS_Interval
  <2> QED
    BY <2>6, <2>7
<1>10. ASSUME NEW b \in Listed(S) PROVE waiting[b].sensors >= waiting[a].sensors
  <2>1. b \in S /\ rank[b] < ListSize /\ rank[b] \in Int /\ rank[a] \in Int
    BY <1>1, <1>7
  <2>2. ~(rank[a] < rank[b])
    <3> HIDE DEF rank
    <3> QED
      BY <1>0, <1>8, <2>1
  <2>3. ~Before(a, b)
    BY <2>1, <2>2, PrecedingGrows
  <2> QED
    BY <2>1, <2>3, BeforeIsOrder
<1> QED
  BY <1>9, <1>10

-----------------------------------------------------------------------------
(* The steps *)

\* Outside a snapshot there is no board to be wrong.
LEMMA NoBoard ==
  ASSUME returned = {}
  PROVE  SnapshotExact /\ NoBetterLeftOut
BY DEF SnapshotExact, NoBetterLeftOut

\* The types of all there is.
LEMMA Typed ==
  ASSUME ConstantsAssumption, IInv
  PROVE  /\ now \in Nat /\ now <= MaxTime /\ totalFixes \in Nat /\ totalFixes <= MaxFixes
         /\ MaxTime \in Nat /\ MaxHeard \in Nat /\ MaxFixes \in Nat
         /\ WaitingRetention \in Nat /\ ActiveRetention \in Nat /\ FixRateWindow \in Nat
         /\ \A a \in DOMAIN waiting :
              /\ a \in Aircraft
              /\ waiting[a] \in WaitingState /\ waiting[a].sensors \in GroupSizes
              /\ waiting[a].frames \in 1..MaxHeard /\ waiting[a].lastSeen \in Times
         /\ \A a \in DOMAIN active :
              /\ a \in Aircraft
              /\ active[a] \in TrackedState /\ active[a].fixes \in 1..MaxFixes
              /\ active[a].lastSeen \in Times
         /\ \A n \in DOMAIN fixWindow : fixWindow[n] \in 0..now
         /\ \A a \in Aircraft :
              /\ heard[a] \in Seq(Hearing) /\ Len(heard[a]) \in Nat
              /\ DOMAIN heard[a] = 1..Len(heard[a])
              /\ \A i \in DOMAIN heard[a] : /\ heard[a][i].sensors \in GroupSizes
                                            /\ heard[a][i].at \in Times
         /\ fixes \in Seq(FixRecord) /\ DOMAIN fixes = 1..totalFixes
         /\ \A n \in DOMAIN fixes : fixes[n].aircraft \in Aircraft /\ fixes[n].at \in Times
<1>1. now \in 0..MaxTime /\ totalFixes \in 0..MaxFixes
  BY DEF IInv, TypeOK, Times
<1>2. \A a \in DOMAIN waiting : a \in Aircraft /\ waiting[a] \in WaitingState
  BY DEF IInv, TypeOK
<1>3. \A a \in DOMAIN active : a \in Aircraft /\ active[a] \in TrackedState
  BY DEF IInv, TypeOK
<1>4. \A n \in DOMAIN fixWindow : fixWindow[n] \in 0..now
  BY DEF IInv, TypeOK
<1>5. ASSUME NEW a \in Aircraft
      PROVE  /\ heard[a] \in Seq(Hearing) /\ Len(heard[a]) \in Nat
             /\ DOMAIN heard[a] = 1..Len(heard[a])
             /\ \A i \in DOMAIN heard[a] : heard[a][i] \in Hearing
  BY DEF IInv, Histories
<1>6. /\ fixes \in Seq(FixRecord) /\ DOMAIN fixes = 1..totalFixes
      /\ \A n \in DOMAIN fixes : fixes[n] \in FixRecord
  BY DEF IInv, Histories
<1>7. /\ MaxTime \in Nat /\ MaxHeard \in Nat /\ MaxFixes \in Nat
      /\ WaitingRetention \in Nat /\ ActiveRetention \in Nat /\ FixRateWindow \in Nat
  BY DEF ConstantsAssumption
<1>8. \A a \in DOMAIN waiting :
        /\ waiting[a].sensors \in GroupSizes
        /\ waiting[a].frames \in 1..MaxHeard /\ waiting[a].lastSeen \in Times
  BY <1>2 DEF WaitingState
<1>9. \A a \in DOMAIN active :
        active[a].fixes \in 1..MaxFixes /\ active[a].lastSeen \in Times
  BY <1>3 DEF TrackedState
<1>10. \A a \in Aircraft : \A i \in DOMAIN heard[a] :
         heard[a][i].sensors \in GroupSizes /\ heard[a][i].at \in Times
  BY <1>5 DEF Hearing
<1>11. \A n \in DOMAIN fixes : fixes[n].aircraft \in Aircraft /\ fixes[n].at \in Times
  BY <1>6 DEF FixRecord
<1>12. now \in Nat /\ now <= MaxTime /\ totalFixes \in Nat /\ totalFixes <= MaxFixes
  BY <1>1, <1>7
<1> QED
  BY <1>2, <1>3, <1>4, <1>5, <1>6, <1>7, <1>8, <1>9, <1>10, <1>11, <1>12

LEMMA InitIInv ==
  ASSUME ConstantsAssumption, Init
  PROVE  IInv
<1>1. TypeOK /\ IsFiniteSet(DOMAIN waiting)
  BY FS_EmptySet DEF Init, TypeOK, Times, ConstantsAssumption
<1>2. Histories
  BY DEF Init, Histories, ConstantsAssumption
<1>3. WindowExact /\ ActiveExact /\ UnheardElsewhere /\ WaitingSinceFix
  BY DEF Init, WindowExact, ActiveExact, UnheardElsewhere, WaitingSinceFix
<1> QED
  BY <1>1, <1>2, <1>3, NoBoard DEF Init, IInv

\* Time passes: what was old is older.
LEMMA TickKeeps ==
  ASSUME ConstantsAssumption, IInv, Tick
  PROVE  IInv'
<1>1. /\ now' = now + 1 /\ now' \in Times /\ returned' = {}
      /\ UNCHANGED <<waiting, active, fixWindow, totalFixes, heard, fixes>>
  BY Typed DEF Tick, Times
<1>2. TypeOK' /\ IsFiniteSet(DOMAIN waiting)'
  <2>1. fixWindow' \in [(DOMAIN fixWindow)' -> 0..now']
    <3>1. 0..now \subseteq 0..now'
      BY <1>1, Typed
    <3>2. fixWindow \in [DOMAIN fixWindow -> 0..now]
      BY DEF IInv, TypeOK
    <3> QED
      BY <1>1, <3>1, <3>2
  <2> QED
    BY <1>1, <2>1 DEF IInv, TypeOK
<1>3. Histories'
  <2>1. \A t \in Int : t <= now => t <= now'
    BY <1>1, Typed
  <2>2. /\ \A a \in Aircraft : \A i \in DOMAIN heard[a] : heard[a][i].at \in Int
        /\ \A n \in DOMAIN fixes : fixes[n].at \in Int
    BY Typed DEF Times
  <2>3. heard' = heard /\ fixes' = fixes /\ totalFixes' = totalFixes
    BY <1>1
  <2> QED
    BY <2>1, <2>2, <2>3 DEF IInv, Histories
<1>4. WindowExact'
  <2>1. \A t \in Int : t <= now - FixRateWindow => t <= now' - FixRateWindow
    BY <1>1, Typed
  <2>2. \A n \in DOMAIN fixes : fixes[n].at \in Int
    BY Typed DEF Times
  <2>3. fixes' = fixes /\ fixWindow' = fixWindow
    BY <1>1
  <2> QED
    BY <2>1, <2>2, <2>3 DEF IInv, WindowExact
<1>5. ActiveExact'
  <2>1. \A n \in DOMAIN fixes :
          fixes[n].aircraft \notin DOMAIN active => now' - fixes[n].at > ActiveRetention
    BY <1>1, Typed DEF IInv, ActiveExact, Times
  <2> QED
    BY <1>1, <2>1 DEF IInv, ActiveExact
<1>6. UnheardElsewhere'
  <2>1. SUFFICES ASSUME NEW a \in Aircraft \ DOMAIN waiting, heard[a] # <<>>,
                        ~TrackedAt(a, LastHeard(a))
                 PROVE  LastHeard(a) < now' - WaitingRetention
    BY <1>1 DEF UnheardElsewhere, LastHeard, TrackedAt
  <2>2. LastHeard(a) < now - WaitingRetention
    BY <2>1 DEF IInv, UnheardElsewhere
  <2>3. LastHeard(a) \in Nat
    BY <2>1, Typed DEF LastHeard, Times
  <2> QED
    BY <1>1, <2>2, <2>3, Typed
<1>7. WaitingSinceFix'
  BY <1>1 DEF IInv, WaitingSinceFix
<1>8. SnapshotExact' /\ NoBetterLeftOut'
  BY <1>1 DEF SnapshotExact, NoBetterLeftOut
<1> QED
  BY <1>2, <1>3, <1>4, <1>5, <1>6, <1>7, <1>8 DEF IInv

\* An observation: the aircraft waits, and was heard with so many sensors.
LEMMA RecordObservationKeeps ==
  ASSUME ConstantsAssumption, IInv, NEW a \in Aircraft, NEW sensors \in GroupSizes,
         RecordObservation(a, sensors)
  PROVE  IInv'
<1> DEFINE h == heard[a]
           e == [sensors |-> sensors, at |-> now]
           old == IF a \in DOMAIN waiting THEN waiting[a] ELSE [sensors |-> 0, frames |-> 0]
           entry == [sensors  |-> IF sensors > old.sensors THEN sensors ELSE old.sensors,
                     frames   |-> old.frames + 1,
                     lastSeen |-> now]
<1>1. /\ Len(h) < MaxHeard
      /\ waiting' = With(waiting, a, entry)
      /\ returned' = {}
      /\ heard' = [heard EXCEPT ![a] = Append(h, e)]
      /\ UNCHANGED <<now, active, fixWindow, totalFixes, fixes>>
  BY DEF RecordObservation
<1>2. /\ sensors \in Nat /\ sensors > 0 /\ now \in Times
      /\ \A n \in GroupSizes : n \in Nat
  BY Typed DEF ConstantsAssumption, Times
<1>3. /\ h \in Seq(Hearing) /\ e \in Hearing
      /\ Append(h, e) \in Seq(Hearing)
      /\ DOMAIN h = 1..Len(h) /\ Len(h) \in Nat
      /\ DOMAIN Append(h, e) = DOMAIN h \cup {Len(h) + 1}
      /\ \A i \in DOMAIN h : Append(h, e)[i] = h[i]
      /\ Append(h, e)[Len(h) + 1] = e
      /\ Len(Append(h, e)) = Len(h) + 1
      /\ Append(h, e) # <<>>
  <2>1. h \in Seq(Hearing) /\ e \in Hearing
    BY <1>2, Typed DEF Hearing
  <2> HIDE DEF h, e
  <2> QED
    BY <2>1, Grows
<1>4. /\ heard'[a] = Append(h, e)
      /\ \A b \in Aircraft \ {a} : heard'[b] = heard[b]
      /\ heard' \in [Aircraft -> Seq(Hearing)]
  BY <1>1, <1>3 DEF IInv, Histories
<1>5. /\ DOMAIN waiting' = DOMAIN waiting \cup {a}
      /\ waiting'[a] = entry
      /\ \A b \in DOMAIN waiting \ {a} : waiting'[b] = waiting[b]
      /\ waiting' = [b \in DOMAIN waiting' |-> waiting'[b]]
  BY <1>1 DEF With
<1>6. /\ old.frames \in Nat /\ old.frames <= Len(h)
      /\ old.sensors \in GroupSizes \cup {0} /\ old.sensors \in Nat
      /\ a \notin DOMAIN waiting => old.frames = 0 /\ old.sensors = 0
  <2>1. CASE a \in DOMAIN waiting
    <3>1. old = waiting[a]
      BY <2>1
    <3>2. waiting[a].frames \in 1..MaxHeard /\ waiting[a].sensors \in GroupSizes
      BY <2>1, Typed
    <3>3. waiting[a].frames <= Len(h)
      BY <2>1 DEF IInv, WaitingSinceFix
    <3>4. waiting[a].frames \in Nat
      BY <3>2, Typed
    <3> QED
      BY <1>2, <2>1, <3>1, <3>2, <3>3, <3>4
  <2>2. CASE a \notin DOMAIN waiting
    BY <1>3, <2>2
  <2> QED
    BY <2>1, <2>2
<1>7. entry \in WaitingState
  <2>1. (IF sensors > old.sensors THEN sensors ELSE old.sensors) \in GroupSizes
    BY <1>2, <1>6
  <2>2. old.frames + 1 \in 1..MaxHeard
    <3> HIDE DEF old, h, e
    <3>1. MaxHeard \in Nat
      BY Typed
    <3>2. old.frames \in Nat /\ old.frames <= Len(h) /\ Len(h) < MaxHeard /\ Len(h) \in Nat
      BY <1>1, <1>3, <1>6
    <3> QED
      BY <3>1, <3>2
  <2> QED
    BY <1>2, <2>1, <2>2 DEF WaitingState
<1>8. TypeOK'
  <2>1. (DOMAIN waiting)' \subseteq Aircraft
    BY <1>5 DEF IInv, TypeOK
  <2>2. \A b \in DOMAIN waiting' : waiting'[b] \in WaitingState
    <3> HIDE DEF entry
    <3> QED
      BY <1>5, <1>7, Typed
  <2>3. waiting' \in [DOMAIN waiting' -> WaitingState]
    BY <1>5, <2>2
  <2> QED
    BY <1>1, <2>1, <2>3 DEF IInv, TypeOK
<1>9. IsFiniteSet(DOMAIN waiting)'
  BY <1>5, FS_AddElement DEF IInv
<1>10. Histories'
  <2>1. ASSUME NEW b \in Aircraft
        PROVE  /\ Len(heard'[b]) <= MaxHeard
               /\ \A i \in DOMAIN heard'[b] : heard'[b][i].at <= now
    <3> HIDE DEF h
    <3>1. CASE b = a
      <4>1. Len(heard'[a]) <= MaxHeard
        BY <1>1, <1>3, <1>4, Typed
      <4>2. \A i \in DOMAIN h : h[i].at <= now
        BY DEF IInv, Histories, h
      <4>3. e.at <= now
        BY Typed
      <4> HIDE DEF e
      <4> QED
        BY <1>3, <1>4, <3>1, <4>1, <4>2, <4>3
    <3>2. CASE b # a
      BY <1>4, <3>2 DEF IInv, Histories
    <3> QED
      BY <3>1, <3>2
  <2> QED
    BY <1>1, <1>4, <2>1 DEF IInv, Histories
<1>11. WindowExact' /\ ActiveExact'
  BY <1>1 DEF IInv, WindowExact, ActiveExact
<1>12. UnheardElsewhere'
  <2>1. \A b \in Aircraft \ DOMAIN waiting' : b \in Aircraft \ DOMAIN waiting /\ b # a
    BY <1>5
  <2>2. \A b \in Aircraft \ {a} : heard'[b] = heard[b] /\ LastHeard(b)' = LastHeard(b)
    BY <1>4 DEF LastHeard
  <2>3. now' = now /\ \A b : \A t : TrackedAt(b, t)' <=> TrackedAt(b, t)
    BY <1>1 DEF TrackedAt
  <2>4. SUFFICES ASSUME NEW b \in Aircraft \ DOMAIN waiting'
                 PROVE  \/ heard'[b] = <<>>
                        \/ LastHeard(b)' < now' - WaitingRetention
                        \/ TrackedAt(b, LastHeard(b))'
    BY DEF UnheardElsewhere
  <2>5. \/ heard[b] = <<>>
        \/ LastHeard(b) < now - WaitingRetention
        \/ TrackedAt(b, LastHeard(b))
    BY <2>1 DEF IInv, UnheardElsewhere
  <2> QED
    BY <2>1, <2>2, <2>3, <2>5
<1>13. WaitingSinceFix'
  <2> DEFINE w == waiting'
             g == heard'
  <2>1. SUFFICES ASSUME NEW b \in DOMAIN w
                 PROVE  /\ w[b].frames <= Len(g[b])
                        /\ w[b].lastSeen = g[b][Len(g[b])].at
                        /\ \A i \in (Len(g[b]) - w[b].frames + 1)..Len(g[b]) :
                             g[b][i].sensors <= w[b].sensors
                        /\ \E i \in (Len(g[b]) - w[b].frames + 1)..Len(g[b]) :
                             g[b][i].sensors = w[b].sensors
    BY DEF WaitingSinceFix
  <2>2. CASE b = a
    <3> DEFINE s == Append(h, e)
    <3>1. /\ w[a].frames = old.frames + 1 /\ w[a].lastSeen = now
          /\ w[a].sensors = (IF sensors > old.sensors THEN sensors ELSE old.sensors)
      BY <1>5
    <3>2. g[a] = s
      BY <1>4
    <3>3. s[Len(h) + 1].sensors = sensors /\ s[Len(h) + 1].at = now
      BY <1>3
    <3>4. \A i \in (Len(h) - old.frames + 1)..Len(h) : s[i] = h[i] /\ i \in DOMAIN h
      BY <1>3, <1>6
    <3>5. \A i \in (Len(h) - old.frames + 1)..Len(h) :
            h[i].sensors <= old.sensors /\ h[i].sensors \in Nat
      <4>1. CASE a \in DOMAIN waiting
        BY <1>2, <3>4, <4>1, Typed DEF IInv, WaitingSinceFix
      <4>2. CASE a \notin DOMAIN waiting
        BY <1>3, <1>6, <4>2
      <4> QED
        BY <4>1, <4>2
    <3>6. a \in DOMAIN waiting =>
            \E i \in (Len(h) - old.frames + 1)..Len(h) : h[i].sensors = old.sensors
      BY DEF IInv, WaitingSinceFix
    <3>7. Len(s) = Len(h) + 1
      BY <1>3
    <3> HIDE DEF s, h, old
    <3>8. (Len(s) - (old.frames + 1) + 1)..Len(s)
            = (Len(h) - old.frames + 1)..Len(h) \cup {Len(h) + 1}
      BY <1>3, <1>6, <3>7
    <3> HIDE DEF w, g
    <3>9. /\ \A i \in (Len(s) - w[a].frames + 1)..Len(s) : s[i].sensors <= w[a].sensors
          /\ \E i \in (Len(s) - w[a].frames + 1)..Len(s) : s[i].sensors = w[a].sensors
      <4>1. \A i \in (Len(h) - old.frames + 1)..Len(h) : s[i].sensors <= old.sensors
        BY <3>4, <3>5
      <4>2. \A i \in (Len(h) - old.frames + 1)..Len(h) : s[i].sensors \in Nat
        BY <3>4, <3>5
      <4>3. /\ old.sensors <= w[a].sensors /\ sensors <= w[a].sensors
            /\ w[a].sensors \in Nat
            /\ w[a].sensors = sensors
               \/ (a \in DOMAIN waiting /\ w[a].sensors = old.sensors)
        <5> DEFINE ws == w[a].sensors
                   os == old.sensors
        <5>1. os \in Nat /\ sensors \in Nat /\ sensors > 0
              /\ (a \notin DOMAIN waiting => os = 0)
          BY <1>2, <1>6
        <5>2. ws = IF sensors > os THEN sensors ELSE os
          BY <3>1
        <5> HIDE DEF ws, os
        <5>3. /\ os <= ws /\ sensors <= ws /\ ws \in Nat
              /\ ws = sensors \/ (a \in DOMAIN waiting /\ ws = os)
          BY <5>1, <5>2
        <5> QED
          BY <5>3 DEF ws, os
      <4>4. \A i \in (Len(h) - old.frames + 1)..Len(h) : s[i].sensors <= w[a].sensors
        BY <1>6, <4>1, <4>2, <4>3
      <4>5. \/ w[a].sensors = s[Len(h) + 1].sensors
            \/ \E i \in (Len(h) - old.frames + 1)..Len(h) : s[i].sensors = w[a].sensors
        BY <3>3, <3>4, <3>6, <4>3
      <4> QED
        BY <3>1, <3>3, <3>8, <4>3, <4>4, <4>5
    <3>10. w[a].frames <= Len(s)
      BY <1>3, <1>6, <3>1, <3>7
    <3> QED
      BY <2>2, <3>1, <3>2, <3>3, <3>7, <3>9, <3>10
  <2>3. CASE b # a
    <3>1. b \in DOMAIN waiting /\ w[b] = waiting[b] /\ g[b] = heard[b]
      BY <1>4, <1>5, <2>3, Typed
    <3> QED
      BY <3>1 DEF IInv, WaitingSinceFix
  <2> QED
    BY <2>2, <2>3
<1>14. SnapshotExact' /\ NoBetterLeftOut'
  BY <1>1 DEF SnapshotExact, NoBetterLeftOut
<1> QED
  BY <1>8, <1>9, <1>10, <1>11, <1>12, <1>13, <1>14 DEF IInv

\* A fix: the aircraft is tracked, and no longer waits.
LEMMA RecordFixKeeps ==
  ASSUME ConstantsAssumption, IInv, NEW a \in Aircraft, RecordFix(a)
  PROVE  IInv'
<1> DEFINE k == totalFixes + 1
           e == [aircraft |-> a, at |-> now]
<1>1. /\ totalFixes < MaxFixes
      /\ active' = With(active, a, Tracked(a))
      /\ totalFixes' = k
      /\ fixWindow' = With(fixWindow, k, now)
      /\ waiting' = Restrict(waiting, DOMAIN waiting \ {a})
      /\ returned' = {}
      /\ heard' = [heard EXCEPT ![a] = <<>>]
      /\ fixes' = Append(fixes, e)
      /\ now' = now
  BY DEF RecordFix
<1>2. /\ fixes' \in Seq(FixRecord)
      /\ DOMAIN fixes' = DOMAIN fixes \cup {k} /\ k \notin DOMAIN fixes
      /\ \A n \in DOMAIN fixes : fixes'[n] = fixes[n]
      /\ fixes'[k].aircraft = a /\ fixes'[k].at = now
      /\ Len(fixes') = k
      /\ k \in Nat /\ k <= MaxFixes
  <2>1. e \in FixRecord
    BY Typed DEF FixRecord, Times
  <2>2. fixes \in Seq(FixRecord) /\ Len(fixes) = totalFixes
    BY DEF IInv, Histories
  <2>3. totalFixes \in Nat /\ MaxFixes \in Nat
    BY Typed
  <2>4. k \notin DOMAIN fixes
    BY <2>2, <2>3
  <2>5. /\ Append(fixes, e) \in Seq(FixRecord)
        /\ DOMAIN Append(fixes, e) = DOMAIN fixes \cup {Len(fixes) + 1}
        /\ \A i \in DOMAIN fixes : Append(fixes, e)[i] = fixes[i]
        /\ Append(fixes, e)[Len(fixes) + 1] = e
        /\ Len(Append(fixes, e)) = Len(fixes) + 1
    BY <2>1, <2>2, Grows
  <2> QED
    BY <1>1, <2>2, <2>3, <2>4, <2>5
<1>3. /\ DOMAIN waiting' = DOMAIN waiting \ {a}
      /\ \A b \in DOMAIN waiting' : waiting'[b] = waiting[b]
      /\ waiting' = [b \in DOMAIN waiting' |-> waiting'[b]]
  BY <1>1 DEF Restrict
<1>4. /\ DOMAIN active' = DOMAIN active \cup {a}
      /\ active'[a] = Tracked(a)
      /\ \A b \in DOMAIN active \ {a} : active'[b] = active[b]
      /\ active' = [b \in DOMAIN active' |-> active'[b]]
  BY <1>1 DEF With
<1>5. /\ DOMAIN fixWindow' = DOMAIN fixWindow \cup {k}
      /\ fixWindow'[k] = now
      /\ \A n \in DOMAIN fixWindow \ {k} : fixWindow'[n] = fixWindow[n]
      /\ fixWindow' = [n \in DOMAIN fixWindow' |-> fixWindow'[n]]
  BY <1>1 DEF With
<1>6. /\ heard' \in [Aircraft -> Seq(Hearing)]
      /\ heard'[a] = <<>>
      /\ \A b \in Aircraft \ {a} : heard'[b] = heard[b]
  BY <1>1 DEF IInv, Histories
<1>7. /\ Tracked(a) \in TrackedState
      /\ Tracked(a).fixes <= k /\ Tracked(a).lastSeen = now
  <2>1. Fixed(a) \in 0..totalFixes
    <3>1. CASE a \in DOMAIN active
      <4>1. active[a].fixes \in 1..MaxFixes /\ active[a].fixes <= totalFixes
        BY <3>1, Typed DEF IInv, ActiveExact
      <4> QED
        BY <3>1, <4>1, Typed DEF Fixed
    <3>2. CASE a \notin DOMAIN active
      BY <3>2, Typed DEF Fixed
    <3> QED
      BY <3>1, <3>2
  <2>2. Fixed(a) + 1 \in 1..MaxFixes /\ Fixed(a) + 1 <= k
    <3>1. totalFixes \in Nat /\ MaxFixes \in Nat /\ totalFixes < MaxFixes
      BY <1>1, Typed
    <3> QED
      BY <2>1, <3>1
  <2>3. now \in Times
    BY Typed DEF Times
  <2> QED
    BY <2>2, <2>3 DEF Tracked, TrackedState
<1>8. TypeOK'
  <2>1. DOMAIN waiting' \subseteq Aircraft /\ waiting' \in [DOMAIN waiting' -> WaitingState]
    <3>1. \A b \in DOMAIN waiting' : b \in Aircraft /\ waiting'[b] \in WaitingState
      BY <1>3, Typed
    <3> QED
      BY <1>3, <3>1
  <2>2. DOMAIN active' \subseteq Aircraft /\ active' \in [DOMAIN active' -> TrackedState]
    <3>1. \A b \in DOMAIN active' : b \in Aircraft /\ active'[b] \in TrackedState
      BY <1>4, <1>7, Typed
    <3> QED
      BY <1>4, <3>1
  <2>3. DOMAIN fixWindow' \subseteq 1..k /\ fixWindow' \in [DOMAIN fixWindow' -> 0..now]
    <3>1. \A n \in DOMAIN fixWindow : n \in 1..totalFixes
      BY DEF IInv, TypeOK
    <3>2. \A n \in DOMAIN fixWindow' : n \in 1..k /\ fixWindow'[n] \in 0..now
      BY <1>5, <3>1, Typed
    <3> HIDE DEF k
    <3> QED
      BY <1>5, <3>2
  <2>4. now' \in Times /\ totalFixes' \in 0..MaxFixes
    BY <1>1, <1>2 DEF IInv, TypeOK
  <2> QED
    BY <1>1, <2>1, <2>2, <2>3, <2>4 DEF TypeOK
<1>9. IsFiniteSet(DOMAIN waiting)'
  BY <1>3, FS_Subset DEF IInv
<1>10. Histories'
  <2>1. \A b \in Aircraft : /\ Len(heard'[b]) <= MaxHeard
                            /\ \A i \in DOMAIN heard'[b] : heard'[b][i].at <= now
    <3> SUFFICES ASSUME NEW b \in Aircraft
                 PROVE  /\ Len(heard'[b]) <= MaxHeard
                        /\ \A i \in DOMAIN heard'[b] : heard'[b][i].at <= now
      OBVIOUS
    <3>1. CASE b = a
      BY <1>6, <3>1, Typed
    <3>2. CASE b # a
      BY <1>6, <3>2 DEF IInv, Histories
    <3> QED
      BY <3>1, <3>2
  <2>2. \A n \in DOMAIN fixes' : fixes'[n].at <= now
    <3> SUFFICES ASSUME NEW n \in DOMAIN fixes'
                 PROVE  fixes'[n].at <= now
      OBVIOUS
    <3>1. CASE n = k
      <4>1. fixes'[n].at = now
        BY <1>2, <3>1
      <4>2. now \in Int
        BY Typed
      <4> QED
        BY <4>1, <4>2
    <3>2. CASE n # k
      <4>1. n \in DOMAIN fixes /\ fixes'[n] = fixes[n]
        <5> HIDE DEF k, e
        <5> QED
          BY <1>2, <3>2
      <4> QED
        BY <4>1 DEF IInv, Histories
    <3> QED
      BY <3>1, <3>2
  <2> QED
    BY <1>1, <1>2, <1>6, <2>1, <2>2 DEF Histories
<1>11. WindowExact'
  <2>1. \A n \in DOMAIN fixWindow : n \in DOMAIN fixes /\ fixWindow[n] = fixes[n].at
    BY Typed DEF IInv, TypeOK, WindowExact
  <2>2. \A n \in DOMAIN fixWindow' : fixWindow'[n] = fixes'[n].at
    BY <1>2, <1>5, <2>1
  <2>3. \A n \in DOMAIN fixes' \ DOMAIN fixWindow' : fixes'[n].at <= now - FixRateWindow
    BY <1>2, <1>5 DEF IInv, WindowExact
  <2> QED
    BY <1>1, <2>2, <2>3 DEF WindowExact
<1>12. ActiveExact'
  <2>1. \A b \in DOMAIN active' :
          /\ active'[b].fixes <= k
          /\ \E n \in DOMAIN fixes' :
               fixes'[n].aircraft = b /\ fixes'[n].at = active'[b].lastSeen
    <3> SUFFICES ASSUME NEW b \in DOMAIN active'
                 PROVE  /\ active'[b].fixes <= k
                        /\ \E n \in DOMAIN fixes' :
                             fixes'[n].aircraft = b /\ fixes'[n].at = active'[b].lastSeen
      OBVIOUS
    <3>1. CASE b = a
      BY <1>2, <1>4, <1>7, <3>1
    <3>2. CASE b # a
      <4>1. b \in DOMAIN active /\ active'[b] = active[b]
        BY <1>4, <3>2
      <4>2. active[b].fixes <= totalFixes /\ active[b].fixes \in 1..MaxFixes
        BY <4>1, Typed DEF IInv, ActiveExact
      <4>3. active[b].fixes <= k
        BY <4>2, Typed
      <4>4. \E n \in DOMAIN fixes : fixes[n].aircraft = b /\ fixes[n].at = active[b].lastSeen
        BY <4>1 DEF IInv, ActiveExact
      <4> HIDE DEF k
      <4> QED
        BY <1>2, <4>1, <4>3, <4>4
    <3> QED
      BY <3>1, <3>2
  <2>2. \A n \in DOMAIN fixes' :
          IF fixes'[n].aircraft \in DOMAIN active'
            THEN fixes'[n].at <= active'[fixes'[n].aircraft].lastSeen
            ELSE now - fixes'[n].at > ActiveRetention
    <3> SUFFICES ASSUME NEW n \in DOMAIN fixes'
                 PROVE  IF fixes'[n].aircraft \in DOMAIN active'
                          THEN fixes'[n].at <= active'[fixes'[n].aircraft].lastSeen
                          ELSE now - fixes'[n].at > ActiveRetention
      OBVIOUS
    <3>1. fixes'[n].at <= now
      BY <1>1, <1>10 DEF Histories
    <3>2. CASE fixes'[n].aircraft = a
      BY <1>4, <1>7, <3>1, <3>2
    <3>3. CASE fixes'[n].aircraft # a
      <4>1. n \in DOMAIN fixes /\ fixes'[n] = fixes[n]
        BY <1>2, <3>3
      <4> HIDE DEF k
      <4> QED
        BY <1>4, <3>3, <4>1 DEF IInv, ActiveExact
    <3> QED
      BY <3>2, <3>3
  <2> QED
    BY <1>1, <2>1, <2>2 DEF ActiveExact
<1>13. UnheardElsewhere'
  <2>1. SUFFICES ASSUME NEW b \in Aircraft \ DOMAIN waiting', heard'[b] # <<>>,
                        ~(LastHeard(b)' < now - WaitingRetention)
                 PROVE  TrackedAt(b, LastHeard(b))'
    BY <1>1 DEF UnheardElsewhere
  <2>2. b # a /\ b \notin DOMAIN waiting /\ heard'[b] = heard[b]
    BY <1>3, <1>6, <2>1
  <2>3. LastHeard(b)' = LastHeard(b)
    BY <2>2 DEF LastHeard
  <2>4. TrackedAt(b, LastHeard(b))
    BY <2>1, <2>2, <2>3 DEF IInv, UnheardElsewhere
  <2> QED
    BY <1>2, <2>3, <2>4 DEF TrackedAt
<1>14. WaitingSinceFix'
  <2>1. \A b \in DOMAIN waiting' :
          b \in DOMAIN waiting /\ waiting'[b] = waiting[b] /\ heard'[b] = heard[b]
    BY <1>3, <1>6, Typed
  <2> QED
    BY <2>1 DEF IInv, WaitingSinceFix
<1>15. SnapshotExact' /\ NoBetterLeftOut'
  BY <1>1 DEF SnapshotExact, NoBetterLeftOut
<1> QED
  BY <1>8, <1>9, <1>10, <1>11, <1>12, <1>13, <1>14, <1>15 DEF IInv

\* What a snapshot keeps, and what it returns.
Fresh == {a \in DOMAIN waiting : waiting[a].lastSeen >= now - WaitingRetention}

Current == {a \in DOMAIN active : now - active[a].lastSeen <= ActiveRetention}

Board == [at         |-> now,
          waiting    |-> Restrict(waiting, Listed(Fresh)),
          active     |-> Restrict(active, Current),
          fixRate    |-> Cardinality(DOMAIN Trimmed),
          totalFixes |-> totalFixes]

\* The entries of the trimmed window are the fixes of the last FixRateWindow.
LEMMA TrimmedExact ==
  ASSUME ConstantsAssumption, IInv
  PROVE  /\ DOMAIN Trimmed = FixesSince(now - FixRateWindow)
         /\ Trimmed = [n \in DOMAIN Trimmed |-> fixWindow[n]]
         /\ DOMAIN Trimmed \subseteq DOMAIN fixWindow
         /\ Cardinality(DOMAIN Trimmed) \in Nat
<1>1. /\ DOMAIN Trimmed = {n \in DOMAIN fixWindow : fixWindow[n] > now - FixRateWindow}
      /\ Trimmed = [n \in DOMAIN Trimmed |-> fixWindow[n]]
  BY DEF Trimmed, Restrict
<1>2. DOMAIN fixWindow \subseteq 1..totalFixes /\ DOMAIN fixes = 1..totalFixes
  BY Typed DEF IInv, TypeOK
<1>3. \A n \in DOMAIN fixes : fixes[n].at \in Nat
  BY Typed DEF Times
<1>4. \A n \in DOMAIN fixes :
        fixes[n].at > now - FixRateWindow
          => n \in DOMAIN fixWindow /\ fixWindow[n] = fixes[n].at
  <2> SUFFICES ASSUME NEW n \in DOMAIN fixes, fixes[n].at > now - FixRateWindow
               PROVE  n \in DOMAIN fixWindow /\ fixWindow[n] = fixes[n].at
    OBVIOUS
  <2>1. ~(fixes[n].at <= now - FixRateWindow)
    BY <1>3, Typed
  <2> QED
    BY <2>1 DEF IInv, WindowExact
<1>5. DOMAIN Trimmed = FixesSince(now - FixRateWindow)
  BY <1>1, <1>2, <1>4 DEF IInv, WindowExact, FixesSince
<1>6. IsFiniteSet(1..totalFixes)
  BY Typed, FS_Interval
<1>7. Cardinality(DOMAIN Trimmed) \in Nat
  BY <1>1, <1>2, <1>6, FS_Subset, FS_CardinalityType
<1> QED
  BY <1>1, <1>5, <1>7

\* The aircraft kept are those whose last fix is recent.
LEMMA CurrentExact ==
  ASSUME ConstantsAssumption, IInv
  PROVE  Current = {a \in Aircraft : TrackedAt(a, now)}
<1>1. ASSUME NEW a \in Current PROVE a \in Aircraft /\ TrackedAt(a, now)
  BY Typed DEF IInv, ActiveExact, Current, TrackedAt
<1>2. ASSUME NEW a \in Aircraft, TrackedAt(a, now) PROVE a \in Current
  <2>1. PICK n \in DOMAIN fixes :
          fixes[n].aircraft = a /\ now - fixes[n].at <= ActiveRetention
    BY <1>2 DEF TrackedAt
  <2>2. fixes[n].at \in Nat /\ now \in Nat /\ ActiveRetention \in Nat
    BY <2>1, Typed DEF Times
  <2>3. a \in DOMAIN active /\ fixes[n].at <= active[a].lastSeen
    BY <2>1, <2>2 DEF IInv, ActiveExact
  <2>4. active[a].lastSeen \in Nat
    BY <2>3, Typed DEF Times
  <2>5. now - active[a].lastSeen <= ActiveRetention
    BY <2>1, <2>2, <2>3, <2>4
  <2> QED
    BY <2>3, <2>5 DEF Current
<1> QED
  BY <1>1, <1>2

\* An aircraft that a snapshot does not list was not heard lately or while it was
\* not tracked, or others are ahead of it.
LEMMA LeftOutRightly ==
  ASSUME ConstantsAssumption, IInv, NEW a \in Aircraft \ Listed(Fresh),
         heard[a] # <<>>, LastHeard(a) >= now - WaitingRetention,
         ~TrackedAt(a, LastHeard(a))
  PROVE  /\ Cardinality(Listed(Fresh)) = ListSize
         /\ \A b \in Listed(Fresh) :
              waiting[b].sensors >= heard[a][Len(heard[a])].sensors
<1> DEFINE h == heard[a]
<1>1. LastHeard(a) \in Nat /\ DOMAIN h = 1..Len(h) /\ Len(h) \in Nat /\ Len(h) > 0
  BY Typed DEF LastHeard, Times
<1>2. ~(LastHeard(a) < now - WaitingRetention)
  BY <1>1, Typed
<1>3. a \in DOMAIN waiting
  BY <1>2 DEF IInv, UnheardElsewhere
<1>4. waiting[a].lastSeen = LastHeard(a)
  BY <1>3 DEF IInv, WaitingSinceFix, LastHeard
<1>5. a \in Fresh
  BY <1>3, <1>4 DEF Fresh
<1>6. h[Len(h)].sensors <= waiting[a].sensors
  <2>1. waiting[a].frames \in 1..MaxHeard /\ waiting[a].frames <= Len(h)
    BY <1>3, Typed DEF IInv, WaitingSinceFix
  <2>2. Len(h) \in (Len(h) - waiting[a].frames + 1)..Len(h)
    BY <1>1, <2>1
  <2> QED
    BY <1>3, <2>2 DEF IInv, WaitingSinceFix
<1>7. Fresh \in SUBSET DOMAIN waiting /\ IsFiniteSet(Fresh)
  BY FS_Subset DEF Fresh, IInv
<1>8. /\ Cardinality(Listed(Fresh)) = ListSize
      /\ \A b \in Listed(Fresh) : waiting[b].sensors >= waiting[a].sensors
  BY <1>5, <1>7, ListedAreBest DEF IInv
<1>9. ASSUME NEW b \in Listed(Fresh) PROVE waiting[b].sensors >= h[Len(h)].sensors
  <2>1. \A n \in GroupSizes : n \in Nat
    BY DEF ConstantsAssumption
  <2>2. b \in DOMAIN waiting
    BY DEF Listed, Fresh
  <2>3. waiting[b].sensors \in Nat /\ waiting[a].sensors \in Nat
    BY <1>3, <2>1, <2>2, Typed
  <2>4. h[Len(h)].sensors \in Nat
    <3>1. Len(h) \in DOMAIN h
      BY <1>1
    <3>2. h[Len(h)].sensors \in GroupSizes
      BY <3>1, Typed
    <3> QED
      BY <2>1, <3>2
  <2> QED
    BY <1>6, <1>8, <2>3, <2>4
<1> QED
  BY <1>8, <1>9

LEMMA SnapshotKeeps ==
  ASSUME ConstantsAssumption, IInv, Snapshot
  PROVE  IInv'
<1>1. /\ fixWindow' = Trimmed
      /\ waiting' = Restrict(waiting, Fresh \ Current)
      /\ active' = Restrict(active, Current)
      /\ returned' = {Board}
      /\ UNCHANGED <<now, totalFixes, heard, fixes>>
  BY DEF Snapshot, Fresh, Current, Board
<1>2. /\ DOMAIN waiting' = Fresh \ Current
      /\ DOMAIN waiting' \subseteq DOMAIN waiting
      /\ waiting' = [a \in DOMAIN waiting' |-> waiting[a]]
  BY <1>1 DEF Restrict, Fresh
<1>3. /\ DOMAIN active' = Current
      /\ Current \subseteq DOMAIN active
      /\ active' = [a \in Current |-> active[a]]
  BY <1>1 DEF Restrict, Current
<1>4. /\ Board.at = now /\ Board.totalFixes = totalFixes
      /\ Board.fixRate = Cardinality(DOMAIN Trimmed)
      /\ DOMAIN Board.waiting = Listed(Fresh)
      /\ \A a \in Listed(Fresh) : Board.waiting[a] = waiting[a]
      /\ DOMAIN Board.active = Current
      /\ Listed(Fresh) \subseteq DOMAIN waiting
  BY DEF Board, Restrict, Listed, Fresh
<1>5. TypeOK'
  <2>1. DOMAIN waiting' \subseteq Aircraft /\ waiting' \in [DOMAIN waiting' -> WaitingState]
    BY <1>2, Typed
  <2>2. DOMAIN active' \subseteq Aircraft /\ active' \in [DOMAIN active' -> TrackedState]
    BY <1>3, Typed
  <2>3. /\ DOMAIN fixWindow' \subseteq 1..totalFixes
        /\ fixWindow' \in [DOMAIN fixWindow' -> 0..now]
    <3>1. \A n \in DOMAIN fixWindow : n \in 1..totalFixes /\ fixWindow[n] \in 0..now
      BY Typed DEF IInv, TypeOK
    <3> QED
      BY <1>1, <3>1, TrimmedExact
  <2>4. \A board \in returned' :
          /\ board.at = now
          /\ DOMAIN board.waiting \subseteq Aircraft
          /\ DOMAIN board.active \subseteq Aircraft
          /\ board.fixRate \in Nat
          /\ board.totalFixes = totalFixes
    BY <1>1, <1>3, <1>4, Typed, TrimmedExact
  <2> QED
    BY <1>1, <2>1, <2>2, <2>3, <2>4 DEF IInv, TypeOK
<1>6. IsFiniteSet(DOMAIN waiting)'
  BY <1>2, FS_Subset DEF IInv
<1>7. Histories'
  BY <1>1 DEF IInv, Histories
<1>8. WindowExact'
  <2>1. \A n \in DOMAIN fixWindow' : n \in DOMAIN fixWindow /\ fixWindow'[n] = fixWindow[n]
    BY <1>1, TrimmedExact
  <2>2. \A n \in DOMAIN fixes \ DOMAIN fixWindow' : fixes[n].at <= now - FixRateWindow
    <3> SUFFICES ASSUME NEW n \in DOMAIN fixes \ DOMAIN fixWindow'
                 PROVE  fixes[n].at <= now - FixRateWindow
      OBVIOUS
    <3>1. ~(fixes[n].at > now - FixRateWindow)
      BY <1>1, TrimmedExact DEF FixesSince
    <3>2. fixes[n].at \in Nat /\ now \in Nat /\ FixRateWindow \in Nat
      BY Typed DEF Times
    <3> QED
      BY <3>1, <3>2
  <2> QED
    BY <1>1, <2>1, <2>2 DEF IInv, WindowExact
<1>9. ActiveExact'
  <2>1. \A n \in DOMAIN fixes :
          fixes[n].aircraft \notin Current => now - fixes[n].at > ActiveRetention
    <3> SUFFICES ASSUME NEW n \in DOMAIN fixes, fixes[n].aircraft \notin Current
                 PROVE  now - fixes[n].at > ActiveRetention
      OBVIOUS
    <3>1. ~TrackedAt(fixes[n].aircraft, now)
      BY CurrentExact, Typed
    <3>2. ~(now - fixes[n].at <= ActiveRetention)
      BY <3>1 DEF TrackedAt
    <3>3. fixes[n].at \in Nat /\ now \in Nat /\ ActiveRetention \in Nat
      BY Typed DEF Times
    <3> QED
      BY <3>2, <3>3
  <2> QED
    BY <1>1, <1>3, <2>1 DEF IInv, ActiveExact
<1>10. UnheardElsewhere'
  <2>1. SUFFICES ASSUME NEW a \in Aircraft \ DOMAIN waiting', heard[a] # <<>>,
                        ~(LastHeard(a) < now - WaitingRetention)
                 PROVE  TrackedAt(a, LastHeard(a))
    BY <1>1 DEF UnheardElsewhere, LastHeard, TrackedAt
  <2>2. CASE a \notin DOMAIN waiting
    BY <2>1, <2>2 DEF IInv, UnheardElsewhere
  <2>3. CASE a \in DOMAIN waiting
    <3>1. waiting[a].lastSeen = LastHeard(a)
      BY <2>3 DEF IInv, WaitingSinceFix, LastHeard
    <3>2. LastHeard(a) \in Nat /\ LastHeard(a) <= now /\ now \in Nat
      <4>1. DOMAIN heard[a] = 1..Len(heard[a]) /\ Len(heard[a]) \in Nat /\ Len(heard[a]) > 0
        BY <2>1, Typed
      <4> QED
        BY <4>1, Typed DEF LastHeard, Times, IInv, Histories
    <3>3. a \in Fresh
      BY <2>1, <2>3, <3>1, <3>2, Typed DEF Fresh
    <3>4. a \in Current
      BY <1>2, <3>3
    <3>5. PICK n \in DOMAIN fixes :
            fixes[n].aircraft = a /\ now - fixes[n].at <= ActiveRetention
      BY <3>4, CurrentExact DEF TrackedAt
    <3>6. fixes[n].at \in Nat /\ ActiveRetention \in Nat
      BY Typed DEF Times
    <3>7. LastHeard(a) - fixes[n].at <= ActiveRetention
      BY <3>2, <3>5, <3>6
    <3> QED
      BY <3>5, <3>7 DEF TrackedAt
  <2> QED
    BY <2>2, <2>3
<1>11. WaitingSinceFix'
  <2> DEFINE w == waiting'
  <2>1. \A a \in DOMAIN w : a \in DOMAIN waiting /\ w[a] = waiting[a]
    <3>1. w = [b \in DOMAIN w |-> waiting[b]] /\ DOMAIN w \subseteq DOMAIN waiting
      BY <1>2
    <3> HIDE DEF w
    <3> QED
      BY <3>1
  <2>2. SUFFICES ASSUME NEW a \in DOMAIN w
                 PROVE  LET h == heard[a]
                            k == w[a].frames
                        IN  /\ k <= Len(h)
                            /\ w[a].lastSeen = h[Len(h)].at
                            /\ \A i \in (Len(h) - k + 1)..Len(h) : h[i].sensors <= w[a].sensors
                            /\ \E i \in (Len(h) - k + 1)..Len(h) : h[i].sensors = w[a].sensors
    BY <1>1 DEF WaitingSinceFix
  <2>3. a \in DOMAIN waiting /\ w[a] = waiting[a]
    BY <2>1
  <2> HIDE DEF w
  <2> QED
    BY <2>3 DEF IInv, WaitingSinceFix
<1>12. SnapshotExact'
  <2>1. \A t : FixesSince(t)' = FixesSince(t)
    BY <1>1 DEF FixesSince
  <2>2. \A a, t : TrackedAt(a, t)' = TrackedAt(a, t)
    BY <1>1 DEF TrackedAt
  <2>3. Board.fixRate = Cardinality(FixesSince(now - FixRateWindow))
    BY <1>4, TrimmedExact
  <2>4. DOMAIN Board.active = {a \in Aircraft : TrackedAt(a, now)}
    BY <1>4, CurrentExact
  <2> QED
    BY <1>1, <1>4, <2>1, <2>2, <2>3, <2>4 DEF SnapshotExact
<1>13. NoBetterLeftOut'
  <2>1. SUFFICES ASSUME NEW a \in Aircraft \ Listed(Fresh),
                        heard[a] # <<>>,
                        ~(LastHeard(a) < now - WaitingRetention),
                        ~TrackedAt(a, LastHeard(a))
                 PROVE  /\ Cardinality(Listed(Fresh)) = ListSize
                        /\ \A b \in Listed(Fresh) :
                             waiting[b].sensors >= heard[a][Len(heard[a])].sensors
    BY <1>1, <1>4 DEF NoBetterLeftOut, LastHeard, TrackedAt
  <2>2. LastHeard(a) >= now - WaitingRetention
    <3>1. DOMAIN heard[a] = 1..Len(heard[a]) /\ Len(heard[a]) \in Nat /\ Len(heard[a]) > 0
      BY <2>1, Typed
    <3>2. LastHeard(a) \in Nat
      BY <3>1, Typed DEF LastHeard, Times
    <3> QED
      BY <2>1, <3>2, Typed
  <2> QED
    BY <2>1, <2>2, LeftOutRightly
<1> QED
  BY <1>5, <1>6, <1>7, <1>8, <1>9, <1>10, <1>11, <1>12, <1>13 DEF IInv

LEMMA StutterKeeps ==
  ASSUME IInv, UNCHANGED vars
  PROVE  IInv'
<1>1. UNCHANGED <<now, waiting, active, fixWindow, totalFixes, returned, heard, fixes>>
  BY DEF vars
<1>2. (TypeOK /\ IsFiniteSet(DOMAIN waiting) /\ Histories /\ WindowExact)'
  BY <1>1 DEF IInv, TypeOK, Histories, WindowExact
<1>3. ActiveExact' /\ UnheardElsewhere'
  BY <1>1 DEF IInv, ActiveExact, UnheardElsewhere, LastHeard, TrackedAt
<1>4. WaitingSinceFix'
  BY <1>1 DEF IInv, WaitingSinceFix
<1>5. SnapshotExact'
  <2>1. \A t : FixesSince(t)' = FixesSince(t)
    BY <1>1 DEF FixesSince
  <2>2. \A a, t : TrackedAt(a, t)' = TrackedAt(a, t)
    BY <1>1 DEF TrackedAt
  <2> QED
    BY <1>1, <2>1, <2>2 DEF IInv, SnapshotExact
<1>6. NoBetterLeftOut'
  <2>1. \A a, t : TrackedAt(a, t)' = TrackedAt(a, t)
    BY <1>1 DEF TrackedAt
  <2> QED
    BY <1>1, <2>1 DEF IInv, NoBetterLeftOut
<1> QED
  BY <1>2, <1>3, <1>4, <1>5, <1>6 DEF IInv

-----------------------------------------------------------------------------

\* The three maps and the histories stay in step, whenever snapshots are taken.
THEOREM Invariance == Spec => []IInv
<1>1. Init => IInv
  BY InitIInv, ConstantsAssumption
<1>2. IInv /\ [Next]_vars => IInv'
  <2> SUFFICES ASSUME IInv, [Next]_vars PROVE IInv'
    OBVIOUS
  <2>1. CASE Tick
    BY <2>1, ConstantsAssumption, TickKeeps
  <2>2. ASSUME NEW a \in Aircraft, NEW n \in GroupSizes, RecordObservation(a, n)
        PROVE  IInv'
    BY <2>2, ConstantsAssumption, RecordObservationKeeps
  <2>3. ASSUME NEW a \in Aircraft, RecordFix(a) PROVE IInv'
    BY <2>3, ConstantsAssumption, RecordFixKeeps
  <2>4. CASE Snapshot
    BY <2>4, ConstantsAssumption, SnapshotKeeps
  <2>5. CASE UNCHANGED vars
    BY <2>5, StutterKeeps
  <2> QED
    BY <2>1, <2>2, <2>3, <2>4, <2>5 DEF Next
<1> QED
  BY <1>1, <1>2, PTL DEF Spec

\* Entries carry times that have come, and counts of something that happened.
THEOREM TypeCorrect == Spec => []TypeOK
<1>1. IInv => TypeOK
  BY DEF IInv
<1> QED
  BY <1>1, Invariance, PTL

\* The fix rate and the tracked aircraft of every snapshot are those of the
\* history, however rarely snapshots are taken (app_state.go:258-304).
THEOREM SnapshotsExact == Spec => []SnapshotExact
<1>1. IInv => SnapshotExact
  BY DEF IInv
<1> QED
  BY <1>1, Invariance, PTL

\* What is said of a waiting aircraft is about observations since its last fix.
THEOREM WaitsSinceFix == Spec => []WaitingSinceFix
<1>1. IInv => WaitingSinceFix
  BY DEF IInv
<1> QED
  BY <1>1, Invariance, PTL

\* No snapshot leaves out an aircraft that more sensors hear than one it lists.
THEOREM ListsBest == Spec => []NoBetterLeftOut
<1>1. IInv => NoBetterLeftOut
  BY DEF IInv
<1> QED
  BY <1>1, Invariance, PTL
=============================================================================
