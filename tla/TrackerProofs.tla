---------------------------- MODULE TrackerProofs ---------------------------
(***************************************************************************)
(* Theorems about module Tracker, for every set of aircraft and of         *)
(* timestamps, every gap and any number of fixes.                          *)
(***************************************************************************)
EXTENDS Tracker, TLAPS

\* What the track knows of its newest fix: its time, or, after newTrackState,
\* nothing.  The latter happens only to the first fix of an aircraft and to
\* one with no positive timestamp.
LastTimeKnown ==
  \A a \in DOMAIN tracks :
     \/ tracks[a].lastTime = fixes[a][Len(fixes[a])]
     \/ /\ tracks[a].updates = 1 /\ tracks[a].lastTime = 0
        /\ ~Timed(fixes[a], Len(fixes[a]))

IInv ==
  /\ TypeOK
  /\ LastTimeKnown
  /\ TrackIsRun
  /\ RunIsTracked

LEMMA AppendFacts ==
  ASSUME NEW S, NEW seq \in Seq(S), NEW e \in S
  PROVE  /\ Append(seq, e) \in Seq(S)
         /\ Append(seq, e) # <<>>
         /\ Len(Append(seq, e)) = Len(seq) + 1
         /\ Len(seq) \in Nat
         /\ Append(seq, e)[Len(seq) + 1] = e
         /\ \A i \in 1..Len(seq) : Append(seq, e)[i] = seq[i] /\ seq[i] \in S
OBVIOUS

\* What every branch of Update shares: only this aircraft's track changes.
LEMMA UpdateFacts ==
  ASSUME ConstantsAssumption, TypeOK, NEW icao \in Aircraft, NEW time \in Times,
         Update(icao, time)
  PROVE  /\ fixes' \in [Aircraft -> Seq(Times)]
         /\ fixes'[icao] = Append(fixes[icao], time)
         /\ \A a \in Aircraft \ {icao} : fixes'[a] = fixes[a]
         /\ DOMAIN tracks' = DOMAIN tracks \cup {icao}
         /\ \A a \in DOMAIN tracks \ {icao} : tracks'[a] = tracks[a]
         /\ tracks' \in [DOMAIN tracks' -> TrackState]
         /\ tracks'[icao] \in TrackState
         /\ tracks'[icao].updates \in Nat \ {0}
         /\ DOMAIN tracks = {a \in Aircraft : fixes[a] # <<>>}
<1>1. /\ fixes' = [fixes EXCEPT ![icao] = Append(@, time)]
      /\ fixes \in [Aircraft -> Seq(Times)]
      /\ tracks \in [DOMAIN tracks -> TrackState]
      /\ DOMAIN tracks = {a \in Aircraft : fixes[a] # <<>>}
  BY DEF Update, TypeOK
<1>2. \E track \in TrackState : Put(icao, track)
  <2>1. CASE NewTrack(icao, time)
    BY <2>1 DEF NewTrack, TrackState
  <2>2. CASE ResetTrack(icao, time)
    BY <2>2 DEF ResetTrack, TrackState
  <2>3. CASE SmoothFix(icao, time)
    <3>1. tracks[icao].updates \in Nat \ {0}
      BY <1>1, <2>3 DEF SmoothFix, Known, TrackState
    <3>2. [lastTime |-> time, updates |-> tracks[icao].updates + 1] \in TrackState
      BY <3>1 DEF TrackState
    <3> QED
      BY <2>3, <3>2 DEF SmoothFix
  <2> QED
    BY <2>1, <2>2, <2>3 DEF Update
<1>3. PICK track \in TrackState : Put(icao, track)
  BY <1>2
<1>4. tracks' = [a \in DOMAIN tracks \cup {icao} |->
                   IF a = icao THEN track ELSE tracks[a]]
  BY <1>3 DEF Put
<1>5. /\ DOMAIN tracks' = DOMAIN tracks \cup {icao}
      /\ tracks'[icao] = track
      /\ \A a \in DOMAIN tracks \ {icao} : tracks'[a] = tracks[a]
      /\ tracks' \in [DOMAIN tracks' -> TrackState]
  BY <1>1, <1>3, <1>4
<1>6. track.updates \in Nat \ {0}
  BY <1>3 DEF TrackState
<1>7. Append(fixes[icao], time) \in Seq(Times)
  BY <1>1
<1>8. /\ fixes' \in [Aircraft -> Seq(Times)]
      /\ fixes'[icao] = Append(fixes[icao], time)
      /\ \A a \in Aircraft \ {icao} : fixes'[a] = fixes[a]
  BY <1>1, <1>7
<1> QED
  BY <1>1, <1>5, <1>6, <1>8

LEMMA UpdateKeepsType ==
  ASSUME ConstantsAssumption, TypeOK, NEW icao \in Aircraft, NEW time \in Times,
         Update(icao, time)
  PROVE  TypeOK'
<1>1. fixes'[icao] # <<>>
  <2>1. fixes[icao] \in Seq(Times) /\ fixes'[icao] = Append(fixes[icao], time)
    BY UpdateFacts DEF TypeOK
  <2> QED
    BY <2>1, AppendFacts
<1>2. DOMAIN tracks' = {a \in Aircraft : fixes'[a] # <<>>}
  <2>1. DOMAIN tracks' = {a \in Aircraft : fixes[a] # <<>>} \cup {icao}
    BY UpdateFacts
  <2>2. \A a \in Aircraft : fixes'[a] # <<>> <=> fixes[a] # <<>> \/ a = icao
    BY <1>1, UpdateFacts
  <2> QED
    BY <2>1, <2>2
<1> QED
  BY <1>2, UpdateFacts DEF TypeOK

\* The three outcomes, in terms of the history.
LEMMA UpdateOutcome ==
  ASSUME ConstantsAssumption, TypeOK, NEW icao \in Aircraft, NEW time \in Times,
         Update(icao, time)
  PROVE  \/ /\ tracks'[icao].updates = 1 /\ tracks'[icao].lastTime = 0
            /\ fixes[icao] = <<>> \/ time <= 0
         \/ /\ tracks'[icao].updates = 1
            /\ tracks'[icao].lastTime = time
            /\ icao \in DOMAIN tracks
            /\ time - tracks[icao].lastTime \notin 1..MaxGap
         \/ /\ tracks'[icao].updates = tracks[icao].updates + 1
            /\ tracks'[icao].lastTime = time
            /\ icao \in DOMAIN tracks /\ time > 0
            /\ time - tracks[icao].lastTime \in 1..MaxGap
<1>1. /\ DOMAIN tracks = {a \in Aircraft : fixes[a] # <<>>}
      /\ tracks \in [DOMAIN tracks -> TrackState]
      /\ time \in Int /\ MaxGap \in Nat
      /\ \A a \in DOMAIN tracks : tracks[a].lastTime \in Int
  BY DEF TypeOK, TrackState, ConstantsAssumption
<1>2. CASE NewTrack(icao, time)
  BY <1>1, <1>2 DEF NewTrack, Known, Put
<1>3. CASE ResetTrack(icao, time)
  BY <1>1, <1>3 DEF ResetTrack, Known, Put
<1>4. CASE SmoothFix(icao, time)
  BY <1>1, <1>4 DEF SmoothFix, Known, Put
<1> QED
  BY <1>2, <1>3, <1>4 DEF Update

LEMMA UpdateKeeps ==
  ASSUME ConstantsAssumption, IInv, NEW icao \in Aircraft, NEW time \in Times,
         Update(icao, time)
  PROVE  IInv'
<1> DEFINE last == Len(fixes[icao])
           u == tracks[icao].updates
           uu == tracks'[icao].updates
<1>1. TypeOK /\ TypeOK'
  BY UpdateKeepsType DEF IInv
<1>2. /\ last \in Nat
      /\ Len(fixes'[icao]) = last + 1
      /\ fixes'[icao][last + 1] = time
      /\ \A i \in 1..last : /\ fixes'[icao][i] = fixes[icao][i]
                            /\ fixes[icao][i] \in Times
      /\ fixes[icao] = <<>> => last = 0
      /\ fixes[icao] # <<>> => last >= 1
  BY <1>1, UpdateFacts, AppendFacts DEF TypeOK
<1>3. /\ \A a \in Aircraft \ {icao} : fixes'[a] = fixes[a]
      /\ \A a \in DOMAIN tracks' \ {icao} :
            a \in DOMAIN tracks /\ tracks'[a] = tracks[a] /\ a \in Aircraft
      /\ uu \in Nat \ {0}
      /\ icao \in DOMAIN tracks <=> fixes[icao] # <<>>
  BY <1>1, UpdateFacts
<1>4. icao \in DOMAIN tracks => u \in Nat \ {0} /\ tracks[icao].lastTime \in Int
  BY <1>1 DEF TypeOK, TrackState, ConstantsAssumption
<1>5. \A t \in Times : t \in Int
  BY DEF ConstantsAssumption
<1> HIDE DEF last, u, uu
<1>6. ASSUME NEW i \in 2..last
      PROVE  Follows(fixes'[icao], i) <=> Follows(fixes[icao], i)
  <2>1. i \in 1..last /\ i - 1 \in 1..last
    BY <1>2
  <2>2. fixes'[icao][i] = fixes[icao][i] /\ fixes'[icao][i - 1] = fixes[icao][i - 1]
    BY <1>2, <2>1
  <2> QED
    BY <2>2 DEF Follows
<1>7. LastTimeKnown'
  <2>1. \/ tracks'[icao].lastTime = fixes'[icao][Len(fixes'[icao])]
        \/ /\ tracks'[icao].updates = 1 /\ tracks'[icao].lastTime = 0
           /\ ~Timed(fixes'[icao], Len(fixes'[icao]))
    BY <1>1, <1>2, <1>5, UpdateOutcome DEF Timed
  <2>2. ASSUME NEW a \in DOMAIN tracks', a # icao
        PROVE  \/ tracks'[a].lastTime = fixes'[a][Len(fixes'[a])]
               \/ /\ tracks'[a].updates = 1 /\ tracks'[a].lastTime = 0
                  /\ ~Timed(fixes'[a], Len(fixes'[a]))
    BY <1>3, <2>2 DEF IInv, LastTimeKnown, Timed
  <2> QED
    BY <2>1, <2>2 DEF LastTimeKnown, Timed
<1>8. TrackIsRun'
  <2>1. /\ last + 1 - uu + 1 >= 1
        /\ \A i \in (last + 1 - uu + 2)..(last + 1) :
              Continues(fixes'[icao], last + 1 - uu + 1, i)
    <3>1. CASE uu = 1
      BY <1>2, <3>1
    <3>2. CASE /\ uu = u + 1 /\ icao \in DOMAIN tracks /\ time > 0
               /\ time - tracks[icao].lastTime \in 1..MaxGap
      <4> DEFINE first == last - u + 1
      <4>1. /\ first \in 1..last
            /\ last + 1 - uu + 1 = first
            /\ \A i \in (first + 1)..last : Continues(fixes[icao], first, i)
        <5>1. /\ first >= 1
              /\ \A i \in (first + 1)..last : Continues(fixes[icao], first, i)
          BY <3>2 DEF IInv, TrackIsRun, EndsInRun, last, u
        <5>2. u \in Nat \ {0} /\ uu = u + 1 /\ last \in Nat
          BY <1>2, <1>4, <3>2
        <5>3. first \in 1..last /\ last + 1 - uu + 1 = first
          BY <5>1, <5>2
        <5> QED
          BY <5>1, <5>3
      <4> HIDE DEF first
      <4>2. Continues(fixes'[icao], first, last + 1)
        <5>1. /\ fixes'[icao][last + 1] = time /\ fixes'[icao][last] = fixes[icao][last]
              /\ (last + 1) - 1 = last
          <6>1. last \in 1..last
            BY <1>2, <4>1
          <6> QED
            BY <1>2, <6>1
        <5>2. CASE tracks[icao].lastTime = fixes[icao][last]
          BY <3>2, <5>1, <5>2 DEF Continues, Follows
        <5>3. CASE /\ u = 1 /\ tracks[icao].lastTime = 0
                   /\ ~Timed(fixes[icao], last)
          <6>1. first = last /\ time \in 1..MaxGap
            BY <1>2, <1>5, <3>2, <5>3 DEF first
          <6>2. ~Timed(fixes'[icao], last)
            BY <5>1, <5>3 DEF Timed
          <6> QED
            BY <5>1, <6>1, <6>2 DEF Continues
        <5> QED
          BY <3>2, <5>2, <5>3 DEF IInv, LastTimeKnown, last, u
      <4>3. ASSUME NEW i \in (first + 1)..(last + 1), i # last + 1
            PROVE  Continues(fixes'[icao], first, i)
        <5>1. i \in 2..last /\ i \in (first + 1)..last
          BY <1>2, <4>1, <4>3
        <5>2. /\ fixes'[icao][i] = fixes[icao][i]
              /\ fixes'[icao][first] = fixes[icao][first]
          BY <1>2, <4>1, <5>1
        <5>3. Timed(fixes'[icao], first) <=> Timed(fixes[icao], first)
          BY <5>2 DEF Timed
        <5> QED
          BY <1>6, <4>1, <5>1, <5>2, <5>3 DEF Continues
      <4>4. last + 1 - uu + 2 = first + 1 /\ last \in Nat /\ first \in Nat
        BY <1>2, <1>3, <4>1
      <4>5. \A i \in (first + 1)..(last + 1) : Continues(fixes'[icao], first, i)
        BY <4>2, <4>3
      <4> QED
        BY <4>1, <4>4, <4>5
    <3> QED
      BY <1>1, <3>1, <3>2, UpdateOutcome DEF u, uu
  <2>2. EndsInRun(fixes'[icao], uu)
    <3>1. /\ Len(fixes'[icao]) = last + 1 /\ last \in Nat /\ uu \in Nat
          /\ last + 1 - uu + 1 + 1 = last + 1 - uu + 2
      BY <1>2, <1>3
    <3> QED
      BY <2>1, <3>1 DEF EndsInRun
  <2>3. ASSUME NEW a \in DOMAIN tracks', a # icao
        PROVE  EndsInRun(fixes'[a], tracks'[a].updates)
    BY <1>3, <2>3 DEF IInv, TrackIsRun
  <2> QED
    BY <2>2, <2>3 DEF TrackIsRun, EndsInRun, Continues, Follows, Timed, uu
<1>9. RunIsTracked'
  <2>1. ASSUME NEW n \in 0..last,
               \A i \in (last + 1 - n + 1)..(last + 1) : Follows(fixes'[icao], i)
        PROVE  uu >= n
    <3>1. CASE n = 0
      BY <1>3, <3>1
    <3>2. CASE n >= 1
      <4>1. /\ time > 0 /\ time - fixes[icao][last] \in 1..MaxGap
            /\ last >= 1 /\ icao \in DOMAIN tracks
        <5>1. last >= 1 /\ last + 1 \in (last + 1 - n + 1)..(last + 1)
          BY <1>2, <2>1, <3>2
        <5>2. Follows(fixes'[icao], last + 1)
          BY <2>1, <5>1
        <5>3. last \in 1..last /\ (last + 1) - 1 = last
          BY <1>2, <5>1
        <5>4. fixes[icao] # <<>> /\ fixes'[icao][last] = fixes[icao][last]
          BY <1>2, <5>1, <5>3
        <5>5. /\ fixes'[icao][last + 1] > 0
              /\ fixes'[icao][last + 1] - fixes'[icao][last] \in 1..MaxGap
          BY <5>2, <5>3 DEF Follows
        <5> QED
          BY <1>2, <1>3, <5>1, <5>4, <5>5
      <4>2. u >= n - 1
        <5>1. n - 1 \in 0..(last - 1)
          BY <1>2, <2>1, <3>2
        <5>2. ASSUME NEW i \in (last - (n - 1) + 1)..last
              PROVE  Follows(fixes[icao], i)
          <6>1. i \in 2..last /\ i \in (last + 1 - n + 1)..(last + 1)
            BY <1>2, <2>1, <3>2, <5>2
          <6> QED
            BY <1>6, <2>1, <6>1
        <5> QED
          BY <4>1, <5>1, <5>2 DEF IInv, RunIsTracked, last, u
      <4>3. CASE tracks[icao].lastTime = fixes[icao][last]
        <5>1. uu = u + 1
          <6>1. fixes[icao] # <<>> /\ ~(time <= 0)
            BY <1>3, <1>5, <4>1
          <6> QED
            BY <1>1, <4>1, <4>3, <6>1, UpdateOutcome DEF u, uu
        <5> QED
          BY <1>4, <2>1, <4>1, <4>2, <5>1
      <4>4. CASE tracks[icao].lastTime # fixes[icao][last]
        <5>1. u = 1 /\ (last = 1 \/ fixes[icao][last] <= 0)
          <6>1. u = 1 /\ ~Timed(fixes[icao], last)
            BY <4>1, <4>4 DEF IInv, LastTimeKnown, last, u
          <6>2. last \in 1..last /\ fixes[icao][last] \in Int
            <7>1. last \in 1..last
              BY <1>2, <4>1
            <7>2. fixes[icao][last] \in Times
              BY <1>2, <7>1
            <7> QED
              BY <1>5, <7>1, <7>2
          <6> QED
            BY <4>1, <6>1, <6>2 DEF Timed
        <5>2. n # 2
          <6>1. ASSUME n = 2 PROVE FALSE
            <7>1. last >= 2 /\ last \in (last + 1 - n + 1)..(last + 1)
              BY <1>2, <2>1, <6>1
            <7>2. Follows(fixes'[icao], last)
              BY <2>1, <7>1
            <7>a. last \in 1..last
              BY <1>2, <4>1
            <7>b. fixes'[icao][last] = fixes[icao][last] /\ fixes[icao][last] \in Times
              BY <1>2, <7>a
            <7>3. fixes[icao][last] > 0 /\ fixes[icao][last] \in Int
              BY <1>5, <7>2, <7>b DEF Follows
            <7> QED
              BY <1>2, <5>1, <7>1, <7>3
          <6> QED
            BY <6>1
        <5> QED
          BY <1>3, <2>1, <3>2, <4>2, <5>1, <5>2
      <4> QED
        BY <4>3, <4>4
    <3> QED
      BY <1>2, <2>1, <3>1, <3>2
  <2>2. ASSUME NEW a \in DOMAIN tracks', a # icao,
               NEW n \in 0..(Len(fixes'[a]) - 1),
               \A i \in (Len(fixes'[a]) - n + 1)..Len(fixes'[a]) : Follows(fixes'[a], i)
        PROVE  tracks'[a].updates >= n
    BY <1>3, <2>2 DEF IInv, RunIsTracked
  <2>3. (last + 1) - 1 = last
    BY <1>2
  <2>4. ASSUME NEW a \in DOMAIN tracks',
               NEW n \in 0..(Len(fixes'[a]) - 1),
               \A i \in (Len(fixes'[a]) - n + 1)..Len(fixes'[a]) : Follows(fixes'[a], i)
        PROVE  tracks'[a].updates >= n
    <3>1. CASE a = icao
      <4>1. n \in 0..last
        BY <1>2, <2>3, <3>1
      <4>2. \A i \in (last + 1 - n + 1)..(last + 1) : Follows(fixes'[icao], i)
        BY <1>2, <2>4, <3>1
      <4> QED
        BY <2>1, <3>1, <4>1, <4>2 DEF uu
    <3>2. CASE a # icao
      BY <2>2, <2>4, <3>2
    <3> QED
      BY <3>1, <3>2
  <2> QED
    BY <2>4 DEF RunIsTracked, Follows
<1> QED
  BY <1>1, <1>7, <1>8, <1>9 DEF IInv

\* IInv holds in every reachable state.
THEOREM Invariance == Spec => []IInv
<1>1. Init => IInv
  BY DEF Init, IInv, TypeOK, LastTimeKnown, TrackIsRun, RunIsTracked
<1>2. IInv /\ [Next]_vars => IInv'
  <2>1. ASSUME IInv, UNCHANGED vars PROVE IInv'
    BY <2>1 DEF IInv, vars, TypeOK, LastTimeKnown, TrackIsRun, RunIsTracked,
              EndsInRun, Follows, Continues, Timed
  <2>2. ASSUME IInv, Next PROVE IInv'
    BY <2>2, ConstantsAssumption, UpdateKeeps DEF Next
  <2> QED
    BY <2>1, <2>2
<1> QED
  BY <1>1, <1>2, PTL DEF Spec

\* An aircraft has a track exactly when it had a fix.
THEOREM TypeCorrect == Spec => []TypeOK
<1>1. IInv => TypeOK
  BY DEF IInv
<1> QED
  BY <1>1, Invariance, PTL

\* The samples of a track are one unbroken run of fixes.
THEOREM TracksAreRuns == Spec => []TrackIsRun
<1>1. IInv => TrackIsRun
  BY DEF IInv
<1> QED
  BY <1>1, Invariance, PTL

\* Of an unbroken run of fixes a track loses at most the first.
THEOREM RunsAreTracked == Spec => []RunIsTracked
<1>1. IInv => RunIsTracked
  BY DEF IInv
<1> QED
  BY <1>1, Invariance, PTL
=============================================================================
