------------------------------ MODULE Tracker -------------------------------
(***************************************************************************)
(* mlat/tracker.go: one constant-velocity track per aircraft.  Update runs *)
(* under t.mu and is one action; goroutines of different batches call it   *)
(* in any order, so a fix may be older than the one before it, and the     *)
(* timestamps, seconds since midnight, start again at 0 every day.         *)
(*                                                                         *)
(* The filter's state vector and covariance are abstracted: what a fix     *)
(* goes through is either reset (reported as it was measured, speed 0) or  *)
(* a predict and update (smoothed).                                        *)
(***************************************************************************)
EXTENDS Integers, Sequences

CONSTANTS
  Aircraft,  \* ICAO addresses
  Times,     \* values of MLATResult.TimestampSec
  MaxGap,    \* maxTrackGapSec
  MaxFixes   \* bound: fixes per aircraft

ASSUME ConstantsAssumption ==
  /\ Times \subseteq Int
  /\ MaxGap \in Nat
  /\ MaxFixes \in Nat

VARIABLES
  tracks,  \* t.tracks: [lastTime, updates] of the aircraft that have a track
  fixes    \* history: the timestamps applied for each aircraft, in order

vars == <<tracks, fixes>>

TrackState == [lastTime : Times \cup {0}, updates : Nat \ {0}]

Known(icao) == icao \in DOMAIN tracks

Put(icao, track) ==
  tracks' = [a \in DOMAIN tracks \cup {icao} |->
               IF a = icao THEN track ELSE tracks[a]]

-----------------------------------------------------------------------------

Init ==
  /\ tracks = <<>>
  /\ fixes = [a \in Aircraft |-> <<>>]

\* Mutant: the new track is not stored in t.tracks.
NewTrackNotStored(icao, time) ==
  /\ ~Known(icao) \/ time <= 0
  /\ UNCHANGED tracks

\* newTrackState passes 0 for the timestamp, whatever the fix's is.
NewTrack(icao, time) ==
  /\ ~Known(icao) \/ time <= 0
  /\ Put(icao, [lastTime |-> 0, updates |-> 1])

\* Mutant: the gap limit is off by one.
ResetTrackEarly(icao, time) ==
  /\ Known(icao) /\ time > 0
  /\ LET dt == time - tracks[icao].lastTime
     IN  dt <= 0 \/ dt >= MaxGap
  /\ Put(icao, [lastTime |-> time, updates |-> 1])

\* A fix no later than the track, or long after it, starts the track again.
ResetTrack(icao, time) ==
  /\ Known(icao) /\ time > 0
  /\ LET dt == time - tracks[icao].lastTime
     IN  dt <= 0 \/ dt > MaxGap
  /\ Put(icao, [lastTime |-> time, updates |-> 1])

\* Mutant: a track goes on after a gap.
SmoothFixAcrossGap(icao, time) ==
  /\ Known(icao) /\ time > 0
  /\ time > tracks[icao].lastTime
  /\ Put(icao, [lastTime |-> time, updates |-> tracks[icao].updates + 1])

\* predictTrack and updateTrack: the only way a fix is smoothed.
SmoothFix(icao, time) ==
  /\ Known(icao) /\ time > 0
  /\ LET dt == time - tracks[icao].lastTime
     IN  dt > 0 /\ dt <= MaxGap
  /\ Put(icao, [lastTime |-> time, updates |-> tracks[icao].updates + 1])

Update(icao, time) ==
  /\ Len(fixes[icao]) < MaxFixes
  /\ fixes' = [fixes EXCEPT ![icao] = Append(@, time)]
  /\ \/ NewTrack(icao, time)
     \/ ResetTrack(icao, time)
     \/ SmoothFix(icao, time)

Next == \E icao \in Aircraft, time \in Times : Update(icao, time)

Spec == Init /\ [][Next]_vars

-----------------------------------------------------------------------------
(* Properties *)

\* An aircraft has a track exactly when it had a fix; a track counts at least
\* the fix that started it (tracker.go:41-48).
TypeOK ==
  /\ fixes \in [Aircraft -> Seq(Times)]
  /\ DOMAIN tracks = {a \in Aircraft : fixes[a] # <<>>}
  /\ tracks \in [DOMAIN tracks -> TrackState]

\* Fix i continues fix i - 1: later, and not after a gap.
Follows(times, i) ==
  /\ times[i] > 0
  /\ times[i] - times[i - 1] \in 1..MaxGap

\* newTrackState leaves a track without the time of its fix: an aircraft's
\* first, and any at 0.
Timed(times, i) == i > 1 /\ times[i] > 0

\* Fix i may be smoothed in a run that fix `first` opened.
Continues(times, first, i) ==
  \/ Follows(times, i)
  \/ i = first + 1 /\ ~Timed(times, first) /\ times[i] \in 1..MaxGap

\* The last n of the fixes are a run.
EndsInRun(times, n) ==
  LET first == Len(times) - n + 1
  IN  /\ first >= 1
      /\ \A i \in (first + 1)..Len(times) : Continues(times, first, i)

\* The samples a track reports are one unbroken run of fixes: each follows the
\* one before it, also the second one of a run that a reset opened.  Only
\* behind a fix whose time the track does not know the order is not checked,
\* and there a sample is taken in the first MaxGap of the day alone
\* (tracker.go:42-68 and 78-82).
TrackIsRun ==
  \A a \in DOMAIN tracks : EndsInRun(fixes[a], tracks[a].updates)

\* Nothing breaks a run but a gap, a fix out of order or midnight: while fixes
\* follow each other the track loses none of them, except for the one that
\* opened it (tracker.go:42-56).
RunIsTracked ==
  \A a \in DOMAIN tracks : \A n \in 0..(Len(fixes[a]) - 1) :
     (\A i \in (Len(fixes[a]) - n + 1)..Len(fixes[a]) : Follows(fixes[a], i))
       => tracks[a].updates >= n

\* tracker_test.go:20-38: the second of two successive fixes is sample 2 of
\* its track and is smoothed, not passed through.
SuccessiveFixesSmoothed ==
  \A a \in DOMAIN tracks :
     /\ Len(fixes[a]) = 2
     /\ Follows(fixes[a], 2)
     => tracks[a].updates = 2
=============================================================================
