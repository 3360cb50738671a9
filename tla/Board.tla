-------------------------------- MODULE Board -------------------------------
(***************************************************************************)
(* The aircraft side of AppState (app_state.go): who is waiting for enough *)
(* sensors, who is tracked, and how many fixes the last minute had.  The   *)
(* buffer, the solving goroutines and two tickers call it; every method    *)
(* runs under s.mu and is atomic.  Entries age with the clock and are      *)
(* dropped only when a Snapshot is taken, whenever that is.                *)
(*                                                                         *)
(* The module has the part of RecordFix that concerns aircraft; Sellers    *)
(* has the part that credits sellers, whose state is disjoint.  Of a fix   *)
(* only its time matters here; the running sums of quality, uncertainty,   *)
(* GDOP and trust, read by nothing but their averages, are left out.  The  *)
(* slice s.fixWindow, of which only the times and the length are read, is  *)
(* a function from the numbers of the fixes that are in it to their times. *)
(***************************************************************************)
EXTENDS Integers, Sequences, FiniteSets, Functions

CONSTANTS
  Aircraft,          \* ICAO addresses, in their order
  GroupSizes,        \* sensors of a group, as the buffer reports them
  WaitingRetention,  \* waitingRetention
  ActiveRetention,   \* activeRetention
  FixRateWindow,     \* fixRateWindow
  ListSize,          \* waiting aircraft a snapshot lists at most
  MaxTime,           \* bound: the last instant
  MaxHeard,          \* bound: observations of an aircraft between fixes
  MaxFixes           \* bound: fixes

ASSUME ConstantsAssumption ==
  /\ Aircraft \subseteq Int
  /\ GroupSizes \subseteq Nat \ {0}
  /\ WaitingRetention \in Nat /\ ActiveRetention \in Nat /\ FixRateWindow \in Nat
  /\ ListSize \in Nat
  /\ MaxTime \in Nat /\ MaxHeard \in Nat /\ MaxFixes \in Nat

VARIABLES
  now,         \* time.Now()
  waiting,     \* s.waiting: [sensors, frames, lastSeen]
  active,      \* s.active: [fixes, lastSeen]
  fixWindow,   \* s.fixWindow: the time of each fix in it
  totalFixes,  \* s.totalFixes, and s.metricSamples, which equals it
  returned,    \* the LiveState the last step returned: {} if it returns none
  heard,       \* history: observations of each aircraft since its last fix
  fixes        \* history: the aircraft and time of every fix

vars == <<now, waiting, active, fixWindow, totalFixes, returned, heard, fixes>>

Times == 0..MaxTime

With(f, x, v) == [y \in DOMAIN f \cup {x} |-> IF y = x THEN v ELSE f[y]]

-----------------------------------------------------------------------------

Init ==
  /\ now = 0
  /\ waiting = <<>>
  /\ active = <<>>
  /\ fixWindow = <<>>
  /\ totalFixes = 0
  /\ returned = {}
  /\ heard = [a \in Aircraft |-> <<>>]
  /\ fixes = <<>>

Tick ==
  /\ now < MaxTime
  /\ now' = now + 1
  /\ returned' = {}
  /\ UNCHANGED <<waiting, active, fixWindow, totalFixes, heard, fixes>>

\* Mutant: the sensors of the frames are added up.
RecordObservationSum(a, sensors) ==
  /\ Len(heard[a]) < MaxHeard
  /\ LET state == IF a \in DOMAIN waiting THEN waiting[a]
                                          ELSE [sensors |-> 0, frames |-> 0]
     IN  waiting' = With(waiting, a, [sensors  |-> state.sensors + sensors,
                                      frames   |-> state.frames + 1,
                                      lastSeen |-> now])
  /\ returned' = {}
  /\ heard' = [heard EXCEPT ![a] = Append(@, [sensors |-> sensors, at |-> now])]
  /\ UNCHANGED <<now, active, fixWindow, totalFixes, fixes>>

\* Called by the buffer with the size of the group the observation joined.
RecordObservation(a, sensors) ==
  /\ Len(heard[a]) < MaxHeard
  /\ LET state == IF a \in DOMAIN waiting THEN waiting[a]
                                          ELSE [sensors |-> 0, frames |-> 0]
     IN  waiting' = With(waiting, a,
                         [sensors  |-> IF sensors > state.sensors
                                         THEN sensors ELSE state.sensors,
                          frames   |-> state.frames + 1,
                          lastSeen |-> now])
  /\ returned' = {}
  /\ heard' = [heard EXCEPT ![a] = Append(@, [sensors |-> sensors, at |-> now])]
  /\ UNCHANGED <<now, active, fixWindow, totalFixes, fixes>>

Fixed(a) == IF a \in DOMAIN active THEN active[a].fixes ELSE 0

\* Mutant: lastSeen is set for a new entry only.
TrackedFirstSeen(a) ==
  [fixes    |-> Fixed(a) + 1,
   lastSeen |-> IF a \in DOMAIN active THEN active[a].lastSeen ELSE now]

Tracked(a) == [fixes |-> Fixed(a) + 1, lastSeen |-> now]

\* Mutant: the aircraft stays in s.waiting.
RecordFixWaits(a) ==
  /\ totalFixes < MaxFixes
  /\ active' = With(active, a, Tracked(a))
  /\ totalFixes' = totalFixes + 1
  /\ fixWindow' = With(fixWindow, totalFixes + 1, now)
  /\ returned' = {}
  /\ heard' = [heard EXCEPT ![a] = <<>>]
  /\ fixes' = Append(fixes, [aircraft |-> a, at |-> now])
  /\ UNCHANGED <<now, waiting>>

RecordFix(a) ==
  /\ totalFixes < MaxFixes
  /\ active' = With(active, a, Tracked(a))
  /\ totalFixes' = totalFixes + 1
  /\ fixWindow' = With(fixWindow, totalFixes + 1, now)
  /\ waiting' = Restrict(waiting, DOMAIN waiting \ {a})
  /\ returned' = {}
  /\ heard' = [heard EXCEPT ![a] = <<>>]
  /\ fixes' = Append(fixes, [aircraft |-> a, at |-> now])
  /\ UNCHANGED now

\* The fix times that a snapshot keeps.
Trimmed ==
  Restrict(fixWindow, {n \in DOMAIN fixWindow : fixWindow[n] > now - FixRateWindow})

\* Mutant: the aircraft with the fewest sensors first.
BeforeIfFewer(a, b) ==
  \/ waiting[a].sensors < waiting[b].sensors
  \/ waiting[a].sensors = waiting[b].sensors /\ a < b

\* The order of the waiting list: most sensors, then most frames, then ICAO.
Before(a, b) ==
  \/ waiting[a].sensors > waiting[b].sensors
  \/ /\ waiting[a].sensors = waiting[b].sensors
     /\ \/ waiting[a].frames > waiting[b].frames
        \/ waiting[a].frames = waiting[b].frames /\ a < b

\* The ListSize first of a set of waiting aircraft.
Listed(S) == {a \in S : Cardinality({b \in S : Before(b, a)}) < ListSize}

\* Waiting aircraft are listed before those that are also active are dropped.
Snapshot ==
  LET fresh   == {a \in DOMAIN waiting :
                    waiting[a].lastSeen >= now - WaitingRetention}
      current == {a \in DOMAIN active : now - active[a].lastSeen <= ActiveRetention}
  IN  /\ fixWindow' = Trimmed
      /\ waiting' = Restrict(waiting, fresh \ current)
      /\ active' = Restrict(active, current)
      /\ returned' = {[at         |-> now,
                       waiting    |-> Restrict(waiting, Listed(fresh)),
                       active     |-> Restrict(active, current),
                       fixRate    |-> Cardinality(DOMAIN Trimmed),
                       totalFixes |-> totalFixes]}
      /\ UNCHANGED <<now, totalFixes, heard, fixes>>

Next ==
  \/ Tick
  \/ \E a \in Aircraft, n \in GroupSizes : RecordObservation(a, n)
  \/ \E a \in Aircraft : RecordFix(a)
  \/ Snapshot

Spec == Init /\ [][Next]_vars

-----------------------------------------------------------------------------
(* Properties *)

WaitingState == [sensors : GroupSizes, frames : 1..MaxHeard, lastSeen : Times]

TrackedState == [fixes : 1..MaxFixes, lastSeen : Times]

\* Every entry carries a time that has come, and an aircraft that waits was
\* heard at least once (app_state.go:181-211).
TypeOK ==
  /\ now \in Times
  /\ DOMAIN waiting \subseteq Aircraft
  /\ waiting \in [DOMAIN waiting -> WaitingState]
  /\ DOMAIN active \subseteq Aircraft
  /\ active \in [DOMAIN active -> TrackedState]
  /\ totalFixes \in 0..MaxFixes
  /\ DOMAIN fixWindow \subseteq 1..totalFixes
  /\ fixWindow \in [DOMAIN fixWindow -> 0..now]
  /\ \A board \in returned :
        /\ board.at = now
        /\ DOMAIN board.waiting \subseteq Aircraft
        /\ DOMAIN board.active \subseteq Aircraft
        /\ board.fixRate \in Nat
        /\ board.totalFixes = totalFixes

FixesSince(t) == {n \in DOMAIN fixes : fixes[n].at > t}

\* At time t, aircraft a had a fix no older than ActiveRetention.
TrackedAt(a, t) ==
  \E n \in DOMAIN fixes : fixes[n].aircraft = a /\ t - fixes[n].at <= ActiveRetention

\* The fix rate counts exactly the fixes of the last FixRateWindow, however many
\* snapshots trimmed the window before and even after a long pause without any.
\* Tracked are exactly the aircraft whose last fix is no older than
\* ActiveRetention: a later fix keeps an entry that was about to go, and an old
\* one is gone even if it was never trimmed (app_state.go:204-222, 258-304).
SnapshotExact ==
  \A board \in returned :
     /\ board.fixRate = Cardinality(FixesSince(board.at - FixRateWindow))
     /\ DOMAIN board.active = {a \in Aircraft : TrackedAt(a, board.at)}

\* The frames of a waiting aircraft are observations since its last fix, none
\* of them counted twice; a fix ends the wait (app_state.go:185-196 and 249).
WaitingSinceFix ==
  \A a \in DOMAIN waiting :
     LET h == heard[a]
         k == waiting[a].frames
     IN  /\ k <= Len(h)
         /\ waiting[a].lastSeen = h[Len(h)].at
         /\ \A i \in (Len(h) - k + 1)..Len(h) : h[i].sensors <= waiting[a].sensors
         /\ \E i \in (Len(h) - k + 1)..Len(h) : h[i].sensors = waiting[a].sensors

\* An aircraft heard within WaitingRetention, and not while it was tracked, is
\* listed by a snapshot unless ListSize others are, all of them with at least
\* as many sensors (app_state.go:268-296 and 310).
NoBetterLeftOut ==
  \A board \in returned :
     \A a \in Aircraft \ DOMAIN board.waiting :
       LET h    == heard[a]
           last == h[Len(h)]
       IN  \/ h = <<>>
           \/ last.at < board.at - WaitingRetention
           \/ TrackedAt(a, last.at)
           \/ /\ Cardinality(DOMAIN board.waiting) = ListSize
              /\ \A b \in DOMAIN board.waiting :
                    board.waiting[b].sensors >= last.sensors
=============================================================================
