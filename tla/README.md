# n-MLAT: a TLA+ verification project

n-MLAT is a buyer of raw Mode-S frames: sellers stream frames with precise
receive times, the program finds the receptions of one transmitted frame at
four or more sensors, solves for the aircraft's position, smooths it, learns
the sensors' clocks from it, and shows the result in a browser.

This directory holds TLA+ modules translated from the Go source in `src/`, TLC
configurations that check them on small instances, and proofs, checked by
TLAPS, that the most important properties hold for every value of the
constants. `PROJECT.json` lists components, runs, mutants, hazards, findings
and theorems, and maps every definition to the lines it models.

## The system

| Component | State | Operations | Talks to |
|---|---|---|---|
| Stream ingest (`main.go:211-311`) | one handler goroutine per libp2p stream | accept or reject, read a packet, leave | calls AppState and the buffer |
| Correlation buffer (`mlat/buffer.go`) | groups, index, timers | `Add`, timer callback | called by the handlers; starts an OnReady goroutine per batch |
| Solve pipeline (`main.go:97-164`) | none of its own | apply, solve, track, calibrate, record, broadcast, publish | calls all of the below |
| Clock calibrator (`mlat/calibration.go`) | per sensor a clock and a score, per pair an offset | `Apply`, `Update`, `DecorateContributors` | called by OnReady goroutines |
| Solver (`mlat/solver.go`) | none | `Solve` | pure |
| Tracker (`mlat/tracker.go`) | a track per aircraft | `Update` | called by OnReady goroutines |
| Application state (`app_state.go`) | sellers, waiting and tracked aircraft, fix window, totals | `SellerConnected`, `SellerDisconnected`, `NoteSellerSensor`, `RecordObservation`, `RecordFix`, `Snapshot` | called by handlers, buffer, OnReady goroutines, two tickers |
| WebSocket hub (`server/websocket.go`) | connected browsers | `HandleWS`, `Broadcast` | called by OnReady goroutines and the 1 s ticker |
| Hedera publisher (`hedera-main/publisher.go`) | none | `Publish` | external ledger |
| Location overrides, ICAO, peer id (`mlat/`) | a table loaded at start | lookups and conversions | |
| Map UI (`static/index.html`) | what it shows | WebSocket messages | hub |

Each stateful component has one mutex and every method holds it throughout,
with one exception: the buffer's timer callback unlocks and then goes on to
use the group it took. What is hard is therefore between the critical sections:

- Timers. `time.AfterFunc` callbacks run in goroutines of their own, and
  `Stop` does nothing to one that already waits for the lock.
- Order. Every batch is solved in a goroutine of its own. Fixes of an aircraft
  may reach tracker, calibrator and state in any order.
- Overlap. A peer that reconnects has two handlers for a while, and both
  write the same entry of `AppState.sellers`.
- Time. Receive times start again at 0 at midnight; entries of the state age
  and are only dropped when somebody takes a snapshot.
- Nothing is persisted; there is no recovery after a crash to get right.

What makes each component correct:

- buffer: one fate per observation; batches of one frame, one observation per
  sensor, close in time; no group that nothing will ever end.
- tracker: a track is a run of fixes that follow each other, whole and unbroken.
- sellers: a listed peer has a handler that will take it off the list, its sensors
  were reported by streams it still has, a contribution is credited once, and no
  reputation is lost while a peer is listed.
- board: what a snapshot shows is what happened.
- calibrator: learning from batches in any order never locks a sensor out, and
  pair offsets mean what their reader takes them for.
- solve pipeline: what browsers and the audit topic are told agrees with what was
  recorded, and is at most one tick behind.
- solver: it ends; a result is about the observations it names.
- hub: every browser gets the broadcasts in one order, and everybody gets on
  unless a browser stops reading for good.

## Modules

| Module | Models | Notes |
|---|---|---|
| `Correlation` | what the buffer promises | abstract: pending, superseded, solved, discarded |
| `Buffer`, `BufferProofs` | `mlat/buffer.go` | implements `Correlation` |
| `Tracker`, `TrackerProofs` | `mlat/tracker.go` | control only |
| `Sellers`, `SellersProofs` | `main.go:211-311`, `app_state.go:119-179` and the crediting in `RecordFix` | handlers of overlapping streams |
| `Board`, `BoardProofs` | `app_state.go:181-358`, without the sellers | observations, fixes, snapshots, the clock |
| `Calibrator`, `CalibratorProofs` | `mlat/calibration.go` | clocks, trust and pairs, between `Apply` and `Update` |
| `Feed` | what the hub promises | abstract: one log, a part of it for every connection |
| `Hub`, `HubProofs` | `server/websocket.go` | implements `Feed` |
| `Delivery`, `DeliveryProofs` | `main.go:97-205`, `hedera-main/publisher.go` | composes the OnReady goroutines, both tickers, board, hub and topic |
| `Fit`, `Solver`, `SolverProofs` | `mlat/solver.go` | `Solver` extends `Fit`, the search for one set of observations |
| `MC...` | | small values of the constants for TLC |

`MC` modules only name sets. In the component modules, definitions preceded by
"Mutant:" are not part of the model. Each is a plausible bug in the definition
it follows or precedes, and replacing that definition by it makes a property
fail; `PROJECT.json` says which.

### Buffer

The variables are the fields of `Buffer` (`groups`, `index`, `timers`,
`nextGroup`) plus the goroutines around them: `callbacks` are timer callbacks
that wait for the lock, `expired` groups that a callback took out and still
holds. `batches` is the output, the arguments of OnReady. `superseded` and
`discarded` record what the code drops.

`Add` is one action, as `b.mu` is held throughout; it finds the closest group
within the window or opens one (`JoinGroup`, `OpenGroup`) and either hands the
group over or re-arms its timer (`Extend`). The callback is two actions,
`CallbackTakes` under the lock and `CallbackSettles` after the unlock, or one,
`CallbackTooLate`, when the group is gone. `TimerFires` is separate: a fired
timer cannot be stopped, and `Add` may run before its callback gets the lock.
Durations are abstracted: an armed timer may fire at any moment, which covers
every real one. `b.index` keeps ids in creation order; ids are numbers here, so
a set of ids holds the same information. Several callbacks that wait for the
same group are one, since all but the first are too late.

### Tracker

A track is the time of its last fix and the number of its samples. `NewTrack`,
`ResetTrack` and `SmoothFix` are the three paths through `Update`, with the
code's conditions on `dt`. The Kalman arithmetic does not influence which path
is taken and is left out. `fixes`, the history of each aircraft, lets the
properties compare the track with what happened.

### Sellers

A stream is a process with the stages of its handler. Open, read and link
failures are the environment; `Connect`, `NoteSensor`, `DeliverPacket` and
`Disconnect` are the handler's calls, each atomic under `s.mu`. Fixes credit any
set of sensors that reached the buffer. When two sellers reported one sensor,
Go's random map iteration picks the one that is credited, so the model picks any.

### Board

`RecordObservation`, `RecordFix` and `Snapshot` with a clock that advances
between them. The slice `s.fixWindow` is a function from the numbers of the
fixes that are in it to their times; the histories `heard` and `fixes` are what
happened. `returned` is the `LiveState` of the last step when it was a
`Snapshot`. `Sellers` and `Board` each have the part of `RecordFix` that writes
their own state; the parts share only the lock.

### Calibrator

A worker is an OnReady goroutine. `Apply` and `Update` each hold `c.mu` and are
one action; between them the batch is in flight and other workers apply and
update. `SolveFails` ends a batch that has no solution. `Filtered` is Apply's
filter of unreliable sensors, `Peers` says which sensors `consensusCorrection`
takes an estimate from. Per sensor the averages of jitter and residual, the
sample count and the score are kept, with the code's weights, in whole units;
per pair the number of samples and, as history, how many of them measured the
difference the other way round.

The corrections (offset, drift, weighted consensus) are abstracted to the one
thing the control depends on, the error that `Update` finds. When the correction
that `Apply` put into the observation was the clock's own, and no other `Update`
heard the sensor since, the prediction is that same correction and the error is
the residual, or less when the clamp cuts it. When peers had a say (`peered`) or
the clock has changed (`stale`), it is any of `CorrectionErrors`. That every
observation of a batch has a residual within the solver's gate follows from
`Buffer` (batches have exactly `MinSensors` observations) and `solver.go:281`
(fewer inliers are not accepted). `DecorateContributors` and `Snapshot` only read.

### Feed and Hub

The actors are the goroutines that call `Broadcast` and one `HandleWS` per
connection. `Call` is `Broadcast` up to the lock, which a message that cannot be
marshalled never reaches; `Acquire` takes `hub.mu`; `Write` and `WriteToBroken`
are the iterations of the loop, and each is a step, since a write may block
while the lock is held; `Release` removes the dead and unlocks. Handlers
`Register`, leave when `ReadFails`, and `Deregister`. `Break`, `Stall` and
`Resume` are the browsers and links: a stalled browser has stopped reading, and
no write to it returns until it reads again or its link breaks. The histories
are `log` (the order of `hub.mu`), `start` (how much of the log was there when a
connection was registered) and `written`.

`Feed` has no goroutines or locks. `Hub` implements it with the registered
connections that are not broken as `open`.

### Delivery

A goroutine goes through `SolveAndTrack` or `SolveFails`, `RecordFix`,
`Broadcast` and `Publish`, each a critical section of its own. The state ticker
takes a snapshot (`Tick`) and then waits for the hub (`BroadcastState`); the
audit ticker does the same with the ledger (`AuditTick`, `PublishSummary`).
`Age` lets a fix grow too old at any time, and a snapshot drops it.

This is the composition. Of each component it has the part that the others can
see: of `Board`, the fix that is shown for an aircraft and the number of fixes;
of `Hub`, one log, as proved in `HubProofs`; of the calibrator and tracker
nothing, since they write nothing that is read further on; of the solver,
whether it fails and whether the GDOP is infinite. `Init` takes either outcome
of `NewPublisher`. Whether the ledger accepts a record is open.

### Fit and Solver

`Fit` is `fitObservationSet` with `runLevenbergMarquardtTOA`: `Search` starts
from the next altitude, `Damps` and `Moves` are iterations, `EndSearch` compares
the end with the best so far. The place that a step leads to is abstracted to
its cost, which is any. `NoCost` is NaN.

`Solver` is `Solve`: `Accept` or `Reject`, then `fitRobust`, which fits each
subset (`Call`, the steps of `Fit`, `GiveUp` or `Refine`) and again its
inliers (`Compare`), then `Select` with a second `fitRobust` on the selected
observations, and the end (`Return`, `Unrealistic`, `NoneFound`, `Panic`). Which
observations are inliers and how good a candidate is are open, as they depend on
floating-point arithmetic. `Combinations` and `Sampled` are the code's
enumeration of subsets. A residual is represented by the observation it was
computed for, so a residual that is read at the wrong index shows.

## Runs

| Run | Question | Bounds |
|---|---|---|
| `buffer_safety` | invariants of groups, their index and batches | 4 sensors, 1 frame, times 0..4 with a window of 1, batches of 4, 4 calls of `Add` |
| `buffer_frames` | several frames: batches, one fate per observation (`OneFate`, the refinement of `Correlation`), liveness | 3 sensors, 2 frames, 2 times, batches of 3, 3 calls of `Add` |
| `tracker_runs` | are tracks runs of fixes? | 2 aircraft, times 0..4, gap 2, 4 fixes each |
| `sellers` | the life of sellers, safety and liveness | 3 streams, 3 peers of which 2 are trusted, 1 sensor, 1 fix |
| `board` | are snapshots right? | 2 aircraft, group sizes 1..2, times 0..4, retentions 1, 2 and 3, a list of 1, 2 fixes, 2 observations between fixes |
| `calibrator` | clocks and pairs under overlapping batches | 2 workers, 3 sensors, batches of 2, 4 batches, residuals at and below the gate, errors of 0 and 20 ms; 2 samples instead of 6 make a clock's jitter count and 3 instead of 4 a pair |
| `hub` | one log for all browsers (`OneFeed`, the refinement of `Feed`), no ghosts, nobody held up | 2 callers, 2 connections, 3 messages of which one cannot be marshalled, 2 broadcasts |
| `delivery` | do outputs catch up with what was recorded? | 2 goroutines of one aircraft, 2 ticks of each ticker |
| `solver` | subsets, best candidate, indices, end of a solve | batches of 1 to 4 observations, one with a sensor twice; at least 2 sensors, subsets of 3, selections of 2 or 3 of which 3 are sampled; 2 starts, 3 iterations, costs 0..2, rms 0..2, tolerances of 1 |
| `tracker_second_fix`, `sellers_listed`, `calibrator_pairs` | expected violations, see Findings | as small as shows it |

Why the bounds are enough. A batch of four whose anchor moves three times needs
four calls of `Add` and four instants one window apart, with a fifth for a batch
that is too wide; two groups that approach each other, or one
that stays in the index when the other goes, need the same. A timer's
callback can be overtaken by `Add` in a group of two, with one further call. A
track of three samples after a reset, over a gap or midnight, needs four fixes.
Two overlapping streams of a peer and one of another peer are three streams.
Times of the board cover an entry that is as old as each retention, and one that
is older. Four batches take the jitter of a sensor from nothing to beyond the
point where it earns no score, make a pair count and let one batch rest on it,
or let two batches overlap once their sensors are known. In the hub, one call
that holds the lock and one that waits is all the contention there is, with one
connection that works and one that stalls or breaks. In the pipeline, overtaking
takes two goroutines of one aircraft, and being a tick late takes two ticks. The
solver's batches of four have a selection of two or three of them, with its
indices in any place, and a rms that ties within the tolerance needs three
candidates. All invariants and action properties are proved for all values
besides.

Deadlock is not checked: all models stop at their bounds, and the real
components are idle without input.

Symmetry is used where names are interchangeable (sensors of the buffer,
aircraft of the tracker, streams of `sellers_listed`, workers of the calibrator,
goroutines of the pipeline), and never with liveness.

### Fairness

`buffer_frames` assumes weak fairness of a timer that is left alone and of each
callback that can run: the Go runtime fires timers and schedules goroutines.
Nothing is assumed of `Add`, so sensors may fall silent at any point.
`sellers` assumes weak fairness of the steps a handler takes without its
peer, which includes that reading from a closed connection returns, and that
the deferred calls run. Peers, links, the 5 s deadline and fixes are free.
`hub` assumes strong fairness of each call of `Broadcast` and of each handler:
a waiter for Go's mutex is not starved, and a blocked write returns once the
browser reads again. Nothing is assumed of browsers: `NobodyHeldUp` has as its
condition that no browser stalls for good, and without that condition it is
false. `solver` assumes weak fairness of `Next`, as `Solve` is sequential and
waits for nothing.

## Proofs

Each `...Proofs` module defines an inductive invariant (`IInv`; `Run` in
`SolverProofs`, where `FitInv` and `BestInv` stand beside it), proves that `Init`
implies it and that `[Next]_vars` preserves it with one step per action, and
derives the properties that TLC checks. TLC was asked first whether the invariant
holds on the instances above.

- `BufferProofs`: `TypeOK`, `IndexConsistent`, `BatchesSolvable`, `BatchSpread`,
  `AnchorsDistinct`, `NoOrphanGroup`, and that a group in the map is never
  complete (`LiveGroupsUnsolved`). To prove `BatchSpread` the invariant bounds
  the reach of a group of n observations by n - 1 windows around its anchor, and
  it carries what a callback holds (an expired group is unsolved, so
  `CallbackSettles` always discards; the branch of the code that hands over on
  the timer is never taken). `ImplementsCorrelation` is the refinement: a
  further invariant says that each observation is in exactly one place, in one
  group, expired group or batch, or dropped, and each action then maps to a step of
  `Correlation`, or to none. From the promise follow `FatesApart` and `FatesStay`: an
  observation is in one place, in one batch only, and stays with its fate. That a
  call maps to no step would be allowed, though, and would lose its observation,
  so `NothingIsLost` counts: each call of `Add` has exactly one observation that
  waits or has a fate.
- `TrackerProofs`: `TypeOK`, `TrackIsRun`, `RunIsTracked`; the invariant ties the
  track's time to the last fix of the history, or says that the track has none,
  which is so only for the first fix of an aircraft and for one at 0.
- `SellersProofs`: `TypeOK`, `NoGhostSellers`, `SensorsOfLiveStreams`,
  `ReputationKept`; the invariant says that a handler which holds a packet is
  registered. `CreditedAtMostOnce` compares a sum over the listed peers with a
  count, and the fold that computes it takes the peers in an order of its own. Lemma
  `FewerFirst` shows that the sum is the same whichever peer is taken first
  (`SamplesOfOneMore` then takes the one a step changes), and `CreditInv` that
  there are only finitely many peers to sum over. A peer that is credited is
  worth one sample more, a peer that leaves takes its samples out of the sum
  but not out of the count, and a fix credits a contributor's sensor to one peer.
- `BoardProofs`: `TypeOK`, `SnapshotExact`, `WaitingSinceFix`, `NoBetterLeftOut`.
  The properties compare a snapshot with histories that it does not see, so the
  invariant says what the three maps know of them at any time: what a snapshot
  has dropped was too old then, and only gets older. That a snapshot has what
  its list may hold is an argument on ranks: among n waiting aircraft the ranks
  are n different numbers below n, so each number is some aircraft's.
- `CalibratorProofs`: all its invariants but the refuted one. Its invariant has
  five parts. `IInv` is for `TrustNeverExcludes`: residual averages stay below the
  solver's gate, so the residual part of the score alone exceeds
  `minTrustedScore`. This rests on `GateAssumption`, which the code's constants
  satisfy: a gate of 3000 m is about 10 us, 0.4% of the scale of 2.5 ms, which
  leaves 39.8 of 40 points, and the limit is 35. `FlightInv` says that `Apply`
  returns whole batches: its filter needs fewer usable observations than there
  are, but at least `MinSensors`, which is all there are. `PairInv` counts: two
  sensors meet at most once in a batch, and each heard sensor gains a sample.
  `CauseInv` says that the jitter of a clock without peers and races is an
  average of residuals. `LimitsAssumption` puts the gate below the limits of
  `Update` and `reliable` (8 ms and 2.5 ms in the code).

- `HubProofs`: `TypeOK` with `Exclusive`, that the lock excludes, `NoGhostClients`
  and `ImplementsFeed`, the refinement. Its invariant gives the position of each
  working connection in the log: one behind its end while the call that holds the
  lock has yet to write to it, else at the end. `SameLogForAll` and
  `LogOnlyGrows` draw the conclusion from `Feed`: what a browser was given is the
  part of the log from its registration on.
- `DeliveryProofs`: `TypeOK`, `StatesCatchUp`, `SummariesCatchUp`,
  `SilenceHasCause`, and `OutputsAlwaysAgree`: what the topic has was broadcast,
  what was broadcast was recorded, each once. The invariants say that a snapshot
  under way covers each fix that was recorded when it was taken, and the state
  that it had then only grows.
- `SolverProofs`: `FitDownhill`, `BestIsBest`, `TypeOK`, `SubsetsExact` and
  `ResultIsTrue`, the last for batches of any size. `FitInv` follows a search from the
  place where it began (`least`, a history, keeps the least cost of those places) and
  ties a raised lambda to the cost that the next iteration compares
  with (`DampingUnused`, see Findings). `AllCombinations` says what the
  enumeration returns, which is every increasing sequence of its length, each once,
  in lexicographic order: the sequences with a given first index come before
  those with a later one, and what follows the first index is the enumeration of the
  rest. `SampledEvenly` shows that the integer division that picks a sample of the
  subsets never picks one twice. `Run` follows a solve: the whole batch is
  fitted first and what it found waits in `first` while a selection is fitted. A
  candidate of the selection is lifted to the batch before it can be returned, and
  lifting reads residuals at indices of the batch, so the invariant
  says which of them are read right: an index beyond the selection panics
  (`LiftPanics`), and a candidate that does not is `Named`, its residuals those of
  its inliers (`LiftedNamed`). Hence `ResultIsTrue` always, `PanicsNeedSelection`, and
  `MinimalBatchesSafe`: if no batch has more than `MinSensors` observations, `Solve`
  does not panic. `BatchesAreSolvable` in `BufferProofs` is that condition, so the
  two together cover the program.

Two of these need induction over data, for sums and for the enumeration. The
library states induction for an operator as a parameter, which the provers cannot
instantiate, so both modules prove it for sets: `Least` (a nonempty set of
naturals has a least member, from the well-foundedness of `<`) and `Induction` (a set
with 0 that has n + 1 with each n has all of `Nat`). A recursive function is a
`CHOOSE` until a function that satisfies its equation is known, so each
proof first shows, by the same induction, that there is one (`SumExists`,
`BuildExists`).

The assumptions are those stated in the component modules about their
constants; TLC evaluates them in every run.

Checked by TLC only are the liveness properties `EveryObservationSettles`,
`GoneSellersLeave`, `NobodyHeldUp` and `SolveEnds`: they rest on fairness, whose
`ENABLED` the provers do not handle. The safety halves are proved: that an
observation keeps its fate and is not lost in `FatesStay` and `NothingIsLost`, that
a peer's handler is there to remove it in `NoGhosts`. Of `SolveEnds` the harder half is proved:
`SolveRunsOut` says that each step makes `Left` smaller, the passes, subsets, fits,
stages, start altitudes and iterations that are left, compared in that order, and
that nothing gets smaller in it for ever. What remains for TLC is that `Solve` is
never stuck before it ends.

## Findings

1. `tracker_second_fix`. A new track gets the time 0 (`tracker.go:80`). From two
   minutes after midnight on, the second fix of every track looks like one after
   a gap and starts the track again, so smoothing and speed begin with the third.
   The test that expects otherwise uses times 100 s and 101 s.
2. `sellers_listed`. When the older of two streams of a peer ends, the peer and
   its score are deleted while the newer stream is open (`main.go:235`).
3. `calibrator_pairs`. The sign of a learned pair offset depends on which sensor
   heard the frame first, and its reader does not know (`calibration.go:266`).

From the models as well:

- The observations of a batch can be up to `MinSensors - 1` windows apart, because
  the anchor moves (`BatchSpread`, `buffer.go:138`). The test of repeated payloads
  (`buffer_test.go:45-80`) has two receptions close together and two more than a
  window later, with none in between that would join them.
- A batch never has more than four observations (`BatchesSolvable`,
  `buffer.go:62`), so the selection of a better subset that `README.md:147`
  describes never happens. With a larger batch `liftCandidate` could panic: its
  residuals are as long as the selection and are indexed like the batch
  (`SolveEnds` leaves the case open, `PanicsNeedSelection` and
  `MinimalBatchesSafe` exclude it for batches of four).
- The damping of the fit is never raised to any effect: `prevCost` is set before
  it is known whether the step is taken (`solver.go:420`), so after a rejected step
  the next iteration finds no change in cost and stops. Trying the step again with
  the raised lambda is what Levenberg-Marquardt would do. Nothing in the
  repository promises it, so no run asks for it; lemma `DampingUnused` in
  `SolverProofs` shows that no step is ever solved for with a raised lambda, unless
  the cost is NaN. What remains true is `FitDownhill`.
- The steps may be rejected throughout. `solve4x4` calls a matrix singular when a
  pivot is below an absolute 1e-12 (`solver.go:785`). The position part of the normal
  matrix has entries of at most the sum of the weights over the square of the
  speed of light, some 4.5e-17 for four weights of 1, and those that mix position and
  time are at most 1.4e-8. With the first pivot at 1e-12 or more, what is left in the
  second column is then below 1e-12, so every step would be rejected and every fit
  be one of its start points. This is arithmetic about magnitudes outside the
  models, which allow it (`Damps` in every iteration) and do not show it.
- `betterCandidate` is not transitive; the best candidate can be a tolerance of
  rms worse per comparison than the best seen (`BestIsBest`).
- The board shows the fix of the last `RecordFix`, which may be older than the one
  it replaces. A page or the topic is at most one tick behind what was recorded.
- The trust test in `Apply` excludes nobody (`TrustNeverExcludes`), and since
  batches have exactly four observations the filter as a whole never removes one
  (lemma `FilteredIsBatch`); the timer never hands a group over.
- A fix with an infinite GDOP silences the state broadcast for as long as it is on
  the board (`SilenceHasCause`, `websocket.go:27`).

## Not modelled

- Floating-point arithmetic: what the solver, the Kalman filter and the clock
  corrections compute. TLC has integers only; where the control depends on a
  number, the model takes any of a small set.
- The 64-bit wrap of unchecked timestamps, and packet decoding. Both can be
  modelled and are left in the plan.
- The ledger client, which is external, and the choice of the topic at start.
- File loading and the hex conversions: they are stateless.
- The map UI: it runs in the browser and only draws what the hub sends.
- The averages of fix metrics in the state.

## Plan

Done: all modules above with their runs, refinements and proofs.

Left, in this order:

1. `Packet`: fields, widths, midnight, and the 64-bit arithmetic of timestamps.
2. Map UI: connection, reconnection and what stays on the map.
3. The normal matrix of the fit in scaled integers, to decide which steps can be
   solved for.
4. The corrections of the calibrator in bounded integers, so that what `Apply`
   does with a peer's estimate need not be left open.
