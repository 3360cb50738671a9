------------------------------ MODULE Delivery ------------------------------
(***************************************************************************)
(* How results leave the program: the goroutines of OnReady and the two    *)
(* tickers of main.go, which bring fixes and snapshots to the browsers'    *)
(* hub and to the audit topic.                                             *)
(*                                                                         *)
(* A goroutine solves, then calls tracker, calibrator, state, hub and      *)
(* publisher in turn; each call has a lock of its own, and goroutines      *)
(* overtake each other between any two of them.  A ticker takes its        *)
(* snapshot first and then waits for the hub or the ledger, so the         *)
(* snapshot may be old when it gets there.                                 *)
(*                                                                         *)
(* Of AppState this module needs the fix that is shown for each aircraft   *)
(* and the number of fixes; Board has the rest.  Of the hub it needs one   *)
(* log of messages, which is what Hub promises (module Feed).  Of a fix it *)
(* needs the goroutine that found it and whether its GDOP is finite.       *)
(***************************************************************************)
EXTENDS Integers, Sequences, FiniteSets, Functions

CONSTANTS
  Goroutines,   \* the OnReady goroutines
  Aircraft,     \* ICAO addresses
  Icao,         \* the aircraft whose batch a goroutine was started with
  NoFix,        \* an aircraft that is not on the board
  MaxStates,    \* bound: ticks of the state ticker
  MaxSummaries  \* bound: ticks of the audit ticker

ASSUME ConstantsAssumption ==
  /\ Icao \in [Goroutines -> Aircraft]
  /\ NoFix \notin Goroutines
  /\ MaxStates \in Nat /\ MaxSummaries \in Nat

VARIABLES
  publisher,  \* NewPublisher succeeded
  stage,      \* where each goroutine is
  infinite,   \* goroutines whose fix has an infinite GDOP
  board,      \* s.active: the fix of each aircraft
  old,        \* aircraft whose fix is older than activeRetention
  recorded,   \* the fixes in the order of RecordFix; s.totalFixes is its length
  retired,    \* history: fixes that a Snapshot took off the board
  pending,    \* what the state ticker waits to broadcast, if anything
  summary,    \* what the audit ticker waits to submit, if anything
  states,     \* how often the state ticker took a snapshot
  summaries,  \* how often the audit ticker took one
  log,        \* the messages broadcast by the hub
  topic       \* the records submitted to the audit topic

stateVars == <<board, old, recorded, retired>>
tickerVars == <<pending, summary, states, summaries>>
outputVars == <<log, topic>>

vars == <<publisher, stage, infinite, stateVars, tickerVars, outputVars>>

Shown == [Aircraft -> Goroutines \cup {NoFix}]

Fix(g) == [type |-> "fix", fix |-> g]
State(s) == [type |-> "state", shows |-> s]
Summary(n) == [type |-> "summary", total |-> n]

\* Init takes either outcome of NewPublisher: without credentials or a topic
\* the program runs on without a publisher.
Init ==
  /\ publisher \in BOOLEAN
  /\ stage = [g \in Goroutines |-> "solving"]
  /\ infinite = {}
  /\ board = [a \in Aircraft |-> NoFix]
  /\ old = {}
  /\ recorded = <<>>
  /\ retired = {}
  /\ pending = {}
  /\ summary = {}
  /\ states = 0
  /\ summaries = 0
  /\ log = <<>>
  /\ topic = <<>>

Go(g, from, to) ==
  /\ stage[g] = from
  /\ stage' = [stage EXCEPT ![g] = to]

\* json.Marshal refuses an infinite number.
FixMarshals(g) == g \notin infinite
StateMarshals(s) == \A a \in Aircraft : s[a] \notin infinite

-----------------------------------------------------------------------------
(***************************************************************************)
(* The goroutines of OnReady                                               *)
(***************************************************************************)

\* Solve returns an error.
SolveFails(g) ==
  /\ Go(g, "solving", "done")
  /\ UNCHANGED <<publisher, infinite, stateVars, tickerVars, outputVars>>

\* Solve returns a fix; tracker.Update and calibrator.Update write nothing that
\* is read below.  computeGDOP is infinite for a singular geometry.
SolveAndTrack(g) ==
  /\ Go(g, "solving", "tracked")
  /\ infinite' \in {infinite, infinite \cup {g}}
  /\ UNCHANGED <<publisher, stateVars, tickerVars, outputVars>>

\* Mutant: a fix of an aircraft that is on the board is not counted again.
RecordFixUncounted(g) ==
  /\ Go(g, "tracked", "recorded")
  /\ board' = [board EXCEPT ![Icao[g]] = g]
  /\ old' = old \ {Icao[g]}
  /\ recorded' = IF board[Icao[g]] = NoFix THEN Append(recorded, g) ELSE recorded
  /\ UNCHANGED <<publisher, infinite, retired, tickerVars, outputVars>>

\* state.RecordFix: the fix is shown for its aircraft, whatever its time is, and
\* counted.
RecordFix(g) ==
  /\ Go(g, "tracked", "recorded")
  /\ board' = [board EXCEPT ![Icao[g]] = g]
  /\ old' = old \ {Icao[g]}
  /\ recorded' = Append(recorded, g)
  /\ UNCHANGED <<publisher, infinite, retired, tickerVars, outputVars>>

\* Mutant: the fix is dropped when the hub is busy with a state message.
BroadcastIfFree(g) ==
  /\ Go(g, "recorded", "announced")
  /\ log' = IF FixMarshals(g) /\ pending = {} THEN Append(log, Fix(g)) ELSE log
  /\ UNCHANGED <<publisher, infinite, stateVars, tickerVars, topic>>

\* server.Broadcast: the fix gets its place in the log, or is dropped without a
\* word when it cannot be marshalled.
Broadcast(g) ==
  /\ Go(g, "recorded", "announced")
  /\ log' = IF FixMarshals(g) THEN Append(log, Fix(g)) ELSE log
  /\ UNCHANGED <<publisher, infinite, stateVars, tickerVars, topic>>

\* publisher.Publish: the record is submitted.  Errors of marshalling and of the
\* ledger are logged, nothing else; without a publisher there is nothing to do.
Publish(g) ==
  /\ Go(g, "announced", "done")
  /\ \/ publisher /\ FixMarshals(g) /\ topic' = Append(topic, Fix(g))
     \/ UNCHANGED topic
  /\ UNCHANGED <<publisher, infinite, stateVars, tickerVars, log>>

-----------------------------------------------------------------------------
(***************************************************************************)
(* Snapshots and the tickers                                               *)
(***************************************************************************)

\* A fix passes the age of activeRetention.
Age(a) ==
  /\ board[a] # NoFix
  /\ a \notin old
  /\ old' = old \cup {a}
  /\ UNCHANGED <<publisher, stage, infinite, board, recorded, retired, tickerVars,
                 outputVars>>

\* The board without the aircraft that a Snapshot takes off it.
Trimmed == [a \in Aircraft |-> IF a \in old THEN NoFix ELSE board[a]]

Snapshot ==
  /\ board' = Trimmed
  /\ old' = {}
  /\ retired' = retired \cup {board[a] : a \in old}
  /\ UNCHANGED <<publisher, stage, infinite, recorded, outputVars>>

\* Mutant: a snapshot that shows aircraft is used again.
TickCached ==
  /\ pending = {} /\ states < MaxStates
  /\ states' = states + 1
  /\ Snapshot
  /\ LET sent == {i \in DOMAIN log : log[i].type = "state"}
         shown == IF sent = {} THEN Trimmed ELSE log[CHOOSE i \in sent : TRUE].shows
     IN  pending' = IF StateMarshals(shown) THEN {State(shown)} ELSE {}
  /\ UNCHANGED <<summary, summaries>>

\* The state ticker takes a snapshot; when it can be marshalled, Broadcast
\* goes on to wait for the hub.
Tick ==
  /\ pending = {} /\ states < MaxStates
  /\ states' = states + 1
  /\ Snapshot
  /\ pending' = IF StateMarshals(Trimmed) THEN {State(Trimmed)} ELSE {}
  /\ UNCHANGED <<summary, summaries>>

\* server.Broadcast: the snapshot gets its place in the log.
BroadcastState ==
  /\ pending # {}
  /\ \E m \in pending : log' = Append(log, m)
  /\ pending' = {}
  /\ UNCHANGED <<publisher, stage, infinite, stateVars, summary, states, summaries, topic>>

\* Mutant: only what has been announced is counted.
TotalAnnounced == Cardinality({i \in DOMAIN log : log[i].type = "fix"})

\* snapshot.Analytics.TotalFixes
TotalFixes == Len(recorded)

\* The audit ticker, which exists with a publisher only, takes a snapshot.  Its
\* averages leave out an infinite GDOP, so it can always be marshalled.
AuditTick ==
  /\ publisher
  /\ summary = {} /\ summaries < MaxSummaries
  /\ summaries' = summaries + 1
  /\ Snapshot
  /\ summary' = {Summary(TotalFixes)}
  /\ UNCHANGED <<pending, states>>

\* publisher.Publish, which may fail.
PublishSummary ==
  /\ summary # {}
  /\ \/ \E r \in summary : topic' = Append(topic, r)
     \/ UNCHANGED topic
  /\ summary' = {}
  /\ UNCHANGED <<publisher, stage, infinite, stateVars, pending, states, summaries, log>>

-----------------------------------------------------------------------------

Next ==
  \/ \E g \in Goroutines :
       SolveFails(g) \/ SolveAndTrack(g) \/ RecordFix(g) \/ Broadcast(g) \/ Publish(g)
  \/ \E a \in Aircraft : Age(a)
  \/ Tick \/ BroadcastState
  \/ AuditTick \/ PublishSummary

Spec == Init /\ [][Next]_vars

-----------------------------------------------------------------------------
(***************************************************************************)
(* Properties                                                              *)
(***************************************************************************)

FixMessages == [type : {"fix"}, fix : Goroutines]
StateMessages == [type : {"state"}, shows : Shown]
SummaryRecords == [type : {"summary"}, total : Nat]

\* The types, and that the board shows what was recorded, each aircraft a fix of
\* its own.
TypeOK ==
  /\ publisher \in BOOLEAN
  /\ stage \in [Goroutines -> {"solving", "tracked", "recorded", "announced", "done"}]
  /\ infinite \subseteq Goroutines
  /\ board \in Shown /\ old \subseteq {a \in Aircraft : board[a] # NoFix}
  /\ \A a \in Aircraft : board[a] # NoFix => board[a] \in Range(recorded) /\ Icao[board[a]] = a
  /\ recorded \in Seq(Goroutines) /\ retired \subseteq Range(recorded)
  /\ pending \subseteq StateMessages /\ Cardinality(pending) <= 1
  /\ summary \subseteq SummaryRecords /\ Cardinality(summary) <= 1
  /\ states \in 0..MaxStates /\ summaries \in 0..MaxSummaries
  /\ log \in Seq(FixMessages \cup StateMessages)
  /\ topic \in Seq(FixMessages \cup SummaryRecords)

Positions(records, type) == {i \in DOMAIN records : records[i].type = type}

\* Fix g was recorded no later than fix h.
NotAfter(g, h) ==
  \E i, j \in DOMAIN recorded : i <= j /\ recorded[i] = g /\ recorded[j] = h

\* What is shown for the aircraft of fix g is g or was recorded later; nothing
\* is shown only if that was taken off the board for its age.
Covers(shows, g) ==
  \/ NotAfter(g, shows[Icao[g]])
  \/ /\ shows[Icao[g]] = NoFix
     /\ \E h \in retired : Icao[h] = Icao[g] /\ NotAfter(g, h)

\* A page is at most one tick behind.  Fixes may be announced in another order
\* than they were recorded in, and a state message may be older than the fixes
\* before it; but it covers every fix that was announced before the previous
\* state message (main.go:129-143, main.go:166-177).
StatesCatchUp ==
  \A i, j \in Positions(log, "state") : \A k \in Positions(log, "fix") :
    k < i /\ i < j => Covers(log[j].shows, log[k].fix)

\* The audit topic adds up with the same delay: a network summary counts every
\* fix that was audited before the summary before it (main.go:180-205).
SummariesCatchUp ==
  \A i, j \in Positions(topic, "summary") : \A k \in Positions(topic, "fix") :
    k < i /\ i < j =>
      \E n \in DOMAIN recorded : recorded[n] = topic[k].fix /\ n <= topic[j].total

FixesIn(records) == {records[k].fix : k \in Positions(records, "fix")}

\* Browsers are never told less without a reason: a recorded fix whose Broadcast
\* has returned is in the log or has an infinite GDOP; a tick that left no state
\* message needs a recorded fix with an infinite GDOP (websocket.go:27-30).
SilenceHasCause ==
  /\ \A g \in Range(recorded) :
       stage[g] \in {"announced", "done"} => g \in FixesIn(log) \cup infinite
  /\ Cardinality(Positions(log, "state")) + Cardinality(pending) < states
       => \E g \in Range(recorded) : g \in infinite

\* The outputs do not contradict each other: whatever fix the audit topic has,
\* the browsers were told once, and what they were told was recorded once
\* (main.go:129-163).
OutputsAgree ==
  /\ FixesIn(topic) \subseteq FixesIn(log)
  /\ FixesIn(log) \subseteq Range(recorded)
  /\ \A s \in {log, topic} : \A i, j \in Positions(s, "fix") :
       s[i].fix = s[j].fix => i = j
=============================================================================
