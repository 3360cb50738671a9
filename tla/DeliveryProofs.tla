---------------------------- MODULE DeliveryProofs --------------------------
(***************************************************************************)
(* Theorems about module Delivery, for any number of goroutines, aircraft, *)
(* snapshots and summaries.                                                *)
(***************************************************************************)
EXTENDS Delivery, FiniteSetTheorems, TLAPS

USE DEF Fix, State, Summary, Go, stateVars, tickerVars, outputVars

-----------------------------------------------------------------------------
(* Sequences that grow at their end. *)

LEMMA Grows ==
  ASSUME NEW S, NEW s \in Seq(S), NEW e \in S
  PROVE  /\ Append(s, e) \in Seq(S)
         /\ DOMAIN Append(s, e) = DOMAIN s \cup {Len(s) + 1}
         /\ \A i \in DOMAIN s : i \in Nat /\ i < Len(s) + 1 /\ Append(s, e)[i] = s[i]
         /\ Append(s, e)[Len(s) + 1] = e
         /\ Len(Append(s, e)) = Len(s) + 1
  OBVIOUS

LEMMA RangeGrows ==
  ASSUME NEW S, NEW s \in Seq(S), NEW e \in S
  PROVE  Range(Append(s, e)) = Range(s) \cup {e}
<1>1. /\ DOMAIN Append(s, e) = DOMAIN s \cup {Len(s) + 1}
      /\ \A i \in DOMAIN s : Append(s, e)[i] = s[i]
      /\ Append(s, e)[Len(s) + 1] = e
  BY Grows
<1> QED
  BY <1>1 DEF Range

\* What the log and the topic are made of.
Records == FixMessages \cup StateMessages \cup SummaryRecords

LEMMA PositionsGrow ==
  ASSUME NEW s \in Seq(Records), NEW e \in Records, NEW t
  PROVE  Positions(Append(s, e), t) =
           Positions(s, t) \cup (IF e.type = t THEN {Len(s) + 1} ELSE {})
<1>1. /\ DOMAIN Append(s, e) = DOMAIN s \cup {Len(s) + 1}
      /\ \A i \in DOMAIN s : Append(s, e)[i] = s[i]
      /\ Append(s, e)[Len(s) + 1] = e
  BY Grows
<1> QED
  BY <1>1 DEF Positions

LEMMA FixesGrow ==
  ASSUME NEW s \in Seq(Records), NEW e \in Records
  PROVE  FixesIn(Append(s, e)) =
           FixesIn(s) \cup (IF e.type = "fix" THEN {e.fix} ELSE {})
<1>1. /\ \A i \in DOMAIN s : Append(s, e)[i] = s[i]
      /\ Append(s, e)[Len(s) + 1] = e
  BY Grows
<1>2. Positions(Append(s, e), "fix") =
        Positions(s, "fix") \cup (IF e.type = "fix" THEN {Len(s) + 1} ELSE {})
  BY PositionsGrow
<1>3. Positions(s, "fix") \subseteq DOMAIN s
  BY DEF Positions
<1> QED
  BY <1>1, <1>2, <1>3 DEF FixesIn

-----------------------------------------------------------------------------
(* Types *)

LEMMA InitTypes == Init => TypeOK
  BY ConstantsAssumption, FS_EmptySet DEF Init, TypeOK, Shown, ConstantsAssumption, Range

LEMMA TrimmedTypes ==
  ASSUME TypeOK
  PROVE  /\ Trimmed \in Shown
         /\ \A a \in Aircraft : a \notin old => Trimmed[a] = board[a]
         /\ \A a \in old : Trimmed[a] = NoFix /\ board[a] \in Range(recorded)
         /\ {board[a] : a \in old} \subseteq Range(recorded)
  BY DEF TypeOK, Trimmed, Shown

LEMMA TypesStep ==
  ASSUME TypeOK, [Next]_vars
  PROVE  TypeOK'
<1> USE DEF TypeOK
<1> USE ConstantsAssumption DEF ConstantsAssumption
<1>1. CASE \E g \in Goroutines : SolveFails(g) \/ SolveAndTrack(g)
  BY <1>1 DEF SolveFails, SolveAndTrack
<1>2. ASSUME NEW g \in Goroutines, RecordFix(g) PROVE TypeOK'
  <2>1. recorded' \in Seq(Goroutines) /\ Range(recorded') = Range(recorded) \cup {g}
    BY <1>2, Grows, RangeGrows DEF RecordFix
  <2>2. board' \in Shown
    BY <1>2 DEF RecordFix, Shown
  <2>3. \A a \in Aircraft :
          board'[a] # NoFix => board'[a] \in Range(recorded') /\ Icao[board'[a]] = a
    BY <1>2, <2>1 DEF RecordFix, Shown
  <2>4. old' \subseteq {a \in Aircraft : board'[a] # NoFix}
    BY <1>2 DEF RecordFix, Shown
  <2> QED
    BY <1>2, <2>1, <2>2, <2>3, <2>4 DEF RecordFix
<1>3. ASSUME NEW g \in Goroutines, Broadcast(g) PROVE TypeOK'
  BY <1>3 DEF Broadcast, FixMessages
<1>4. ASSUME NEW g \in Goroutines, Publish(g) PROVE TypeOK'
  <2>1. Append(topic, Fix(g)) \in Seq(FixMessages \cup SummaryRecords)
    BY DEF FixMessages
  <2>2. topic' \in Seq(FixMessages \cup SummaryRecords)
    BY <1>4, <2>1 DEF Publish
  <2> QED
    BY <1>4, <2>2 DEF Publish
<1>5. CASE \E a \in Aircraft : Age(a)
  BY <1>5 DEF Age
<1>6. ASSUME Snapshot
      PROVE  /\ board' \in Shown /\ old' = {}
             /\ \A a \in Aircraft :
                  board'[a] # NoFix => board'[a] \in Range(recorded') /\ Icao[board'[a]] = a
             /\ retired' \subseteq Range(recorded')
             /\ UNCHANGED <<publisher, stage, infinite, recorded, outputVars>>
  BY <1>6, TrimmedTypes DEF Snapshot
<1>7. CASE Tick
  <2>1. pending' \subseteq StateMessages /\ Cardinality(pending') <= 1
    <3>1. State(Trimmed) \in StateMessages
      BY TrimmedTypes DEF StateMessages
    <3>2. pending' = {State(Trimmed)} \/ pending' = {}
      BY <1>7 DEF Tick
    <3>3. Cardinality({State(Trimmed)}) = 1 /\ Cardinality({}) = 0
      BY FS_Singleton, FS_EmptySet
    <3>4. CASE pending' = {State(Trimmed)}
      BY <3>1, <3>3, <3>4
    <3>5. CASE pending' = {}
      BY <3>3, <3>5
    <3> QED
      BY <3>2, <3>4, <3>5
  <2> QED
    BY <1>6, <1>7, <2>1 DEF Tick
<1>8. CASE BroadcastState
  BY <1>8, FS_EmptySet DEF BroadcastState
<1>9. CASE AuditTick
  <2>1. summary' \subseteq SummaryRecords /\ Cardinality(summary') <= 1
    <3>1. Summary(TotalFixes) \in SummaryRecords
      BY DEF SummaryRecords, TotalFixes
    <3>2. Cardinality({Summary(TotalFixes)}) = 1
      BY FS_Singleton
    <3> QED
      BY <1>9, <3>1, <3>2 DEF AuditTick
  <2> QED
    BY <1>6, <1>9, <2>1 DEF AuditTick
<1>10. CASE PublishSummary
  <2>1. \A r \in summary : Append(topic, r) \in Seq(FixMessages \cup SummaryRecords)
    OBVIOUS
  <2>2. topic' \in Seq(FixMessages \cup SummaryRecords)
    BY <1>10, <2>1 DEF PublishSummary
  <2>3. summary' \subseteq SummaryRecords /\ Cardinality(summary') <= 1
    BY <1>10, FS_EmptySet DEF PublishSummary
  <2> QED
    BY <1>10, <2>2, <2>3 DEF PublishSummary
<1>11. CASE UNCHANGED vars
  BY <1>11 DEF vars
<1> QED
  BY <1>1, <1>2, <1>3, <1>4, <1>5, <1>7, <1>8, <1>9, <1>10, <1>11 DEF Next

\* The board shows for each aircraft a fix of its own that was recorded
\* (app_state.go:198-211).
THEOREM TypeCorrect == Spec => []TypeOK
  BY InitTypes, TypesStep, PTL DEF Spec
-----------------------------------------------------------------------------
(* Fixes go from the board to the log, and from there to the topic. *)

FlowInv ==
  /\ \A g \in Goroutines : stage[g] \in {"recorded", "announced"} => g \in Range(recorded)
  /\ \A g \in Range(recorded) :
       /\ stage[g] \in {"recorded", "announced", "done"}
       /\ stage[g] \in {"announced", "done"} => g \in FixesIn(log) \cup infinite
  /\ \A g \in FixesIn(log) : stage[g] \in {"announced", "done"}
  /\ \A g \in FixesIn(topic) : stage[g] = "done"
  /\ OutputsAgree

LEMMA EmptyRecords == FixesIn(<<>>) = {} /\ Range(<<>>) = {} /\ \A t : Positions(<<>>, t) = {}
  BY DEF FixesIn, Positions, Range

LEMMA InitFlow == Init => FlowInv
  BY EmptyRecords DEF Init, FlowInv, OutputsAgree

\* A record that is no fix, or a fix that is not there yet, keeps fixes apart.
LEMMA OnceMore ==
  ASSUME NEW s \in Seq(Records), NEW e \in Records,
         \A i, j \in Positions(s, "fix") : s[i].fix = s[j].fix => i = j,
         e.type = "fix" => e.fix \notin FixesIn(s)
  PROVE  \A i, j \in Positions(Append(s, e), "fix") :
           Append(s, e)[i].fix = Append(s, e)[j].fix => i = j
<1>1. /\ \A i \in DOMAIN s : Append(s, e)[i] = s[i]
      /\ Append(s, e)[Len(s) + 1] = e
  BY Grows
<1>2. Positions(Append(s, e), "fix") =
        Positions(s, "fix") \cup (IF e.type = "fix" THEN {Len(s) + 1} ELSE {})
  BY PositionsGrow
<1>3. Positions(s, "fix") \subseteq DOMAIN s
  BY DEF Positions
<1>4. \A i \in Positions(s, "fix") : s[i].fix \in FixesIn(s)
  BY DEF FixesIn
<1> QED
  BY <1>1, <1>2, <1>3, <1>4

LEMMA FlowStep ==
  ASSUME TypeOK, FlowInv, [Next]_vars
  PROVE  FlowInv'
<1> USE DEF FlowInv, OutputsAgree
<1>0. /\ stage \in [Goroutines -> {"solving", "tracked", "recorded", "announced", "done"}]
      /\ recorded \in Seq(Goroutines) /\ infinite \subseteq Goroutines
      /\ Range(recorded) \subseteq Goroutines
      /\ log \in Seq(Records) /\ topic \in Seq(Records)
      /\ pending \subseteq StateMessages /\ summary \subseteq SummaryRecords
  BY DEF TypeOK, Range, Records
<1>1. ASSUME UNCHANGED <<stage, infinite, recorded, log, topic>>
      PROVE  FlowInv'
  BY <1>1 DEF FixesIn, Positions, Range
<1>2. ASSUME NEW g \in Goroutines, SolveFails(g) \/ SolveAndTrack(g)
      PROVE  FlowInv'
  <2>1. /\ stage[g] = "solving" /\ stage'[g] \in {"tracked", "done"}
        /\ \A h \in Goroutines : h # g => stage'[h] = stage[h]
        /\ infinite \subseteq infinite'
        /\ UNCHANGED <<recorded, log, topic>>
    BY <1>0, <1>2 DEF SolveFails, SolveAndTrack
  <2>2. g \notin Range(recorded) /\ g \notin FixesIn(log) /\ g \notin FixesIn(topic)
    BY <2>1
  <2>3. UNCHANGED <<Range(recorded), FixesIn(log), FixesIn(topic)>>
    BY <2>1 DEF Range, FixesIn, Positions
  <2>4. OutputsAgree'
    BY <2>1 DEF FixesIn, Positions, Range
  <2> QED
    BY <1>0, <2>1, <2>2, <2>3, <2>4
<1>3. ASSUME NEW g \in Goroutines, RecordFix(g) PROVE FlowInv'
  <2>1. /\ stage[g] = "tracked" /\ stage'[g] = "recorded"
        /\ \A h \in Goroutines : h # g => stage'[h] = stage[h]
        /\ UNCHANGED <<infinite, log, topic>>
    BY <1>0, <1>3 DEF RecordFix
  <2>2. Range(recorded') = Range(recorded) \cup {g}
    BY <1>0, <1>3, RangeGrows DEF RecordFix
  <2>3. g \notin FixesIn(log) /\ g \notin FixesIn(topic)
    BY <2>1
  <2>4. UNCHANGED <<FixesIn(log), FixesIn(topic)>>
    BY <2>1 DEF FixesIn, Positions
  <2>5. OutputsAgree'
    BY <2>1, <2>2 DEF FixesIn, Positions
  <2> QED
    BY <1>0, <2>1, <2>2, <2>3, <2>4, <2>5
<1>4. ASSUME NEW g \in Goroutines, Broadcast(g) PROVE FlowInv'
  <2>1. /\ stage[g] = "recorded" /\ stage'[g] = "announced"
        /\ \A h \in Goroutines : h # g => stage'[h] = stage[h]
        /\ UNCHANGED <<infinite, recorded, topic>>
    BY <1>0, <1>4 DEF Broadcast
  <2>2. g \in Range(recorded) /\ g \notin FixesIn(log) /\ g \notin FixesIn(topic)
    BY <2>1
  <2>3. UNCHANGED <<Range(recorded), FixesIn(topic)>>
    BY <2>1 DEF Range, FixesIn, Positions
  <2>4. CASE g \in infinite
    <3>1. log' = log
      BY <1>4, <2>4 DEF Broadcast, FixMarshals
    <3>2. UNCHANGED FixesIn(log) /\ OutputsAgree'
      BY <2>1, <3>1 DEF FixesIn, Positions, Range
    <3> QED
      BY <1>0, <2>1, <2>2, <2>3, <2>4, <3>2
  <2>5. CASE g \notin infinite
    <3>1. log' = Append(log, Fix(g)) /\ Fix(g) \in Records
      BY <1>4, <2>5 DEF Broadcast, FixMarshals, FixMessages, Records
    <3>2. FixesIn(log') = FixesIn(log) \cup {g}
      BY <1>0, <3>1, FixesGrow
    <3>3. \A i, j \in Positions(log', "fix") : log'[i].fix = log'[j].fix => i = j
      BY <1>0, <2>2, <3>1, OnceMore
    <3>4. \A i, j \in Positions(topic', "fix") : topic'[i].fix = topic'[j].fix => i = j
      BY <2>1 DEF Positions
    <3>5. OutputsAgree'
      BY <2>2, <2>3, <3>2, <3>3, <3>4
    <3> QED
      BY <1>0, <2>1, <2>2, <2>3, <3>2, <3>5
  <2> QED
    BY <2>4, <2>5
<1>5. ASSUME NEW g \in Goroutines, Publish(g) PROVE FlowInv'
  <2>1. /\ stage[g] = "announced" /\ stage'[g] = "done"
        /\ \A h \in Goroutines : h # g => stage'[h] = stage[h]
        /\ UNCHANGED <<infinite, recorded, log>>
    BY <1>0, <1>5 DEF Publish
  <2>2. g \in Range(recorded) /\ g \notin FixesIn(topic)
    BY <2>1
  <2>3. UNCHANGED <<Range(recorded), FixesIn(log)>>
    BY <2>1 DEF Range, FixesIn, Positions
  <2>4. CASE UNCHANGED topic
    <3>1. UNCHANGED FixesIn(topic) /\ OutputsAgree'
      BY <2>1, <2>4 DEF FixesIn, Positions, Range
    <3> QED
      BY <1>0, <2>1, <2>2, <2>3, <3>1
  <2>5. CASE g \notin infinite /\ topic' = Append(topic, Fix(g))
    <3>1. Fix(g) \in Records
      BY DEF FixMessages, Records
    <3>2. FixesIn(topic') = FixesIn(topic) \cup {g}
      BY <1>0, <2>5, <3>1, FixesGrow
    <3>3. \A i, j \in Positions(topic', "fix") : topic'[i].fix = topic'[j].fix => i = j
      BY <1>0, <2>2, <2>5, <3>1, OnceMore
    <3>4. \A i, j \in Positions(log', "fix") : log'[i].fix = log'[j].fix => i = j
      BY <2>1 DEF Positions
    <3>5. g \in FixesIn(log)
      BY <2>1, <2>2, <2>5
    <3>6. OutputsAgree'
      BY <2>3, <3>2, <3>3, <3>4, <3>5
    <3> QED
      BY <1>0, <2>1, <2>2, <2>3, <3>2, <3>6
  <2> QED
    BY <1>5, <2>4, <2>5 DEF Publish, FixMarshals
<1>6. CASE BroadcastState
  <2>1. PICK m \in pending : log' = Append(log, m)
    BY <1>6 DEF BroadcastState
  <2>2. m \in Records /\ m.type = "state"
    BY <1>0 DEF StateMessages, Records
  <2>3. UNCHANGED <<stage, infinite, recorded, topic>>
    BY <1>6 DEF BroadcastState
  <2>4. FixesIn(log') = FixesIn(log)
    BY <1>0, <2>1, <2>2, FixesGrow
  <2>5. \A i, j \in Positions(log', "fix") : log'[i].fix = log'[j].fix => i = j
    BY <1>0, <2>1, <2>2, OnceMore
  <2>6. UNCHANGED <<Range(recorded), FixesIn(topic)>>
        /\ \A i, j \in Positions(topic', "fix") : topic'[i].fix = topic'[j].fix => i = j
    BY <2>3 DEF Range, FixesIn, Positions
  <2> QED
    BY <2>3, <2>4, <2>5, <2>6
<1>7. CASE PublishSummary
  <2>0. UNCHANGED <<stage, infinite, recorded, log>>
    BY <1>7 DEF PublishSummary
  <2>1. CASE UNCHANGED topic
    BY <1>1, <2>0, <2>1
  <2>2. ASSUME NEW r \in summary, topic' = Append(topic, r) PROVE FlowInv'
    <3>2. r \in Records /\ r.type = "summary"
      BY <1>0 DEF SummaryRecords, Records
    <3>4. FixesIn(topic') = FixesIn(topic)
      BY <1>0, <2>2, <3>2, FixesGrow
    <3>5. \A i, j \in Positions(topic', "fix") : topic'[i].fix = topic'[j].fix => i = j
      BY <1>0, <2>2, <3>2, OnceMore
    <3>6. UNCHANGED <<Range(recorded), FixesIn(log)>>
          /\ \A i, j \in Positions(log', "fix") : log'[i].fix = log'[j].fix => i = j
      BY <2>0 DEF Range, FixesIn, Positions
    <3> QED
      BY <2>0, <3>4, <3>5, <3>6
  <2> QED
    BY <1>7, <2>1, <2>2 DEF PublishSummary
<1>8. CASE (\E a \in Aircraft : Age(a)) \/ Tick \/ AuditTick \/ UNCHANGED vars
  BY <1>1, <1>8 DEF Age, Tick, AuditTick, Snapshot, vars
<1> QED
  BY <1>2, <1>3, <1>4, <1>5, <1>6, <1>7, <1>8 DEF Next

\* Whatever the audit topic has, the browsers were told once, and what they were
\* told was recorded once (main.go:129-163).
THEOREM OutputsAlwaysAgree == Spec => []OutputsAgree
<1>1. TypeOK /\ FlowInv /\ [Next]_vars => FlowInv'
  BY FlowStep
<1>2. FlowInv => OutputsAgree
  BY DEF FlowInv
<1> QED
  BY <1>1, <1>2, InitFlow, TypeCorrect, PTL DEF Spec

-----------------------------------------------------------------------------
(* Snapshots cover the fixes that were recorded before them. *)

\* Covers with the state it looks at as parameters.
NotAfterIn(rec, g, h) ==
  \E i, j \in DOMAIN rec : i <= j /\ rec[i] = g /\ rec[j] = h

CoversIn(rec, ret, shows, g) ==
  \/ NotAfterIn(rec, g, shows[Icao[g]])
  \/ /\ shows[Icao[g]] = NoFix
     /\ \E h \in ret : Icao[h] = Icao[g] /\ NotAfterIn(rec, g, h)

CoverInv ==
  /\ \A g \in Range(recorded) : CoversIn(recorded, retired, board, g)
  /\ \A m \in pending :
       \A i \in Positions(log, "state") : \A k \in Positions(log, "fix") :
         k < i => CoversIn(recorded, retired, m.shows, log[k].fix)
  /\ \A i, j \in Positions(log, "state") : \A k \in Positions(log, "fix") :
       k < i /\ i < j => CoversIn(recorded, retired, log[j].shows, log[k].fix)

LEMMA CoverMeans == CoverInv => StatesCatchUp
  BY DEF CoverInv, StatesCatchUp, Covers, NotAfter, CoversIn, NotAfterIn

\* What covers a fix goes on to, whatever is recorded and retired later.
LEMMA CoversLater ==
  ASSUME NEW rec \in Seq(Goroutines), NEW ret, NEW ret2, ret \subseteq ret2,
         NEW g \in Goroutines, NEW shows, NEW h, CoversIn(rec, ret, shows, h)
  PROVE  CoversIn(rec, ret2, shows, h) /\ CoversIn(Append(rec, g), ret2, shows, h)
<1>1. /\ DOMAIN Append(rec, g) = DOMAIN rec \cup {Len(rec) + 1}
      /\ \A i \in DOMAIN rec : Append(rec, g)[i] = rec[i]
  BY Grows
<1>2. \A a, b : NotAfterIn(rec, a, b) => NotAfterIn(Append(rec, g), a, b)
  BY <1>1 DEF NotAfterIn
<1> QED
  BY <1>2 DEF CoversIn

LEMMA InitCover == Init => CoverInv
  BY EmptyRecords DEF Init, CoverInv

\* A snapshot covers what is recorded, and so does the board that it leaves.
LEMMA SnapshotCovers ==
  ASSUME TypeOK, CoverInv, Snapshot
  PROVE  \A g \in Range(recorded) : CoversIn(recorded, retired', Trimmed, g)
<1> SUFFICES ASSUME NEW g \in Range(recorded)
             PROVE  CoversIn(recorded, retired', Trimmed, g)
  OBVIOUS
<1>1. /\ g \in Goroutines /\ Icao[g] \in Aircraft
      /\ CoversIn(recorded, retired, board, g)
      /\ retired' = retired \cup {board[a] : a \in old}
      /\ old \subseteq {a \in Aircraft : board[a] # NoFix}
      /\ \A a \in Aircraft : board[a] # NoFix => Icao[board[a]] = a
  BY ConstantsAssumption DEF CoverInv, Snapshot, TypeOK, Range, ConstantsAssumption
<1>2. CASE Icao[g] \in old
  <2>1. board[Icao[g]] # NoFix /\ Trimmed[Icao[g]] = NoFix
    BY <1>1, <1>2 DEF Trimmed
  <2>2. NotAfterIn(recorded, g, board[Icao[g]])
    BY <1>1, <2>1 DEF CoversIn
  <2>3. board[Icao[g]] \in retired' /\ Icao[board[Icao[g]]] = Icao[g]
    BY <1>1, <1>2, <2>1
  <2> QED
    BY <2>1, <2>2, <2>3 DEF CoversIn
<1>3. CASE Icao[g] \notin old
  <2>1. Trimmed[Icao[g]] = board[Icao[g]]
    BY <1>1, <1>3 DEF Trimmed
  <2> QED
    BY <1>1, <2>1 DEF CoversIn
<1> QED
  BY <1>2, <1>3

LEMMA CoverStep ==
  ASSUME TypeOK, FlowInv, CoverInv, [Next]_vars
  PROVE  CoverInv'
<1>0. /\ recorded \in Seq(Goroutines) /\ Range(recorded) \subseteq Goroutines
      /\ log \in Seq(Records) /\ pending \subseteq StateMessages
      /\ board \in Shown /\ Icao \in [Goroutines -> Aircraft]
  BY ConstantsAssumption DEF TypeOK, Range, Records, ConstantsAssumption
<1>1. ASSUME UNCHANGED <<recorded, retired, board, pending, log>>
      PROVE  CoverInv'
  BY <1>1 DEF CoverInv, Positions, Range, CoversIn, NotAfterIn
<1>2. CASE \E g \in Goroutines : SolveFails(g) \/ SolveAndTrack(g) \/ Publish(g)
  BY <1>1, <1>2 DEF SolveFails, SolveAndTrack, Publish
<1>3. CASE (\E a \in Aircraft : Age(a)) \/ PublishSummary \/ UNCHANGED vars
  BY <1>1, <1>3 DEF Age, PublishSummary, vars
<1>4. ASSUME NEW g \in Goroutines, RecordFix(g) PROVE CoverInv'
  <2>1. /\ recorded' = Append(recorded, g) /\ board' = [board EXCEPT ![Icao[g]] = g]
        /\ UNCHANGED <<retired, pending, log>>
    BY <1>4 DEF RecordFix
  <2>2. \A shows, h : CoversIn(recorded, retired, shows, h)
                        => CoversIn(recorded', retired', shows, h)
    BY <1>0, <2>1, CoversLater
  <2>3. Range(recorded') = Range(recorded) \cup {g}
    BY <1>0, <2>1, RangeGrows
  <2>4. ASSUME NEW h \in Range(recorded') PROVE CoversIn(recorded', retired', board', h)
    <3>0. h \in Goroutines
      BY <1>0, <2>3
    <3>1. CASE Icao[h] = Icao[g]
      <4>1. board'[Icao[h]] = g
        BY <1>0, <2>1, <3>1 DEF Shown
      <4>2. PICK i \in DOMAIN recorded' : recorded'[i] = h
        BY <2>4 DEF Range
      <4>3. /\ i <= Len(recorded) + 1 /\ Len(recorded) + 1 \in DOMAIN recorded'
            /\ recorded'[Len(recorded) + 1] = g
        BY <1>0, <2>1, <4>2
      <4>4. NotAfterIn(recorded', h, g)
        BY <4>2, <4>3 DEF NotAfterIn
      <4> QED
        BY <4>1, <4>4 DEF CoversIn
    <3>2. CASE Icao[h] # Icao[g]
      <4>1. board'[Icao[h]] = board[Icao[h]]
        BY <1>0, <2>1, <3>0, <3>2 DEF Shown
      <4>2. h \in Range(recorded)
        BY <2>3, <3>2
      <4>3. CoversIn(recorded', retired', board, h)
        BY <2>2, <4>2 DEF CoverInv
      <4> QED
        BY <4>1, <4>3 DEF CoversIn
    <3> QED
      BY <3>1, <3>2
  <2>5. \A t : UNCHANGED Positions(log, t)
    BY <2>1 DEF Positions
  <2> QED
    BY <2>1, <2>2, <2>4, <2>5 DEF CoverInv
<1>5. ASSUME NEW g \in Goroutines, Broadcast(g) PROVE CoverInv'
  <2>0. UNCHANGED <<recorded, retired, board, pending>>
    BY <1>5 DEF Broadcast
  <2>1. CASE UNCHANGED log
    BY <1>1, <2>0, <2>1
  <2>2. CASE log' = Append(log, Fix(g))
    <3>1. Fix(g) \in Records /\ Fix(g).type = "fix"
      BY DEF Records, FixMessages
    <3>2. /\ Positions(log', "state") = Positions(log, "state")
          /\ Positions(log', "fix") = Positions(log, "fix") \cup {Len(log) + 1}
      <4>1. \A t : Positions(log', t) =
                     Positions(log, t) \cup (IF Fix(g).type = t THEN {Len(log) + 1} ELSE {})
        BY <1>0, <2>2, <3>1, PositionsGrow
      <4> QED
        BY <3>1, <4>1
    <3>3. \A i \in DOMAIN log : i \in Nat /\ i < Len(log) + 1 /\ log'[i] = log[i]
      BY <1>0, <2>2, <3>1, Grows
    <3>4. \A t : Positions(log, t) \subseteq DOMAIN log
      BY DEF Positions
    <3>5. \A i \in Positions(log', "state") : \A k \in Positions(log', "fix") :
            k < i => k \in Positions(log, "fix")
      BY <1>0, <3>2, <3>3, <3>4
    <3> QED
      BY <2>0, <3>2, <3>3, <3>4, <3>5 DEF CoverInv, Range
  <2> QED
    BY <1>5, <2>1, <2>2 DEF Broadcast
<1>6. ASSUME Snapshot PROVE
        /\ UNCHANGED <<recorded, log>>
        /\ \A g \in Range(recorded') : CoversIn(recorded', retired', board', g)
        /\ \A g \in Range(recorded') : CoversIn(recorded', retired', Trimmed, g)
        /\ \A i, j \in Positions(log', "state") : \A k \in Positions(log', "fix") :
             k < i /\ i < j => CoversIn(recorded', retired', log'[j].shows, log'[k].fix)
        /\ \A shows, h : CoversIn(recorded, retired, shows, h)
                           => CoversIn(recorded', retired', shows, h)
  <2>1. /\ UNCHANGED <<recorded, log>> /\ board' = Trimmed
        /\ retired \subseteq retired'
    BY <1>6 DEF Snapshot
  <2>2. \A shows, h : CoversIn(recorded, retired, shows, h)
                        => CoversIn(recorded', retired', shows, h)
    BY <1>0, <2>1, CoversLater DEF CoversIn
  <2>3. \A g \in Range(recorded) : CoversIn(recorded, retired', Trimmed, g)
    BY <1>6, SnapshotCovers
  <2>4. UNCHANGED Range(recorded) /\ \A t : UNCHANGED Positions(log, t)
    BY <2>1 DEF Positions, Range
  <2> QED
    BY <2>1, <2>2, <2>3, <2>4 DEF CoverInv
<1>7. CASE AuditTick
  <2>1. UNCHANGED pending /\ \A t : UNCHANGED Positions(log, t)
    BY <1>7 DEF AuditTick, Snapshot, Positions
  <2> QED
    BY <1>6, <1>7, <2>1 DEF AuditTick, CoverInv
<1>8. CASE Tick
  <2>1. UNCHANGED log /\ \A t : UNCHANGED Positions(log, t)
    BY <1>8 DEF Tick, Snapshot, Positions
  <2>2. \A k \in Positions(log, "fix") : log[k].fix \in Range(recorded)
    BY DEF FlowInv, OutputsAgree, FixesIn
  <2>3. \A m \in pending' : m.shows = Trimmed
    BY <1>8 DEF Tick
  <2>4. UNCHANGED Range(recorded)
    BY <1>8 DEF Tick, Snapshot, Range
  <2> QED
    BY <1>6, <1>8, <2>1, <2>2, <2>3, <2>4 DEF Tick, CoverInv
<1>9. CASE BroadcastState
  <2>0. UNCHANGED <<recorded, retired, board>> /\ pending' = {}
    BY <1>9 DEF BroadcastState
  <2>1. PICK m \in pending : log' = Append(log, m)
    BY <1>9 DEF BroadcastState
  <2>2. m \in Records /\ m.type = "state"
    BY <1>0 DEF StateMessages, Records
  <2>3. /\ Positions(log', "state") = Positions(log, "state") \cup {Len(log) + 1}
        /\ Positions(log', "fix") = Positions(log, "fix")
    <3>1. \A t : Positions(log', t) =
                   Positions(log, t) \cup (IF m.type = t THEN {Len(log) + 1} ELSE {})
      BY <1>0, <2>1, <2>2, PositionsGrow
    <3> QED
      BY <2>2, <3>1
  <2>4. /\ \A i \in DOMAIN log : i \in Nat /\ i < Len(log) + 1 /\ log'[i] = log[i]
        /\ log'[Len(log) + 1] = m
    BY <1>0, <2>1, <2>2, Grows
  <2>5. \A t : Positions(log, t) \subseteq DOMAIN log
    BY DEF Positions
  <2>6. ASSUME NEW i \in Positions(log', "state"), NEW j \in Positions(log', "state"),
               NEW k \in Positions(log', "fix"), k < i, i < j
        PROVE  CoversIn(recorded, retired, log'[j].shows, log'[k].fix)
    <3>1. i \in Positions(log, "state") /\ log'[k] = log[k] /\ k \in Positions(log, "fix")
      BY <1>0, <2>3, <2>4, <2>5, <2>6
    <3>2. CASE j \in Positions(log, "state")
      BY <2>4, <2>5, <2>6, <3>1, <3>2 DEF CoverInv
    <3>3. CASE j = Len(log) + 1
      BY <2>4, <2>6, <3>1, <3>3 DEF CoverInv
    <3> QED
      BY <2>3, <3>2, <3>3
  <2> QED
    BY <2>0, <2>6 DEF CoverInv, Range
<1> QED
  BY <1>2, <1>3, <1>4, <1>5, <1>7, <1>8, <1>9 DEF Next

LEMMA FlowAlways == Spec => []FlowInv
  BY InitFlow, FlowStep, TypeCorrect, PTL DEF Spec

\* A state message covers every fix that was announced before the state message
\* before it: a page is at most one tick behind (main.go:129-143, 166-177).
THEOREM StatesAlwaysCatchUp == Spec => []StatesCatchUp
  BY InitCover, CoverStep, CoverMeans, TypeCorrect, FlowAlways, PTL DEF Spec

-----------------------------------------------------------------------------
(* Summaries count the fixes that were audited before them. *)

Counted(rec, n, g) == \E i \in DOMAIN rec : rec[i] = g /\ i <= n

SummaryInv ==
  /\ \A r \in summary :
       \A i \in Positions(topic, "summary") : \A k \in Positions(topic, "fix") :
         k < i => Counted(recorded, r.total, topic[k].fix)
  /\ \A i, j \in Positions(topic, "summary") : \A k \in Positions(topic, "fix") :
       k < i /\ i < j => Counted(recorded, topic[j].total, topic[k].fix)

LEMMA SummaryMeans == SummaryInv => SummariesCatchUp
  BY DEF SummaryInv, SummariesCatchUp, Counted

LEMMA InitSummary == Init => SummaryInv
  BY EmptyRecords DEF Init, SummaryInv

LEMMA SummaryStep ==
  ASSUME TypeOK, FlowInv, SummaryInv, [Next]_vars
  PROVE  SummaryInv'
<1>0. /\ recorded \in Seq(Goroutines) /\ topic \in Seq(Records)
      /\ summary \subseteq SummaryRecords
  BY DEF TypeOK, Records
<1>1. ASSUME UNCHANGED <<recorded, summary, topic>>
      PROVE  SummaryInv'
  BY <1>1 DEF SummaryInv, Positions, Counted
<1>2. CASE \E g \in Goroutines : SolveFails(g) \/ SolveAndTrack(g) \/ Broadcast(g)
  BY <1>1, <1>2 DEF SolveFails, SolveAndTrack, Broadcast
<1>3. CASE (\E a \in Aircraft : Age(a)) \/ Tick \/ BroadcastState \/ UNCHANGED vars
  BY <1>1, <1>3 DEF Age, Tick, Snapshot, BroadcastState, vars
<1>4. ASSUME NEW g \in Goroutines, RecordFix(g) PROVE SummaryInv'
  <2>1. recorded' = Append(recorded, g) /\ UNCHANGED <<summary, topic>>
    BY <1>4 DEF RecordFix
  <2>2. /\ DOMAIN recorded' = DOMAIN recorded \cup {Len(recorded) + 1}
        /\ \A i \in DOMAIN recorded : recorded'[i] = recorded[i]
    BY <1>0, <2>1, Grows
  <2>3. \A n, h : Counted(recorded, n, h) => Counted(recorded', n, h)
    BY <2>2 DEF Counted
  <2>4. \A t : UNCHANGED Positions(topic, t)
    BY <2>1 DEF Positions
  <2> QED
    BY <2>1, <2>3, <2>4 DEF SummaryInv
<1>5. ASSUME NEW g \in Goroutines, Publish(g) PROVE SummaryInv'
  <2>0. UNCHANGED <<recorded, summary>>
    BY <1>5 DEF Publish
  <2>1. CASE UNCHANGED topic
    BY <1>1, <2>0, <2>1
  <2>2. CASE topic' = Append(topic, Fix(g))
    <3>1. Fix(g) \in Records /\ Fix(g).type = "fix"
      BY DEF Records, FixMessages
    <3>2. /\ Positions(topic', "summary") = Positions(topic, "summary")
          /\ Positions(topic', "fix") = Positions(topic, "fix") \cup {Len(topic) + 1}
      <4>1. \A t : Positions(topic', t) =
                     Positions(topic, t) \cup (IF Fix(g).type = t THEN {Len(topic) + 1} ELSE {})
        BY <1>0, <2>2, <3>1, PositionsGrow
      <4> QED
        BY <3>1, <4>1
    <3>3. \A i \in DOMAIN topic : i \in Nat /\ i < Len(topic) + 1 /\ topic'[i] = topic[i]
      BY <1>0, <2>2, <3>1, Grows
    <3>4. \A t : Positions(topic, t) \subseteq DOMAIN topic
      BY DEF Positions
    <3>5. \A i \in Positions(topic', "summary") : \A k \in Positions(topic', "fix") :
            k < i => k \in Positions(topic, "fix")
      BY <1>0, <3>2, <3>3, <3>4
    <3> QED
      BY <2>0, <3>2, <3>3, <3>4, <3>5 DEF SummaryInv
  <2> QED
    BY <1>5, <2>1, <2>2 DEF Publish
<1>6. CASE AuditTick
  <2>1. UNCHANGED <<recorded, topic>> /\ summary' = {Summary(Len(recorded))}
    BY <1>6 DEF AuditTick, Snapshot, TotalFixes
  <2>2. \A t : UNCHANGED Positions(topic, t)
    BY <2>1 DEF Positions
  <2>3. \A k \in Positions(topic, "fix") : topic[k].fix \in Range(recorded)
    BY DEF FlowInv, OutputsAgree, FixesIn
  <2>4. \A g \in Range(recorded) : Counted(recorded, Len(recorded), g)
    BY <1>0 DEF Range, Counted
  <2> QED
    BY <2>1, <2>2, <2>3, <2>4 DEF SummaryInv
<1>7. CASE PublishSummary
  <2>0. UNCHANGED recorded /\ summary' = {}
    BY <1>7 DEF PublishSummary
  <2>1. CASE UNCHANGED topic
    BY <2>0, <2>1 DEF SummaryInv, Positions
  <2>2. ASSUME NEW r \in summary, topic' = Append(topic, r) PROVE SummaryInv'
    <3>1. r \in Records /\ r.type = "summary"
      BY <1>0 DEF SummaryRecords, Records
    <3>2. /\ Positions(topic', "summary") = Positions(topic, "summary") \cup {Len(topic) + 1}
          /\ Positions(topic', "fix") = Positions(topic, "fix")
      <4>1. \A t : Positions(topic', t) =
                     Positions(topic, t) \cup (IF r.type = t THEN {Len(topic) + 1} ELSE {})
        BY <1>0, <2>2, <3>1, PositionsGrow
      <4> QED
        BY <3>1, <4>1
    <3>3. /\ \A i \in DOMAIN topic : i \in Nat /\ i < Len(topic) + 1 /\ topic'[i] = topic[i]
          /\ topic'[Len(topic) + 1] = r
      BY <1>0, <2>2, <3>1, Grows
    <3>4. \A t : Positions(topic, t) \subseteq DOMAIN topic
      BY DEF Positions
    <3>5. ASSUME NEW i \in Positions(topic', "summary"), NEW j \in Positions(topic', "summary"),
                 NEW k \in Positions(topic', "fix"), k < i, i < j
          PROVE  Counted(recorded, topic'[j].total, topic'[k].fix)
      <4>1. /\ i \in Positions(topic, "summary") /\ topic'[k] = topic[k]
            /\ k \in Positions(topic, "fix")
        BY <1>0, <3>2, <3>3, <3>4, <3>5
      <4>2. CASE j \in Positions(topic, "summary")
        BY <3>3, <3>4, <3>5, <4>1, <4>2 DEF SummaryInv
      <4>3. CASE j = Len(topic) + 1
        BY <3>3, <3>5, <4>1, <4>3 DEF SummaryInv
      <4> QED
        BY <3>2, <4>2, <4>3
    <3> QED
      BY <2>0, <3>5 DEF SummaryInv
  <2> QED
    BY <1>7, <2>1, <2>2 DEF PublishSummary
<1> QED
  BY <1>2, <1>3, <1>4, <1>5, <1>6, <1>7 DEF Next

\* A network summary counts every fix that was audited before the summary before
\* it (main.go:180-205).
THEOREM SummariesAlwaysCatchUp == Spec => []SummariesCatchUp
  BY InitSummary, SummaryStep, SummaryMeans, TypeCorrect, FlowAlways, PTL DEF Spec

-----------------------------------------------------------------------------
(* What browsers are not told. *)

NumStates == Cardinality(Positions(log, "state"))

CountInv ==
  /\ pending = {} \/ \E m : pending = {m}
  /\ \/ NumStates + Cardinality(pending) = states
     \/ \E g \in Range(recorded) : g \in infinite

LEMMA CountMeans == TypeOK /\ FlowInv /\ CountInv => SilenceHasCause
<1> SUFFICES ASSUME TypeOK, FlowInv, CountInv PROVE SilenceHasCause
  OBVIOUS
<1>1. NumStates + Cardinality(pending) = states => ~(NumStates + Cardinality(pending) < states)
  BY DEF TypeOK
<1> QED
  BY <1>1 DEF FlowInv, CountInv, NumStates, SilenceHasCause

LEMMA InitCount == Init => CountInv
<1> SUFFICES ASSUME Init PROVE CountInv
  OBVIOUS
<1>1. Cardinality({}) = 0
  BY FS_EmptySet
<1>2. log = <<>> /\ pending = {} /\ states = 0
  BY DEF Init
<1>3. Positions(log, "state") = {}
  BY <1>2, EmptyRecords
<1>4. NumStates = 0 /\ Cardinality(pending) = 0
  BY <1>1, <1>2, <1>3 DEF NumStates
<1> QED
  BY <1>2, <1>4 DEF CountInv

LEMMA FinitelyMany ==
  ASSUME NEW s \in Seq(Records), NEW t
  PROVE  IsFiniteSet(Positions(s, t)) /\ Cardinality(Positions(s, t)) \in Nat
<1>1. Positions(s, t) \in SUBSET (1..Len(s)) /\ Len(s) \in Int
  BY DEF Positions
<1>2. IsFiniteSet(1..Len(s))
  BY <1>1, FS_Interval
<1> QED
  BY <1>1, <1>2, FS_Subset, FS_CardinalityType

LEMMA CountStep ==
  ASSUME TypeOK, CountInv, [Next]_vars
  PROVE  CountInv'
<1>0. /\ recorded \in Seq(Goroutines) /\ log \in Seq(Records)
      /\ pending \subseteq StateMessages /\ infinite \subseteq Goroutines
      /\ states \in Nat /\ NumStates \in Nat
  <2>1. /\ recorded \in Seq(Goroutines) /\ log \in Seq(Records)
        /\ pending \subseteq StateMessages /\ infinite \subseteq Goroutines
        /\ states \in Nat
    BY ConstantsAssumption DEF TypeOK, Records, ConstantsAssumption
  <2> QED
    BY <2>1, FinitelyMany DEF NumStates
<1>1. ASSUME Range(recorded) \subseteq Range(recorded'), infinite \subseteq infinite',
             UNCHANGED <<pending, states, NumStates>>
      PROVE  CountInv'
  BY <1>1 DEF CountInv
<1>2. CASE \/ \E g \in Goroutines : SolveFails(g) \/ SolveAndTrack(g) \/ Publish(g)
           \/ \E a \in Aircraft : Age(a)
           \/ AuditTick \/ PublishSummary \/ UNCHANGED vars
  <2>1. /\ UNCHANGED <<recorded, pending, states, log>>
        /\ infinite \subseteq infinite'
    BY <1>2 DEF SolveFails, SolveAndTrack, Publish, Age, AuditTick, Snapshot, PublishSummary, vars
  <2> QED
    BY <1>1, <2>1 DEF Range, NumStates, Positions
<1>3. ASSUME NEW g \in Goroutines, RecordFix(g) PROVE CountInv'
  <2>1. Range(recorded') = Range(recorded) \cup {g}
    BY <1>0, <1>3, RangeGrows DEF RecordFix
  <2>2. UNCHANGED <<pending, states, log, infinite>>
    BY <1>3 DEF RecordFix
  <2> QED
    BY <1>1, <2>1, <2>2 DEF NumStates, Positions
<1>4. ASSUME NEW g \in Goroutines, Broadcast(g) PROVE CountInv'
  <2>1. UNCHANGED <<pending, states, recorded, infinite>>
    BY <1>4 DEF Broadcast
  <2>2. CASE UNCHANGED log
    BY <1>1, <2>1, <2>2 DEF NumStates, Positions, Range
  <2>3. CASE log' = Append(log, Fix(g))
    <3>1. Fix(g) \in Records /\ Fix(g).type = "fix"
      BY DEF Records, FixMessages
    <3>2. Positions(log', "state") = Positions(log, "state") \cup
                                       (IF Fix(g).type = "state" THEN {Len(log) + 1} ELSE {})
      BY <1>0, <2>3, <3>1, PositionsGrow
    <3>3. Positions(log', "state") = Positions(log, "state")
      BY <3>1, <3>2
    <3> QED
      BY <1>1, <2>1, <3>3 DEF NumStates, Range
  <2> QED
    BY <1>4, <2>2, <2>3 DEF Broadcast
<1>5. CASE Tick
  <2>1. /\ pending = {} /\ states' = states + 1 /\ UNCHANGED <<log, recorded, infinite>>
        /\ pending' = IF StateMarshals(Trimmed) THEN {State(Trimmed)} ELSE {}
    BY <1>5 DEF Tick, Snapshot
  <2>2. UNCHANGED NumStates /\ UNCHANGED Range(recorded)
    BY <2>1 DEF NumStates, Positions, Range
  <2>3. CASE StateMarshals(Trimmed)
    <3>1. pending' = {State(Trimmed)}
      BY <2>1, <2>3
    <3>2. Cardinality({State(Trimmed)}) = 1
      BY FS_Singleton
    <3>3. Cardinality(pending) = 0 /\ Cardinality(pending') = 1
      BY <2>1, <3>1, <3>2, FS_EmptySet
    <3>4. NumStates + Cardinality(pending) = states
            => NumStates' + Cardinality(pending') = states'
      BY <1>0, <2>1, <2>2, <3>3
    <3> QED
      BY <2>1, <2>2, <3>1, <3>4 DEF CountInv
  <2>4. CASE ~StateMarshals(Trimmed)
    <3>1. PICK a \in Aircraft : Trimmed[a] \in infinite
      BY <2>4 DEF StateMarshals
    <3>2. Trimmed[a] # NoFix
      BY <1>0, <3>1, ConstantsAssumption DEF ConstantsAssumption
    <3>3. board[a] \in infinite /\ board[a] # NoFix
      BY <3>1, <3>2 DEF Trimmed
    <3>4. board[a] \in Range(recorded)
      BY <3>3 DEF TypeOK
    <3> QED
      BY <2>1, <2>2, <2>4, <3>3, <3>4 DEF CountInv
  <2> QED
    BY <2>3, <2>4
<1>6. CASE BroadcastState
  <2>0. UNCHANGED <<recorded, infinite, states>> /\ pending' = {}
    BY <1>6 DEF BroadcastState
  <2>1. PICK m \in pending : log' = Append(log, m)
    BY <1>6 DEF BroadcastState
  <2>2. m \in Records /\ m.type = "state" /\ pending = {m}
    BY <1>0 DEF StateMessages, Records, CountInv
  <2>3. Positions(log', "state") = Positions(log, "state") \cup
                                     (IF m.type = "state" THEN {Len(log) + 1} ELSE {})
    BY <1>0, <2>1, <2>2, PositionsGrow
  <2>4. Positions(log', "state") = Positions(log, "state") \cup {Len(log) + 1}
    BY <2>2, <2>3
  <2>5. Len(log) + 1 \notin Positions(log, "state")
    BY <1>0 DEF Positions
  <2>6. NumStates' = NumStates + 1
    BY <1>0, <2>4, <2>5, FinitelyMany, FS_AddElement DEF NumStates
  <2>7. Cardinality(pending) = 1 /\ Cardinality(pending') = 0
    BY <2>0, <2>2, FS_Singleton, FS_EmptySet
  <2>8. NumStates + Cardinality(pending) = states
          => NumStates' + Cardinality(pending') = states'
    BY <1>0, <2>0, <2>6, <2>7
  <2>9. UNCHANGED Range(recorded)
    BY <2>0 DEF Range
  <2> QED
    BY <2>0, <2>8, <2>9 DEF CountInv
<1> QED
  BY <1>2, <1>3, <1>4, <1>5, <1>6 DEF Next

\* Browsers miss a fix, or a state message, only for an infinite GDOP
\* (websocket.go:27-30).
THEOREM SilenceAlwaysHasCause == Spec => []SilenceHasCause
  BY InitCount, CountStep, CountMeans, TypeCorrect, FlowAlways, PTL DEF Spec
=============================================================================
