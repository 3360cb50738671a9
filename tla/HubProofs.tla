------------------------------ MODULE HubProofs -----------------------------
(***************************************************************************)
(* Theorems about module Hub, for any callers, connections and messages    *)
(* and any bound on the calls: its invariants, and that it implements Feed. *)
(***************************************************************************)
EXTENDS Hub, TLAPS

\* A connection is entered once, and its handler leaves only when it is broken.
Handled ==
  /\ \A c \in Connections : handler[c] = "upgraded" => written[c] = <<>>
  /\ \A c \in Connections : handler[c] = "leaving" => c \in broken

\* The end of the log is the message of the call in the loop, if there is one;
\* connections it has yet to write to lack this message, all others nothing.
Logged ==
  /\ \A p \in Callers :
       stage[p] = "sending" => Len(log) > 0 /\ log[Len(log)] = message[p]
  /\ \A c \in clients \ broken :
       /\ \A p \in Callers : c \in todo[p] => start[c] + Len(written[c]) = Len(log) - 1
       /\ (\A p \in Callers : c \notin todo[p]) => start[c] + Len(written[c]) = Len(log)

IInv == Types /\ Exclusive /\ NoGhostClients /\ Handled /\ Logged

USE DEF callVars, connVars, historyVars

LEMMA InitHolds == Init => IInv
  BY DEF Init, IInv, Types, Exclusive, NoGhostClients, Handled, Logged

LEMMA CallKeeps ==
  ASSUME IInv, NEW p \in Callers, NEW m \in Messages, Call(p, m)
  PROVE  IInv'
<1> USE DEF Call
<1>1. Types'
  BY DEF IInv, Types
<1>2. Exclusive'
  BY DEF IInv, Types, Exclusive
<1>3. NoGhostClients' /\ Handled'
  BY DEF IInv, NoGhostClients, Handled
<1>4. Logged'
  BY DEF IInv, Types, Logged
<1> QED
  BY <1>1, <1>2, <1>3, <1>4 DEF IInv

LEMMA AcquireKeeps ==
  ASSUME IInv, NEW p \in Callers, Acquire(p)
  PROVE  IInv'
<1> USE DEF Acquire, HubFree
<1>0. message[p] \in Messages /\ log \in Seq(Messages)
  BY DEF IInv, Types, Exclusive
<1>1. Types'
  BY <1>0 DEF IInv, Types
<1>2. Exclusive'
  BY DEF IInv, Types, Exclusive
<1>3. NoGhostClients' /\ Handled'
  BY DEF IInv, NoGhostClients, Handled
<1>4. Len(log') = Len(log) + 1 /\ log'[Len(log')] = message[p]
  BY <1>0
<1>5. \A c \in clients \ broken : start[c] + Len(written[c]) = Len(log)
  BY DEF IInv, Exclusive, Logged
<1>6. Logged'
  BY <1>0, <1>4, <1>5 DEF IInv, Types, Exclusive, Logged
<1> QED
  BY <1>1, <1>2, <1>3, <1>6 DEF IInv

LEMMA WriteKeeps ==
  ASSUME IInv, NEW p \in Callers, NEW c \in Connections, Write(p, c)
  PROVE  IInv'
<1> USE DEF Write
<1>0. message[p] \in Messages /\ stage[p] = "sending" /\ c \in clients \ broken
      /\ written[c] \in Seq(Messages)
  BY DEF IInv, Types, Exclusive
<1>1. Types'
  BY <1>0 DEF IInv, Types
<1>2. Exclusive'
  BY DEF IInv, Types, Exclusive
<1>3. NoGhostClients'
  BY DEF IInv, NoGhostClients
<1>4. Handled'
  BY <1>0 DEF IInv, Types, Handled, NoGhostClients
<1>5. \A d \in Connections : Len(written'[d]) = Len(written[d]) + (IF d = c THEN 1 ELSE 0)
  BY <1>0 DEF IInv, Types
<1>6. \A q \in Callers : q # p => todo[q] = {}
  BY <1>0 DEF IInv, Exclusive
<1>7. todo' \in [Callers -> SUBSET Connections] /\ todo'[p] = todo[p] \ {c}
      /\ \A q \in Callers : q # p => todo'[q] = {}
  BY <1>6 DEF IInv, Types
<1>8. ASSUME NEW d \in clients' \ broken'
      PROVE  /\ \A q \in Callers : d \in todo'[q] => start'[d] + Len(written'[d]) = Len(log') - 1
             /\ (\A q \in Callers : d \notin todo'[q]) => start'[d] + Len(written'[d]) = Len(log')
  <2>0. d \in Connections /\ d \in clients \ broken /\ start[d] \in Nat /\ Len(written[d]) \in Nat
        /\ Len(log) \in Nat
    BY DEF IInv, Types
  <2>1. CASE d = c
    <3>1. start[c] + Len(written[c]) = Len(log) - 1
      BY <1>0, <2>0, <2>1 DEF IInv, Logged
    <3>2. \A q \in Callers : c \notin todo'[q]
      BY <1>7
    <3>3. Len(written'[d]) = Len(written[d]) + 1
      BY <1>5, <2>0, <2>1
    <3>4. start'[d] + Len(written'[d]) = Len(log)
      BY <2>0, <2>1, <3>1, <3>3
    <3> QED
      BY <2>1, <3>2, <3>4
  <2>2. CASE d # c
    <3>1. \A q \in Callers : d \in todo'[q] <=> d \in todo[q]
      BY <1>6, <1>7, <2>2
    <3>2. Len(written'[d]) = Len(written[d])
      BY <1>5, <2>0, <2>2
    <3> QED
      BY <2>0, <3>1, <3>2 DEF IInv, Logged
  <2> QED
    BY <2>1, <2>2
<1>9. Logged'
  BY <1>8 DEF IInv, Logged
<1> QED
  BY <1>1, <1>2, <1>3, <1>4, <1>9 DEF IInv

LEMMA WriteToBrokenKeeps ==
  ASSUME IInv, NEW p \in Callers, NEW c \in Connections, WriteToBroken(p, c)
  PROVE  IInv'
<1> USE DEF WriteToBroken
<1>0. stage[p] = "sending" /\ c \in broken
  OBVIOUS
<1>1. Types'
  <2>1. todo' \in [Callers -> SUBSET clients] /\ clients' = clients
    <3>1. todo \in [Callers -> SUBSET clients]
      BY DEF IInv, Types
    <3>2. todo' = [todo EXCEPT ![p] = @ \ {c}] /\ clients' = clients
      OBVIOUS
    <3> HIDE DEF WriteToBroken
    <3> QED
      BY <3>1, <3>2
  <2>2. dead' \in [Callers -> SUBSET broken] /\ broken' = broken
    <3>1. dead \in [Callers -> SUBSET broken]
      BY DEF IInv, Types
    <3>2. /\ dead' = [dead EXCEPT ![p] = @ \cup {c}] \/ dead' = dead
          /\ broken' = broken
      BY DEF connVars
    <3> HIDE DEF WriteToBroken
    <3> QED
      BY <1>0, <3>1, <3>2
  <2>3. UNCHANGED <<stage, message, handler, stalled, log, start, written>>
    BY DEF connVars, historyVars
  <2> HIDE DEF WriteToBroken
  <2> QED
    BY <2>1, <2>2, <2>3 DEF IInv, Types
<1>2. Exclusive'
  BY DEF IInv, Types, Exclusive
<1>3. NoGhostClients' /\ Handled'
  BY DEF IInv, NoGhostClients, Handled
<1>4. \A q \in Callers : \A d \in clients \ broken : d \in todo'[q] <=> d \in todo[q]
  BY <1>0 DEF IInv, Types
<1>5. Logged'
  BY <1>4 DEF IInv, Logged
<1> QED
  BY <1>1, <1>2, <1>3, <1>5 DEF IInv

LEMMA ReleaseKeeps ==
  ASSUME IInv, NEW p \in Callers, Release(p)
  PROVE  IInv'
<1> USE DEF Release
<1>0. \A q \in Callers : todo[q] = {} /\ dead'[q] = {}
  BY DEF IInv, Types, Exclusive
<1>1. Types'
  BY <1>0 DEF IInv, Types
<1>2. Exclusive'
  BY <1>0 DEF IInv, Types, Exclusive
<1>3. NoGhostClients' /\ Handled'
  BY DEF IInv, NoGhostClients, Handled
<1>4. clients' \ broken' \subseteq clients \ broken
  BY DEF IInv, Types
<1>5. Logged'
  BY <1>0, <1>4 DEF IInv, Types, Logged
<1> QED
  BY <1>1, <1>2, <1>3, <1>5 DEF IInv

LEMMA RegisterKeeps ==
  ASSUME IInv, NEW c \in Connections, Register(c)
  PROVE  IInv'
<1> USE DEF Register, HubFree
<1>0. written[c] = <<>> /\ \A q \in Callers : todo[q] = {}
  BY DEF IInv, Exclusive, Handled
<1>1. Types'
  BY DEF IInv, Types
<1>2. Exclusive'
  BY DEF IInv, Exclusive
<1>3. NoGhostClients' /\ Handled'
  BY DEF IInv, Types, NoGhostClients, Handled
<1>4. ASSUME NEW d \in clients' \ broken'
      PROVE  start'[d] + Len(written'[d]) = Len(log')
  <2>1. CASE d = c
    BY <1>0, <2>1 DEF IInv, Types
  <2>2. CASE d # c
    BY <1>0, <2>2 DEF IInv, Types, Logged
  <2> QED
    BY <2>1, <2>2
<1>5. Logged'
  BY <1>0, <1>4 DEF IInv, Logged
<1> QED
  BY <1>1, <1>2, <1>3, <1>5 DEF IInv

LEMMA DeregisterKeeps ==
  ASSUME IInv, NEW c \in Connections, Deregister(c)
  PROVE  IInv'
<1> USE DEF Deregister, HubFree
<1>0. \A q \in Callers : todo[q] = {}
  BY DEF IInv, Exclusive
<1>1. Types'
  BY <1>0 DEF IInv, Types
<1>2. Exclusive'
  BY DEF IInv, Exclusive
<1>3. NoGhostClients' /\ Handled'
  BY DEF IInv, Types, NoGhostClients, Handled
<1>5. Logged'
  BY DEF IInv, Logged
<1> QED
  BY <1>1, <1>2, <1>3, <1>5 DEF IInv

\* Steps of links and browsers, and a read that fails.
LEMMA OutsideKeeps ==
  ASSUME IInv, NEW c \in Connections,
         ReadFails(c) \/ Break(c) \/ Stall(c) \/ Resume(c)
  PROVE  IInv'
<1> USE DEF ReadFails, Break, Stall, Resume
<1>1. Types'
  BY DEF IInv, Types
<1>2. Exclusive'
  BY DEF IInv, Exclusive
<1>3. NoGhostClients' /\ Handled'
  BY DEF IInv, Types, NoGhostClients, Handled
<1>5. Logged'
  BY DEF IInv, Logged
<1> QED
  BY <1>1, <1>2, <1>3, <1>5 DEF IInv

\* The inductive invariant of the hub (websocket.go:26-65).
THEOREM Invariance == Spec => []IInv
<1>1. IInv /\ [Next]_vars => IInv'
  <2> SUFFICES ASSUME IInv, [Next]_vars PROVE IInv'
    OBVIOUS
  <2>1. CASE \E p \in Callers, m \in Messages : Call(p, m)
    BY <2>1, CallKeeps
  <2>2. CASE \E p \in Callers : Broadcasting(p)
    BY <2>2, AcquireKeeps, WriteKeeps, WriteToBrokenKeeps, ReleaseKeeps DEF Broadcasting
  <2>3. CASE \E c \in Connections : HandleWS(c) \/ Break(c) \/ Stall(c) \/ Resume(c)
    BY <2>3, RegisterKeeps, DeregisterKeeps, OutsideKeeps DEF HandleWS
  <2>4. CASE UNCHANGED vars
    BY <2>4 DEF vars, IInv, Types, Exclusive, NoGhostClients, Handled, Logged
  <2> QED
    BY <2>1, <2>2, <2>3, <2>4 DEF Next
<1> QED
  BY <1>1, InitHolds, PTL DEF Spec

\* hub.mu excludes: never are two calls of Broadcast in their loops, and what a call
\* has left to write to or to remove it has only there (websocket.go:31-45).
THEOREM TypeCorrect == Spec => []TypeOK
<1>1. IInv => TypeOK
  BY DEF IInv, TypeOK
<1> QED
  BY <1>1, Invariance, PTL

\* Every client has a handler that will remove it, although Broadcast removes
\* clients as well.
THEOREM NoGhosts == Spec => []NoGhostClients
<1>1. IInv => NoGhostClients
  BY DEF IInv
<1> QED
  BY <1>1, Invariance, PTL

-----------------------------------------------------------------------------
(***************************************************************************)
(* The hub implements Feed.                                                *)
(***************************************************************************)

\* With the lock free, every open connection has been given the whole log.
LEMMA FreeIsUpToDate == IInv /\ HubFree => Promise!UpToDate
  BY DEF IInv, HubFree, Exclusive, Logged, Promise!UpToDate, Promise!Position

LEMMA AcquireAnnounces ==
  ASSUME IInv, NEW p \in Callers, Acquire(p)
  PROVE  Promise!Next
<1>1. Promise!UpToDate
  BY FreeIsUpToDate DEF Acquire
<1>2. message[p] \in Messages
  BY DEF IInv, Exclusive, Acquire
<1>3. Promise!Announce(message[p])
  BY <1>1 DEF Acquire, Promise!Announce
<1> QED
  BY <1>2, <1>3 DEF Promise!Next

LEMMA WriteDelivers ==
  ASSUME IInv, NEW p \in Callers, NEW c \in Connections, Write(p, c)
  PROVE  Promise!Next
<1>1. c \in clients \ broken /\ Len(log) > 0 /\ log[Len(log)] = message[p]
      /\ start[c] + Len(written[c]) = Len(log) - 1
  BY DEF IInv, Types, Logged, Write
<1>2. start[c] \in Nat /\ Len(written[c]) \in Nat /\ Len(log) \in Nat
  BY DEF IInv, Types
<1>3. Promise!Position(c) < Len(log) /\ Promise!Position(c) + 1 = Len(log)
  BY <1>1, <1>2 DEF Promise!Position
<1>4. log[Promise!Position(c) + 1] = message[p]
  BY <1>1, <1>3
<1>5. Promise!Deliver(c)
  BY <1>1, <1>3, <1>4 DEF Write, Promise!Deliver
<1> QED
  BY <1>5 DEF Promise!Next

LEMMA RegisterJoins ==
  ASSUME IInv, NEW c \in Connections, Register(c)
  PROVE  Promise!Next
<1>1. Promise!UpToDate /\ written[c] = <<>>
  BY FreeIsUpToDate DEF IInv, Handled, Register
<1>2. clients' \ broken' = (clients \ broken) \cup {c} \/ UNCHANGED (clients \ broken)
  BY DEF Register
<1>3. Promise!Join(c)
  BY <1>1, <1>2 DEF Register, Promise!Join
<1> QED
  BY <1>3 DEF Promise!Next

LEMMA BreakLeaves ==
  ASSUME IInv, NEW c \in Connections, Break(c)
  PROVE  Promise!Next
<1>1. Promise!Leave(c)
  BY DEF Break, Promise!Leave
<1> QED
  BY <1>1 DEF Promise!Next

LEMMA OthersStutter ==
  ASSUME IInv,
         \/ \E p \in Callers : \/ Release(p)
                               \/ \E m \in Messages : Call(p, m)
                               \/ \E c \in Connections : WriteToBroken(p, c)
         \/ \E c \in Connections : ReadFails(c) \/ Deregister(c) \/ Stall(c) \/ Resume(c)
         \/ UNCHANGED vars
  PROVE  UNCHANGED Promise!feedVars
<1>1. UNCHANGED (clients \ broken)
  BY DEF IInv, Types, Handled, Release, Call, WriteToBroken, ReadFails, Deregister,
     Stall, Resume, vars
<1>2. UNCHANGED <<log, start, written>>
  BY DEF Release, Call, WriteToBroken, ReadFails, Deregister, Stall, Resume, vars
<1> QED
  BY <1>1, <1>2 DEF Promise!feedVars

\* All browsers see one log, from their registration on, without gap, repetition
\* or change of order, and none is more than one message behind.
THEOREM ImplementsFeed == Spec => OneFeed
<1>1. Init => Promise!Init
  BY DEF Init, Promise!Init
<1>2. IInv /\ [Next]_vars => [Promise!Next]_Promise!feedVars
  BY AcquireAnnounces, WriteDelivers, RegisterJoins, BreakLeaves, OthersStutter
     DEF Next, Broadcasting, HandleWS
<1> QED
  BY <1>1, <1>2, Invariance, PTL DEF Spec, OneFeed, Promise!Spec

-----------------------------------------------------------------------------
(***************************************************************************)
(* What the hub has promised                                               *)
(***************************************************************************)

\* A message that is announced is beyond what anybody has, and one that is
\* delivered is the next one.
LEMMA SegmentsKeep ==
  ASSUME TypeOK, TypeOK', Promise!SegmentsOfLog, [Promise!Next]_Promise!feedVars
  PROVE  /\ Promise!SegmentsOfLog'
         /\ SubSeq(log', 1, Len(log)) = log
         /\ \A c \in Connections :
              SubSeq(written'[c], 1, Len(written[c])) = written[c]
<1> DEFINE open == clients \ broken
           Segment(c) ==
             /\ start[c] + Len(written[c]) <= Len(log)
             /\ \A i \in 1..Len(written[c]) : written[c][i] = log[start[c] + i]
             /\ c \in open => start[c] + Len(written[c]) >= Len(log) - 1
           Grows == /\ SubSeq(log', 1, Len(log)) = log
                    /\ \A c \in Connections :
                         SubSeq(written'[c], 1, Len(written[c])) = written[c]
<1>1. /\ log \in Seq(Messages) /\ Len(log) \in Nat
      /\ \A c \in Connections :
           /\ start[c] \in Nat /\ written[c] \in Seq(Messages) /\ Len(written[c]) \in Nat
  BY DEF TypeOK, Types
<1>2. \A c \in Connections : Segment(c)
  BY DEF Promise!SegmentsOfLog, Promise!Position
<1>3. (\A c \in Connections : Segment(c)') => Promise!SegmentsOfLog'
  BY DEF Promise!SegmentsOfLog, Promise!Position
<1>4. /\ SubSeq(log, 1, Len(log)) = log
      /\ \A c \in Connections : SubSeq(written[c], 1, Len(written[c])) = written[c]
  BY <1>1
<1>5. CASE UNCHANGED Promise!feedVars
  <2>1. UNCHANGED <<log, open, start, written>>
    BY <1>5 DEF Promise!feedVars
  <2> HIDE DEF open
  <2> QED
    BY <1>2, <1>3, <1>4, <2>1
<1>6. ASSUME NEW m \in Messages, Promise!Announce(m)
      PROVE  Promise!SegmentsOfLog' /\ Grows
  <2>1. /\ log' = Append(log, m) /\ UNCHANGED <<open, start, written>>
        /\ \A c \in open : c \in Connections => start[c] + Len(written[c]) = Len(log)
    BY <1>6 DEF Promise!Announce, Promise!UpToDate, Promise!Position
  <2>2. /\ Len(log') = Len(log) + 1
        /\ \A i \in 1..Len(log) : log'[i] = log[i]
        /\ SubSeq(log', 1, Len(log)) = log
    BY <1>1, <2>1
  <2> HIDE DEF open
  <2>3. ASSUME NEW c \in Connections PROVE Segment(c)'
    <3>1. Segment(c) /\ start[c] \in Nat /\ Len(written[c]) \in Nat
      BY <1>1, <1>2
    <3>2. \A i \in 1..Len(written[c]) : start[c] + i \in 1..Len(log)
      BY <1>1, <3>1
    <3> QED
      BY <1>1, <2>1, <2>2, <3>1, <3>2
  <2> QED
    BY <1>3, <1>4, <2>1, <2>2, <2>3
<1>7. ASSUME NEW d \in Connections, Promise!Join(d)
      PROVE  Promise!SegmentsOfLog' /\ Grows
  <2>1. /\ written[d] = <<>> /\ UNCHANGED <<log, written>>
        /\ open' \subseteq open \cup {d}
        /\ start' = [start EXCEPT ![d] = Len(log)]
    BY <1>7 DEF Promise!Join
  <2>2. /\ start'[d] = Len(log) /\ Len(written[d]) = 0
        /\ \A c \in Connections \ {d} : start'[c] = start[c]
    BY <2>1 DEF TypeOK, Types
  <2> HIDE DEF open
  <2>3. Segment(d)'
    BY <1>1, <2>1, <2>2
  <2>4. ASSUME NEW c \in Connections \ {d} PROVE Segment(c)'
    BY <1>2, <2>1, <2>2
  <2> QED
    BY <1>3, <1>4, <2>1, <2>3, <2>4
<1>8. ASSUME NEW d \in Connections, Promise!Deliver(d)
      PROVE  Promise!SegmentsOfLog' /\ Grows
  <2> DEFINE next == start[d] + Len(written[d]) + 1
  <2>1. /\ start[d] + Len(written[d]) < Len(log) /\ UNCHANGED <<log, open, start>>
        /\ written' = [written EXCEPT ![d] = Append(@, log[next])]
    BY <1>8 DEF Promise!Deliver, Promise!Position
  <2>2. /\ written'[d] = Append(written[d], log[next])
        /\ \A c \in Connections \ {d} : written'[c] = written[c]
    BY <2>1 DEF TypeOK, Types
  <2>3. next \in 1..Len(log) /\ log[next] \in Messages
    <3>1. next \in 1..Len(log)
      BY <1>1, <2>1
    <3> HIDE DEF next
    <3> QED
      BY <1>1, <3>1
  <2> HIDE DEF open, next
  <2>4. /\ Len(written'[d]) = Len(written[d]) + 1
        /\ written'[d][Len(written[d]) + 1] = log[next]
        /\ \A i \in 1..Len(written[d]) : written'[d][i] = written[d][i]
        /\ SubSeq(written'[d], 1, Len(written[d])) = written[d]
    BY <1>1, <2>2, <2>3
  <2>5. Segment(d)'
    <3>1. Segment(d) /\ start[d] \in Nat /\ Len(written[d]) \in Nat /\ Len(log) \in Nat
      BY <1>1, <1>2
    <3>2. next = start[d] + Len(written[d]) + 1
      BY DEF next
    <3>3. start[d] + Len(written'[d]) = next
      BY <2>4, <3>1, <3>2
    <3>4. next <= Len(log) /\ (d \in open => next >= Len(log) - 1)
      BY <2>3, <3>1, <3>2
    <3>5. ASSUME NEW i \in 1..Len(written'[d])
          PROVE  written'[d][i] = log[start[d] + i]
      <4>1. CASE i = Len(written[d]) + 1
        <5>1. start[d] + i = next
          BY <3>1, <3>2, <4>1
        <5> QED
          BY <2>4, <4>1, <5>1
      <4>2. CASE i # Len(written[d]) + 1
        <5>1. i \in 1..Len(written[d])
          BY <2>4, <3>1, <4>2
        <5> QED
          BY <2>4, <3>1, <5>1
      <4> QED
        BY <4>1, <4>2
    <3> QED
      BY <2>1, <3>3, <3>4, <3>5
  <2>6. ASSUME NEW c \in Connections \ {d} PROVE Segment(c)'
    BY <1>2, <2>1, <2>2
  <2> QED
    BY <1>3, <1>4, <2>1, <2>2, <2>4, <2>5, <2>6
<1>9. ASSUME NEW d \in Connections, Promise!Leave(d)
      PROVE  Promise!SegmentsOfLog' /\ Grows
  <2>1. open' = open \ {d} /\ UNCHANGED <<log, start, written>>
    BY <1>9 DEF Promise!Leave
  <2> HIDE DEF open
  <2> QED
    BY <1>2, <1>3, <1>4, <2>1
<1> QED
  BY <1>5, <1>6, <1>7, <1>8, <1>9 DEF Promise!Next

\* Whatever browsers stall, break or come back, what a connection was given is the
\* part of the one log from its registration on, to the end of it or to the
\* message before the last (websocket.go:26-44).
THEOREM SameLogForAll == Spec => []Promise!SegmentsOfLog
<1>1. Init => Promise!SegmentsOfLog
  BY DEF Init, Promise!SegmentsOfLog, Promise!Position
<1>2. TypeOK /\ TypeOK' /\ Promise!SegmentsOfLog /\ [Promise!Next]_Promise!feedVars
        => Promise!SegmentsOfLog'
  BY SegmentsKeep
<1> QED
  BY <1>1, <1>2, TypeCorrect, ImplementsFeed, PTL DEF Spec, OneFeed, Promise!Spec

\* Nothing that was sent is taken back or changed.
THEOREM LogOnlyGrows == Spec => Promise!OnlyAppended
<1>1. TypeOK /\ TypeOK' /\ Promise!SegmentsOfLog /\ [Promise!Next]_Promise!feedVars
        => [/\ SubSeq(log', 1, Len(log)) = log
            /\ \A c \in Connections :
                 SubSeq(written'[c], 1, Len(written[c])) = written[c]]_Promise!feedVars
  BY SegmentsKeep
<1> QED
  BY <1>1, TypeCorrect, SameLogForAll, ImplementsFeed, PTL
     DEF OneFeed, Promise!Spec, Promise!OnlyAppended
=============================================================================
