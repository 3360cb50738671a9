--------------------------------- MODULE Hub --------------------------------
(***************************************************************************)
(* The WebSocket hub (server/websocket.go): the goroutines that call       *)
(* Broadcast, one HandleWS per connection, and the connections themselves. *)
(*                                                                         *)
(* Broadcast holds hub.mu while it writes to one connection after the      *)
(* other, and a write has no deadline.  A handler takes hub.mu to register *)
(* its connection and, when reading from it fails, to remove it.  Broadcast *)
(* removes connections too, those a write to which has failed.             *)
(*                                                                         *)
(* Of a message it matters whether json.Marshal accepts it.  What is lost  *)
(* between a write and the page when a link breaks is not modelled: what   *)
(* the page handles is a prefix of what was written.                       *)
(***************************************************************************)
EXTENDS Integers, Sequences, FiniteSets

CONSTANTS
  Callers,        \* goroutines that call Broadcast
  Connections,    \* connections; a page that reconnects has a new one
  Messages,       \* what is broadcast
  Unmarshallable, \* messages that json.Marshal refuses: an infinite GDOP
  NoMessage,      \* a caller that is not in Broadcast has none
  MaxBroadcasts   \* bound: calls of Broadcast

ASSUME ConstantsAssumption ==
  /\ NoMessage \notin Messages
  /\ MaxBroadcasts \in Nat

VARIABLES
  stage,     \* where each caller is in Broadcast
  message,   \* msg of each call
  todo,      \* what is left of the loop of each call
  dead,      \* dead of each call
  clients,   \* hub.clients
  handler,   \* where the HandleWS of each connection is
  broken,    \* connections that are closed or lost
  stalled,   \* working connections whose browser does not read
  log,       \* history: the messages in the order of hub.mu
  start,     \* history: the length of log when a connection was registered
  written    \* history: what was written to each connection while it worked

callVars == <<stage, message, todo, dead>>
connVars == <<handler, broken, stalled>>
historyVars == <<log, start, written>>

vars == <<callVars, clients, connVars, historyVars>>

\* A connection begins when HandleWS has upgraded it.  It may do so at any
\* time, as registration waits for the lock anyway.
Init ==
  /\ stage = [p \in Callers |-> "idle"]
  /\ message = [p \in Callers |-> NoMessage]
  /\ todo = [p \in Callers |-> {}]
  /\ dead = [p \in Callers |-> {}]
  /\ clients = {}
  /\ handler = [c \in Connections |-> "upgraded"]
  /\ broken = {}
  /\ stalled = {}
  /\ log = <<>>
  /\ start = [c \in Connections |-> 0]
  /\ written = [c \in Connections |-> <<>>]

\* hub.mu is held from one step to the next only by Broadcast.
HubFree == \A p \in Callers : stage[p] # "sending"

-----------------------------------------------------------------------------

Marshals(m) == m \notin Unmarshallable

\* Broadcast as far as its first lock.  A message that cannot be marshalled is
\* dropped without a word.
Call(p, m) ==
  /\ stage[p] = "idle"
  /\ Len(log) + Cardinality({q \in Callers : stage[q] = "waiting"}) < MaxBroadcasts
  /\ Marshals(m)
  /\ stage' = [stage EXCEPT ![p] = "waiting"]
  /\ message' = [message EXCEPT ![p] = m]
  /\ UNCHANGED <<todo, dead, clients, connVars, historyVars>>

\* Mutant: Broadcast takes the read lock of hub.mu.
AcquireShared(p) ==
  /\ stage[p] = "waiting"
  /\ stage' = [stage EXCEPT ![p] = "sending"]
  /\ todo' = [todo EXCEPT ![p] = clients]
  /\ log' = Append(log, message[p])
  /\ UNCHANGED <<message, dead, clients, connVars, start, written>>

\* Broadcast gets the lock and begins its loop over the clients.
Acquire(p) ==
  /\ stage[p] = "waiting"
  /\ HubFree
  /\ stage' = [stage EXCEPT ![p] = "sending"]
  /\ todo' = [todo EXCEPT ![p] = clients]
  /\ log' = Append(log, message[p])
  /\ UNCHANGED <<message, dead, clients, connVars, start, written>>

\* WriteMessage succeeds.  It does not return while the browser does not read.
Write(p, c) ==
  /\ stage[p] = "sending"
  /\ c \in todo[p]
  /\ c \notin broken \cup stalled
  /\ todo' = [todo EXCEPT ![p] = @ \ {c}]
  /\ written' = [written EXCEPT ![c] = Append(@, message[p])]
  /\ UNCHANGED <<stage, message, dead, clients, connVars, log, start>>

\* WriteMessage to a connection that is gone fails, or is taken by a buffer
\* that nobody reads.
WriteToBroken(p, c) ==
  /\ stage[p] = "sending"
  /\ c \in todo[p] \cap broken
  /\ todo' = [todo EXCEPT ![p] = @ \ {c}]
  /\ \/ dead' = [dead EXCEPT ![p] = @ \cup {c}]
     \/ UNCHANGED dead
  /\ UNCHANGED <<stage, message, clients, connVars, historyVars>>

\* Mutant: the dead are removed by a function that takes hub.mu itself.
ReleaseRelocks(p) ==
  /\ stage[p] = "sending"
  /\ todo[p] = {}
  /\ dead[p] = {}
  /\ stage' = [stage EXCEPT ![p] = "idle"]
  /\ message' = [message EXCEPT ![p] = NoMessage]
  /\ UNCHANGED <<todo, dead, clients, connVars, historyVars>>

\* The loop is done: the dead are removed and closed, and the lock released.
Release(p) ==
  /\ stage[p] = "sending"
  /\ todo[p] = {}
  /\ clients' = clients \ dead[p]
  /\ dead' = [dead EXCEPT ![p] = {}]
  /\ broken' = broken \cup dead[p]
  /\ stage' = [stage EXCEPT ![p] = "idle"]
  /\ message' = [message EXCEPT ![p] = NoMessage]
  /\ UNCHANGED <<todo, handler, stalled, historyVars>>

-----------------------------------------------------------------------------

\* HandleWS enters the connection under hub.mu and goes on to read from it.
Register(c) ==
  /\ handler[c] = "upgraded"
  /\ HubFree
  /\ clients' = clients \cup {c}
  /\ handler' = [handler EXCEPT ![c] = "reading"]
  /\ start' = [start EXCEPT ![c] = Len(log)]
  /\ UNCHANGED <<callVars, broken, stalled, log, written>>

\* ReadMessage returns an error.
ReadFails(c) ==
  /\ handler[c] = "reading"
  /\ c \in broken
  /\ handler' = [handler EXCEPT ![c] = "leaving"]
  /\ UNCHANGED <<callVars, clients, broken, stalled, historyVars>>

\* Mutant: the handler leaves it to Broadcast to remove the connection.
DeregisterCloses(c) ==
  /\ handler[c] = "leaving"
  /\ HubFree
  /\ handler' = [handler EXCEPT ![c] = "gone"]
  /\ UNCHANGED <<callVars, clients, broken, stalled, historyVars>>

\* HandleWS removes the connection under hub.mu, closes it and returns.
Deregister(c) ==
  /\ handler[c] = "leaving"
  /\ HubFree
  /\ clients' = clients \ {c}
  /\ handler' = [handler EXCEPT ![c] = "gone"]
  /\ UNCHANGED <<callVars, broken, stalled, historyVars>>

\* The page is closed, or the link to it is lost.
Break(c) ==
  /\ handler[c] \in {"upgraded", "reading"}
  /\ c \notin broken
  /\ broken' = broken \cup {c}
  /\ stalled' = stalled \ {c}
  /\ UNCHANGED <<callVars, clients, handler, historyVars>>

\* The browser stops reading, long enough for the buffers to fill up.
Stall(c) ==
  /\ c \in clients \ (stalled \cup broken)
  /\ stalled' = stalled \cup {c}
  /\ UNCHANGED <<callVars, clients, handler, broken, historyVars>>

Resume(c) ==
  /\ c \in stalled
  /\ stalled' = stalled \ {c}
  /\ UNCHANGED <<callVars, clients, handler, broken, historyVars>>

-----------------------------------------------------------------------------

\* A call of Broadcast that waits for hub.mu or holds it.
Broadcasting(p) ==
  \/ Acquire(p) \/ Release(p)
  \/ \E c \in Connections : Write(p, c) \/ WriteToBroken(p, c)

\* The handler of a connection.
HandleWS(c) == Register(c) \/ ReadFails(c) \/ Deregister(c)

Next ==
  \/ \E p \in Callers, m \in Messages : Call(p, m)
  \/ \E p \in Callers : Broadcasting(p)
  \/ \E c \in Connections : HandleWS(c) \/ Break(c) \/ Stall(c) \/ Resume(c)

Spec == Init /\ [][Next]_vars

\* Callers and handlers run on: those that wait for hub.mu because the lock of
\* Go lets no waiter starve, those that write because a blocked write returns
\* once the browser reads again.  Nothing is assumed of browsers and links, nor
\* that anybody broadcasts.
Fairness ==
  /\ \A p \in Callers : SF_vars(Broadcasting(p))
  /\ \A c \in Connections : SF_vars(HandleWS(c))

FairSpec == Spec /\ Fairness

-----------------------------------------------------------------------------
(***************************************************************************)
(* Properties                                                              *)
(***************************************************************************)

Types ==
  /\ stage \in [Callers -> {"idle", "waiting", "sending"}]
  /\ message \in [Callers -> Messages \cup {NoMessage}]
  /\ todo \in [Callers -> SUBSET clients]
  /\ dead \in [Callers -> SUBSET broken]
  /\ clients \subseteq Connections /\ broken \subseteq Connections
  /\ stalled \subseteq Connections
  /\ handler \in [Connections -> {"upgraded", "reading", "leaving", "gone"}]
  /\ log \in Seq(Messages)
  /\ start \in [Connections -> Nat]
  /\ written \in [Connections -> Seq(Messages)]

\* hub.mu excludes.
Exclusive ==
  /\ \A p, q \in Callers : stage[p] = "sending" /\ stage[q] = "sending" => p = q
  /\ \A p \in Callers : stage[p] # "sending" => todo[p] = {} /\ dead[p] = {}
  /\ \A p \in Callers : stage[p] # "idle" => message[p] \in Messages

\* The types, among them that a loop goes over clients and that only what is closed
\* is thought dead; and that hub.mu excludes: at most one call is in its loop, and a
\* call that has not got the lock, or has released it, has nothing left to write to
\* or to remove (websocket.go:31-45).
TypeOK == Types /\ Exclusive

\* All browsers see one log: each gets, while it works, the messages from its
\* registration on, without gap or repetition and in the order of hub.mu, and
\* none is more than one message behind (websocket.go:26-44).
Promise == INSTANCE Feed WITH open <- clients \ broken

OneFeed == Promise!Spec

\* A registered connection has a handler that will remove it; a handler that
\* returned has left nothing behind, also when Broadcast removed the connection
\* at the same time (websocket.go:40-43, 58-65).
NoGhostClients ==
  \A c \in clients : handler[c] \in {"reading", "leaving"}

NoStallForever == \A c \in Connections : []<>(c \notin stalled)

\* Unless a browser stops reading for good without losing its link, everybody
\* gets on: each call of Broadcast gets the lock and returns, a browser that
\* connects is registered, and one that is gone leaves the hub (websocket.go:31-65).
NobodyHeldUp ==
  NoStallForever =>
    /\ \A p \in Callers : stage[p] # "idle" ~> stage[p] = "idle"
    /\ \A c \in Connections :
         /\ handler[c] = "upgraded" ~> c \in clients \/ c \in broken
         /\ c \in clients \cap broken ~> c \notin clients
=============================================================================
