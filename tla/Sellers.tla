------------------------------ MODULE Sellers -------------------------------
(***************************************************************************)
(* The sellers the application knows (AppState.sellers in app_state.go)    *)
(* and the stream handlers that maintain them (main.go:211-311).  libp2p   *)
(* starts one handler goroutine per stream; a peer that reconnects has a   *)
(* second stream while the handler of its first may still be leaving.      *)
(* Every method of AppState runs under s.mu and is atomic; between two of  *)
(* them the handlers, the peers and the fixes interleave freely.           *)
(*                                                                         *)
(* Packets that are too short or hold no ICAO leave no trace and are not   *)
(* modelled.  The trust score of a seller is a function of the scores      *)
(* credited to it; only their number, `samples`, is kept.  The module has  *)
(* the part of RecordFix that concerns sellers; Board has the other.       *)
(***************************************************************************)
EXTENDS Integers, FiniteSets, FiniteSetsExt

CONSTANTS
  Streams,   \* the streams that may be opened
  Peers,     \* peer ids
  Trusted,   \* peers with a trusted location override
  Sensors,   \* sensor ids; packets name them, nothing ties them to a peer
  NoPeer,    \* the peer of a stream that is not open yet
  NoSensor,  \* a handler that holds no packet
  MaxFixes   \* bound: calls of RecordFix in a behaviour

ASSUME ConstantsAssumption ==
  /\ Trusted \subseteq Peers
  /\ NoPeer \notin Peers
  /\ NoSensor \notin Sensors
  /\ IsFiniteSet(Sensors)
  /\ MaxFixes \in Nat

VARIABLES
  sellers,   \* s.sellers: [sensors, samples] of the peers it lists
  stage,     \* where the handler of each stream is
  peer,      \* streamHandler.Conn().RemotePeer()
  up,        \* the streams whose connection is alive
  packet,    \* the sensor id of the packet a handler is working on
  noted,     \* history: the sensor ids each handler has noted
  delivered, \* history: the sensor ids that reached buf.Add
  fixes,     \* calls of RecordFix so far
  credits    \* history: contributors of all fixes so far

vars == <<sellers, stage, peer, up, packet, noted, delivered, fixes, credits>>

Stages == {"unopened", "accepted", "reading", "parsed", "noted", "leaving", "done"}

\* From SellerConnected to the deferred SellerDisconnected.
Registered == {"reading", "parsed", "noted", "leaving"}

Listed(p) == p \in DOMAIN sellers

NewSeller == [sensors |-> {}, samples |-> 0]

With(p, seller) ==
  [q \in DOMAIN sellers \cup {p} |-> IF q = p THEN seller ELSE sellers[q]]

-----------------------------------------------------------------------------

Init ==
  /\ sellers = <<>>
  /\ stage = [st \in Streams |-> "unopened"]
  /\ peer = [st \in Streams |-> NoPeer]
  /\ up = {}
  /\ packet = [st \in Streams |-> NoSensor]
  /\ noted = [st \in Streams |-> {}]
  /\ delivered = {}
  /\ fixes = 0
  /\ credits = 0

\* libp2p hands a new stream of peer p to a handler.
Open(st, p) ==
  /\ stage[st] = "unopened"
  /\ stage' = [stage EXCEPT ![st] = "accepted"]
  /\ peer' = [peer EXCEPT ![st] = p]
  /\ up' = up \cup {st}
  /\ UNCHANGED <<sellers, packet, noted, delivered, fixes, credits>>

\* The connection of a stream breaks, at any time.
LinkDrops(st) ==
  /\ st \in up
  /\ up' = up \ {st}
  /\ UNCHANGED <<sellers, stage, peer, packet, noted, delivered, fixes, credits>>

\* A peer without a trusted location gets its stream closed.
Reject(st) ==
  /\ stage[st] = "accepted"
  /\ peer[st] \notin Trusted
  /\ stage' = [stage EXCEPT ![st] = "done"]
  /\ up' = up \ {st}
  /\ UNCHANGED <<sellers, peer, packet, noted, delivered, fixes, credits>>

\* Mutant: peers without a trusted location are let in.
ConnectAnyone(st) ==
  /\ stage[st] = "accepted"
  /\ sellers' = IF Listed(peer[st]) THEN sellers
                                    ELSE With(peer[st], NewSeller)
  /\ stage' = [stage EXCEPT ![st] = "reading"]
  /\ UNCHANGED <<peer, up, packet, noted, delivered, fixes, credits>>

\* Mutant: SellerConnected starts the seller's record over.
ConnectAnew(st) ==
  /\ stage[st] = "accepted"
  /\ peer[st] \in Trusted
  /\ sellers' = With(peer[st], NewSeller)
  /\ stage' = [stage EXCEPT ![st] = "reading"]
  /\ UNCHANGED <<peer, up, packet, noted, delivered, fixes, credits>>

\* SellerConnected: a peer that is listed keeps what it has.
Connect(st) ==
  /\ stage[st] = "accepted"
  /\ peer[st] \in Trusted
  /\ sellers' = IF Listed(peer[st]) THEN sellers
                                    ELSE With(peer[st], NewSeller)
  /\ stage' = [stage EXCEPT ![st] = "reading"]
  /\ UNCHANGED <<peer, up, packet, noted, delivered, fixes, credits>>

ReadPacket(st, sensor) ==
  /\ stage[st] = "reading"
  /\ st \in up
  /\ stage' = [stage EXCEPT ![st] = "parsed"]
  /\ packet' = [packet EXCEPT ![st] = sensor]
  /\ UNCHANGED <<sellers, peer, up, noted, delivered, fixes, credits>>

\* NoteSellerSensor: a peer that is not listed is listed anew.
NoteSensor(st) ==
  /\ stage[st] = "parsed"
  /\ LET p == peer[st]
         seller == IF Listed(p) THEN sellers[p] ELSE NewSeller
     IN  sellers' = With(p, [seller EXCEPT !.sensors = @ \cup {packet[st]}])
  /\ noted' = [noted EXCEPT ![st] = @ \cup {packet[st]}]
  /\ stage' = [stage EXCEPT ![st] = "noted"]
  /\ UNCHANGED <<peer, up, packet, delivered, fixes, credits>>

\* buf.Add: from now on a fix may name the sensor as a contributor.
DeliverPacket(st) ==
  /\ stage[st] = "noted"
  /\ delivered' = delivered \cup {packet[st]}
  /\ packet' = [packet EXCEPT ![st] = NoSensor]
  /\ stage' = [stage EXCEPT ![st] = "reading"]
  /\ UNCHANGED <<sellers, peer, up, noted, fixes, credits>>

\* Mutant: the handler returns without the deferred calls.
LeaveAtOnce(st) ==
  /\ stage[st] = "reading"
  /\ st \notin up
  /\ stage' = [stage EXCEPT ![st] = "done"]
  /\ UNCHANGED <<sellers, peer, up, packet, noted, delivered, fixes, credits>>

\* The read fails because the connection is closed.
LeaveClosed(st) ==
  /\ stage[st] = "reading"
  /\ st \notin up
  /\ stage' = [stage EXCEPT ![st] = "leaving"]
  /\ UNCHANGED <<sellers, peer, up, packet, noted, delivered, fixes, credits>>

\* The read fails because a quiet peer missed the 5 second deadline.
LeaveQuiet(st) ==
  /\ stage[st] = "reading"
  /\ st \in up
  /\ stage' = [stage EXCEPT ![st] = "leaving"]
  /\ UNCHANGED <<sellers, peer, up, packet, noted, delivered, fixes, credits>>

\* Mutant: SellerDisconnected is not called.
DisconnectKeepsSeller(st) ==
  /\ stage[st] = "leaving"
  /\ stage' = [stage EXCEPT ![st] = "done"]
  /\ up' = up \ {st}
  /\ UNCHANGED <<sellers, peer, packet, noted, delivered, fixes, credits>>

\* Mutant: the record stays, as it is, while the peer has another stream.
DisconnectLast(st) ==
  /\ stage[st] = "leaving"
  /\ sellers' = IF \E other \in Streams \ {st} :
                     peer[other] = peer[st] /\ stage[other] \in Registered
                  THEN sellers
                  ELSE [q \in DOMAIN sellers \ {peer[st]} |-> sellers[q]]
  /\ stage' = [stage EXCEPT ![st] = "done"]
  /\ up' = up \ {st}
  /\ UNCHANGED <<peer, packet, noted, delivered, fixes, credits>>

\* The deferred calls: SellerDisconnected, then streamHandler.Close.
Disconnect(st) ==
  /\ stage[st] = "leaving"
  /\ sellers' = [q \in DOMAIN sellers \ {peer[st]} |-> sellers[q]]
  /\ stage' = [stage EXCEPT ![st] = "done"]
  /\ up' = up \ {st}
  /\ UNCHANGED <<peer, packet, noted, delivered, fixes, credits>>

Owners(sensor) == {p \in DOMAIN sellers : sensor \in sellers[p].sensors}

\* Mutant: every seller that reported the sensor is credited.
CreditedAll(contributors, owner) ==
  [p \in DOMAIN sellers |->
     [sellers[p] EXCEPT !.samples =
        @ + Cardinality({s \in contributors : p \in Owners(s)})]]

\* Each contributor of a fix credits one of the sellers that reported its
\* sensor, whichever the iteration over the map meets first.
Credited(contributors, owner) ==
  [p \in DOMAIN sellers |->
     [sellers[p] EXCEPT !.samples =
        @ + Cardinality({s \in contributors : Owners(s) # {} /\ owner[s] = p})]]

RecordFix(contributors) ==
  /\ fixes < MaxFixes
  /\ fixes' = fixes + 1
  /\ credits' = credits + Cardinality(contributors)
  /\ \E owner \in [contributors -> Peers] :
        /\ \A s \in contributors : Owners(s) # {} => owner[s] \in Owners(s)
        /\ sellers' = Credited(contributors, owner)
  /\ UNCHANGED <<stage, peer, up, packet, noted, delivered>>

HandlerStep(st) ==
  \/ Reject(st)
  \/ Connect(st)
  \/ NoteSensor(st)
  \/ DeliverPacket(st)
  \/ LeaveClosed(st)
  \/ Disconnect(st)

Next ==
  \/ \E st \in Streams :
        \/ HandlerStep(st)
        \/ LinkDrops(st)
        \/ LeaveQuiet(st)
        \/ \E p \in Peers : Open(st, p)
        \/ \E s \in Sensors : ReadPacket(st, s)
  \/ \E contributors \in SUBSET delivered : RecordFix(contributors)

Spec == Init /\ [][Next]_vars

\* A handler that is not waiting for its peer goes on, and a read of a closed
\* connection returns.
FairSpec == Spec /\ \A st \in Streams : WF_vars(HandlerStep(st))

-----------------------------------------------------------------------------
(* Properties *)

\* A handler holds a packet from the read to buf.Add, and only sensors of
\* packets are recorded (main.go:273-309, app_state.go:156-179).
TypeOK ==
  /\ DOMAIN sellers \subseteq Trusted
  /\ sellers \in [DOMAIN sellers -> [sensors : SUBSET Sensors, samples : Nat]]
  /\ stage \in [Streams -> Stages]
  /\ peer \in [Streams -> Peers \cup {NoPeer}]
  /\ up \subseteq Streams
  /\ packet \in [Streams -> Sensors \cup {NoSensor}]
  /\ \A st \in Streams : packet[st] # NoSensor <=> stage[st] \in {"parsed", "noted"}
  /\ noted \in [Streams -> SUBSET Sensors]
  /\ delivered \subseteq Sensors
  /\ fixes \in 0..MaxFixes
  /\ credits \in Nat

\* No ghost sellers: a listed peer has a handler that has yet to run its
\* deferred SellerDisconnected, even when the peer's streams overlap and a
\* packet lists it anew (main.go:233-235, app_state.go:150-179).
NoGhostSellers ==
  \A p \in DOMAIN sellers :
     \E st \in Streams : peer[st] = p /\ stage[st] \in Registered

\* A seller is credited only for sensors that a handler it still has reported:
\* what an ended stream reported is forgotten with it (app_state.go:150-179).
SensorsOfLiveStreams ==
  \A p \in DOMAIN sellers : \A s \in sellers[p].sensors :
     \E st \in Streams : /\ peer[st] = p
                         /\ stage[st] \in Registered
                         /\ s \in noted[st]

\* A contributor of a fix is credited once, although sellers may report the
\* same sensor id (app_state.go:224-247).
CreditedAtMostOnce ==
  MapThenSumSet(LAMBDA p : sellers[p].samples, DOMAIN sellers)
    <= credits

\* A seller that stays listed loses no reputation: neither a second stream of
\* it nor anybody else's handler takes samples away (app_state.go:119-148).
ReputationKept ==
  [][\A p \in DOMAIN sellers \cap DOMAIN sellers' :
        sellers'[p].samples >= sellers[p].samples]_vars

\* A seller whose connections are all gone does not stay listed forever
\* (main.go:235-252).
Gone(p) == \A st \in Streams : peer[st] = p => st \notin up

GoneSellersLeave == \A p \in Peers : Gone(p) ~> (~Listed(p) \/ ~Gone(p))

\* README.md:213 and 229, "connected seller list", "connected sellers": a
\* seller whose stream is open and registered is in the list.
ConnectedSellersListed ==
  \A st \in Streams :
     st \in up /\ stage[st] \in {"reading", "parsed", "noted"} => Listed(peer[st])
=============================================================================
