---------------------------- MODULE SellersProofs ---------------------------
(***************************************************************************)
(* Theorems about module Sellers, for any number of streams and peers, any *)
(* trusted set and any finite set of sensor ids.                           *)
(* The last part is about the sum of the samples.  Its induction is over   *)
(* sets (Least, Induction), the form the provers can instantiate.          *)
(***************************************************************************)
EXTENDS Sellers, FiniteSetTheorems, TLAPS

Seller == [sensors : SUBSET Sensors, samples : Nat]

\* Only peers with a trusted location get past the check in main.go:223-228.
RegisteredTrusted ==
  \A st \in Streams : stage[st] \in Registered => peer[st] \in Trusted

IInv ==
  /\ TypeOK
  /\ RegisteredTrusted
  /\ NoGhostSellers
  /\ SensorsOfLiveStreams

\* A handler that is registered and stays so, with what it noted.
Stays(st) ==
  /\ peer'[st] = peer[st]
  /\ noted[st] \subseteq noted'[st]
  /\ stage[st] \in Registered => stage'[st] \in Registered

\* A seller that stays listed with no more sensors than before is covered by
\* the handlers that covered it, if these stay.
LEMMA Covered ==
  ASSUME IInv, NEW p \in DOMAIN sellers,
         \A st \in Streams : peer[st] = p => Stays(st)
  PROVE  /\ \E st \in Streams : peer'[st] = p /\ stage'[st] \in Registered
         /\ \A s \in sellers[p].sensors :
               \E st \in Streams : /\ peer'[st] = p
                                   /\ stage'[st] \in Registered
                                   /\ s \in noted'[st]
<1>1. PICK st \in Streams : peer[st] = p /\ stage[st] \in Registered
  BY DEF IInv, NoGhostSellers
<1>2. \E t \in Streams : peer'[t] = p /\ stage'[t] \in Registered
  BY <1>1 DEF Stays
<1>3. ASSUME NEW s \in sellers[p].sensors
      PROVE  \E t \in Streams : /\ peer'[t] = p
                                /\ stage'[t] \in Registered
                                /\ s \in noted'[t]
  <2>1. PICK t \in Streams : /\ peer[t] = p
                             /\ stage[t] \in Registered
                             /\ s \in noted[t]
    BY DEF IInv, SensorsOfLiveStreams
  <2> QED
    BY <2>1 DEF Stays
<1> QED
  BY <1>2, <1>3

\* What a step that changes no seller and ends no handler preserves.
LEMMA HandlerMoves ==
  ASSUME IInv, sellers' = sellers, \A st \in Streams : Stays(st)
  PROVE  NoGhostSellers' /\ SensorsOfLiveStreams'
<1>1. ASSUME NEW p \in DOMAIN sellers
      PROVE  /\ \E st \in Streams : peer'[st] = p /\ stage'[st] \in Registered
             /\ \A s \in sellers[p].sensors :
                   \E st \in Streams : /\ peer'[st] = p
                                       /\ stage'[st] \in Registered
                                       /\ s \in noted'[st]
  BY Covered
<1> QED
  BY <1>1 DEF NoGhostSellers, SensorsOfLiveStreams

LEMMA OpenKeeps ==
  ASSUME IInv, NEW st \in Streams, NEW p \in Peers, Open(st, p)
  PROVE  IInv'
<1>1. TypeOK'
  BY DEF IInv, TypeOK, Open, Stages
<1>3. ASSUME NEW q \in DOMAIN sellers
      PROVE  /\ \E t \in Streams : peer'[t] = q /\ stage'[t] \in Registered
             /\ \A s \in sellers[q].sensors :
                   \E t \in Streams : /\ peer'[t] = q
                                      /\ stage'[t] \in Registered
                                      /\ s \in noted'[t]
  <2>1. \A t \in Streams : stage[t] \in Registered =>
           /\ stage'[t] = stage[t] /\ peer'[t] = peer[t] /\ noted'[t] = noted[t]
    BY DEF Open, Registered, IInv, TypeOK
  <2>2. \E t \in Streams : peer[t] = q /\ stage[t] \in Registered
    BY DEF IInv, NoGhostSellers
  <2>3. \A s \in sellers[q].sensors :
           \E t \in Streams : /\ peer[t] = q /\ stage[t] \in Registered
                              /\ s \in noted[t]
    BY DEF IInv, SensorsOfLiveStreams
  <2> QED
    BY <2>1, <2>2, <2>3
<1>4. sellers' = sellers
  BY DEF Open
<1>5. RegisteredTrusted'
  BY DEF Open, RegisteredTrusted, Registered, IInv, TypeOK
<1> QED
  BY <1>1, <1>3, <1>4, <1>5 DEF IInv, NoGhostSellers, SensorsOfLiveStreams

LEMMA LinkDropsKeeps ==
  ASSUME IInv, NEW st \in Streams, LinkDrops(st)
  PROVE  IInv'
<1>1. TypeOK' /\ sellers' = sellers
  BY DEF IInv, TypeOK, LinkDrops
<1>2. \A t \in Streams : Stays(t)
  BY DEF LinkDrops, Stays
<1>3. RegisteredTrusted'
  BY DEF LinkDrops, RegisteredTrusted, Registered, IInv, TypeOK
<1> QED
  BY <1>1, <1>2, <1>3, HandlerMoves DEF IInv

LEMMA RejectKeeps ==
  ASSUME IInv, NEW st \in Streams, Reject(st)
  PROVE  IInv'
<1>1. TypeOK' /\ sellers' = sellers
  BY DEF IInv, TypeOK, Reject, Stages
<1>2. \A t \in Streams : Stays(t)
  BY DEF Reject, Stays, Registered, IInv, TypeOK
<1>3. RegisteredTrusted'
  BY DEF Reject, RegisteredTrusted, Registered, IInv, TypeOK
<1> QED
  BY <1>1, <1>2, <1>3, HandlerMoves DEF IInv

LEMMA ReadPacketKeeps ==
  ASSUME ConstantsAssumption, IInv, NEW st \in Streams, NEW s \in Sensors,
         ReadPacket(st, s)
  PROVE  IInv'
<1>1. TypeOK' /\ sellers' = sellers
  BY DEF IInv, TypeOK, ReadPacket, Stages, ConstantsAssumption
<1>2. \A t \in Streams : Stays(t)
  BY DEF ReadPacket, Stays, Registered, IInv, TypeOK
<1>3. RegisteredTrusted'
  BY DEF ReadPacket, RegisteredTrusted, Registered, IInv, TypeOK
<1> QED
  BY <1>1, <1>2, <1>3, HandlerMoves DEF IInv

LEMMA DeliverPacketKeeps ==
  ASSUME ConstantsAssumption, IInv, NEW st \in Streams, DeliverPacket(st)
  PROVE  IInv'
<1>1. packet[st] \in Sensors
  BY DEF IInv, TypeOK, DeliverPacket
<1>2. TypeOK' /\ sellers' = sellers
  BY <1>1 DEF IInv, TypeOK, DeliverPacket, Stages, ConstantsAssumption
<1>3. \A t \in Streams : Stays(t)
  BY DEF DeliverPacket, Stays, Registered, IInv, TypeOK
<1>4. RegisteredTrusted'
  BY DEF DeliverPacket, RegisteredTrusted, Registered, IInv, TypeOK
<1> QED
  BY <1>2, <1>3, <1>4, HandlerMoves DEF IInv

LEMMA LeaveKeeps ==
  ASSUME IInv, NEW st \in Streams, LeaveClosed(st) \/ LeaveQuiet(st)
  PROVE  IInv'
<1>1. TypeOK' /\ sellers' = sellers
  BY DEF IInv, TypeOK, LeaveClosed, LeaveQuiet, Stages
<1>2. \A t \in Streams : Stays(t)
  BY DEF LeaveClosed, LeaveQuiet, Stays, Registered, IInv, TypeOK
<1>3. RegisteredTrusted'
  BY DEF LeaveClosed, LeaveQuiet, RegisteredTrusted, Registered, IInv, TypeOK
<1> QED
  BY <1>1, <1>2, <1>3, HandlerMoves DEF IInv

LEMMA ConnectKeeps ==
  ASSUME ConstantsAssumption, IInv, NEW st \in Streams, Connect(st)
  PROVE  IInv'
<1> DEFINE p == peer[st]
<1>1. /\ p \in Trusted
      /\ sellers \in [DOMAIN sellers -> Seller] /\ DOMAIN sellers \subseteq Trusted
      /\ stage' = [stage EXCEPT ![st] = "reading"]
      /\ peer' = peer /\ noted' = noted /\ up' = up /\ packet' = packet
      /\ delivered' = delivered /\ fixes' = fixes /\ credits' = credits
      /\ stage \in [Streams -> Stages] /\ stage[st] = "accepted"
  BY DEF Connect, IInv, TypeOK, Seller
<1>2. /\ DOMAIN sellers' = DOMAIN sellers \cup {p}
      /\ \A q \in DOMAIN sellers : sellers'[q] = sellers[q]
      /\ p \notin DOMAIN sellers => sellers'[p] = NewSeller
      /\ sellers' = [q \in DOMAIN sellers' |-> sellers'[q]]
  BY <1>1 DEF Connect, Listed, With
<1>3. sellers' \in [DOMAIN sellers' -> Seller]
  BY <1>1, <1>2 DEF NewSeller, Seller
<1>4. TypeOK'
  BY <1>1, <1>2, <1>3 DEF IInv, TypeOK, Seller, Stages
<1>5. (\A t \in Streams : Stays(t)) /\ peer'[st] = p /\ stage'[st] \in Registered
  BY <1>1 DEF Stays, Registered
<1>6. ASSUME NEW q \in DOMAIN sellers'
      PROVE  /\ \E t \in Streams : peer'[t] = q /\ stage'[t] \in Registered
             /\ \A s \in sellers'[q].sensors :
                   \E t \in Streams : /\ peer'[t] = q
                                      /\ stage'[t] \in Registered
                                      /\ s \in noted'[t]
  <2>1. CASE q \in DOMAIN sellers
    BY <1>2, <1>5, <2>1, Covered
  <2>2. CASE q \notin DOMAIN sellers
    BY <1>2, <1>5, <2>2 DEF NewSeller
  <2> QED
    BY <2>1, <2>2
<1>7. RegisteredTrusted'
  BY <1>1 DEF RegisteredTrusted, Registered, IInv, TypeOK
<1> QED
  BY <1>4, <1>6, <1>7 DEF IInv, NoGhostSellers, SensorsOfLiveStreams

LEMMA NoteSensorKeeps ==
  ASSUME ConstantsAssumption, IInv, NEW st \in Streams, NoteSensor(st)
  PROVE  IInv'
<1> DEFINE p == peer[st]
           old == IF Listed(p) THEN sellers[p] ELSE NewSeller
           new == [old EXCEPT !.sensors = @ \cup {packet[st]}]
<1>1. /\ sellers \in [DOMAIN sellers -> Seller] /\ DOMAIN sellers \subseteq Trusted
      /\ stage' = [stage EXCEPT ![st] = "noted"] /\ stage[st] = "parsed"
      /\ noted' = [noted EXCEPT ![st] = @ \cup {packet[st]}]
      /\ noted \in [Streams -> SUBSET Sensors]
      /\ stage \in [Streams -> Stages] /\ packet[st] \in Sensors
      /\ peer' = peer /\ up' = up /\ packet' = packet
      /\ delivered' = delivered /\ fixes' = fixes /\ credits' = credits
  BY DEF NoteSensor, IInv, TypeOK, Seller
<1>2. sellers' = [q \in DOMAIN sellers \cup {p} |-> IF q = p THEN new ELSE sellers[q]]
  BY DEF NoteSensor, With
<1>3. old \in Seller
  BY <1>1 DEF Listed, NewSeller, Seller
<1> HIDE DEF old
<1>4. new \in Seller /\ new.sensors = old.sensors \cup {packet[st]}
  BY <1>1, <1>3 DEF Seller
<1>5. p \in Trusted
  BY <1>1 DEF IInv, RegisteredTrusted, Registered
<1>6. /\ DOMAIN sellers' = DOMAIN sellers \cup {p}
      /\ \A q \in DOMAIN sellers \ {p} : sellers'[q] = sellers[q]
      /\ sellers'[p] = new
      /\ sellers' \in [DOMAIN sellers' -> Seller]
  BY <1>1, <1>2, <1>4
<1>7. TypeOK'
  BY <1>1, <1>5, <1>6 DEF IInv, TypeOK, Seller, Stages, ConstantsAssumption
<1>8. /\ \A t \in Streams : Stays(t)
      /\ peer'[st] = p /\ stage'[st] \in Registered /\ packet[st] \in noted'[st]
  BY <1>1 DEF Stays, Registered
<1>9. ASSUME NEW q \in DOMAIN sellers'
      PROVE  /\ \E t \in Streams : peer'[t] = q /\ stage'[t] \in Registered
             /\ \A s \in sellers'[q].sensors :
                   \E t \in Streams : /\ peer'[t] = q
                                      /\ stage'[t] \in Registered
                                      /\ s \in noted'[t]
  <2>1. CASE q # p
    BY <1>6, <1>8, <2>1, Covered
  <2>2. CASE q = p
    <3>1. \A s \in old.sensors :
             \E t \in Streams : /\ peer'[t] = p
                                /\ stage'[t] \in Registered
                                /\ s \in noted'[t]
      <4>1. CASE Listed(p)
        BY <1>8, <4>1, Covered DEF old, Listed
      <4>2. CASE ~Listed(p)
        BY <4>2 DEF old, NewSeller
      <4> QED
        BY <4>1, <4>2
    <3> QED
      BY <1>4, <1>6, <1>8, <2>2, <3>1
  <2> QED
    BY <2>1, <2>2
<1>10. RegisteredTrusted'
  BY <1>1 DEF RegisteredTrusted, Registered, IInv, TypeOK
<1> QED
  BY <1>7, <1>9, <1>10 DEF IInv, NoGhostSellers, SensorsOfLiveStreams

\* The handler that ends takes the whole entry of its peer with it.
LEMMA DisconnectKeeps ==
  ASSUME IInv, NEW st \in Streams, Disconnect(st)
  PROVE  IInv'
<1>1. /\ sellers' = [q \in DOMAIN sellers \ {peer[st]} |-> sellers[q]]
      /\ sellers \in [DOMAIN sellers -> Seller]
      /\ stage' = [stage EXCEPT ![st] = "done"]
      /\ up' = up \ {st}
      /\ peer' = peer /\ noted' = noted /\ packet' = packet
      /\ delivered' = delivered /\ fixes' = fixes /\ credits' = credits
      /\ stage \in [Streams -> Stages] /\ stage[st] = "leaving"
  BY DEF Disconnect, IInv, TypeOK, Seller
<1>2. /\ DOMAIN sellers' = DOMAIN sellers \ {peer[st]}
      /\ \A q \in DOMAIN sellers' : sellers'[q] = sellers[q]
      /\ sellers' \in [DOMAIN sellers' -> Seller]
  BY <1>1
<1>3. TypeOK'
  BY <1>1, <1>2 DEF IInv, TypeOK, Seller, Stages
<1>4. \A t \in Streams : peer[t] # peer[st] => Stays(t)
  BY <1>1 DEF Stays
<1>5. ASSUME NEW q \in DOMAIN sellers'
      PROVE  /\ \E t \in Streams : peer'[t] = q /\ stage'[t] \in Registered
             /\ \A s \in sellers'[q].sensors :
                   \E t \in Streams : /\ peer'[t] = q
                                      /\ stage'[t] \in Registered
                                      /\ s \in noted'[t]
  BY <1>2, <1>4, Covered
<1>6. RegisteredTrusted'
  BY <1>1 DEF RegisteredTrusted, Registered, IInv, TypeOK
<1> QED
  BY <1>3, <1>5, <1>6 DEF IInv, NoGhostSellers, SensorsOfLiveStreams

\* A fix changes no seller but its samples, which only grow.
LEMMA RecordFixCredits ==
  ASSUME ConstantsAssumption, IInv, NEW contributors \in SUBSET delivered,
         RecordFix(contributors)
  PROVE  /\ DOMAIN sellers' = DOMAIN sellers
         /\ sellers' \in [DOMAIN sellers' -> Seller]
         /\ \A p \in DOMAIN sellers :
               /\ sellers'[p].sensors = sellers[p].sensors
               /\ sellers'[p].samples >= sellers[p].samples
         /\ Cardinality(contributors) \in Nat
<1>1. IsFiniteSet(contributors)
  BY FS_Subset DEF IInv, TypeOK, ConstantsAssumption
<1>2. PICK owner \in [contributors -> Peers] : sellers' = Credited(contributors, owner)
  BY DEF RecordFix
<1> DEFINE gain(p) == Cardinality({s \in contributors : Owners(s) # {} /\ owner[s] = p})
<1>3. \A p : gain(p) \in Nat
  <2>1. \A p : IsFiniteSet({s \in contributors : Owners(s) # {} /\ owner[s] = p})
    BY <1>1, FS_Subset
  <2> QED
    BY <2>1, FS_CardinalityType
<1>4. sellers' = [p \in DOMAIN sellers |-> [sellers[p] EXCEPT !.samples = @ + gain(p)]]
  BY <1>2 DEF Credited
<1> HIDE DEF gain
<1>5. sellers \in [DOMAIN sellers -> Seller]
  BY DEF IInv, TypeOK, Seller
<1>6. ASSUME NEW p \in DOMAIN sellers
      PROVE  /\ sellers'[p] \in Seller
             /\ sellers'[p].sensors = sellers[p].sensors
             /\ sellers'[p].samples >= sellers[p].samples
  BY <1>3, <1>4, <1>5 DEF Seller
<1>7. DOMAIN sellers' = DOMAIN sellers /\ sellers' = [p \in DOMAIN sellers |-> sellers'[p]]
  BY <1>4
<1>8. sellers' \in [DOMAIN sellers' -> Seller]
  BY <1>6, <1>7
<1> QED
  BY <1>1, <1>6, <1>7, <1>8, FS_CardinalityType

LEMMA RecordFixKeeps ==
  ASSUME ConstantsAssumption, IInv, NEW contributors \in SUBSET delivered,
         RecordFix(contributors)
  PROVE  IInv'
<1>1. /\ stage' = stage /\ peer' = peer /\ up' = up /\ packet' = packet
      /\ noted' = noted /\ delivered' = delivered
      /\ fixes' = fixes + 1 /\ fixes < MaxFixes
      /\ credits' = credits + Cardinality(contributors)
  BY DEF RecordFix
<1>2. TypeOK'
  <2>1. credits' \in Nat /\ fixes' \in 0..MaxFixes
    BY <1>1, RecordFixCredits DEF IInv, TypeOK, ConstantsAssumption
  <2>2. /\ DOMAIN sellers' \subseteq Trusted
        /\ sellers' \in [DOMAIN sellers' -> Seller]
    BY RecordFixCredits DEF IInv, TypeOK
  <2> QED
    BY <1>1, <2>1, <2>2 DEF IInv, TypeOK, Seller
<1>3. \A st \in Streams : Stays(st)
  BY <1>1 DEF Stays
<1>4. ASSUME NEW q \in DOMAIN sellers'
      PROVE  /\ \E t \in Streams : peer'[t] = q /\ stage'[t] \in Registered
             /\ \A s \in sellers'[q].sensors :
                   \E t \in Streams : /\ peer'[t] = q
                                      /\ stage'[t] \in Registered
                                      /\ s \in noted'[t]
  BY <1>3, Covered, RecordFixCredits
<1>5. RegisteredTrusted'
  BY <1>1 DEF RegisteredTrusted, IInv
<1> QED
  BY <1>2, <1>4, <1>5 DEF IInv, NoGhostSellers, SensorsOfLiveStreams

LEMMA NextKeeps ==
  ASSUME IInv, [Next]_vars
  PROVE  IInv'
<1>1. ASSUME NEW st \in Streams, HandlerStep(st) PROVE IInv'
  BY <1>1, ConstantsAssumption, RejectKeeps, ConnectKeeps, NoteSensorKeeps,
     DeliverPacketKeeps, LeaveKeeps, DisconnectKeeps DEF HandlerStep
<1>2. ASSUME NEW st \in Streams, LinkDrops(st) \/ LeaveQuiet(st) PROVE IInv'
  BY <1>2, LinkDropsKeeps, LeaveKeeps
<1>3. ASSUME NEW st \in Streams, NEW p \in Peers, Open(st, p) PROVE IInv'
  BY <1>3, OpenKeeps
<1>4. ASSUME NEW st \in Streams, NEW s \in Sensors, ReadPacket(st, s) PROVE IInv'
  BY <1>4, ConstantsAssumption, ReadPacketKeeps
<1>5. ASSUME NEW c \in SUBSET delivered, RecordFix(c) PROVE IInv'
  BY <1>5, ConstantsAssumption, RecordFixKeeps
<1>6. CASE UNCHANGED vars
  BY <1>6 DEF IInv, vars, TypeOK, RegisteredTrusted, NoGhostSellers,
              SensorsOfLiveStreams
<1> QED
  BY <1>1, <1>2, <1>3, <1>4, <1>5, <1>6 DEF Next

\* IInv holds in every reachable state.
THEOREM Invariance == Spec => []IInv
<1>1. Init => IInv
  BY ConstantsAssumption DEF Init, IInv, TypeOK, RegisteredTrusted, NoGhostSellers,
     SensorsOfLiveStreams, Stages, Registered, ConstantsAssumption
<1>2. IInv /\ [Next]_vars => IInv'
  BY NextKeeps
<1> QED
  BY <1>1, <1>2, PTL DEF Spec

\* Handlers hold packets where the code does; only trusted peers are listed.
THEOREM TypeCorrect == Spec => []TypeOK
<1>1. IInv => TypeOK
  BY DEF IInv
<1> QED
  BY <1>1, Invariance, PTL

\* Every listed seller has a handler that will still take it off the list.
THEOREM NoGhosts == Spec => []NoGhostSellers
<1>1. IInv => NoGhostSellers
  BY DEF IInv
<1> QED
  BY <1>1, Invariance, PTL

\* No seller is credited for what an ended stream of it reported.
THEOREM SensorsAreLive == Spec => []SensorsOfLiveStreams
<1>1. IInv => SensorsOfLiveStreams
  BY DEF IInv
<1> QED
  BY <1>1, Invariance, PTL

\* Samples of a seller that stays listed never decrease.
THEOREM ReputationIsKept == Spec => ReputationKept
<1> DEFINE Kept == \A p \in DOMAIN sellers \cap DOMAIN sellers' :
                      sellers'[p].samples >= sellers[p].samples
<1>1. IInv /\ [Next]_vars => [Kept]_vars
  <2> SUFFICES ASSUME IInv, Next PROVE Kept
    OBVIOUS
  <2>1. \A p \in DOMAIN sellers : sellers[p].samples \in Nat
    BY DEF IInv, TypeOK
  <2>2. CASE UNCHANGED sellers
    BY <2>1, <2>2
  <2>3. ASSUME NEW st \in Streams, Connect(st) PROVE Kept
    <3>1. \A p \in DOMAIN sellers : sellers'[p] = sellers[p]
      BY <2>3 DEF Connect, Listed, With
    <3> QED
      BY <2>1, <3>1
  <2>4. ASSUME NEW st \in Streams, NoteSensor(st) PROVE Kept
    <3>1. \A p \in DOMAIN sellers : sellers'[p].samples = sellers[p].samples
      BY <2>4 DEF NoteSensor, Listed, With, IInv, TypeOK
    <3> QED
      BY <2>1, <3>1
  <2>5. ASSUME NEW st \in Streams, Disconnect(st) PROVE Kept
    BY <2>1, <2>5 DEF Disconnect
  <2>6. ASSUME NEW c \in SUBSET delivered, RecordFix(c) PROVE Kept
    BY <2>6, ConstantsAssumption, RecordFixCredits
  <2> HIDE DEF Kept
  <2> QED
    BY <2>2, <2>3, <2>4, <2>5, <2>6 DEF Next, HandlerStep, Reject, DeliverPacket,
       LeaveClosed, LeaveQuiet, LinkDrops, Open, ReadPacket
<1> QED
  BY <1>1, Invariance, PTL DEF Spec, ReputationKept

-----------------------------------------------------------------------------
(***************************************************************************)
(* Induction, and sums over finite sets.  The induction theorems of the    *)
(* library are about operators; here they are about sets, which the        *)
(* provers can compute with.                                               *)
(***************************************************************************)

\* A set of numbers that is not empty has a least element.
LEMMA Least ==
  ASSUME NEW T, T \subseteq Nat, T # {}
  PROVE  \E x \in T : \A y \in T : x <= y
<1> DEFINE R == OpToRel(<, Nat)
<1>1. R = {r \in Nat \X Nat : r[1] < r[2]}
  BY DEF OpToRel
<1>2. IsWellFoundedOn(R, Nat)
  BY NatLessThanWellFounded
<1> HIDE DEF R
<1>3. PICK x \in T : \A y \in T : ~(<<y, x>> \in R)
  BY <1>2, WFMin
<1>4. \A y \in T : x <= y
  <2> SUFFICES ASSUME NEW y \in T, y < x PROVE FALSE
    OBVIOUS
  <2>1. <<y, x>> \in Nat \X Nat /\ <<y, x>>[1] = y /\ <<y, x>>[2] = x
    OBVIOUS
  <2>2. <<y, x>> \in R
    BY <1>1, <2>1, Zenon
  <2> QED
    BY <1>3, <2>2
<1> QED
  BY <1>4

LEMMA Induction ==
  ASSUME NEW S, 0 \in S, \A n \in Nat : n \in S => n + 1 \in S
  PROVE  Nat \subseteq S
<1> SUFFICES ASSUME Nat \ S # {} PROVE FALSE
  OBVIOUS
<1>1. PICK x \in Nat \ S : \A y \in Nat \ S : x <= y
  BY Least
<1>2. x - 1 \in Nat /\ x - 1 \notin S
  BY <1>1
<1> QED
  BY <1>1, <1>2

\* The samples of the sellers in S, and how the sum takes them one by one.
Samples(f, S) == MapThenSumSet(LAMBDA p : f[p].samples, S)

Choice(s) == CHOOSE x \in s : TRUE

IsSum(g, f, D) ==
  g = [s \in D |-> IF s = {} THEN 0 ELSE f[Choice(s)].samples + g[s \ {Choice(s)}]]

Total(f, S) == CHOOSE g : IsSum(g, f, SUBSET S)

LEMMA SamplesDef ==
  ASSUME NEW f, NEW S
  PROVE  Samples(f, S) = Total(f, S)[S]
BY Zenon DEF Samples, MapThenSumSet, MapThenFoldSet, Total, IsSum, Choice

LEMMA SumExists ==
  ASSUME NEW f, NEW S, IsFiniteSet(S)
  PROVE  \E g : IsSum(g, f, SUBSET S)
<1> DEFINE Small(n) == {s \in SUBSET S : Cardinality(s) <= n}
           Ns == {n \in Nat : \E g : IsSum(g, f, Small(n))}
<1>0. \A s \in SUBSET S : IsFiniteSet(s) /\ Cardinality(s) \in Nat
  BY FS_Subset, FS_CardinalityType
<1>1. 0 \in Ns
  <2>1. Small(0) = {{}}
    BY <1>0, FS_EmptySet
  <2>2. IsSum([s \in {{}} |-> 0], f, {{}})
    BY DEF IsSum
  <2> QED
    BY <2>1, <2>2
<1>2. ASSUME NEW n \in Nat, n \in Ns PROVE n + 1 \in Ns
  <2>1. PICK g : IsSum(g, f, Small(n))
    BY <1>2
  <2> DEFINE h == [s \in Small(n + 1) |->
                     IF s = {} THEN 0 ELSE f[Choice(s)].samples + g[s \ {Choice(s)}]]
  <2>2. \A s \in Small(n + 1) \ {{}} : s \ {Choice(s)} \in Small(n)
    <3> SUFFICES ASSUME NEW s \in Small(n + 1), s # {} PROVE s \ {Choice(s)} \in Small(n)
      OBVIOUS
    <3>1. Choice(s) \in s
      BY DEF Choice
    <3>2. IsFiniteSet(s) /\ Cardinality(s \ {Choice(s)}) = Cardinality(s) - 1
      BY <1>0, <3>1, FS_RemoveElement
    <3> QED
      BY <1>0, <3>2
  <2>3. \A s \in Small(n) : s \in Small(n + 1) /\ h[s] = g[s]
    <3>1. \A s \in Small(n) : s \in Small(n + 1)
      BY <1>0
    <3> HIDE DEF Small
    <3> QED
      BY <2>1, <3>1 DEF IsSum
  <2>4. \A s \in Small(n + 1) : h[s] = IF s = {} THEN 0
                                       ELSE f[Choice(s)].samples + h[s \ {Choice(s)}]
    <3> HIDE DEF Small
    <3> QED
      BY <2>2, <2>3
  <2>5. IsSum(h, f, Small(n + 1))
    <3> HIDE DEF Small
    <3> QED
      BY <2>4 DEF IsSum
  <2>6. \E k : IsSum(k, f, Small(n + 1))
    <3> HIDE DEF h, Small
    <3> QED
      BY <2>5
  <2> HIDE DEF h, Small
  <2> QED
    BY <2>6
<1>3. Cardinality(S) \in Ns
  <2>1. Nat \subseteq Ns
    <3> HIDE DEF Ns
    <3> QED
      BY <1>1, <1>2, Induction
  <2> QED
    BY <1>0, <2>1
<1>4. Small(Cardinality(S)) = SUBSET S
  BY <1>0, FS_Subset
<1> QED
  BY <1>3, <1>4

LEMMA FewerFirst ==
  ASSUME NEW S, IsFiniteSet(S), NEW Q, {} \in Q,
         \A T \in SUBSET S : T # {} /\ (\A x \in T : T \ {x} \in Q) => T \in Q
  PROVE  SUBSET S \subseteq Q
<1> DEFINE Ns == {n \in Nat : \A T \in SUBSET S : Cardinality(T) = n => T \in Q}
<1>0. \A s \in SUBSET S : IsFiniteSet(s) /\ Cardinality(s) \in Nat
  BY FS_Subset, FS_CardinalityType
<1>1. 0 \in Ns
  BY <1>0, FS_EmptySet
<1>2. ASSUME NEW n \in Nat, n \in Ns PROVE n + 1 \in Ns
  <2> SUFFICES ASSUME NEW T \in SUBSET S, Cardinality(T) = n + 1 PROVE T \in Q
    OBVIOUS
  <2>1. \A x \in T : Cardinality(T \ {x}) = n /\ T \ {x} \in SUBSET S
    BY <1>0, FS_RemoveElement
  <2>2. T # {}
    BY FS_EmptySet
  <2> QED
    BY <1>2, <2>1, <2>2
<1>3. Nat \subseteq Ns
  <2> HIDE DEF Ns
  <2> QED
    BY <1>1, <1>2, Induction
<1> QED
  BY <1>0, <1>3

LEMMA SumUnique ==
  ASSUME NEW f, NEW S, IsFiniteSet(S), NEW T \in SUBSET S, NEW g, NEW h,
         IsSum(g, f, SUBSET S), IsSum(h, f, SUBSET T)
  PROVE  g[T] = h[T]
<1> DEFINE Q == {U \in SUBSET T : g[U] = h[U]}
<1>1. {} \in Q
  BY DEF IsSum
<1>2. \A U \in SUBSET T : U # {} /\ (\A x \in U : U \ {x} \in Q) => U \in Q
  <2> SUFFICES ASSUME NEW U \in SUBSET T, U # {}, \A x \in U : U \ {x} \in Q PROVE g[U] = h[U]
    OBVIOUS
  <2>1. Choice(U) \in U
    BY DEF Choice
  <2>2. g[U \ {Choice(U)}] = h[U \ {Choice(U)}]
    BY <2>1
  <2> QED
    BY <2>2 DEF IsSum
<1>3. IsFiniteSet(T)
  BY FS_Subset
<1> HIDE DEF Q
<1>4. T \in Q
  BY <1>1, <1>2, <1>3, FewerFirst
<1> QED
  BY <1>4 DEF Q

LEMMA SamplesAre ==
  ASSUME NEW f, NEW S, IsFiniteSet(S)
  PROVE  \E g : /\ IsSum(g, f, SUBSET S)
                /\ \A T \in SUBSET S : Samples(f, T) = g[T]
<1>1. PICK g : IsSum(g, f, SUBSET S)
  BY SumExists
<1>2. ASSUME NEW T \in SUBSET S PROVE Samples(f, T) = g[T]
  <2>1. IsFiniteSet(T)
    BY FS_Subset
  <2>2. IsSum(Total(f, T), f, SUBSET T)
    BY <2>1, SumExists DEF Total
  <2>3. Total(f, T)[T] = g[T]
    BY <1>1, <2>2, SumUnique
  <2> QED
    BY <2>3, SamplesDef
<1> QED
  BY <1>1, <1>2

LEMMA SamplesOfNone ==
  ASSUME NEW f
  PROVE  Samples(f, {}) = 0
<1>1. PICK g : IsSum(g, f, SUBSET {}) /\ Samples(f, {}) = g[{}]
  BY FS_EmptySet, SamplesAre
<1> QED
  BY <1>1 DEF IsSum

\* Any seller can be the first that is counted.
LEMMA SamplesOfOneMore ==
  ASSUME NEW f, NEW S, IsFiniteSet(S), \A p \in S : f[p].samples \in Nat, NEW p \in S
  PROVE  /\ Samples(f, S) = f[p].samples + Samples(f, S \ {p})
         /\ Samples(f, S) \in Nat
<1>1. PICK g : /\ IsSum(g, f, SUBSET S)
               /\ \A T \in SUBSET S : Samples(f, T) = g[T]
  BY SamplesAre
<1> DEFINE Q == {T \in SUBSET S : /\ \A U \in SUBSET T : g[U] \in Nat
                                  /\ \A x \in T : g[T] = f[x].samples + g[T \ {x}]}
<1>2. {} \in Q
  BY <1>1 DEF IsSum
<1>3. \A T \in SUBSET S : T # {} /\ (\A x \in T : T \ {x} \in Q) => T \in Q
  <2> SUFFICES ASSUME NEW T \in SUBSET S, T # {}, \A x \in T : T \ {x} \in Q
               PROVE  T \in Q
    OBVIOUS
  <2> DEFINE c == Choice(T)
  <2>1. c \in T
    BY DEF Choice
  <2>2. g[T] = f[c].samples + g[T \ {c}]
    BY <1>1 DEF IsSum
  <2> HIDE DEF c
  <2>3. ASSUME NEW x \in T, x # c PROVE g[T] = f[x].samples + g[T \ {x}]
    <3>1. g[T \ {c}] = f[x].samples + g[(T \ {c}) \ {x}]
      BY <2>1, <2>3
    <3>2. g[T \ {x}] = f[c].samples + g[(T \ {x}) \ {c}]
      BY <2>1, <2>3
    <3>3. (T \ {c}) \ {x} = (T \ {x}) \ {c}
      OBVIOUS
    <3>4. g[(T \ {c}) \ {x}] \in Nat
      BY <2>1
    <3>5. f[x].samples \in Nat /\ f[c].samples \in Nat
      BY <2>1
    <3> DEFINE r == g[(T \ {c}) \ {x}]
    <3>6. g[T] = f[c].samples + (f[x].samples + r)
      BY <2>2, <3>1, Zenon
    <3>7. g[T \ {x}] = f[c].samples + r
      BY <3>2, <3>3, Zenon
    <3>8. r \in Nat
      BY <3>4
    <3> HIDE DEF Q, r
    <3> QED
      BY <3>5, <3>6, <3>7, <3>8
  <2>4. \A U \in SUBSET T : g[U] \in Nat
    <3>1. g[T \ {c}] \in Nat /\ f[c].samples \in Nat
      BY <2>1
    <3>2. g[T] \in Nat
      BY <2>2, <3>1
    <3>3. ASSUME NEW U \in SUBSET T, U # T PROVE g[U] \in Nat
      <4>1. PICK x \in T : U \subseteq T \ {x}
        BY <3>3
      <4> QED
        BY <4>1
    <3> QED
      BY <3>2, <3>3
  <2> QED
    BY <2>2, <2>3, <2>4
<1>4. S \in Q
  <2> HIDE DEF Q
  <2> QED
    BY <1>2, <1>3, FewerFirst
<1> QED
  BY <1>1, <1>4

LEMMA SamplesTyped ==
  ASSUME NEW f, NEW S, IsFiniteSet(S), \A p \in S : f[p].samples \in Nat
  PROVE  Samples(f, S) \in Nat
<1>1. CASE S = {}
  BY <1>1, SamplesOfNone
<1>2. CASE S # {}
  BY <1>2, SamplesOfOneMore
<1> QED
  BY <1>1, <1>2


\* Samples depend on nothing else.
LEMMA SamplesKept ==
  ASSUME NEW f, NEW h, NEW S, IsFiniteSet(S),
         \A p \in S : h[p].samples = f[p].samples
  PROVE  Samples(h, S) = Samples(f, S)
<1>0. PICK g : /\ IsSum(g, f, SUBSET S)
               /\ \A T \in SUBSET S : Samples(f, T) = g[T]
  BY SamplesAre
<1>1. IsSum(g, f, SUBSET S) /\ Samples(f, S) = g[S]
  BY <1>0
<1>2. \A s \in SUBSET S : s # {} => f[Choice(s)].samples = h[Choice(s)].samples
  BY DEF Choice
<1>3. IsSum(g, h, SUBSET S)
  BY <1>1, <1>2 DEF IsSum
<1>4. IsSum(Total(h, S), h, SUBSET S)
  BY SumExists DEF Total
<1>5. Total(h, S)[S] = g[S]
  BY <1>3, <1>4, SumUnique
<1> QED
  BY <1>1, <1>5, SamplesDef

\* A seller that is listed anew has none.
LEMMA SamplesOfNew ==
  ASSUME NEW f, NEW h, NEW S, IsFiniteSet(S), NEW p,
         \A q \in S : f[q].samples \in Nat /\ h[q].samples = f[q].samples,
         p \notin S => h[p].samples = 0
  PROVE  Samples(h, S \cup {p}) = Samples(f, S)
<1>1. Samples(h, S) = Samples(f, S)
  BY SamplesKept
<1>2. CASE p \in S
  <2>1. S \cup {p} = S
    BY <1>2
  <2> QED
    BY <1>1, <2>1
<1>3. CASE p \notin S
  <2>1. IsFiniteSet(S \cup {p}) /\ \A q \in S \cup {p} : h[q].samples \in Nat
    BY <1>3, FS_AddElement
  <2>2. (S \cup {p}) \ {p} = S
    BY <1>3
  <2>3. Samples(h, S \cup {p}) = h[p].samples + Samples(h, S)
    BY <2>1, <2>2, SamplesOfOneMore
  <2>4. Samples(h, S) \in Nat
    BY <1>1, SamplesTyped
  <2> QED
    BY <1>1, <1>3, <2>3, <2>4
<1> QED
  BY <1>2, <1>3

\* The contributors of G that are credited to p, and to any seller of T.
Of(p, G, owner) == {s \in G : owner[s] = p}

OfAny(T, G, owner) == {s \in G : owner[s] \in T}

\* The sum is as much larger as its contributors are credited to these sellers.
LEMMA SamplesOfCredited ==
  ASSUME NEW D, IsFiniteSet(D), NEW C, IsFiniteSet(C), NEW owner, NEW f, NEW h,
         NEW G, G \subseteq C,
         \A p \in D : /\ f[p].samples \in Nat
                      /\ h[p].samples = f[p].samples + Cardinality(Of(p, G, owner))
  PROVE  Samples(h, D) <= Samples(f, D) + Cardinality(C)
<1> DEFINE To(T) == OfAny(T, G, owner)
           Q == {T \in SUBSET D : Samples(h, T) = Samples(f, T) + Cardinality(To(T))}
<1>1. \A T : /\ IsFiniteSet(To(T))
             /\ Cardinality(To(T)) \in Nat
             /\ Cardinality(To(T)) <= Cardinality(C)
  <2> SUFFICES ASSUME NEW T
               PROVE  /\ IsFiniteSet(To(T)) /\ Cardinality(To(T)) \in Nat
                      /\ Cardinality(To(T)) <= Cardinality(C)
    OBVIOUS
  <2>1. To(T) \in SUBSET C
    BY DEF OfAny
  <2> HIDE DEF To
  <2> QED
    BY <2>1, FS_Subset, FS_CardinalityType
<1>2. {} \in Q
  <2>1. To({}) = {}
    BY DEF OfAny
  <2>2. Cardinality(To({})) = 0
    BY <2>1, FS_EmptySet
  <2>3. Samples(h, {}) = 0 /\ Samples(f, {}) = 0
    BY SamplesOfNone, Zenon
  <2>4. Samples(h, {}) = Samples(f, {}) + Cardinality(To({}))
    <3> HIDE DEF To, Q
    <3> QED
      BY <2>2, <2>3
  <2> QED
    BY <2>4
<1>3. \A T \in SUBSET D : T # {} /\ (\A x \in T : T \ {x} \in Q) => T \in Q
  <2> SUFFICES ASSUME NEW T \in SUBSET D, T # {}, \A x \in T : T \ {x} \in Q
               PROVE  Samples(h, T) = Samples(f, T) + Cardinality(To(T))
    OBVIOUS
  <2>1. PICK p \in T : TRUE
    OBVIOUS
  <2> DEFINE R == T \ {p}
             own == Of(p, G, owner)
  <2>2. To(T) = To(R) \cup own /\ To(R) \cap own = {} /\ own = To({p})
    BY <2>1 DEF Of, OfAny
  <2>3. Cardinality(To(T)) = Cardinality(To(R)) + Cardinality(own)
    <3>1. IsFiniteSet(To(R)) /\ IsFiniteSet(own)
      BY <1>1, <2>2
    <3>2. Cardinality(To(R)) \in Nat /\ Cardinality(own) \in Nat
      BY <1>1, <2>2
    <3> DEFINE rest == To(R)
    <3>3. To(T) = rest \cup own /\ rest \cap own = {} /\ IsFiniteSet(rest)
      BY <2>2, <3>1
    <3> HIDE DEF To, own, rest
    <3>4. Cardinality(rest \cup own) =
            Cardinality(rest) + Cardinality(own) - Cardinality(rest \cap own)
      BY <3>1, <3>3, FS_Union
    <3>5. Cardinality(To(T)) = Cardinality(rest) + Cardinality(own) - 0
      BY <3>3, <3>4, FS_EmptySet
    <3> QED
      BY <3>2, <3>5 DEF rest
  <2>4. IsFiniteSet(T) /\ IsFiniteSet(R)
    BY FS_Subset
  <2>5. /\ f[p].samples \in Nat
        /\ h[p].samples = f[p].samples + Cardinality(own)
        /\ Cardinality(own) \in Nat /\ Cardinality(To(R)) \in Nat
    BY <1>1, <2>1, <2>2
  <2>6. /\ \A q \in T : f[q].samples \in Nat
        /\ \A q \in T : h[q].samples \in Nat
    <3> SUFFICES ASSUME NEW q \in T PROVE f[q].samples \in Nat /\ h[q].samples \in Nat
      OBVIOUS
    <3> DEFINE n == Cardinality(Of(q, G, owner))
    <3>1. n \in Nat
      <4>1. Of(q, G, owner) = To({q})
        BY DEF Of, OfAny
      <4> QED
        BY <1>1, <4>1
    <3>2. q \in D
      OBVIOUS
    <3>3. f[q].samples \in Nat /\ h[q].samples = f[q].samples + n
      BY <3>2
    <3> HIDE DEF n, To, Q
    <3> QED
      BY <3>1, <3>3
  <2>7. Samples(f, T) = f[p].samples + Samples(f, R) /\ Samples(f, R) \in Nat
    <3>1. \A q \in R : f[q].samples \in Nat
      BY <2>6
    <3> HIDE DEF To, own, Q
    <3>2. Samples(f, R) \in Nat
      BY <2>4, <3>1, SamplesTyped
    <3>3. Samples(f, T) = f[p].samples + Samples(f, T \ {p})
      BY <2>1, <2>4, <2>6, SamplesOfOneMore
    <3> QED
      BY <3>2, <3>3
  <2>8. Samples(h, T) = h[p].samples + Samples(h, R)
    <3> HIDE DEF To, own, Q
    <3>1. Samples(h, T) = h[p].samples + Samples(h, T \ {p})
      BY <2>1, <2>4, <2>6, SamplesOfOneMore
    <3> QED
      BY <3>1
  <2>9. Samples(h, R) = Samples(f, R) + Cardinality(To(R))
    BY <2>1
  <2> HIDE DEF R, own, To
  <2> QED
    BY <2>3, <2>5, <2>7, <2>8, <2>9
<1>4. D \in Q
  <2> HIDE DEF Q
  <2> QED
    BY <1>2, <1>3, FewerFirst
<1>5. Samples(f, D) \in Nat
  BY SamplesTyped
<1>6. Cardinality(C) \in Nat
  BY FS_CardinalityType
<1> HIDE DEF To
<1> QED
  BY <1>1, <1>4, <1>5, <1>6

-----------------------------------------------------------------------------
(* Credits: the samples of all sellers against the contributors of fixes.  *)

CreditInv ==
  /\ IsFiniteSet(DOMAIN sellers)
  /\ Samples(sellers, DOMAIN sellers) <= credits

LEMMA SamplesListed ==
  ASSUME IInv, CreditInv
  PROVE  /\ \A p \in DOMAIN sellers : sellers[p].samples \in Nat
         /\ Samples(sellers, DOMAIN sellers) \in Nat
         /\ credits \in Nat
<1>1. \A p \in DOMAIN sellers : sellers[p].samples \in Nat
  BY DEF IInv, TypeOK
<1> QED
  BY <1>1, SamplesTyped DEF IInv, TypeOK, CreditInv

\* A step that adds a seller with no samples, or none.
LEMMA ListingCredits ==
  ASSUME IInv, CreditInv, credits' = credits, NEW p,
         DOMAIN sellers' = DOMAIN sellers \cup {p},
         \A q \in DOMAIN sellers : sellers'[q].samples = sellers[q].samples,
         p \notin DOMAIN sellers => sellers'[p].samples = 0
  PROVE  CreditInv'
<1>1. IsFiniteSet(DOMAIN sellers')
  BY FS_AddElement DEF CreditInv
<1>2. Samples(sellers', DOMAIN sellers \cup {p}) = Samples(sellers, DOMAIN sellers)
  BY SamplesListed, SamplesOfNew DEF CreditInv
<1> QED
  BY <1>1, <1>2 DEF CreditInv

LEMMA ConnectCredits ==
  ASSUME IInv, CreditInv, NEW st \in Streams, Connect(st)
  PROVE  CreditInv'
<1>1. /\ DOMAIN sellers' = DOMAIN sellers \cup {peer[st]}
      /\ \A q \in DOMAIN sellers : sellers'[q] = sellers[q]
      /\ peer[st] \notin DOMAIN sellers => sellers'[peer[st]] = NewSeller
      /\ credits' = credits
  BY DEF Connect, Listed, With
<1> QED
  BY <1>1, ListingCredits DEF NewSeller

LEMMA NoteSensorCredits ==
  ASSUME IInv, CreditInv, NEW st \in Streams, NoteSensor(st)
  PROVE  CreditInv'
<1> DEFINE p == peer[st]
           old == IF Listed(p) THEN sellers[p] ELSE NewSeller
           new == [old EXCEPT !.sensors = @ \cup {packet[st]}]
<1>1. /\ sellers' = [q \in DOMAIN sellers \cup {p} |-> IF q = p THEN new ELSE sellers[q]]
      /\ credits' = credits
  BY DEF NoteSensor, With
<1>2. sellers \in [DOMAIN sellers -> Seller]
  BY DEF IInv, TypeOK, Seller
<1>3. old \in [sensors : {old.sensors}, samples : {old.samples}]
  BY <1>2 DEF Listed, NewSeller, Seller
<1>4. old.samples = IF p \in DOMAIN sellers THEN sellers[p].samples ELSE 0
  BY DEF Listed, NewSeller
<1> HIDE DEF old
<1>5. new.samples = old.samples
  BY <1>3
<1> HIDE DEF new, p
<1>6. /\ DOMAIN sellers' = DOMAIN sellers \cup {p}
      /\ \A q \in DOMAIN sellers : sellers'[q].samples = sellers[q].samples
      /\ p \notin DOMAIN sellers => sellers'[p].samples = 0
  BY <1>1, <1>4, <1>5
<1> QED
  BY <1>1, <1>6, ListingCredits

LEMMA DisconnectCredits ==
  ASSUME IInv, CreditInv, NEW st \in Streams, Disconnect(st)
  PROVE  CreditInv'
<1> DEFINE D == DOMAIN sellers
           p == peer[st]
<1>1. /\ DOMAIN sellers' = D \ {p}
      /\ \A q \in D \ {p} : sellers'[q] = sellers[q]
      /\ credits' = credits
  BY DEF Disconnect
<1>2. IsFiniteSet(D) /\ IsFiniteSet(D \ {p})
  BY FS_RemoveElement DEF CreditInv
<1>3. /\ \A q \in D : sellers[q].samples \in Nat
      /\ Samples(sellers, D) \in Nat /\ Samples(sellers, D) <= credits /\ credits \in Nat
  BY SamplesListed DEF CreditInv
<1> HIDE DEF D, p
<1>4. Samples(sellers', D \ {p}) = Samples(sellers, D \ {p})
  BY <1>1, <1>2, SamplesKept
<1>5. Samples(sellers, D \ {p}) \in Nat
  BY <1>2, <1>3, SamplesTyped
<1>6. Samples(sellers, D \ {p}) <= Samples(sellers, D)
  <2>1. CASE p \in D
    <3>1. Samples(sellers, D) = sellers[p].samples + Samples(sellers, D \ {p})
      BY <1>2, <1>3, <2>1, SamplesOfOneMore
    <3> QED
      BY <1>3, <1>5, <2>1, <3>1
  <2>2. CASE p \notin D
    <3>1. D \ {p} = D
      BY <2>2
    <3> QED
      BY <1>3, <3>1
  <2> QED
    BY <2>1, <2>2
<1> QED
  BY <1>1, <1>2, <1>3, <1>4, <1>5, <1>6 DEF CreditInv

LEMMA RecordFixCreditsOnce ==
  ASSUME ConstantsAssumption, IInv, CreditInv, NEW contributors \in SUBSET delivered,
         RecordFix(contributors)
  PROVE  CreditInv'
<1>1. IsFiniteSet(contributors)
  BY FS_Subset DEF IInv, TypeOK, ConstantsAssumption
<1>2. PICK owner \in [contributors -> Peers] : sellers' = Credited(contributors, owner)
  BY DEF RecordFix
<1> DEFINE G == {s \in contributors : Owners(s) # {}}
<1>3. \A p : {s \in contributors : Owners(s) # {} /\ owner[s] = p} = {s \in G : owner[s] = p}
  OBVIOUS
<1>4. sellers' = [p \in DOMAIN sellers |->
                    [sellers[p] EXCEPT !.samples = @ + Cardinality({s \in G : owner[s] = p})]]
  BY <1>2, <1>3 DEF Credited
<1>5. sellers \in [DOMAIN sellers -> Seller]
  BY DEF IInv, TypeOK, Seller
<1>6. G \subseteq contributors
  OBVIOUS
<1> HIDE DEF G
<1>7. /\ DOMAIN sellers' = DOMAIN sellers
      /\ \A p \in DOMAIN sellers :
           /\ sellers[p].samples \in Nat
           /\ sellers'[p].samples = sellers[p].samples + Cardinality({s \in G : owner[s] = p})
  BY <1>4, <1>5 DEF Seller
<1>8. Samples(sellers', DOMAIN sellers) <=
        Samples(sellers, DOMAIN sellers) + Cardinality(contributors)
  <2> DEFINE D == DOMAIN sellers
  <2>1. /\ IsFiniteSet(D)
        /\ \A p \in D :
             /\ sellers[p].samples \in Nat
             /\ sellers'[p].samples = sellers[p].samples + Cardinality(Of(p, G, owner))
    BY <1>7 DEF Of, CreditInv
  <2> HIDE DEF D
  <2>2. Samples(sellers', D) <= Samples(sellers, D) + Cardinality(contributors)
    BY <1>1, <1>6, <2>1, SamplesOfCredited
  <2> QED
    BY <2>2 DEF D
<1>9. /\ \A p \in DOMAIN sellers : sellers'[p].samples \in Nat
      /\ Cardinality(contributors) \in Nat
  BY <1>1, <1>7, RecordFixCredits, FS_CardinalityType DEF Seller
<1>10. Samples(sellers', DOMAIN sellers) \in Nat
  BY <1>9, SamplesTyped DEF CreditInv
<1>11. credits' = credits + Cardinality(contributors)
  BY DEF RecordFix
<1> QED
  BY <1>7, <1>8, <1>9, <1>10, <1>11, SamplesListed DEF CreditInv

LEMMA NextCredits ==
  ASSUME IInv, CreditInv, [Next]_vars
  PROVE  CreditInv'
<1>1. ASSUME sellers' = sellers, credits' = credits PROVE CreditInv'
  BY <1>1 DEF CreditInv
<1>2. ASSUME NEW st \in Streams, HandlerStep(st) PROVE CreditInv'
  BY <1>1, <1>2, ConnectCredits, NoteSensorCredits, DisconnectCredits
     DEF HandlerStep, Reject, DeliverPacket, LeaveClosed
<1>3. ASSUME NEW st \in Streams, LinkDrops(st) \/ LeaveQuiet(st) PROVE CreditInv'
  BY <1>1, <1>3 DEF LinkDrops, LeaveQuiet
<1>4. ASSUME NEW st \in Streams, NEW p \in Peers, Open(st, p) PROVE CreditInv'
  BY <1>1, <1>4 DEF Open
<1>5. ASSUME NEW st \in Streams, NEW s \in Sensors, ReadPacket(st, s) PROVE CreditInv'
  BY <1>1, <1>5 DEF ReadPacket
<1>6. ASSUME NEW c \in SUBSET delivered, RecordFix(c) PROVE CreditInv'
  BY <1>6, ConstantsAssumption, RecordFixCreditsOnce
<1>7. CASE UNCHANGED vars
  BY <1>1, <1>7 DEF vars
<1> QED
  BY <1>2, <1>3, <1>4, <1>5, <1>6, <1>7 DEF Next

\* However sellers come, go and share sensor ids, their samples add up to no more
\* than the contributors of all fixes: none is credited twice (app_state.go:224-247).
THEOREM CreditedOnce == Spec => []CreditedAtMostOnce
<1>1. Init => CreditInv
  <2> SUFFICES ASSUME Init PROVE CreditInv
    OBVIOUS
  <2>1. DOMAIN sellers = {} /\ credits = 0
    BY DEF Init
  <2> QED
    BY <2>1, SamplesOfNone, FS_EmptySet DEF CreditInv
<1>2. IInv /\ CreditInv /\ [Next]_vars => CreditInv'
  BY NextCredits
<1>3. CreditInv => CreditedAtMostOnce
  BY DEF CreditInv, CreditedAtMostOnce, Samples
<1> QED
  BY <1>1, <1>2, <1>3, Invariance, PTL DEF Spec
=============================================================================
