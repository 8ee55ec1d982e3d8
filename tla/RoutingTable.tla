---------------------------- MODULE RoutingTable -----------------------------
(***************************************************************************)
(* The routing table of one node.  Every packet that passes the checks of  *)
(* handleReceivedData updates the route to its source; routePacket asks    *)
(* for the next hop to its destination.  A slot is looked up by its        *)
(* destination whether it is active or not, an entry that is not improved  *)
(* keeps its time, and millis() wraps.                                     *)
(***************************************************************************)
EXTENDS Integers, FiniteSets

CONSTANTS
  Devices,               \* device identifiers
  NoDevice,              \* an identifier that no device has
  Packets,               \* the packets that may arrive, with their RSSI
  Leftovers,             \* what the memory of a new table may hold
  MAX_ROUTES,            \* 10 in the code
  MAX_HOPS,              \* 7
  RSSI_UPPER_THRESHOLD,  \* 12
  RSSI_LOWER_THRESHOLD,  \* 6
  ROUTE_TIMEOUT,         \* 300000 ms
  CLOCK,                 \* millis() counts modulo 2^32
  MaxTime                \* bound: milliseconds since the start

VARIABLES
  routes,   \* the slots
  now,      \* milliseconds since the start
  written,  \* history: when each slot was written
  heard,    \* history: <<source, lastHop>> of the packets received
  answer    \* the last answer of findNextHop, and the age of its route

vars == <<routes, now, written, heard, answer>>

Slots == 1 .. MAX_ROUTES
Packet == [source : Devices, lastHop : Devices, hopCount : Nat, rssi : Int]
RouteEntry ==
  [destId : Devices \cup {NoDevice}, nextHopId : Devices \cup {NoDevice},
   hops : Nat, rssi : -128 .. 127, lastSeen : 0 .. CLOCK - 1, active : BOOLEAN]

ASSUME RoutingAssumption ==
  /\ NoDevice \notin Devices
  /\ Packets \subseteq Packet
  /\ Leftovers \subseteq RouteEntry
  /\ \A r \in Leftovers : ~r.active
  /\ MAX_ROUTES \in Nat \ {0} /\ MAX_HOPS \in Nat
  /\ RSSI_UPPER_THRESHOLD \in Nat /\ RSSI_LOWER_THRESHOLD \in Nat
  /\ ROUTE_TIMEOUT \in Nat /\ CLOCK \in Nat \ {0} /\ MaxTime \in Nat

(* Variant: a clock that does not wrap.                                    *)
MillisUnbounded == now

Millis == now % CLOCK

(* Unsigned subtraction.                                                   *)
Age(r) == (Millis - r.lastSeen) % CLOCK

(* Variant: times are compared as they are.                                *)
IsFreshAbsolute(r) == Millis < r.lastSeen + ROUTE_TIMEOUT

IsFresh(r) == Age(r) < ROUTE_TIMEOUT

-----------------------------------------------------------------------------
IsFirst(i, S) == i \in S /\ \A j \in S : i <= j

Matching(d) == {i \in Slots : routes[i].destId = d}

Inactive == {i \in Slots : ~routes[i].active}

LastSeen(i) == routes[i].lastSeen

(* The slot that comes first among those with the least lastSeen; the      *)
(* first of all when none was seen before this very moment.                *)
Oldest(i) ==
  LET older == {j \in Slots : LastSeen(j) < Millis}
      least == {j \in older : \A k \in older : LastSeen(j) <= LastSeen(k)}
  IN  IF older = {} THEN i = 1 ELSE IsFirst(i, least)

(* Variant: the oldest route makes room even when a slot is free.          *)
FindEmptySlotOldest(i) == Oldest(i)

FindEmptySlot(i) == IF Inactive # {} THEN IsFirst(i, Inactive) ELSE Oldest(i)

(* Variant: a fresher signal always wins inside the band.                  *)
IsBetterRouteEqual(new, old) ==
  \/ new.rssi >= old.rssi + RSSI_UPPER_THRESHOLD
  \/ /\ new.rssi >= old.rssi - RSSI_LOWER_THRESHOLD
     /\ new.hops < old.hops

IsBetterRoute(new, old) ==
  \/ new.rssi > old.rssi + RSSI_UPPER_THRESHOLD
  \/ /\ new.rssi >= old.rssi - RSSI_LOWER_THRESHOLD
     /\ new.hops < old.hops

-----------------------------------------------------------------------------
Init ==
  /\ routes \in [Slots -> Leftovers]
  /\ now = 0
  /\ written = [i \in Slots |-> 0]
  /\ heard = {}
  /\ answer = [dest |-> NoDevice, nextHop |-> NoDevice, age |-> 0]

(* The RSSI is handed over as an int8_t.                                   *)
Int8(x) == ((x + 128) % 256) - 128

NewRoute(p) ==
  [destId |-> p.source, nextHopId |-> p.lastHop, hops |-> p.hopCount,
   rssi |-> Int8(p.rssi), lastSeen |-> Millis, active |-> TRUE]

Store(i, p) ==
  /\ routes' = [routes EXCEPT ![i] = NewRoute(p)]
  /\ written' = [written EXCEPT ![i] = now]

(* A slot of this destination, active or not, is overwritten by a better   *)
(* route only; a new destination takes a slot from findEmptySlot.          *)
Place(p) ==
  \/ \E i \in Slots :
       /\ IsFirst(i, Matching(p.source))
       /\ IF IsBetterRoute(NewRoute(p), routes[i]) THEN Store(i, p) ELSE UNCHANGED <<routes, written>>
  \/ /\ Matching(p.source) = {}
     /\ \E i \in Slots : FindEmptySlot(i) /\ Store(i, p)

UpdateRoute(p) ==
  /\ heard' = heard \cup {<<p.source, p.lastHop>>}
  /\ IF p.hopCount >= MAX_HOPS - 1 THEN UNCHANGED <<routes, written>> ELSE Place(p)
  /\ UNCHANGED <<now, answer>>

NoAnswer(d) == [dest |-> d, nextHop |-> NoDevice, age |-> 0]

(* A route that is too old is deactivated and not answered.                *)
FindNextHop(d) ==
  /\ \/ /\ \A i \in Slots : IsFirst(i, Matching(d)) => ~routes[i].active
        /\ answer' = NoAnswer(d)
        /\ UNCHANGED routes
     \/ \E i \in Slots :
          /\ IsFirst(i, Matching(d)) /\ routes[i].active
          /\ IF IsFresh(routes[i])
               THEN /\ answer' = [dest |-> d, nextHop |-> routes[i].nextHopId,
                                  age |-> now - written[i]]
                    /\ UNCHANGED routes
               ELSE /\ answer' = NoAnswer(d)
                    /\ routes' = [routes EXCEPT ![i].active = FALSE]
  /\ UNCHANGED <<now, written, heard>>

TimePasses ==
  /\ now < MaxTime
  /\ now' = now + 1
  /\ answer' = NoAnswer(NoDevice)
  /\ UNCHANGED <<routes, written, heard>>

Next ==
  \/ \E p \in Packets : UpdateRoute(p)
  \/ \E d \in Devices : FindNextHop(d)
  \/ TimePasses

Spec == Init /\ [][Next]_vars

-----------------------------------------------------------------------------
(* Properties.                                                             *)

ActiveFor(d) == {i \in Slots : routes[i].active /\ routes[i].destId = d}

TypeOK ==
  /\ routes \in [Slots -> RouteEntry]
  /\ now \in Nat
  /\ written \in [Slots -> Nat]
  /\ heard \subseteq Devices \X Devices
  /\ answer \in [dest : Devices \cup {NoDevice}, nextHop : Devices \cup {NoDevice}, age : Nat]

(* findNextHop looks at the first slot of a destination only: there is     *)
(* never a second active one that it would miss, although slots are        *)
(* reused, deactivated and found by what they held before.                 *)
ActiveSlotsAreFound ==
  \A d \in Devices : \A i \in ActiveFor(d) : IsFirst(i, Matching(d))

(* findNextHop answers with a hop that really relayed from the             *)
(* destination, by a route written less than ROUTE_TIMEOUT ago, also when  *)
(* millis() wrapped in between.  After a whole turn of the clock the age   *)
(* is lost.                                                                *)
AnswersAreRecent ==
  answer.nextHop # NoDevice =>
    /\ <<answer.dest, answer.nextHop>> \in heard
    /\ answer.age < ROUTE_TIMEOUT \/ answer.age >= CLOCK

(* A route does not flap between relays for ever: once slots keep their    *)
(* destinations, next hops settle, if a destination is heard by at most    *)
(* three ways.  Better than is not transitive, and with a fourth way next  *)
(* hops can go round in circles.                                           *)
Retarget == \E i \in Slots : routes'[i].destId # routes[i].destId
Switch == \E i \in Slots :
            routes[i].active /\ routes'[i].destId = routes[i].destId
            /\ routes'[i].nextHopId # routes[i].nextHopId
RoutesSettle ==
  (\A d \in Devices : Cardinality({p \in Packets : p.source = d}) <= 3) =>
    (<>[][~Retarget]_vars => <>[][~Switch]_vars)

(* The table implements the abstract cache of next hops.                   *)
NextHop ==
  [d \in Devices |->
     IF ActiveFor(d) = {} THEN NoDevice
     ELSE routes[CHOOSE i \in ActiveFor(d) : IsFirst(i, ActiveFor(d))].nextHopId]
Cache == INSTANCE RouteCache WITH Size <- MAX_ROUTES, hop <- NextHop
ImplementsRouteCache == Cache!Spec
=============================================================================
