------------------------- MODULE RoutingTableProofs --------------------------
(* Theorems about the routing table, for any number of slots, devices and   *)
(* packets, any thresholds and any width of the clock.                      *)
EXTENDS RoutingTable, FiniteSetTheorems, TLAPS

-----------------------------------------------------------------------------
(* The clock.                                                               *)

(* A remainder and its quotient.                                            *)
LEMMA Remainder ==
  ASSUME NEW x \in Nat
  PROVE  /\ x % CLOCK \in 0 .. CLOCK - 1
         /\ x \div CLOCK \in Nat
         /\ x = CLOCK * (x \div CLOCK) + (x % CLOCK)
BY RoutingAssumption

(* The unsigned difference of two readings of millis() is the time between  *)
(* them, as long as that is less than a turn of the clock.                  *)
LEMMA ElapsedTime ==
  ASSUME NEW x \in Nat, NEW w \in Nat, w <= x, x - w < CLOCK
  PROVE  ((x % CLOCK) - (w % CLOCK)) % CLOCK = x - w
<1>. DEFINE q == x \div CLOCK
            s == w \div CLOCK
            a == x % CLOCK
            b == w % CLOCK
<1>1. /\ a \in 0 .. CLOCK - 1 /\ b \in 0 .. CLOCK - 1 /\ q \in Nat /\ s \in Nat
      /\ x = CLOCK * q + a /\ w = CLOCK * s + b
  BY Remainder
<1>. HIDE DEF q, s, a, b
<1>2. x - w = CLOCK * (q - s) + (a - b)
  BY <1>1, RoutingAssumption
<1>3. q - s \in {0, 1}
  <2>1. ASSUME q - s >= 2 PROVE FALSE
    <3>1. CLOCK * (q - s) >= CLOCK * 2
      BY <1>1, <2>1, RoutingAssumption
    <3>. QED
      BY <1>1, <1>2, <3>1, RoutingAssumption
  <2>2. ASSUME q - s <= -1 PROVE FALSE
    <3>1. CLOCK * (q - s) <= CLOCK * (-1)
      BY <1>1, <2>2, RoutingAssumption
    <3>. QED
      BY <1>1, <1>2, <3>1, RoutingAssumption
  <2>. QED
    BY <1>1, <2>1, <2>2
<1>4. CASE q - s = 0
  <2>1. x - w = a - b
    BY <1>1, <1>2, <1>4, RoutingAssumption
  <2>2. (x - w) % CLOCK = x - w
    BY RoutingAssumption
  <2>. QED
    BY <2>1, <2>2 DEF a, b
<1>5. CASE q - s = 1
  <2>1. a - b = (x - w) - CLOCK
    BY <1>1, <1>2, <1>5, RoutingAssumption
  <2>2. ((x - w) - CLOCK) % CLOCK = x - w
    BY RoutingAssumption
  <2>. QED
    BY <2>1, <2>2 DEF a, b
<1>. QED
  BY <1>3, <1>4, <1>5

-----------------------------------------------------------------------------
(* Better than.                                                             *)

LEMMA EntryNumbers ==
  ASSUME NEW r \in RouteEntry PROVE r.rssi \in Int /\ r.hops \in Int
BY DEF RouteEntry

(* Three ways to a destination never replace each other in a circle,        *)
(* whatever their signals and lengths, if the lower threshold is at most    *)
(* half of the upper one: no round of updates by fixed ways flaps for ever  *)
(* among them (isBetterRoute, with 12 and 6 in the code).                   *)
THEOREM NoCircleOfThreeWays ==
  ASSUME NEW r1 \in RouteEntry, NEW r2 \in RouteEntry, NEW r3 \in RouteEntry,
         2 * RSSI_LOWER_THRESHOLD <= RSSI_UPPER_THRESHOLD
  PROVE  ~ (IsBetterRoute(r2, r1) /\ IsBetterRoute(r3, r2) /\ IsBetterRoute(r1, r3))
<1>1. \A r \in {r1, r2, r3} : r.rssi \in Int /\ r.hops \in Int
  BY EntryNumbers
<1>2. RSSI_LOWER_THRESHOLD \in Int /\ RSSI_UPPER_THRESHOLD \in Int
      /\ RSSI_LOWER_THRESHOLD >= 0
  BY RoutingAssumption
<1>. QED
  BY <1>1, <1>2 DEF IsBetterRoute

(* Two ways never do, if the lower threshold is at most the upper one.      *)
THEOREM NoCircleOfTwoWays ==
  ASSUME NEW r1 \in RouteEntry, NEW r2 \in RouteEntry,
         RSSI_LOWER_THRESHOLD <= RSSI_UPPER_THRESHOLD
  PROVE  ~ (IsBetterRoute(r2, r1) /\ IsBetterRoute(r1, r2))
<1>1. \A r \in {r1, r2} : r.rssi \in Int /\ r.hops \in Int
  BY EntryNumbers
<1>2. RSSI_LOWER_THRESHOLD \in Int /\ RSSI_UPPER_THRESHOLD \in Int
      /\ RSSI_LOWER_THRESHOLD >= 0
  BY RoutingAssumption
<1>. QED
  BY <1>1, <1>2 DEF IsBetterRoute

-----------------------------------------------------------------------------
(* Invariants.                                                              *)

(* What a slot in use records: a hop that was heard, and when.              *)
SlotsRecord ==
  \A i \in Slots :
    /\ written[i] <= now
    /\ routes[i].active =>
         /\ <<routes[i].destId, routes[i].nextHopId>> \in heard
         /\ routes[i].lastSeen = written[i] % CLOCK

(* The inductive invariant: an answer is recent because its slot records    *)
(* what was heard, and a destination has one slot in use, the one that is   *)
(* found.                                                                   *)
IInv == TypeOK /\ ActiveSlotsAreFound /\ SlotsRecord /\ AnswersAreRecent

(* The RSSI fits.                                                           *)
LEMMA Int8Fits == ASSUME NEW x \in Int PROVE Int8(x) \in -128 .. 127
BY DEF Int8

LEMMA MillisFits == ASSUME now \in Nat PROVE Millis \in 0 .. CLOCK - 1
BY Remainder DEF Millis

LEMMA NewRouteType ==
  ASSUME NEW p \in Packets, now \in Nat
  PROVE  /\ NewRoute(p) \in RouteEntry
         /\ NewRoute(p).active /\ NewRoute(p).lastSeen = Millis
         /\ NewRoute(p).destId = p.source /\ NewRoute(p).nextHopId = p.lastHop
         /\ p.source \in Devices /\ p.lastHop \in Devices
<1>1. p \in Packet
  BY RoutingAssumption
<1>2. p.rssi \in Int /\ p.hopCount \in Nat /\ p.source \in Devices /\ p.lastHop \in Devices
  BY <1>1 DEF Packet
<1>3. Int8(p.rssi) \in -128 .. 127 /\ Millis \in 0 .. CLOCK - 1
  BY <1>2, Int8Fits, MillisFits
<1>. QED
  BY <1>2, <1>3 DEF NewRoute, RouteEntry

LEMMA InitInv == Init => IInv
<1>. SUFFICES ASSUME Init PROVE IInv
  OBVIOUS
<1>1. \A i \in Slots : routes[i] \in RouteEntry /\ ~routes[i].active
  BY RoutingAssumption DEF Init
<1>2. TypeOK
  BY <1>1, RoutingAssumption DEF Init, TypeOK
<1>. QED
  BY <1>1, <1>2 DEF Init, IInv, ActiveSlotsAreFound, ActiveFor, SlotsRecord, AnswersAreRecent

-----------------------------------------------------------------------------
(* Steps.                                                                   *)

(* A packet that is stored in slot i, which holds its source's route or is  *)
(* the only one to hold it afterwards.                                      *)
LEMMA StoreKeepsInv ==
  ASSUME IInv, NEW p \in Packets, NEW i \in Slots, Store(i, p),
         IsFirst(i, Matching(p.source)) \/ Matching(p.source) = {},
         heard' = heard \cup {<<p.source, p.lastHop>>}, UNCHANGED <<now, answer>>
  PROVE  IInv'
<1>. USE DEF IInv
<1>1. /\ NewRoute(p) \in RouteEntry
      /\ NewRoute(p).active /\ NewRoute(p).lastSeen = Millis
      /\ NewRoute(p).destId = p.source /\ NewRoute(p).nextHopId = p.lastHop
      /\ p.source \in Devices /\ p.lastHop \in Devices
  BY NewRouteType DEF TypeOK
<1>2. /\ routes'[i] = NewRoute(p) /\ written'[i] = now
      /\ \A j \in Slots \ {i} : routes'[j] = routes[j] /\ written'[j] = written[j]
      /\ routes' \in [Slots -> RouteEntry] /\ written' \in [Slots -> Nat]
  BY <1>1 DEF Store, TypeOK
<1>3. TypeOK'
  BY <1>1, <1>2 DEF TypeOK
<1>4. ActiveSlotsAreFound'
  <2>. SUFFICES ASSUME NEW d \in Devices, NEW k \in Slots, routes'[k].active, routes'[k].destId = d,
                       NEW j \in Slots, routes'[j].destId = d
                PROVE  k <= j
    BY DEF ActiveSlotsAreFound, ActiveFor, IsFirst, Matching
  <2>. k \in Int /\ j \in Int
    BY RoutingAssumption DEF Slots
  <2>1. CASE k = i /\ j # i
    BY <1>1, <1>2, <2>1 DEF IsFirst, Matching
  <2>2. CASE k # i /\ j # i
    BY <1>2, <2>2 DEF ActiveSlotsAreFound, ActiveFor, IsFirst, Matching
  <2>3. CASE k # i /\ j = i
    <3>1. k \in ActiveFor(p.source) /\ k \in Matching(p.source) /\ d = p.source
      BY <1>1, <1>2, <2>3 DEF ActiveFor, Matching
    <3>2. i \in Matching(p.source) /\ IsFirst(k, Matching(p.source))
      BY <1>1, <3>1 DEF ActiveSlotsAreFound, IsFirst
    <3>. QED
      BY <2>3, <3>2 DEF IsFirst
  <2>. QED
    BY <2>1, <2>2, <2>3
<1>5. SlotsRecord'
  BY <1>1, <1>2 DEF SlotsRecord, TypeOK, Millis
<1>6. AnswersAreRecent'
  BY DEF AnswersAreRecent
<1>. QED
  BY <1>3, <1>4, <1>5, <1>6

LEMMA UpdateKeepsInv ==
  ASSUME IInv, NEW p \in Packets, UpdateRoute(p) PROVE IInv'
<1>1. CASE UNCHANGED <<routes, written>>
  <2>1. p.source \in Devices /\ p.lastHop \in Devices
    BY NewRouteType DEF IInv, TypeOK
  <2>2. TypeOK' /\ ActiveSlotsAreFound'
    BY <1>1, <2>1 DEF IInv, UpdateRoute, TypeOK, ActiveSlotsAreFound, ActiveFor, IsFirst, Matching
  <2>3. SlotsRecord' /\ AnswersAreRecent'
    BY <1>1 DEF IInv, UpdateRoute, SlotsRecord, AnswersAreRecent
  <2>. QED
    BY <2>2, <2>3 DEF IInv
<1>2. ASSUME NEW i \in Slots, Store(i, p),
             IsFirst(i, Matching(p.source)) \/ Matching(p.source) = {}
      PROVE  IInv'
  BY <1>2, StoreKeepsInv DEF UpdateRoute
<1>. QED
  BY <1>1, <1>2 DEF UpdateRoute, Place

(* A fresh slot was written less than ROUTE_TIMEOUT ago, or a turn of the   *)
(* clock.                                                                   *)
LEMMA FreshSlots ==
  ASSUME IInv, NEW i \in Slots, routes[i].active, IsFresh(routes[i])
  PROVE  /\ now - written[i] \in Nat
         /\ now - written[i] < ROUTE_TIMEOUT \/ now - written[i] >= CLOCK
<1>1. now \in Nat /\ written[i] \in Nat /\ written[i] <= now
  BY DEF IInv, TypeOK, SlotsRecord
<1>2. ((now % CLOCK) - (written[i] % CLOCK)) % CLOCK < ROUTE_TIMEOUT
  BY DEF IInv, SlotsRecord, IsFresh, Age, Millis
<1>3. CASE now - written[i] < CLOCK
  BY <1>1, <1>2, <1>3, ElapsedTime
<1>4. CASE ~ (now - written[i] < CLOCK)
  BY <1>1, <1>4, RoutingAssumption
<1>. QED
  BY <1>1, <1>3, <1>4

LEMMA FindKeepsInv ==
  ASSUME IInv, NEW d \in Devices, FindNextHop(d) PROVE IInv'
<1>0. UNCHANGED <<now, written, heard>>
  BY DEF FindNextHop
<1>1. CASE answer' = NoAnswer(d) /\ UNCHANGED routes
  <2>1. TypeOK' /\ ActiveSlotsAreFound'
    BY <1>0, <1>1 DEF IInv, TypeOK, NoAnswer, ActiveSlotsAreFound, ActiveFor, IsFirst, Matching
  <2>2. SlotsRecord' /\ AnswersAreRecent'
    BY <1>0, <1>1 DEF IInv, NoAnswer, SlotsRecord, AnswersAreRecent
  <2>. QED
    BY <2>1, <2>2 DEF IInv
<1>2. ASSUME NEW i \in Slots, IsFirst(i, Matching(d)), routes[i].active, IsFresh(routes[i]),
             answer' = [dest |-> d, nextHop |-> routes[i].nextHopId, age |-> now - written[i]],
             UNCHANGED routes
      PROVE  IInv'
  <2>1. <<d, routes[i].nextHopId>> \in heard
    BY <1>2 DEF IInv, SlotsRecord, IsFirst, Matching
  <2>2. /\ now - written[i] \in Nat
        /\ now - written[i] < ROUTE_TIMEOUT \/ now - written[i] >= CLOCK
    BY <1>2, FreshSlots
  <2>3. AnswersAreRecent'
    BY <1>0, <1>2, <2>1, <2>2 DEF AnswersAreRecent
  <2>4. TypeOK'
    BY <1>0, <1>2, <2>1, <2>2 DEF IInv, TypeOK
  <2>5. ActiveSlotsAreFound' /\ SlotsRecord'
    BY <1>0, <1>2 DEF IInv, ActiveSlotsAreFound, ActiveFor, IsFirst, Matching, SlotsRecord
  <2>. QED
    BY <2>3, <2>4, <2>5 DEF IInv
<1>3. ASSUME NEW i \in Slots, answer' = NoAnswer(d), routes' = [routes EXCEPT ![i].active = FALSE]
      PROVE  IInv'
  <2>1. /\ routes' \in [Slots -> RouteEntry]
        /\ \A j \in Slots : /\ routes'[j].destId = routes[j].destId
                            /\ routes'[j].active => routes'[j] = routes[j]
    <3>1. routes \in [Slots -> RouteEntry] /\ routes[i] \in RouteEntry
      BY DEF IInv, TypeOK
    <3>2. [routes[i] EXCEPT !.active = FALSE] \in RouteEntry
      BY <3>1 DEF RouteEntry
    <3>. DEFINE stale == [routes[i] EXCEPT !.active = FALSE]
    <3>3. ~stale.active /\ stale.destId = routes[i].destId
      BY <3>1 DEF RouteEntry
    <3>4. routes' = [routes EXCEPT ![i] = stale]
      BY <1>3
    <3>5. stale \in RouteEntry
      BY <3>2
    <3>. HIDE DEF stale
    <3>. QED
      BY <3>1, <3>3, <3>4, <3>5
  <2>2. TypeOK'
    BY <1>0, <1>3, <2>1 DEF IInv, TypeOK, NoAnswer
  <2>3. ActiveSlotsAreFound'
    <3>1. \A e \in Devices : Matching(e)' = Matching(e) /\ ActiveFor(e)' \subseteq ActiveFor(e)
      BY <2>1 DEF ActiveFor, Matching
    <3>. QED
      BY <3>1 DEF IInv, ActiveSlotsAreFound, IsFirst
  <2>4. SlotsRecord' /\ AnswersAreRecent'
    BY <1>0, <1>3, <2>1 DEF IInv, NoAnswer, SlotsRecord, AnswersAreRecent
  <2>. QED
    BY <2>2, <2>3, <2>4 DEF IInv
<1>. QED
  BY <1>1, <1>2, <1>3 DEF FindNextHop

LEMMA TimeKeepsInv == ASSUME IInv, TimePasses PROVE IInv'
<1>1. now \in Nat /\ now' = now + 1 /\ answer' = NoAnswer(NoDevice)
      /\ UNCHANGED <<routes, written, heard>>
  BY DEF IInv, TypeOK, TimePasses
<1>2. TypeOK' /\ ActiveSlotsAreFound'
  BY <1>1 DEF IInv, TypeOK, NoAnswer, ActiveSlotsAreFound, ActiveFor, IsFirst, Matching
<1>3. SlotsRecord' /\ AnswersAreRecent'
  BY <1>1 DEF IInv, TypeOK, NoAnswer, SlotsRecord, AnswersAreRecent
<1>. QED
  BY <1>2, <1>3 DEF IInv

LEMMA StepInv == ASSUME IInv, [Next]_vars PROVE IInv'
<1>1. CASE UNCHANGED vars
  BY <1>1 DEF vars, IInv, TypeOK, ActiveSlotsAreFound, ActiveFor, IsFirst, Matching,
              SlotsRecord, AnswersAreRecent
<1>. QED
  BY <1>1, UpdateKeepsInv, FindKeepsInv, TimeKeepsInv DEF Next

-----------------------------------------------------------------------------
(* The inductive invariant holds in every reachable state, for any number   *)
(* of slots, devices and packets and any width of the clock.                *)
THEOREM Invariance == Spec => []IInv
<1>1. Init => IInv
  BY InitInv
<1>2. IInv /\ [Next]_vars => IInv'
  BY StepInv
<1>. QED
  BY <1>1, <1>2, PTL DEF Spec

(* Entries, among them the RSSI and the time of a route, keep their width.  *)
THEOREM TypeCorrect == Spec => []TypeOK
BY Invariance, PTL DEF IInv

(* findNextHop looks at the first slot of a destination and never misses an *)
(* active one.                                                              *)
THEOREM NoRouteIsMissed == Spec => []ActiveSlotsAreFound
BY Invariance, PTL DEF IInv

(* findNextHop answers with hops that were heard by routes that are recent, *)
(* however often millis() has wrapped.                                      *)
THEOREM AnswersStayRecent == Spec => []AnswersAreRecent
BY Invariance, PTL DEF IInv

-----------------------------------------------------------------------------
(* Refinement.                                                              *)

(* A destination has at most one active slot, whose hop is its next hop.    *)
HopsAreSlots ==
  NextHop \in [Devices -> Devices \cup {NoDevice}] /\ \A d \in Devices :
    /\ (\A i \in Slots : ~(routes[i].active /\ routes[i].destId = d)) => NextHop[d] = NoDevice
    /\ \A i \in Slots :
         routes[i].active /\ routes[i].destId = d =>
           /\ NextHop[d] = routes[i].nextHopId /\ NextHop[d] \in Devices
           /\ \A j \in Slots : routes[j].active /\ routes[j].destId = d => j = i

LEMMA InvHops == IInv => HopsAreSlots
<1>. SUFFICES ASSUME IInv PROVE HopsAreSlots
  OBVIOUS
<1>1. ASSUME NEW d \in Devices, NEW i \in Slots, routes[i].active, routes[i].destId = d
      PROVE  /\ NextHop[d] = routes[i].nextHopId /\ NextHop[d] \in Devices
             /\ \A j \in Slots : routes[j].active /\ routes[j].destId = d => j = i
  <2>1. \A j \in ActiveFor(d) : IsFirst(j, Matching(d))
    BY DEF IInv, ActiveSlotsAreFound
  <2>2. \A j \in ActiveFor(d) : j = i
    <3>. SUFFICES ASSUME NEW j \in ActiveFor(d) PROVE j = i
      OBVIOUS
    <3>1. i \in ActiveFor(d)
      BY <1>1 DEF ActiveFor
    <3>2. i \in Matching(d) /\ j \in Matching(d) /\ i <= j /\ j <= i
      BY <2>1, <3>1 DEF IsFirst
    <3>. QED
      BY <3>2, RoutingAssumption DEF Matching, Slots
  <2>3. ActiveFor(d) = {i}
    BY <1>1, <2>2 DEF ActiveFor
  <2>4. IsFirst(i, ActiveFor(d))
    BY <2>3, RoutingAssumption DEF IsFirst, Slots
  <2>5. (CHOOSE k \in ActiveFor(d) : IsFirst(k, ActiveFor(d))) = i
    BY <2>3, <2>4
  <2>6. NextHop[d] = routes[i].nextHopId
    BY <2>3, <2>5 DEF NextHop
  <2>7. routes[i].nextHopId \in Devices
    BY <1>1 DEF IInv, TypeOK, SlotsRecord
  <2>. QED
    BY <2>2, <2>6, <2>7 DEF ActiveFor
<1>2. ASSUME NEW d \in Devices, \A i \in Slots : ~(routes[i].active /\ routes[i].destId = d)
      PROVE  NextHop[d] = NoDevice
  <2>1. ActiveFor(d) = {}
    BY <1>2 DEF ActiveFor
  <2>. QED
    BY <2>1 DEF NextHop
<1>3. \A d \in Devices : NextHop[d] \in Devices \cup {NoDevice}
  BY <1>1, <1>2
<1>4. NextHop = [d \in Devices |-> NextHop[d]]
  BY DEF NextHop
<1>. QED
  BY <1>1, <1>2, <1>3, <1>4 DEF HopsAreSlots

LEMMA CacheCardinality == ASSUME NEW S PROVE Cache!Cardinality(S) = Cardinality(S)
BY DEF Cardinality, Cache!Cardinality

(* The known destinations fit into the active slots, and fill them.         *)
LEMMA KnownFits ==
  ASSUME IInv
  PROVE  /\ Inactive # {} => Cardinality(Cache!Known) < MAX_ROUTES
         /\ Inactive = {} => Cardinality(Cache!Known) = MAX_ROUTES
<1>. DEFINE K == Cache!Known
            Active == Slots \ Inactive
            f == [d \in K |-> CHOOSE i \in Slots : routes[i].active /\ routes[i].destId = d]
<1>1. HopsAreSlots /\ NoDevice \notin Devices
  BY InvHops, RoutingAssumption
<1>2. \A d \in K : d \in Devices /\ f[d] \in Active /\ routes[f[d]].active /\ routes[f[d]].destId = d
  BY <1>1 DEF Cache!Known, HopsAreSlots, Inactive
<1>. HIDE DEF K
<1>3. f \in Injection(K, Active)
  BY <1>2 DEF Injection, IsInjective
<1>4. f \in Surjection(K, Active)
  <2>. SUFFICES ASSUME NEW i \in Active PROVE \E d \in K : f[d] = i
    BY <1>2 DEF Surjection
  <2>1. i \in Slots /\ routes[i].active
    BY DEF Inactive
  <2>2. routes[i].destId \in Devices
    BY <2>1 DEF IInv, TypeOK, SlotsRecord
  <2>3. routes[i].destId \in K
    BY <1>1, <2>1, <2>2 DEF K, Cache!Known, HopsAreSlots
  <2>. QED
    BY <1>1, <1>2, <2>1, <2>2, <2>3 DEF HopsAreSlots, Inactive
<1>. HIDE DEF f
<1>5. IsFiniteSet(Slots) /\ Cardinality(Slots) = MAX_ROUTES
  BY FS_Interval, RoutingAssumption DEF Slots
<1>6. IsFiniteSet(Active)
  BY <1>5, FS_Subset
<1>7. Cardinality(K) = Cardinality(Active)
  BY <1>3, <1>4, <1>6, FS_Injection
<1>8. ASSUME Inactive # {} PROVE Cardinality(Active) < MAX_ROUTES
  <2>1. Active \in SUBSET Slots /\ Active # Slots
    BY <1>8 DEF Inactive
  <2>2. Cardinality(Active) <= MAX_ROUTES /\ Cardinality(Active) # MAX_ROUTES
    BY <1>5, <2>1, FS_Subset
  <2>3. Cardinality(Active) \in Nat
    BY <1>6, FS_CardinalityType
  <2>. QED
    BY <2>2, <2>3, RoutingAssumption
<1>9. ASSUME Inactive = {} PROVE Cardinality(Active) = MAX_ROUTES
  BY <1>5, <1>9
<1>. QED
  BY <1>7, <1>8, <1>9 DEF K

LEMMA CacheInit == Init => Cache!Init
<1>. SUFFICES ASSUME Init PROVE Cache!Init
  OBVIOUS
<1>1. \A i \in Slots : ~routes[i].active
  BY RoutingAssumption DEF Init
<1>2. \A d \in Devices : ActiveFor(d) = {}
  BY <1>1 DEF ActiveFor
<1>. QED
  BY <1>2 DEF Cache!Init, NextHop

(* A stored packet is learnt, or replaces the route of a full table's       *)
(* victim.                                                                  *)
LEMMA StoreIsLearning ==
  ASSUME IInv, IInv', NEW p \in Packets, NEW i \in Slots, Store(i, p),
         \/ IsFirst(i, Matching(p.source))
         \/ Matching(p.source) = {} /\ FindEmptySlot(i)
  PROVE  Cache!Next
<1>. DEFINE s == p.source
            h == p.lastHop
<1>0. HopsAreSlots'
  BY InvHops, PTL
<1>1. /\ HopsAreSlots /\ HopsAreSlots' /\ NoDevice \notin Devices
      /\ NextHop \in [Devices -> Devices \cup {NoDevice}]
      /\ NextHop' \in [Devices -> Devices \cup {NoDevice}]
  BY <1>0, InvHops, RoutingAssumption DEF HopsAreSlots
<1>2. s \in Devices /\ h \in Devices /\ NewRoute(p).active
      /\ NewRoute(p).destId = s /\ NewRoute(p).nextHopId = h
  BY NewRouteType DEF IInv, TypeOK
<1>3. routes'[i] = NewRoute(p) /\ \A j \in Slots \ {i} : routes'[j] = routes[j]
  BY DEF Store, IInv, TypeOK
<1>4. NextHop'[s] = h
  BY <1>1, <1>2, <1>3 DEF HopsAreSlots
<1>5. ASSUME NEW d \in Devices, d # s, ~(routes[i].active /\ routes[i].destId = d)
      PROVE  NextHop'[d] = NextHop[d]
  <2>1. CASE \E j \in Slots : routes[j].active /\ routes[j].destId = d
    <3>1. PICK j \in Slots : routes[j].active /\ routes[j].destId = d
      BY <2>1
    <3>2. j # i /\ routes'[j] = routes[j]
      BY <1>3, <1>5, <3>1
    <3>. QED
      BY <1>1, <3>1, <3>2 DEF HopsAreSlots
  <2>2. CASE \A j \in Slots : ~(routes[j].active /\ routes[j].destId = d)
    <3>1. \A j \in Slots : ~(routes'[j].active /\ routes'[j].destId = d)
      BY <1>2, <1>3, <1>5, <2>2
    <3>. QED
      BY <1>1, <2>2, <3>1 DEF HopsAreSlots
  <2>. QED
    BY <2>1, <2>2
<1>6. CASE ~routes[i].active \/ routes[i].destId = s
  <2>1. NextHop' = [NextHop EXCEPT ![s] = h]
    BY <1>1, <1>2, <1>4, <1>5, <1>6
  <2>2. s \in Cache!Known \/ Cardinality(Cache!Known) < MAX_ROUTES
    <3>1. CASE ~routes[i].active
      BY <3>1, KnownFits DEF Inactive
    <3>2. CASE routes[i].active /\ routes[i].destId = s
      BY <1>1, <1>2, <3>2 DEF HopsAreSlots, Cache!Known
    <3>. QED
      BY <1>6, <3>1, <3>2
  <2>. QED
    BY <1>2, <2>1, <2>2, CacheCardinality DEF Cache!Next, Cache!Learn
<1>7. CASE routes[i].active /\ routes[i].destId # s
  <2>. DEFINE e == routes[i].destId
  <2>1. Matching(s) = {} /\ Inactive = {}
    BY <1>7 DEF IsFirst, Matching, FindEmptySlot, Inactive
  <2>2. e \in Devices /\ NextHop[e] \in Devices
    BY <1>1, <1>7 DEF IInv, TypeOK, SlotsRecord, HopsAreSlots
  <2>3. NextHop[s] = NoDevice
    BY <1>1, <1>2, <2>1 DEF HopsAreSlots, Matching
  <2>4. NextHop'[e] = NoDevice
    <3>1. \A j \in Slots : routes[j].active /\ routes[j].destId = e => j = i
      BY <1>1, <1>7, <2>2 DEF HopsAreSlots
    <3>2. \A j \in Slots : ~(routes'[j].active /\ routes'[j].destId = e)
      BY <1>2, <1>3, <1>7, <3>1
    <3>. QED
      BY <1>1, <2>2, <3>2 DEF HopsAreSlots
  <2>5. NextHop' = [NextHop EXCEPT ![s] = h, ![e] = NoDevice]
    BY <1>1, <1>2, <1>4, <1>5, <1>7, <2>2, <2>4
  <2>6. s \notin Cache!Known /\ e \in Cache!Known /\ Cardinality(Cache!Known) = MAX_ROUTES
    BY <1>1, <2>1, <2>2, <2>3, KnownFits DEF Cache!Known
  <2>. QED
    BY <1>2, <2>2, <2>5, <2>6, CacheCardinality DEF Cache!Next, Cache!Replace
<1>. QED
  BY <1>6, <1>7

(* A route that is found too old is forgotten; other calls change nothing.  *)
LEMMA FindIsForgetting ==
  ASSUME IInv, IInv', NEW d \in Devices, FindNextHop(d)
  PROVE  Cache!Next \/ UNCHANGED NextHop
<1>0. HopsAreSlots'
  BY InvHops, PTL
<1>1. /\ HopsAreSlots /\ HopsAreSlots'
      /\ NextHop \in [Devices -> Devices \cup {NoDevice}]
      /\ NextHop' \in [Devices -> Devices \cup {NoDevice}]
  BY <1>0, InvHops DEF HopsAreSlots
<1>2. CASE UNCHANGED routes
  BY <1>2 DEF NextHop, ActiveFor
<1>3. ASSUME NEW i \in Slots, IsFirst(i, Matching(d)), routes[i].active,
             routes' = [routes EXCEPT ![i].active = FALSE]
      PROVE  Cache!Next
  <2>1. /\ routes[i].destId = d /\ ~routes'[i].active
        /\ \A j \in Slots \ {i} : routes'[j] = routes[j]
    BY <1>3 DEF IInv, TypeOK, RouteEntry, IsFirst, Matching
  <2>2. NextHop'[d] = NoDevice
    <3>1. \A j \in Slots : ~(routes'[j].active /\ routes'[j].destId = d)
      BY <1>1, <1>3, <2>1 DEF HopsAreSlots
    <3>. QED
      BY <1>1, <3>1 DEF HopsAreSlots
  <2>3. ASSUME NEW e \in Devices, e # d PROVE NextHop'[e] = NextHop[e]
    <3>1. CASE \E j \in Slots : routes[j].active /\ routes[j].destId = e
      <4>1. PICK j \in Slots : routes[j].active /\ routes[j].destId = e
        BY <3>1
      <4>2. routes'[j] = routes[j]
        BY <2>1, <2>3, <4>1
      <4>. QED
        BY <1>1, <4>1, <4>2 DEF HopsAreSlots
    <3>2. CASE \A j \in Slots : ~(routes[j].active /\ routes[j].destId = e)
      <4>1. \A j \in Slots : ~(routes'[j].active /\ routes'[j].destId = e)
        BY <2>1, <3>2
      <4>. QED
        BY <1>1, <3>2, <4>1 DEF HopsAreSlots
    <3>. QED
      BY <3>1, <3>2
  <2>4. NextHop' = [NextHop EXCEPT ![d] = NoDevice]
    BY <1>1, <2>2, <2>3
  <2>. QED
    BY <2>4 DEF Cache!Next, Cache!Forget
<1>. QED
  BY <1>2, <1>3 DEF FindNextHop

LEMMA CacheStep == ASSUME IInv, IInv', [Next]_vars PROVE [Cache!Next]_NextHop
<1>1. ASSUME UNCHANGED routes PROVE UNCHANGED NextHop
  BY <1>1 DEF NextHop, ActiveFor
<1>2. ASSUME NEW p \in Packets, UpdateRoute(p) PROVE Cache!Next \/ UNCHANGED routes
  <2>1. ASSUME NEW i \in Slots, Store(i, p),
               \/ IsFirst(i, Matching(p.source))
               \/ Matching(p.source) = {} /\ FindEmptySlot(i)
        PROVE  Cache!Next
    BY <2>1, StoreIsLearning
  <2>. QED
    BY <1>2, <2>1 DEF UpdateRoute, Place
<1>. QED
  BY <1>1, <1>2, FindIsForgetting DEF Next, TimePasses, vars

(* The table implements the cache: an entry makes room for a new            *)
(* destination only when all slots are in use, never two entries for one,   *)
(* whatever slots held before.                                              *)
THEOREM Implementation == Spec => ImplementsRouteCache
<1>1. Init => Cache!Init
  BY CacheInit
<1>2. IInv /\ IInv' /\ [Next]_vars => [Cache!Next]_NextHop
  BY CacheStep
<1>. QED
  BY <1>1, <1>2, Invariance, PTL DEF Spec, ImplementsRouteCache, Cache!Spec
=============================================================================
