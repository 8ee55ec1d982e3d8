--------------------------- MODULE InclusionProofs ---------------------------
(* Theorems about the inclusion protocol, for any number of hubs, devices,  *)
(* openings, restarts and factory resets, and for storage that may refuse   *)
(* writes.                                                                  *)
EXTENDS Inclusion, FiniteSetTheorems, TLAPS

(* Some hub accepted a confirmation made with key k.                        *)
Backed(k, conf) == \E e \in DEVICES : <<e, k>> \in conf

(* What the keys, the stored state and the peer of a device have to do with *)
(* each other: the strengthening under which every property below is kept.  *)
DeviceOK(c, conf) ==
  /\ ~c.inclusionModeEnabled
  /\ c.protocolState \in {"PROTOCOL_IDLE", "WAITING_FOR_RESPONSE", "WAITING_FOR_SUCCESS"}
  /\ c.state = "INCLUDED" =>
       c.networkKey = c.storedKey /\ c.storedKey # NoKey /\ Backed(c.storedKey, conf)
  /\ c.protocolState = "WAITING_FOR_SUCCESS" =>
       c.networkKey = c.storedKey /\ c.storedKey # NoKey
  /\ c.storedState = "INCLUDED" => c.state = "INCLUDED"
  /\ c.peer # NoNode /\ (c.protocolState = "WAITING_FOR_SUCCESS" \/ c.state = "INCLUDED")
       => c.storedKey[1] = c.peer
  /\ StorageFaults = FALSE =>
       \/ c.storedState = c.state
       \/ c.storedState = "ABSENT" /\ c.state = "NOT_INCLUDED"

(* A hub always has a key of its own, and waits with the one it handed out. *)
HubOK(h, c) ==
  /\ c.protocolState \in {"PROTOCOL_IDLE", "WAITING_FOR_REQUEST", "WAITING_FOR_CONFIRMATION"}
  /\ c.state = "INCLUDED"
  /\ c.networkKey \in NetworkKeys
  /\ c.storedKey \in NetworkKeys /\ c.storedKey[1] = h
  /\ c.protocolState = "WAITING_FOR_CONFIRMATION" => c.networkKey = c.storedKey

NodeOK(n, c, conf) ==
  /\ c \in NodeState
  /\ n \in DEVICES => DeviceOK(c, conf)
  /\ n \in HUBS => HubOK(n, c)

(* What a packet on the air says of the node that sent it.                  *)
PacketOK(p, conf) ==
  /\ p.topic = "INCLUDE_RESPONSE" =>
       p.src \in HUBS /\ p.key \in NetworkKeys /\ p.key[1] = p.src /\ p.nonce \in Nonces
  /\ p.topic = "INCLUDE_CONFIRM" => p.src \in DEVICES
  /\ p.topic = "INCLUDE_SUCCESS" => Backed(p.key, conf)

(* The inductive invariant.                                                 *)
IInv ==
  /\ DomainsOK
  /\ \A n \in Nodes : NodeOK(n, node[n], confirmed)
  /\ \A n \in Nodes : rx[n] # NoPacket => PacketOK(rx[n], confirmed)

-----------------------------------------------------------------------------
(* Lemmas on the controller's functions.                                    *)

(* The increment of a nonce is a nonce.                                     *)
LEMMA NonceIncrement ==
  ASSUME NEW x \in Nonces PROVE NextNonceValue(x) \in Nonces
BY BoundsAssumption DEF Nonces, NextNonceValue

(* A transition changes the protocol state and the timer only.              *)
LEMMA TransitionFacts ==
  ASSUME NEW c \in NodeState, NEW s \in InclusionProtocolState
  PROVE  LET r == TransitionToState(c, s) IN
         /\ r \in NodeState
         /\ r.protocolState = s
         /\ r.state = c.state /\ r.storedState = c.storedState
         /\ r.networkKey = c.networkKey /\ r.storedKey = c.storedKey
         /\ r.peer = c.peer /\ r.inclusionModeEnabled = c.inclusionModeEnabled
         /\ r.currentNonce = c.currentNonce
BY DEF TransitionToState, NodeState

(* Writing the state to storage changes what is stored, and nothing else.   *)
LEMMA PersistFacts ==
  ASSUME NEW c \in NodeState, NEW stored \in BOOLEAN
  PROVE  LET r == PersistState(c, stored) IN
         /\ r \in NodeState
         /\ r.state = c.state /\ r.protocolState = c.protocolState
         /\ r.storedState \in {c.state, c.storedState}
         /\ (stored => r.storedState = c.state)
         /\ r.networkKey = c.networkKey /\ r.storedKey = c.storedKey
         /\ r.peer = c.peer /\ r.inclusionModeEnabled = c.inclusionModeEnabled
         /\ r.currentNonce = c.currentNonce
BY DEF PersistState, NodeState, DeviceInclusionState

(* Ending a session never touches keys or a membership.                     *)
LEMMA ResetFacts ==
  ASSUME NEW n \in Nodes, NEW c \in NodeState, NEW stored \in BOOLEAN
  PROVE  LET r == ResetProtocolState(n, c, stored) IN
         /\ r \in NodeState
         /\ r.protocolState = "PROTOCOL_IDLE"
         /\ (r.state = "INCLUDED") <=> (c.state = "INCLUDED")
         /\ r.state # c.state => c.state = "INCLUSION_PENDING" /\ r.state = "NOT_INCLUDED"
         /\ r.storedState = "INCLUDED" => c.storedState = "INCLUDED"
         /\ r.state # c.state /\ stored => r.storedState = r.state
         /\ r.state = c.state => r.storedState = c.storedState
         /\ r.networkKey = c.networkKey /\ r.storedKey = c.storedKey
         /\ r.peer = c.peer /\ r.inclusionModeEnabled = c.inclusionModeEnabled
<1> DEFINE idle == TransitionToState(c, "PROTOCOL_IDLE")
           out  == [idle EXCEPT !.state = "NOT_INCLUDED"]
<1>1. "PROTOCOL_IDLE" \in InclusionProtocolState
  BY DEF InclusionProtocolState
<1>2. /\ idle \in NodeState
      /\ idle.protocolState = "PROTOCOL_IDLE"
      /\ idle.state = c.state /\ idle.storedState = c.storedState
      /\ idle.networkKey = c.networkKey /\ idle.storedKey = c.storedKey
      /\ idle.peer = c.peer /\ idle.inclusionModeEnabled = c.inclusionModeEnabled
  BY <1>1, TransitionFacts
<1>3. /\ out \in NodeState
      /\ out.protocolState = "PROTOCOL_IDLE"
      /\ out.state = "NOT_INCLUDED" /\ out.storedState = c.storedState
      /\ out.networkKey = c.networkKey /\ out.storedKey = c.storedKey
      /\ out.peer = c.peer /\ out.inclusionModeEnabled = c.inclusionModeEnabled
  <2> HIDE DEF idle
  <2> QED BY <1>2 DEF NodeState, DeviceInclusionState
<1>4. CASE n \in DEVICES /\ idle.state = "INCLUSION_PENDING"
  <2>1. ResetProtocolState(n, c, stored) = PersistState(out, stored)
    BY <1>4 DEF ResetProtocolState
  <2> HIDE DEF out, idle
  <2> QED BY <1>2, <1>3, <1>4, <2>1, PersistFacts
<1>5. CASE ~(n \in DEVICES /\ idle.state = "INCLUSION_PENDING")
  <2>1. ResetProtocolState(n, c, stored) = idle
    BY <1>5 DEF ResetProtocolState
  <2> HIDE DEF idle
  <2> QED BY <1>2, <2>1
<1> QED BY <1>4, <1>5

(* The timeouts of run() keep a node consistent, and leave its membership,  *)
(* its keys and its peer alone.                                             *)
LEMMA TimeoutFacts ==
  ASSUME NEW n \in Nodes, NEW c, NEW conf, NodeOK(n, c, conf),
         NEW stored \in StorageOutcomes
  PROVE  LET r == CheckProtocolTimeouts(n, c, stored) IN
         /\ NodeOK(n, r, conf)
         /\ (r.state = "INCLUDED") <=> (c.state = "INCLUDED")
         /\ r.state # c.state => c.state = "INCLUSION_PENDING" /\ r.state = "NOT_INCLUDED"
         /\ r.networkKey = c.networkKey /\ r.storedKey = c.storedKey
         /\ r.peer = c.peer
<1> DEFINE off == [c EXCEPT !.inclusionModeEnabled = FALSE]
           r   == ResetProtocolState(n, off, stored)
<1>1. stored \in BOOLEAN /\ (StorageFaults = FALSE => stored)
  BY DEF StorageOutcomes
<1>2. /\ off \in NodeState
      /\ off.state = c.state /\ off.storedState = c.storedState
      /\ off.networkKey = c.networkKey /\ off.storedKey = c.storedKey
      /\ off.peer = c.peer /\ off.inclusionModeEnabled = FALSE
  BY DEF NodeState, NodeOK
<1>3. /\ r \in NodeState
      /\ r.protocolState = "PROTOCOL_IDLE"
      /\ (r.state = "INCLUDED") <=> (off.state = "INCLUDED")
      /\ r.state # off.state => off.state = "INCLUSION_PENDING" /\ r.state = "NOT_INCLUDED"
      /\ r.storedState = "INCLUDED" => off.storedState = "INCLUDED"
      /\ r.state # off.state /\ stored => r.storedState = r.state
      /\ r.state = off.state => r.storedState = off.storedState
      /\ r.networkKey = off.networkKey /\ r.storedKey = off.storedKey
      /\ r.peer = off.peer /\ r.inclusionModeEnabled = off.inclusionModeEnabled
  <2> HIDE DEF off
  <2> QED BY <1>1, <1>2, ResetFacts
<1>4. CASE IsStateTimedOut(c)
  <2>1. CheckProtocolTimeouts(n, c, stored) = r
    BY <1>4 DEF CheckProtocolTimeouts
  <2>2. n \in HUBS => r.state = "INCLUDED"
    <3> HIDE DEF off, r
    <3> QED BY <1>2, <1>3 DEF NodeOK, HubOK
  <2>3. n \in DEVICES => DeviceOK(r, conf)
    <3> HIDE DEF off, r
    <3> QED BY <1>1, <1>2, <1>3 DEF NodeOK, DeviceOK
  <2>4. NodeOK(n, r, conf)
    <3> HIDE DEF off, r
    <3> QED BY <1>2, <1>3, <2>2, <2>3 DEF NodeOK, HubOK
  <2> HIDE DEF off, r
  <2> QED BY <1>2, <1>3, <2>1, <2>4
<1>5. CASE ~IsStateTimedOut(c)
  BY <1>5 DEF CheckProtocolTimeouts
<1> QED BY <1>4, <1>5

(* Construction resumes a membership with the key it was stored with.       *)
LEMMA BootFacts ==
  ASSUME NEW n \in Nodes, NEW c, NEW conf, NodeOK(n, c, conf)
  PROVE  LET r == Boot(n, c) IN
         /\ NodeOK(n, r, conf)
         /\ n \in DEVICES /\ r.state = "INCLUDED" => r.networkKey = c.storedKey
         /\ n \in DEVICES =>
              r.state = IF c.storedState = "ABSENT" THEN "NOT_INCLUDED" ELSE c.storedState
<1> DEFINE loaded == IF n \in HUBS THEN "INCLUDED"
                     ELSE IF c.storedState = "ABSENT" THEN "NOT_INCLUDED"
                     ELSE c.storedState
           key == IF loaded = "INCLUDED" THEN c.storedKey ELSE NoKey
           r == Boot(n, c)
<1>a. c \in NodeState
  BY DEF NodeOK
<1>b. /\ c.storedState \in DeviceInclusionState \cup {"ABSENT"}
      /\ c.storedKey \in NetworkKeys \cup {NoKey}
  BY <1>a DEF NodeState
<1>c. loaded \in DeviceInclusionState
  BY <1>b DEF DeviceInclusionState
<1>d. key \in NetworkKeys \cup {NoKey}
  BY <1>b
<1>e. r = [c EXCEPT !.state = loaded,
                    !.protocolState = "PROTOCOL_IDLE",
                    !.timedOut = FALSE,
                    !.inclusionModeEnabled = FALSE,
                    !.currentNonce = NoNonce,
                    !.peer = NoNode,
                    !.networkKey = key]
  BY DEF Boot
<1>f. "PROTOCOL_IDLE" \in InclusionProtocolState
  BY DEF InclusionProtocolState
<1>1. /\ r \in NodeState
      /\ r.protocolState = "PROTOCOL_IDLE"
      /\ r.storedState = c.storedState /\ r.storedKey = c.storedKey
      /\ r.peer = NoNode /\ r.inclusionModeEnabled = FALSE
      /\ n \in HUBS => r.state = "INCLUDED"
      /\ n \notin HUBS =>
           r.state = IF c.storedState = "ABSENT" THEN "NOT_INCLUDED" ELSE c.storedState
      /\ r.state = "INCLUDED" => r.networkKey = c.storedKey
  <2>1. /\ r \in NodeState
        /\ r.state = loaded /\ r.networkKey = key
        /\ r.protocolState = "PROTOCOL_IDLE"
        /\ r.storedState = c.storedState /\ r.storedKey = c.storedKey
        /\ r.peer = NoNode /\ r.inclusionModeEnabled = FALSE
    <3> HIDE DEF loaded, key, r
    <3> QED BY <1>a, <1>c, <1>d, <1>e, <1>f DEF NodeState
  <2>2. /\ n \in HUBS => loaded = "INCLUDED"
        /\ n \notin HUBS =>
             loaded = IF c.storedState = "ABSENT" THEN "NOT_INCLUDED" ELSE c.storedState
    OBVIOUS
  <2>3. loaded = "INCLUDED" => key = c.storedKey
    OBVIOUS
  <2> HIDE DEF loaded, key, r
  <2> QED BY <2>1, <2>2, <2>3
<1>2. n \in DEVICES => n \notin HUBS
  BY NodesAssumption
<1>3. NodeOK(n, r, conf)
  <2> HIDE DEF loaded, key, r
  <2> QED BY <1>1, <1>2 DEF NodeOK, DeviceOK, HubOK
<1> HIDE DEF loaded, key, r
<1> QED BY <1>1, <1>2, <1>3 DEF r

(* A broadcast puts its packet in some radios and leaves the others alone.  *)
LEMMA BroadcastFacts ==
  ASSUME NEW n, NEW p \in Packet,
         NEW radio \in [Nodes -> Packet \cup {NoPacket}],
         Broadcast(n, p, radio)
  PROVE  /\ rx' \in [Nodes -> Packet \cup {NoPacket}]
         /\ \A m \in Nodes : rx'[m] \in {p, radio[m]}
BY DEF Broadcast

(* A packet in the air stays what it is when more is confirmed.             *)
LEMMA Monotone ==
  ASSUME NEW conf, NEW more, conf \subseteq more
  PROVE  /\ \A n \in Nodes : \A c : NodeOK(n, c, conf) => NodeOK(n, c, more)
         /\ \A p : PacketOK(p, conf) => PacketOK(p, more)
BY DEF NodeOK, DeviceOK, PacketOK, Backed

(* A step that leaves one node consistent, and only sends packets that say  *)
(* the truth, keeps the inductive invariant.                                *)
LEMMA OneNodeStep ==
  ASSUME IInv, NEW n \in Nodes, NEW c,
         node' = [node EXCEPT ![n] = c],
         confirmed \subseteq confirmed',
         NodeOK(n, c, confirmed'),
         rx' \in [Nodes -> Packet \cup {NoPacket}],
         \A m \in Nodes : \/ rx'[m] \in {rx[m], NoPacket}
                          \/ PacketOK(rx'[m], confirmed'),
         confirmed' \subseteq DEVICES \X NetworkKeys,
         keysDrawn' \in [HUBS -> Nat \ {0}],
         nextNonce' \in Nonces,
         calls' \in Nat, reboots' \in Nat, resets' \in Nat
  PROVE  IInv'
<1>1. node' \in [Nodes -> NodeState]
  BY DEF IInv, DomainsOK, NodeOK
<1>2. DomainsOK'
  BY <1>1 DEF DomainsOK
<1>3. ASSUME NEW m \in Nodes PROVE NodeOK(m, node[m], confirmed)' 
  <2>1. CASE m = n
    BY <2>1 DEF IInv, DomainsOK
  <2>2. CASE m # n
    <3>1. node'[m] = node[m]
      BY <2>2 DEF IInv, DomainsOK
    <3>2. NodeOK(m, node[m], confirmed)
      BY DEF IInv
    <3>3. NodeOK(m, node[m], confirmed')
      BY <3>2, Monotone
    <3> QED BY <3>1, <3>3
  <2> QED BY <2>1, <2>2
<1>4. ASSUME NEW m \in Nodes, rx'[m] # NoPacket PROVE PacketOK(rx[m], confirmed)'
  <2>1. CASE PacketOK(rx'[m], confirmed')
    BY <2>1
  <2>2. CASE rx'[m] = rx[m]
    <3>1. PacketOK(rx[m], confirmed)
      BY <1>4, <2>2 DEF IInv
    <3>2. PacketOK(rx[m], confirmed')
      BY <3>1, Monotone
    <3> QED BY <2>2, <3>2
  <2> QED BY <1>4, <2>1, <2>2
<1> QED BY <1>2, <1>3, <1>4 DEF IInv

-----------------------------------------------------------------------------
(* The steps of a hub's application.                                        *)

LEMMA EnterKeeps ==
  ASSUME IInv, NEW h \in HUBS, EnterInclusionMode(h) PROVE IInv'
<1> DEFINE c == [node[h] EXCEPT !.inclusionModeEnabled = TRUE]
<1>1. h \in Nodes /\ h \notin DEVICES /\ NodeOK(h, node[h], confirmed)
  BY NodesAssumption DEF IInv, Nodes
<1>2. NodeOK(h, c, confirmed)
  BY <1>1 DEF NodeOK, NodeState, HubOK
<1>3. node' = [node EXCEPT ![h] = c]
  BY <1>1 DEF EnterInclusionMode, IInv, DomainsOK
<1> HIDE DEF c
<1> QED BY <1>1, <1>2, <1>3, OneNodeStep DEF EnterInclusionMode, IInv, DomainsOK

LEMMA ExitKeeps ==
  ASSUME IInv, NEW h \in HUBS, ExitInclusionMode(h) PROVE IInv'
<1> DEFINE off == [node[h] EXCEPT !.inclusionModeEnabled = FALSE]
           c   == ResetProtocolState(h, off, TRUE)
<1>1. h \in Nodes /\ h \notin DEVICES /\ NodeOK(h, node[h], confirmed)
  BY NodesAssumption DEF IInv, Nodes
<1>2. off \in NodeState /\ HubOK(h, off)
  BY <1>1 DEF NodeOK, NodeState, HubOK
<1>3. c \in NodeState /\ HubOK(h, c)
  <2> HIDE DEF off
  <2> QED BY <1>1, <1>2, ResetFacts DEF HubOK
<1>4. NodeOK(h, c, confirmed)
  <2> HIDE DEF c
  <2> QED BY <1>1, <1>3 DEF NodeOK
<1>5. node' = [node EXCEPT ![h] = c]
  BY <1>1 DEF ExitInclusionMode, IInv, DomainsOK
<1>6. calls' \in Nat
  BY DEF ExitInclusionMode, IInv, DomainsOK
<1> HIDE DEF c
<1> QED BY <1>1, <1>4, <1>5, <1>6, OneNodeStep DEF ExitInclusionMode, IInv, DomainsOK

LEMMA SendOpenKeeps ==
  ASSUME IInv, NEW h \in HUBS, SendInclusionOpen(h) PROVE IInv'
<1> DEFINE c == TransitionToState(node[h], "WAITING_FOR_REQUEST")
           p == Bare("INCLUDE_OPEN", h)
<1>1. h \in Nodes /\ h \notin DEVICES /\ NodeOK(h, node[h], confirmed)
  BY NodesAssumption DEF IInv, Nodes
<1>2. "WAITING_FOR_REQUEST" \in InclusionProtocolState
  BY DEF InclusionProtocolState
<1>3. c \in NodeState /\ HubOK(h, c)
  BY <1>1, <1>2, TransitionFacts DEF NodeOK, HubOK
<1>4. NodeOK(h, c, confirmed)
  <2> HIDE DEF c
  <2> QED BY <1>1, <1>3 DEF NodeOK
<1>5. node' = [node EXCEPT ![h] = c]
  BY <1>1 DEF SendInclusionOpen, IInv, DomainsOK
<1>6. p \in Packet /\ PacketOK(p, confirmed)
  BY <1>1 DEF Bare, Packet, PacketOK, InclusionTopic
<1>7. /\ rx' \in [Nodes -> Packet \cup {NoPacket}]
      /\ \A m \in Nodes : rx'[m] \in {p, rx[m]}
  <2> HIDE DEF p
  <2>1. Broadcast(h, p, rx) /\ rx \in [Nodes -> Packet \cup {NoPacket}]
    BY DEF SendInclusionOpen, p, IInv, DomainsOK
  <2> QED BY <1>6, <2>1, BroadcastFacts
<1>8. calls' \in Nat
  BY DEF SendInclusionOpen, IInv, DomainsOK
<1>9. UNCHANGED <<confirmed, keysDrawn, nextNonce, reboots, resets>>
  BY DEF SendInclusionOpen
<1> HIDE DEF c, p
<1> QED BY <1>1, <1>4, <1>5, <1>6, <1>7, <1>8, <1>9, OneNodeStep DEF IInv, DomainsOK

-----------------------------------------------------------------------------
(* The passes of run().                                                     *)

(* Taking the packet from the radio leaves the other radios alone.          *)
LEMMA TakenFacts ==
  ASSUME IInv, NEW n \in Nodes
  PROVE  /\ Taken(n) \in [Nodes -> Packet \cup {NoPacket}]
         /\ \A m \in Nodes : Taken(n)[m] \in {rx[m], NoPacket}
BY DEF Taken, IInv, DomainsOK

(* A hub answers a request with its own key, and will verify with it.       *)
LEMMA RequestKeeps ==
  ASSUME IInv, NEW h \in Nodes, HandleRequest(h) PROVE IInv'
<1> DEFINE c == CheckProtocolTimeouts(h, node[h], TRUE)
           p == rx[h]
           t == TransitionToState(c, "WAITING_FOR_CONFIRMATION")
           r == AfterRequest(c, p)
           q == [topic |-> "INCLUDE_RESPONSE", src |-> h, peer |-> p.src,
                 key |-> c.storedKey, nonce |-> nextNonce]
<1>1. h \in HUBS /\ h \notin DEVICES /\ p \in Packet
  BY NodesAssumption DEF HandleRequest, Accepts, IInv, DomainsOK
<1>2. NodeOK(h, c, confirmed)
  <2>1. NodeOK(h, node[h], confirmed) /\ TRUE \in StorageOutcomes
    BY BoundsAssumption DEF IInv, StorageOutcomes
  <2> QED BY <2>1, TimeoutFacts
<1>3. "WAITING_FOR_CONFIRMATION" \in InclusionProtocolState
  BY DEF InclusionProtocolState
<1>4. /\ c \in NodeState /\ HubOK(h, c)
      /\ t \in NodeState /\ t.state = c.state /\ t.storedKey = c.storedKey
      /\ t.protocolState = "WAITING_FOR_CONFIRMATION"
  <2> HIDE DEF c
  <2> QED BY <1>1, <1>2, <1>3, TransitionFacts DEF NodeOK
<1>5. NodeOK(h, r, confirmed)
  <2>1. r = [t EXCEPT !.peer = p.src, !.networkKey = c.storedKey, !.currentNonce = nextNonce]
    BY DEF AfterRequest
  <2>2. p.src \in Nodes /\ nextNonce \in Nonces
    BY <1>1 DEF Packet, IInv, DomainsOK
  <2> HIDE DEF c, t, r, p
  <2>3. r \in NodeState
    BY <1>4, <2>1, <2>2 DEF NodeState, HubOK
  <2>4. /\ r.state = "INCLUDED" /\ r.protocolState = "WAITING_FOR_CONFIRMATION"
        /\ r.networkKey = c.storedKey /\ r.storedKey = c.storedKey
    BY <1>4, <2>1 DEF NodeState, HubOK
  <2> QED BY <1>1, <1>4, <2>3, <2>4 DEF NodeOK, HubOK
<1>6. q \in Packet /\ PacketOK(q, confirmed)
  <2>1. p.src \in Nodes /\ nextNonce \in Nonces
    BY <1>1 DEF Packet, IInv, DomainsOK
  <2> HIDE DEF c, p
  <2> QED BY <1>1, <1>4, <2>1 DEF Packet, PacketOK, InclusionTopic, HubOK
<1>7. /\ rx' \in [Nodes -> Packet \cup {NoPacket}]
      /\ \A m \in Nodes : rx'[m] \in {q, Taken(h)[m]}
  <2>1. Broadcast(h, q, Taken(h))
    BY DEF HandleRequest
  <2> HIDE DEF q
  <2> QED BY <1>6, <2>1, TakenFacts, BroadcastFacts
<1>8. /\ node' = [node EXCEPT ![h] = r]
      /\ nextNonce' \in Nonces
      /\ UNCHANGED <<confirmed, keysDrawn, calls, reboots, resets>>
  BY NonceIncrement DEF HandleRequest, IInv, DomainsOK
<1> HIDE DEF c, p, t, r, q
<1> QED BY <1>5, <1>6, <1>7, <1>8, TakenFacts, OneNodeStep DEF IInv, DomainsOK

(* A hub that accepts a confirmation backs the key it verified it with, and *)
(* the INCLUDE_SUCCESS it sends is made with that key.                      *)
LEMMA ConfirmKeeps ==
  ASSUME IInv, NEW h \in Nodes, HandleConfirm(h) PROVE IInv'
<1> DEFINE c == CheckProtocolTimeouts(h, node[h], TRUE)
           p == rx[h]
           r == TransitionToState(c, "PROTOCOL_IDLE")
           q == [Bare("INCLUDE_SUCCESS", h) EXCEPT !.key = c.networkKey]
<1>1. h \in HUBS /\ h \notin DEVICES /\ p \in Packet /\ p.src \in DEVICES
  BY NodesAssumption DEF HandleConfirm, Accepts, IInv, DomainsOK, PacketOK
<1>2. NodeOK(h, c, confirmed)
  <2>1. NodeOK(h, node[h], confirmed) /\ TRUE \in StorageOutcomes
    BY BoundsAssumption DEF IInv, StorageOutcomes
  <2> QED BY <2>1, TimeoutFacts
<1>3. "PROTOCOL_IDLE" \in InclusionProtocolState
  BY DEF InclusionProtocolState
<1>4. c \in NodeState /\ HubOK(h, c) /\ c.networkKey \in NetworkKeys
  <2> HIDE DEF c
  <2> QED BY <1>1, <1>2 DEF NodeOK, HubOK
<1>5. NodeOK(h, r, confirmed')
  <2> HIDE DEF c
  <2>1. r \in NodeState /\ HubOK(h, r)
    BY <1>3, <1>4, TransitionFacts DEF HubOK
  <2> HIDE DEF r
  <2> QED BY <1>1, <2>1 DEF NodeOK
<1>6. /\ node' = [node EXCEPT ![h] = r]
      /\ confirmed' = confirmed \cup {<<p.src, c.networkKey>>}
      /\ UNCHANGED <<keysDrawn, nextNonce, calls, reboots, resets>>
  BY DEF HandleConfirm
<1>7. q \in Packet /\ PacketOK(q, confirmed')
  <2>1. q = [topic |-> "INCLUDE_SUCCESS", src |-> h, peer |-> NoNode,
             key |-> c.networkKey, nonce |-> NoNonce]
    <3> HIDE DEF c
    <3> QED BY DEF Bare
  <2>2. Backed(c.networkKey, confirmed')
    BY <1>1, <1>6 DEF Backed
  <2> HIDE DEF c, q
  <2> QED BY <1>1, <1>4, <2>1, <2>2 DEF Packet, PacketOK, InclusionTopic
<1>8. /\ rx' \in [Nodes -> Packet \cup {NoPacket}]
      /\ \A m \in Nodes : rx'[m] \in {q, Taken(h)[m]}
  <2>1. Broadcast(h, q, Taken(h))
    BY DEF HandleConfirm
  <2> HIDE DEF q
  <2> QED BY <1>7, <2>1, TakenFacts, BroadcastFacts
<1>9. confirmed' \subseteq DEVICES \X NetworkKeys
  <2> HIDE DEF c, p
  <2> QED BY <1>1, <1>4, <1>6 DEF IInv, DomainsOK
<1> HIDE DEF c, p, r, q
<1> QED BY <1>5, <1>6, <1>7, <1>8, <1>9, TakenFacts, OneNodeStep DEF IInv, DomainsOK

(* A device that answers an opening is not a member, on storage either.     *)
LEMMA OpenKeeps ==
  ASSUME IInv, NEW d \in Nodes, HandleOpen(d) PROVE IInv'
<1>1. PICK stored \in StorageOutcomes :
        LET c == CheckProtocolTimeouts(d, node[d], stored)
            p == rx[d]
        IN  /\ p # NoPacket /\ p.topic = "INCLUDE_OPEN" /\ Accepts(d, c, p)
            /\ node' = [node EXCEPT ![d] = AfterOpen(c, p, stored)]
            /\ Broadcast(d, Bare("INCLUDE_REQUEST", d), Taken(d))
            /\ UNCHANGED <<confirmed, keysDrawn, nextNonce, calls, reboots, resets>>
  BY DEF HandleOpen
<1> DEFINE c == CheckProtocolTimeouts(d, node[d], stored)
           p == rx[d]
           a == [c EXCEPT !.peer = p.src, !.state = "INCLUSION_PENDING"]
           b == PersistState(a, stored)
           r == AfterOpen(c, p, stored)
           q == Bare("INCLUDE_REQUEST", d)
<1>2. /\ d \in DEVICES /\ d \notin HUBS /\ p \in Packet
      /\ c.state = "NOT_INCLUDED"
  <2> HIDE DEF c
  <2> QED BY <1>1, NodesAssumption DEF Accepts, Awaits, IInv, DomainsOK, c
<1>3. NodeOK(d, c, confirmed)
  BY TimeoutFacts DEF IInv
<1>4. /\ c \in NodeState /\ DeviceOK(c, confirmed)
      /\ stored \in BOOLEAN /\ (StorageFaults = FALSE => stored)
  <2> HIDE DEF c
  <2> QED BY <1>2, <1>3 DEF NodeOK, StorageOutcomes
<1>5. /\ a \in NodeState
      /\ a.state = "INCLUSION_PENDING" /\ a.storedState = c.storedState
      /\ a.inclusionModeEnabled = c.inclusionModeEnabled
  <2>1. p.src \in Nodes
    BY <1>2 DEF Packet
  <2> HIDE DEF c, p
  <2> QED BY <1>4, <2>1 DEF NodeState, DeviceInclusionState
<1>6. /\ b \in NodeState /\ b.state = "INCLUSION_PENDING"
      /\ b.storedState \in {"INCLUSION_PENDING", c.storedState}
      /\ stored => b.storedState = "INCLUSION_PENDING"
      /\ b.inclusionModeEnabled = c.inclusionModeEnabled
  <2> HIDE DEF a
  <2> QED BY <1>4, <1>5, PersistFacts
<1>7. /\ r \in NodeState /\ r.state = "INCLUSION_PENDING"
      /\ r.protocolState = "WAITING_FOR_RESPONSE"
      /\ r.storedState = b.storedState
      /\ r.inclusionModeEnabled = c.inclusionModeEnabled
  <2>1. r = TransitionToState(b, "WAITING_FOR_RESPONSE")
    BY DEF AfterOpen
  <2>2. "WAITING_FOR_RESPONSE" \in InclusionProtocolState
    BY DEF InclusionProtocolState
  <2> HIDE DEF b, r
  <2> QED BY <1>6, <2>1, <2>2, TransitionFacts
<1>8. NodeOK(d, r, confirmed)
  <2> HIDE DEF b, c, r
  <2> QED BY <1>2, <1>4, <1>6, <1>7 DEF NodeOK, DeviceOK
<1>9. q \in Packet /\ PacketOK(q, confirmed)
  BY DEF Bare, Packet, PacketOK, InclusionTopic
<1>10. /\ rx' \in [Nodes -> Packet \cup {NoPacket}]
       /\ \A m \in Nodes : rx'[m] \in {q, Taken(d)[m]}
  <2>1. Broadcast(d, q, Taken(d))
    BY <1>1
  <2> HIDE DEF q
  <2> QED BY <1>9, <2>1, TakenFacts, BroadcastFacts
<1>11. /\ node' = [node EXCEPT ![d] = r]
       /\ UNCHANGED <<confirmed, keysDrawn, nextNonce, calls, reboots, resets>>
  BY <1>1
<1> HIDE DEF c, p, a, b, r, q
<1> QED BY <1>8, <1>9, <1>10, <1>11, TakenFacts, OneNodeStep DEF IInv, DomainsOK

(* A device takes a key from the hub it answered only, and waits for the    *)
(* success only if the key is stored and in use.                            *)
LEMMA ResponseKeeps ==
  ASSUME IInv, NEW d \in Nodes, HandleResponse(d) PROVE IInv'
<1>1. PICK stored \in StorageOutcomes :
        LET c == CheckProtocolTimeouts(d, node[d], stored)
            p == rx[d]
        IN  /\ p # NoPacket /\ p.topic = "INCLUDE_RESPONSE" /\ Accepts(d, c, p)
            /\ node' = [node EXCEPT ![d] = AfterResponse(c, p, stored)]
            /\ IF node'[d].protocolState = "WAITING_FOR_SUCCESS"
                 THEN Broadcast(d, [Bare("INCLUDE_CONFIRM", d) EXCEPT
                                      !.key = node'[d].networkKey,
                                      !.nonce = NextNonceValue(p.nonce)], Taken(d))
                 ELSE rx' = Taken(d)
            /\ UNCHANGED <<confirmed, keysDrawn, nextNonce, calls, reboots, resets>>
  BY DEF HandleResponse
<1> DEFINE c == CheckProtocolTimeouts(d, node[d], stored)
           p == rx[d]
           r == AfterResponse(c, p, stored)
<1>2. /\ d \in DEVICES /\ d \notin HUBS /\ p \in Packet
      /\ p.src \in HUBS /\ p.key \in NetworkKeys /\ p.key[1] = p.src
      /\ c.state = "INCLUSION_PENDING" /\ c.protocolState = "WAITING_FOR_RESPONSE"
      /\ {d, c.peer} = {p.src, p.peer}
  <2> HIDE DEF c
  <2> QED BY <1>1, NodesAssumption DEF Accepts, Authentic, Awaits, IInv, DomainsOK, PacketOK, c
<1>3. c.peer = p.src
  <2> HIDE DEF c, p
  <2> QED BY <1>2
<1>4. NodeOK(d, c, confirmed)
  BY TimeoutFacts DEF IInv
<1>5. c \in NodeState /\ DeviceOK(c, confirmed)
  <2> HIDE DEF c
  <2> QED BY <1>2, <1>4 DEF NodeOK
<1>6. p.nonce \in Nonces \cup {NoNonce} /\ p.key # NoKey
  BY <1>2, NodesAssumption DEF Packet
<1>7. /\ r \in NodeState
      /\ r.state = c.state /\ r.storedState = c.storedState /\ r.peer = c.peer
      /\ r.inclusionModeEnabled = c.inclusionModeEnabled
      /\ r.protocolState \in {"WAITING_FOR_SUCCESS", c.protocolState}
      /\ r.protocolState = "WAITING_FOR_SUCCESS" => r.networkKey = p.key /\ r.storedKey = p.key
  <2>1. CASE stored
    <3> DEFINE a == [c EXCEPT !.currentNonce = p.nonce, !.storedKey = p.key,
                              !.networkKey = p.key]
    <3>1. r = TransitionToState(a, "WAITING_FOR_SUCCESS")
      BY <2>1 DEF AfterResponse
    <3>2. /\ a \in NodeState /\ a.state = c.state /\ a.storedState = c.storedState
          /\ a.inclusionModeEnabled = c.inclusionModeEnabled
          /\ a.peer = c.peer /\ a.networkKey = p.key /\ a.storedKey = p.key
      <4> HIDE DEF c, p
      <4> QED BY <1>2, <1>5, <1>6 DEF NodeState
    <3>3. "WAITING_FOR_SUCCESS" \in InclusionProtocolState
      BY DEF InclusionProtocolState
    <3> HIDE DEF a, r, c, p
    <3> QED BY <3>1, <3>2, <3>3, TransitionFacts
  <2>2. CASE ~stored
    <3>1. r = [c EXCEPT !.currentNonce = p.nonce]
      BY <2>2 DEF AfterResponse
    <3> HIDE DEF r, c, p
    <3> QED BY <1>2, <1>5, <1>6, <3>1 DEF NodeState
  <2> QED BY <2>1, <2>2
<1>8. NodeOK(d, r, confirmed)
  <2> HIDE DEF r, c, p
  <2> QED BY <1>2, <1>3, <1>5, <1>6, <1>7 DEF NodeOK, DeviceOK
<1>9. /\ rx' \in [Nodes -> Packet \cup {NoPacket}]
      /\ \A m \in Nodes : rx'[m] \in {rx[m], NoPacket} \/ PacketOK(rx'[m], confirmed')
  <2> DEFINE k == node'[d].networkKey
             x == NextNonceValue(p.nonce)
             q == [Bare("INCLUDE_CONFIRM", d) EXCEPT !.key = k, !.nonce = x]
  <2>1. CASE node'[d].protocolState = "WAITING_FOR_SUCCESS"
    <3>1. Broadcast(d, q, Taken(d))
      BY <1>1, <2>1
    <3>2. k \in NetworkKeys
      <4>1. node'[d] = r
        BY <1>1 DEF IInv, DomainsOK
      <4> HIDE DEF r, c, p
      <4> QED BY <1>2, <1>7, <2>1, <4>1
    <3>3. x \in Nonces
      <4>1. p.nonce \in Nonces
        BY <1>1, <1>2 DEF IInv, PacketOK
      <4> QED BY <4>1, NonceIncrement
    <3>4. /\ Bare("INCLUDE_CONFIRM", d) \in Packet
          /\ Bare("INCLUDE_CONFIRM", d).topic = "INCLUDE_CONFIRM"
          /\ Bare("INCLUDE_CONFIRM", d).src = d
      BY DEF Bare, Packet, InclusionTopic
    <3>5. q \in Packet /\ PacketOK(q, confirmed)
      <4> DEFINE b == Bare("INCLUDE_CONFIRM", d)
      <4>1. q = [b EXCEPT !.key = k, !.nonce = x]
        OBVIOUS
      <4> HIDE DEF k, x, q, b
      <4> QED BY <1>2, <3>2, <3>3, <3>4, <4>1 DEF Packet, PacketOK, b
    <3> HIDE DEF q
    <3>6. /\ rx' \in [Nodes -> Packet \cup {NoPacket}]
          /\ \A m \in Nodes : rx'[m] \in {q, Taken(d)[m]}
      BY <3>1, <3>5, TakenFacts, BroadcastFacts
    <3>7. confirmed' = confirmed
      BY <1>1
    <3> QED BY <3>5, <3>6, <3>7, TakenFacts
  <2>2. CASE node'[d].protocolState # "WAITING_FOR_SUCCESS"
    BY <1>1, <2>2, TakenFacts
  <2> QED BY <2>1, <2>2
<1>10. /\ node' = [node EXCEPT ![d] = r]
       /\ UNCHANGED <<confirmed, keysDrawn, nextNonce, calls, reboots, resets>>
  BY <1>1
<1> HIDE DEF c, p, r
<1> QED BY <1>8, <1>9, <1>10, OneNodeStep DEF IInv, DomainsOK

(* The success names no device, but it is made with the key the device      *)
(* holds, and that key is backed.                                           *)
LEMMA SuccessKeeps ==
  ASSUME IInv, NEW d \in Nodes, HandleSuccess(d) PROVE IInv'
<1>1. PICK stored \in StorageOutcomes :
        LET c == CheckProtocolTimeouts(d, node[d], stored)
        IN  /\ rx[d] # NoPacket /\ rx[d].topic = "INCLUDE_SUCCESS" /\ Accepts(d, c, rx[d])
            /\ node' = [node EXCEPT ![d] = AfterSuccess(c, stored)]
            /\ rx' = Taken(d)
            /\ UNCHANGED <<confirmed, keysDrawn, nextNonce, calls, reboots, resets>>
  BY DEF HandleSuccess
<1> DEFINE c == CheckProtocolTimeouts(d, node[d], stored)
           a == [c EXCEPT !.state = "INCLUDED"]
           b == PersistState(a, stored)
           t == TransitionToState(b, "PROTOCOL_IDLE")
           r == AfterSuccess(c, stored)
<1>2. /\ d \in DEVICES /\ d \notin HUBS
      /\ c.protocolState = "WAITING_FOR_SUCCESS" /\ c.networkKey = rx[d].key
      /\ Backed(rx[d].key, confirmed)
  <2> HIDE DEF c
  <2> QED BY <1>1, NodesAssumption DEF Accepts, Authentic, Awaits, IInv, DomainsOK, PacketOK, c
<1>3. NodeOK(d, c, confirmed)
  BY TimeoutFacts DEF IInv
<1>4. /\ c \in NodeState /\ DeviceOK(c, confirmed)
      /\ stored \in BOOLEAN /\ (StorageFaults = FALSE => stored)
  <2> HIDE DEF c
  <2> QED BY <1>2, <1>3 DEF NodeOK, StorageOutcomes
<1>5. /\ a \in NodeState /\ a.state = "INCLUDED" /\ a.storedState = c.storedState
      /\ a.storedKey = c.storedKey /\ a.networkKey = c.networkKey /\ a.peer = c.peer
      /\ a.inclusionModeEnabled = c.inclusionModeEnabled
  <2> HIDE DEF c
  <2> QED BY <1>4 DEF NodeState, DeviceInclusionState
<1>6. /\ b \in NodeState /\ b.state = "INCLUDED"
      /\ stored => b.storedState = "INCLUDED"
      /\ b.storedKey = c.storedKey /\ b.networkKey = c.networkKey /\ b.peer = c.peer
      /\ b.inclusionModeEnabled = c.inclusionModeEnabled
  <2> HIDE DEF a
  <2> QED BY <1>4, <1>5, PersistFacts
<1>7. /\ t \in NodeState /\ t.state = "INCLUDED" /\ t.protocolState = "PROTOCOL_IDLE"
      /\ stored => t.storedState = "INCLUDED"
      /\ t.storedKey = c.storedKey /\ t.peer = c.peer
      /\ t.inclusionModeEnabled = c.inclusionModeEnabled
  <2>1. "PROTOCOL_IDLE" \in InclusionProtocolState
    BY DEF InclusionProtocolState
  <2> HIDE DEF b
  <2> QED BY <1>6, <2>1, TransitionFacts
<1>8. r = [t EXCEPT !.networkKey = c.storedKey]
  BY DEF AfterSuccess
<1>9. NodeOK(d, r, confirmed)
  <2> HIDE DEF r, t, c
  <2>1. /\ r \in NodeState /\ r.state = "INCLUDED" /\ r.protocolState = "PROTOCOL_IDLE"
        /\ stored => r.storedState = "INCLUDED"
        /\ r.storedKey = c.storedKey /\ r.networkKey = c.storedKey /\ r.peer = c.peer
        /\ r.inclusionModeEnabled = c.inclusionModeEnabled
    BY <1>4, <1>7, <1>8 DEF NodeState
  <2> QED BY <1>2, <1>4, <2>1 DEF NodeOK, DeviceOK
<1>10. /\ node' = [node EXCEPT ![d] = r]
       /\ rx' = Taken(d)
       /\ UNCHANGED <<confirmed, keysDrawn, nextNonce, calls, reboots, resets>>
  BY <1>1
<1> HIDE DEF r
<1> QED BY <1>9, <1>10, TakenFacts, OneNodeStep DEF IInv, DomainsOK

LEMMA IgnoreKeeps ==
  ASSUME IInv, NEW n \in Nodes, Ignore(n) PROVE IInv'
<1>1. PICK stored \in StorageOutcomes :
        /\ node' = [node EXCEPT ![n] = CheckProtocolTimeouts(n, node[n], stored)]
        /\ rx' = Taken(n)
        /\ UNCHANGED <<confirmed, keysDrawn, nextNonce, calls, reboots, resets>>
  BY DEF Ignore
<1> DEFINE c == CheckProtocolTimeouts(n, node[n], stored)
<1>2. NodeOK(n, c, confirmed)
  BY TimeoutFacts DEF IInv
<1>3. node' = [node EXCEPT ![n] = c]
  BY <1>1
<1> HIDE DEF c
<1> QED BY <1>1, <1>2, <1>3, TakenFacts, OneNodeStep DEF IInv, DomainsOK

LEMMA RunIdleKeeps ==
  ASSUME IInv, NEW n \in Nodes, RunIdle(n) PROVE IInv'
<1>1. PICK stored \in StorageOutcomes :
        /\ node' = [node EXCEPT ![n] = CheckProtocolTimeouts(n, node[n], stored)]
        /\ UNCHANGED <<rx, confirmed, keysDrawn, nextNonce, calls, reboots, resets>>
  BY DEF RunIdle, IInv, DomainsOK
<1> DEFINE c == CheckProtocolTimeouts(n, node[n], stored)
<1>2. NodeOK(n, c, confirmed)
  BY TimeoutFacts DEF IInv
<1>3. node' = [node EXCEPT ![n] = c]
  BY <1>1
<1> HIDE DEF c
<1> QED BY <1>1, <1>2, <1>3, OneNodeStep DEF IInv, DomainsOK

LEMMA RunKeeps ==
  ASSUME IInv, NEW n \in Nodes, Run(n) PROVE IInv'
BY RequestKeeps, ConfirmKeeps, OpenKeeps, ResponseKeeps, SuccessKeeps, IgnoreKeeps, RunIdleKeeps
   DEF Run

-----------------------------------------------------------------------------
(* The steps of the environment.                                            *)

LEMMA ExpireKeeps ==
  ASSUME IInv, NEW n \in Nodes, SessionExpires(n) PROVE IInv'
<1> DEFINE c == [node[n] EXCEPT !.timedOut = TRUE]
<1>1. NodeOK(n, node[n], confirmed)
  BY DEF IInv
<1>2. NodeOK(n, c, confirmed)
  BY <1>1 DEF NodeOK, NodeState, HubOK, DeviceOK
<1>3. node' = [node EXCEPT ![n] = c]
  BY DEF SessionExpires, IInv, DomainsOK
<1> HIDE DEF c
<1> QED BY <1>2, <1>3, OneNodeStep DEF SessionExpires, IInv, DomainsOK

LEMMA LoseKeeps ==
  ASSUME IInv, NEW n \in Nodes, LosePacket(n) PROVE IInv'
<1>1. NodeOK(n, node[n], confirmed) /\ node' = [node EXCEPT ![n] = node[n]]
  BY DEF IInv, DomainsOK, LosePacket
<1> QED BY <1>1, TakenFacts, OneNodeStep DEF LosePacket, IInv, DomainsOK

LEMMA RebootKeeps ==
  ASSUME IInv, NEW n \in Nodes, Reboot(n) PROVE IInv'
<1> DEFINE c == Boot(n, node[n])
<1>1. NodeOK(n, c, confirmed)
  BY BootFacts DEF IInv
<1>2. /\ node' = [node EXCEPT ![n] = c] /\ rx' = Taken(n) /\ reboots' \in Nat
      /\ UNCHANGED <<confirmed, keysDrawn, nextNonce, calls, resets>>
  BY DEF Reboot, IInv, DomainsOK
<1> HIDE DEF c
<1> QED BY <1>1, <1>2, TakenFacts, OneNodeStep DEF IInv, DomainsOK

(* A factory reset leaves a device without state and key; a hub gets a new  *)
(* key on storage, next to the old one in the encryption service.           *)
LEMMA FactoryResetKeeps ==
  ASSUME IInv, NEW n \in Nodes, FactoryReset(n) PROVE IInv'
<1> DEFINE k == IF n \in HUBS THEN <<n, keysDrawn[n] + 1>> ELSE NoKey
           w == [node[n] EXCEPT !.storedState = "ABSENT", !.storedKey = k]
           b == Boot(n, w)
           c == [b EXCEPT !.networkKey = node[n].networkKey, !.peer = node[n].peer]
<1>1. /\ NodeOK(n, node[n], confirmed)
      /\ n \in HUBS => n \notin DEVICES
      /\ n \in HUBS => k \in NetworkKeys /\ k[1] = n
      /\ k \in NetworkKeys \cup {NoKey}
  BY NodesAssumption DEF IInv, DomainsOK, NetworkKeys
<1>2. w \in NodeState /\ w.storedState = "ABSENT" /\ w.storedKey = k
  <2> HIDE DEF k
  <2> QED BY <1>1 DEF NodeOK, NodeState
<1>3. /\ b \in NodeState /\ b.protocolState = "PROTOCOL_IDLE"
      /\ b.inclusionModeEnabled = FALSE
      /\ b.storedState = "ABSENT" /\ b.storedKey = k
      /\ b.state = IF n \in HUBS THEN "INCLUDED" ELSE "NOT_INCLUDED"
  <2> HIDE DEF w, k
  <2> QED BY <1>2 DEF Boot, NodeState, DeviceInclusionState, InclusionProtocolState
<1>4. /\ c \in NodeState /\ c.protocolState = "PROTOCOL_IDLE"
      /\ c.inclusionModeEnabled = FALSE
      /\ c.storedState = "ABSENT" /\ c.storedKey = k
      /\ c.state = IF n \in HUBS THEN "INCLUDED" ELSE "NOT_INCLUDED"
      /\ c.networkKey = node[n].networkKey
  <2> HIDE DEF b, k
  <2> QED BY <1>1, <1>3 DEF NodeOK, NodeState
<1>5. NodeOK(n, c, confirmed)
  <2> HIDE DEF c, k
  <2> QED BY <1>1, <1>4, NodesAssumption DEF NodeOK, DeviceOK, HubOK, Nodes
<1>6. /\ node' = [node EXCEPT ![n] = c]
      /\ UNCHANGED <<rx, confirmed, nextNonce, calls, reboots>>
  BY DEF FactoryReset, IInv, DomainsOK
<1>7. keysDrawn' \in [HUBS -> Nat \ {0}] /\ resets' \in Nat
  BY DEF FactoryReset, IInv, DomainsOK
<1> HIDE DEF c
<1> QED BY <1>5, <1>6, <1>7, OneNodeStep DEF IInv, DomainsOK

-----------------------------------------------------------------------------
(* The inductive invariant.                                                 *)

LEMMA InitEstablishes ==
  ASSUME Init PROVE IInv
<1>1. DomainsOK
  BY NodesAssumption, BoundsAssumption
     DEF Init, DomainsOK, NodeState, Nodes, NetworkKeys, Nonces,
         DeviceInclusionState, InclusionProtocolState
<1>2. ASSUME NEW n \in Nodes PROVE NodeOK(n, node[n], confirmed)
  BY <1>1, NodesAssumption
     DEF Init, DomainsOK, NodeOK, DeviceOK, HubOK, NetworkKeys
<1>3. ASSUME NEW n \in Nodes PROVE rx[n] = NoPacket
  BY DEF Init
<1> QED BY <1>1, <1>2, <1>3 DEF IInv

LEMMA NextKeeps ==
  ASSUME IInv, [Next]_vars PROVE IInv'
<1>1. CASE Next
  <2>1. CASE \E h \in HUBS : HubApplication(h)
    BY <2>1, EnterKeeps, ExitKeeps, SendOpenKeeps DEF HubApplication
  <2>2. CASE \E n \in Nodes : Run(n)
    BY <2>2, RunKeeps
  <2>3. CASE \E n \in Nodes : Environment(n)
    BY <2>3, ExpireKeeps, LoseKeeps, RebootKeeps, FactoryResetKeeps DEF Environment
  <2> QED BY <1>1, <2>1, <2>2, <2>3 DEF Next
<1>2. CASE UNCHANGED vars
  BY <1>2 DEF vars, IInv, DomainsOK, NodeOK, DeviceOK, HubOK, PacketOK, Backed
<1> QED BY <1>1, <1>2

(* Every reachable state satisfies the inductive invariant.                 *)
THEOREM Invariance == Spec => []IInv
<1>1. Init => IInv
  BY InitEstablishes
<1>2. IInv /\ [Next]_vars => IInv'
  BY NextKeeps
<1> QED BY <1>1, <1>2, PTL DEF Spec

-----------------------------------------------------------------------------
(* The invariants of the specification.                                     *)

(* Every variable keeps its type and every node its role, in every instance *)
(* of the protocol.                                                         *)
THEOREM TypeCorrect == Spec => []TypeOK
<1>1. IInv => TypeOK
  BY DEF IInv, NodeOK, DeviceOK, HubOK, Nodes, TypeOK
<1> QED BY <1>1, Invariance, PTL

(* A member's key in use is its stored key, whichever writes were refused.  *)
THEOREM MembersHoldStoredKeys == Spec => []MemberHoldsStoredKey
<1>1. IInv => MemberHoldsStoredKey
  BY DEF IInv, NodeOK, DeviceOK, MemberHoldsStoredKey, Member, Nodes
<1> QED BY <1>1, Invariance, PTL

(* Every membership goes back to a confirmation that a hub verified with    *)
(* the key of that membership.                                              *)
THEOREM MembershipsAreBacked == Spec => []MembershipIsBacked
<1>1. IInv => MembershipIsBacked
  BY DEF IInv, NodeOK, DeviceOK, Backed, MembershipIsBacked, Member, Nodes
<1> QED BY <1>1, Invariance, PTL

(* A device takes its key from the hub it answered, among any number.       *)
THEOREM KeysComeFromChosenHub == Spec => []KeyOfChosenHub
<1>1. IInv => KeyOfChosenHub
  BY DEF IInv, NodeOK, DeviceOK, KeyOfChosenHub, Member, Nodes
<1> QED BY <1>1, Invariance, PTL

(* A waiting hub can verify the confirmation it waits for, after any number *)
(* of factory resets.                                                       *)
THEOREM ConfirmsAreReadable == Spec => []ConfirmIsReadable
<1>1. IInv => ConfirmIsReadable
  BY DEF IInv, NodeOK, HubOK, ConfirmIsReadable, Nodes
<1> QED BY <1>1, Invariance, PTL

(* INCLUDED is never on storage without the network key.                    *)
THEOREM StoredMembershipsHaveKeys == Spec => []StoredMembershipHasKey
<1>1. IInv => StoredMembershipHasKey
  BY DEF IInv, NodeOK, DeviceOK, StoredMembershipHasKey, Nodes
<1> QED BY <1>1, Invariance, PTL

-----------------------------------------------------------------------------
(* With storage that has room for what is written, the inclusion protocol   *)
(* implements the abstract specification of membership, a membership is     *)
(* stable, and a restart keeps it.                                          *)

(* What a step does to the membership of device d.                          *)
Joins(d)  == /\ node[d].state = "INCLUSION_PENDING" /\ Member(d)'
             /\ Backed(node'[d].networkKey, confirmed)
Keeps(d)  == Member(d) /\ Member(d)' /\ node'[d].networkKey = node[d].networkKey
Leaves(d) == Member(d) /\ node'[d].state = "NOT_INCLUDED" /\ resets' # resets
Stays(d)  == ~Member(d) /\ ~Member(d)'
Moves(d)  == Joins(d) \/ Keeps(d) \/ Leaves(d) \/ Stays(d)

-----------------------------------------------------------------------------
(* Per action: the membership of the node that moves.                       *)

LEMMA TimeoutsMove ==
  ASSUME IInv, NEW d \in DEVICES, NEW stored \in StorageOutcomes,
         node'[d] = CheckProtocolTimeouts(d, node[d], stored)
  PROVE  Keeps(d) \/ Stays(d)
BY TimeoutFacts DEF IInv, Nodes, Keeps, Stays, Member

LEMMA OpenMoves ==
  ASSUME IInv, NEW d \in DEVICES, HandleOpen(d)
  PROVE  Stays(d)
<1>1. PICK stored \in StorageOutcomes :
        LET c == CheckProtocolTimeouts(d, node[d], stored)
        IN  /\ rx[d].topic = "INCLUDE_OPEN" /\ Accepts(d, c, rx[d])
            /\ node' = [node EXCEPT ![d] = AfterOpen(c, rx[d], stored)]
  BY DEF HandleOpen
<1> DEFINE c == CheckProtocolTimeouts(d, node[d], stored)
           a == [c EXCEPT !.peer = rx[d].src, !.state = "INCLUSION_PENDING"]
           r == AfterOpen(c, rx[d], stored)
<1>2. /\ c \in NodeState /\ c.state = "NOT_INCLUDED"
      /\ (c.state = "INCLUDED") <=> Member(d)
  BY <1>1, TimeoutFacts, NodesAssumption DEF IInv, Nodes, NodeOK, Member, Accepts, Awaits
<1>3. r.state = "INCLUSION_PENDING"
  <2>1. r.state = a.state
    BY DEF AfterOpen, TransitionToState, PersistState
  <2>2. a.state = "INCLUSION_PENDING"
    <3> HIDE DEF c
    <3> QED BY <1>2 DEF NodeState
  <2> QED BY <2>1, <2>2
<1>4. node'[d] = r
  BY <1>1 DEF IInv, DomainsOK, Nodes
<1> HIDE DEF c, r
<1> QED BY <1>2, <1>3, <1>4 DEF Stays, Member

LEMMA ResponseMoves ==
  ASSUME IInv, NEW d \in DEVICES, HandleResponse(d)
  PROVE  Stays(d)
<1>1. PICK stored \in StorageOutcomes :
        LET c == CheckProtocolTimeouts(d, node[d], stored)
        IN  /\ rx[d].topic = "INCLUDE_RESPONSE" /\ Accepts(d, c, rx[d])
            /\ node' = [node EXCEPT ![d] = AfterResponse(c, rx[d], stored)]
  BY DEF HandleResponse
<1> DEFINE c == CheckProtocolTimeouts(d, node[d], stored)
           p == rx[d]
           r == AfterResponse(c, p, stored)
<1>2. /\ c \in NodeState /\ c.state = "INCLUSION_PENDING"
      /\ (c.state = "INCLUDED") <=> Member(d)
  BY <1>1, TimeoutFacts, NodesAssumption DEF IInv, Nodes, NodeOK, Member, Accepts, Awaits
<1>3. r.state = c.state
  <2> HIDE DEF c, p
  <2> QED BY <1>2 DEF AfterResponse, TransitionToState, NodeState
<1>4. node'[d] = r
  BY <1>1 DEF IInv, DomainsOK, Nodes
<1> HIDE DEF c, r
<1> QED BY <1>2, <1>3, <1>4 DEF Stays, Member

LEMMA SuccessMoves ==
  ASSUME IInv, NEW d \in DEVICES, HandleSuccess(d)
  PROVE  Joins(d)
<1>1. PICK stored \in StorageOutcomes :
        LET c == CheckProtocolTimeouts(d, node[d], stored)
        IN  /\ rx[d] # NoPacket /\ rx[d].topic = "INCLUDE_SUCCESS" /\ Accepts(d, c, rx[d])
            /\ node' = [node EXCEPT ![d] = AfterSuccess(c, stored)]
  BY DEF HandleSuccess
<1> DEFINE c == CheckProtocolTimeouts(d, node[d], stored)
           r == AfterSuccess(c, stored)
<1>2. /\ c \in NodeState /\ c.state = "INCLUSION_PENDING"
      /\ c.state # node[d].state => c.state = "NOT_INCLUDED"
      /\ c.protocolState = "WAITING_FOR_SUCCESS"
      /\ NodeOK(d, c, confirmed)
      /\ c.networkKey = rx[d].key
  BY <1>1, TimeoutFacts, NodesAssumption
     DEF IInv, Nodes, NodeOK, Accepts, Authentic, Awaits
<1>3. Backed(c.storedKey, confirmed)
  <2> HIDE DEF c
  <2> QED BY <1>1, <1>2 DEF IInv, Nodes, PacketOK, NodeOK, DeviceOK
<1>4. r.state = "INCLUDED" /\ r.networkKey = c.storedKey
  <2> HIDE DEF c
  <2> QED BY <1>2 DEF AfterSuccess, TransitionToState, PersistState, NodeState
<1>5. node'[d] = r
  BY <1>1 DEF IInv, DomainsOK, Nodes
<1> HIDE DEF c, r
<1> QED BY <1>2, <1>3, <1>4, <1>5 DEF Joins, Member

LEMMA ExpireMoves ==
  ASSUME IInv, NEW d \in DEVICES, SessionExpires(d)
  PROVE  Keeps(d) \/ Stays(d)
BY DEF IInv, DomainsOK, Nodes, NodeState, SessionExpires, Keeps, Stays, Member

LEMMA RebootMoves ==
  ASSUME IInv, StorageFaults = FALSE, NEW d \in DEVICES, Reboot(d)
  PROVE  Keeps(d) \/ Stays(d)
<1>1. NodeOK(d, node[d], confirmed) /\ node'[d] = Boot(d, node[d])
  BY DEF Reboot, IInv, DomainsOK, Nodes
<1>2. /\ node'[d].state =
           IF node[d].storedState = "ABSENT" THEN "NOT_INCLUDED" ELSE node[d].storedState
      /\ node'[d].state = "INCLUDED" => node'[d].networkKey = node[d].storedKey
  BY <1>1, BootFacts DEF Nodes
<1>3. node'[d].state = node[d].state
  BY <1>1, <1>2 DEF NodeOK, DeviceOK, NodeState, DeviceInclusionState
<1> QED BY <1>1, <1>2, <1>3 DEF NodeOK, DeviceOK, Keeps, Stays, Member

LEMMA FactoryResetMoves ==
  ASSUME IInv, NEW d \in DEVICES, FactoryReset(d)
  PROVE  Leaves(d) \/ Stays(d)
<1> DEFINE w == [node[d] EXCEPT !.storedState = "ABSENT", !.storedKey = NoKey]
           b == Boot(d, w)
           c == [b EXCEPT !.networkKey = node[d].networkKey, !.peer = node[d].peer]
<1>1. d \notin HUBS /\ d \in Nodes /\ node[d] \in NodeState
  BY NodesAssumption DEF IInv, DomainsOK, Nodes
<1>2. node' = [node EXCEPT ![d] = c] /\ resets' = resets + 1
  BY <1>1 DEF FactoryReset
<1>3. w \in NodeState /\ w.storedState = "ABSENT"
  BY <1>1 DEF NodeState
<1>4. b.state = "NOT_INCLUDED" /\ b \in NodeState
  <2> HIDE DEF w
  <2>1. b.state = "NOT_INCLUDED"
    BY <1>1, <1>3 DEF Boot, NodeState
  <2>2. b \in NodeState
    BY <1>3 DEF Boot, NodeState, DeviceInclusionState, InclusionProtocolState
  <2> QED BY <2>1, <2>2
<1>5. c.state = "NOT_INCLUDED"
  <2> HIDE DEF b
  <2> QED BY <1>4 DEF NodeState
<1>6. node'[d].state = "NOT_INCLUDED"
  <2> HIDE DEF c
  <2> QED BY <1>1, <1>2, <1>5 DEF IInv, DomainsOK
<1>7. resets' # resets
  BY <1>2 DEF IInv, DomainsOK
<1> QED BY <1>6, <1>7 DEF Leaves, Stays, Member

(* A confirmation is recorded with the key of the hub that verified it.     *)
LEMMA ConfirmBacks ==
  ASSUME IInv, NEW h \in Nodes, HandleConfirm(h)
  PROVE  /\ h \notin DEVICES
         /\ \E e \in DEVICES, k \in NetworkKeys : confirmed' = confirmed \cup {<<e, k>>}
<1> DEFINE c == CheckProtocolTimeouts(h, node[h], TRUE)
<1>1. /\ h \in HUBS /\ h \notin DEVICES /\ rx[h].src \in DEVICES
      /\ confirmed' = confirmed \cup {<<rx[h].src, c.networkKey>>}
  BY NodesAssumption DEF HandleConfirm, Accepts, IInv, PacketOK
<1>2. c.networkKey \in NetworkKeys
  <2>1. NodeOK(h, node[h], confirmed) /\ TRUE \in StorageOutcomes
    BY BoundsAssumption DEF IInv, StorageOutcomes
  <2>2. NodeOK(h, c, confirmed)
    BY <2>1, TimeoutFacts
  <2> HIDE DEF c
  <2> QED BY <1>1, <2>2 DEF NodeOK, HubOK
<1> HIDE DEF c
<1> QED BY <1>1, <1>2

(* A step moves one node; only a hub's step records a confirmation.         *)
OneMoves(n) ==
  /\ \A m \in Nodes \ {n} : node'[m] = node[m]
  /\ n \in DEVICES => Moves(n) /\ confirmed' = confirmed
  /\ \/ confirmed' = confirmed
     \/ \E e \in DEVICES, k \in NetworkKeys : confirmed' = confirmed \cup {<<e, k>>}

LEMMA RunMoves ==
  ASSUME IInv, NEW n \in Nodes, Run(n) PROVE OneMoves(n)
<1>1. CASE HandleConfirm(n)
  BY <1>1, ConfirmBacks DEF OneMoves, HandleConfirm, IInv, DomainsOK
<1>2. CASE HandleRequest(n)
  <2>1. n \notin DEVICES /\ confirmed' = confirmed
    BY <1>2, NodesAssumption DEF HandleRequest, Accepts
  <2> QED BY <1>2, <2>1 DEF OneMoves, HandleRequest, IInv, DomainsOK
<1>3. CASE HandleOpen(n)
  BY <1>3, OpenMoves, NodesAssumption
     DEF OneMoves, Moves, HandleOpen, IInv, DomainsOK
<1>4. CASE HandleResponse(n)
  BY <1>4, ResponseMoves DEF OneMoves, Moves, HandleResponse, IInv, DomainsOK
<1>5. CASE HandleSuccess(n)
  BY <1>5, SuccessMoves DEF OneMoves, Moves, HandleSuccess, IInv, DomainsOK
<1>6. CASE Ignore(n)
  <2>1. PICK stored \in StorageOutcomes :
          node' = [node EXCEPT ![n] = CheckProtocolTimeouts(n, node[n], stored)]
    BY <1>6 DEF Ignore
  <2>2. node'[n] = CheckProtocolTimeouts(n, node[n], stored)
    BY <2>1 DEF IInv, DomainsOK
  <2>3. n \in DEVICES => Moves(n)
    BY <2>2, TimeoutsMove DEF Moves
  <2>4. \A m \in Nodes \ {n} : node'[m] = node[m]
    BY <2>1 DEF IInv, DomainsOK
  <2> QED BY <1>6, <2>3, <2>4 DEF OneMoves, Ignore
<1>7. CASE RunIdle(n)
  <2>1. PICK stored \in StorageOutcomes :
          node' = [node EXCEPT ![n] = CheckProtocolTimeouts(n, node[n], stored)]
    BY <1>7 DEF RunIdle, IInv, DomainsOK
  <2>2. node'[n] = CheckProtocolTimeouts(n, node[n], stored)
    BY <2>1 DEF IInv, DomainsOK
  <2>3. n \in DEVICES => Moves(n)
    BY <2>2, TimeoutsMove DEF Moves
  <2>4. \A m \in Nodes \ {n} : node'[m] = node[m]
    BY <2>1 DEF IInv, DomainsOK
  <2> QED BY <1>7, <2>3, <2>4 DEF OneMoves, RunIdle
<1> QED BY <1>1, <1>2, <1>3, <1>4, <1>5, <1>6, <1>7 DEF Run

LEMMA EnvironmentMoves ==
  ASSUME IInv, StorageFaults = FALSE, NEW n \in Nodes, Environment(n) PROVE OneMoves(n)
<1>1. CASE SessionExpires(n)
  BY <1>1, ExpireMoves DEF OneMoves, Moves, SessionExpires, IInv, DomainsOK
<1>2. CASE LosePacket(n)
  BY <1>2 DEF OneMoves, Moves, Keeps, Stays, Member, LosePacket
<1>3. CASE Reboot(n)
  BY <1>3, RebootMoves DEF OneMoves, Moves, Reboot, IInv, DomainsOK
<1>4. CASE FactoryReset(n)
  BY <1>4, FactoryResetMoves DEF OneMoves, Moves, FactoryReset, IInv, DomainsOK
<1> QED BY <1>1, <1>2, <1>3, <1>4 DEF Environment

LEMMA NextMoves ==
  ASSUME IInv, StorageFaults = FALSE, Next PROVE \E n \in Nodes : OneMoves(n)
<1>1. CASE \E h \in HUBS : HubApplication(h)
  <2>1. PICK h \in HUBS : HubApplication(h)
    BY <1>1
  <2>2. h \in Nodes /\ h \notin DEVICES
    BY NodesAssumption DEF Nodes
  <2>3. OneMoves(h)
    BY <2>1, <2>2 DEF HubApplication, EnterInclusionMode, ExitInclusionMode,
                      SendInclusionOpen, OneMoves, IInv, DomainsOK
  <2> QED BY <2>2, <2>3
<1>2. CASE \E n \in Nodes : Run(n) \/ Environment(n)
  BY <1>2, RunMoves, EnvironmentMoves
<1> QED BY <1>1, <1>2 DEF Next

-----------------------------------------------------------------------------
(* The steps of the abstract specification.                                 *)

status == [d \in DEVICES |-> node[d].state]
key    == [d \in DEVICES |-> IF Member(d) THEN node[d].networkKey ELSE NoKey]
backed == {p[2] : p \in confirmed}

(* A step of one node moves the abstract state of that device only.         *)
LEMMA OtherDevices ==
  ASSUME NEW n \in DEVICES, OneMoves(n), NEW k,
         k = IF node'[n].state = "INCLUDED" THEN node'[n].networkKey ELSE NoKey
  PROVE  /\ status' = [status EXCEPT ![n] = node'[n].state]
         /\ key' = [key EXCEPT ![n] = k]
         /\ backed' = backed
<1>1. \A d \in DEVICES \ {n} : node'[d] = node[d]
  BY DEF OneMoves, Nodes
<1>2. status' = [status EXCEPT ![n] = node'[n].state]
  BY <1>1 DEF status
<1>3. key' = [key EXCEPT ![n] = k]
  BY <1>1 DEF key, Member
<1>4. backed' = backed
  BY DEF OneMoves, backed
<1> QED BY <1>2, <1>3, <1>4

LEMMA DeviceStepImplements ==
  ASSUME IInv, IInv', NEW n \in DEVICES, OneMoves(n)
  PROVE  [Abstract!Next]_<<status, key, backed>>
<1> DEFINE k == IF node'[n].state = "INCLUDED" THEN node'[n].networkKey ELSE NoKey
<1>1. /\ status' = [status EXCEPT ![n] = node'[n].state]
      /\ key' = [key EXCEPT ![n] = k]
      /\ backed' = backed
  BY OtherDevices
<1>2. /\ status \in [DEVICES -> DeviceInclusionState] /\ status[n] = node[n].state
      /\ key = [key EXCEPT ![n] = IF Member(n) THEN node[n].networkKey ELSE NoKey]
      /\ node[n].state \in DeviceInclusionState /\ node'[n].state \in DeviceInclusionState
  BY DEF status, key, IInv, DomainsOK, Nodes, NodeState
<1>3. CASE Joins(n)
  <2>1. node'[n].networkKey \in backed /\ node'[n].state = "INCLUDED"
    BY <1>3 DEF Joins, Backed, backed, Member
  <2>2. PICK x \in backed : x = node'[n].networkKey
    BY <2>1
  <2>3. Abstract!Join(n, x)
    BY <1>1, <1>2, <1>3, <2>1, <2>2 DEF Abstract!Join, Joins, status, key, backed
  <2>4. \E d \in DEVICES, y \in {p[2] : p \in confirmed} : Abstract!Join(d, y)
    BY <2>2, <2>3 DEF backed
  <2> QED BY <2>4, Zenon DEF Abstract!Next
<1>4. CASE Keeps(n)
  <2>1. status' = status /\ key' = key
    BY <1>1, <1>2, <1>4 DEF Keeps, Member
  <2> QED BY <1>1, <2>1
<1>5. CASE Leaves(n)
  <2>1. Abstract!Leave(n)
    BY <1>1, <1>2, <1>5 DEF Abstract!Leave, Leaves, Member, status, key, backed
  <2> QED BY <2>1 DEF Abstract!Next
<1>6. CASE Stays(n)
  <2>1. key' = key
    BY <1>1, <1>2, <1>6 DEF Stays, Member
  <2>2. CASE node'[n].state = node[n].state
    <3>1. status' = status
      BY <1>1, <1>2, <2>2
    <3> QED BY <1>1, <2>1, <3>1
  <2>3. CASE node[n].state = "NOT_INCLUDED" /\ node'[n].state = "INCLUSION_PENDING"
    <3>1. Abstract!Start(n)
      BY <1>1, <1>2, <2>1, <2>3 DEF Abstract!Start, status, key, backed
    <3> QED BY <3>1 DEF Abstract!Next
  <2>4. CASE node[n].state = "INCLUSION_PENDING" /\ node'[n].state = "NOT_INCLUDED"
    <3>1. Abstract!Abandon(n)
      BY <1>1, <1>2, <2>1, <2>4 DEF Abstract!Abandon, status, key, backed
    <3> QED BY <3>1 DEF Abstract!Next
  <2> QED BY <1>2, <1>6, <2>2, <2>3, <2>4 DEF Stays, Member, DeviceInclusionState
<1> QED BY <1>3, <1>4, <1>5, <1>6 DEF OneMoves, Moves

LEMMA HubStepImplements ==
  ASSUME NEW n \in Nodes, n \notin DEVICES, OneMoves(n)
  PROVE  [Abstract!Next]_<<status, key, backed>>
<1>1. \A d \in DEVICES : node'[d] = node[d]
  BY DEF OneMoves, Nodes
<1>2. status' = status /\ key' = key
  BY <1>1 DEF status, key, Member
<1>3. CASE confirmed' = confirmed
  BY <1>2, <1>3 DEF backed
<1>4. CASE \E e \in DEVICES, k \in NetworkKeys : confirmed' = confirmed \cup {<<e, k>>}
  <2>1. PICK e \in DEVICES, k \in NetworkKeys : confirmed' = confirmed \cup {<<e, k>>}
    BY <1>4
  <2>2. backed' = backed \cup {k}
    <3>1. <<e, k>>[2] = k
      OBVIOUS
    <3>2. \A x : x \in {p[2] : p \in confirmed \cup {<<e, k>>}} <=>
                x \in {p[2] : p \in confirmed} \/ x = k
      BY <3>1, Zenon
    <3>3. {p[2] : p \in confirmed \cup {<<e, k>>}} = {p[2] : p \in confirmed} \cup {k}
      BY <3>2, Zenon
    <3> QED BY <2>1, <3>3 DEF backed
  <2>3. Abstract!Back
    BY <1>2, <2>2 DEF Abstract!Back, status, key, backed
  <2> QED BY <2>3 DEF Abstract!Next
<1> QED BY <1>3, <1>4 DEF OneMoves

-----------------------------------------------------------------------------
(* The theorems.                                                            *)

(* With storage that has room, the protocol implements the membership       *)
(* specification for any number of hubs, devices, restarts and resets.      *)
THEOREM Implementation ==
  ASSUME StorageFaults = FALSE PROVE Spec => ImplementsMembership
<1>1. Init => Abstract!Init
  BY NodesAssumption DEF Init, Abstract!Init, Member, Nodes
<1>2. IInv /\ IInv' /\ [Next]_vars => [Abstract!Next]_(Abstract!vars)
  <2> SUFFICES ASSUME IInv, IInv', [Next]_vars
               PROVE  [Abstract!Next]_<<status, key, backed>>
    BY DEF Abstract!vars, status, key, backed
  <2>1. CASE Next
    BY <2>1, NextMoves, DeviceStepImplements, HubStepImplements
  <2>2. CASE UNCHANGED vars
    BY <2>2 DEF vars, status, key, backed, Member
  <2> QED BY <2>1, <2>2
<1> QED BY <1>1, <1>2, Invariance, PTL DEF Spec, ImplementsMembership, Abstract!Spec

(* With storage that has room, only a factory reset ends a membership or    *)
(* changes a member's key.                                                  *)
THEOREM MembershipsAreStable ==
  ASSUME StorageFaults = FALSE PROVE Spec => MembershipIsStable
<1> DEFINE Stable == \A d \in DEVICES :
             Member(d) /\ resets' = resets =>
               Member(d)' /\ node'[d].networkKey = node[d].networkKey
<1>1. ASSUME IInv, Next PROVE Stable
  <2>1. PICK n \in Nodes : OneMoves(n)
    BY <1>1, NextMoves
  <2>2. ASSUME NEW d \in DEVICES, Member(d), resets' = resets
        PROVE  Member(d)' /\ node'[d].networkKey = node[d].networkKey
    <3>1. CASE d = n
      BY <2>1, <2>2, <3>1 DEF OneMoves, Moves, Joins, Keeps, Leaves, Stays, Member
    <3>2. CASE d # n
      BY <2>1, <2>2, <3>2 DEF OneMoves, Member, Nodes
    <3> QED BY <3>1, <3>2
  <2> QED BY <2>2
<1>2. IInv /\ [Next]_vars => [Stable]_vars
  <2> HIDE DEF Stable
  <2> QED BY <1>1
<1> QED BY <1>2, Invariance, PTL DEF Spec, MembershipIsStable

(* With storage that has room, a restart at any moment neither ends nor     *)
(* starts a membership, and a member has the same key after it.             *)
THEOREM RestartsKeepMembership ==
  ASSUME StorageFaults = FALSE PROVE Spec => RestartKeepsMembership
<1> DEFINE Kept == reboots' # reboots =>
             \A d \in DEVICES :
               /\ Member(d)' = Member(d)
               /\ Member(d) => node'[d].networkKey = node[d].networkKey
<1>1. ASSUME IInv, Next, reboots' # reboots, NEW d \in DEVICES
      PROVE  /\ Member(d)' = Member(d)
             /\ Member(d) => node'[d].networkKey = node[d].networkKey
  <2>1. PICK n \in Nodes : Reboot(n)
    BY <1>1 DEF Next, HubApplication, EnterInclusionMode, ExitInclusionMode, SendInclusionOpen,
                Run, HandleRequest, HandleConfirm, HandleOpen, HandleResponse, HandleSuccess,
                Ignore, RunIdle, Environment, SessionExpires, LosePacket, FactoryReset
  <2>2. CASE n = d
    BY <1>1, <2>1, <2>2, RebootMoves DEF Keeps, Stays, Member
  <2>3. CASE n # d
    BY <1>1, <2>1, <2>3 DEF Reboot, IInv, DomainsOK, Nodes, Member
  <2> QED BY <2>2, <2>3
<1>2. IInv /\ [Next]_vars => [Kept]_vars
  BY <1>1
<1> QED BY <1>2, Invariance, PTL DEF Spec, RestartKeepsMembership

-----------------------------------------------------------------------------
(* Nonces.  While fewer nonces are drawn than there are, each belongs to    *)
(* one answer of one hub to one device.                                     *)

(* The nonce drawn after j others, and what the first i of them are for.    *)
Drawn(j) == IF j = 0 THEN NONCE_MODULUS - 1 ELSE j - 1
Owned(x, d, i, own) == \E j \in 0 .. i - 1 : x = Drawn(j) /\ own[j] = d

(* A response carries a nonce of its addressee, a confirmation the next     *)
(* value of a nonce of its sender.                                          *)
Traced(p, i, own) ==
  /\ p.topic = "INCLUDE_RESPONSE" => Owned(p.nonce, p.peer, i, own)
  /\ p.topic = "INCLUDE_CONFIRM" =>
       \E x \in Nonces : Owned(x, p.src, i, own) /\ p.nonce = NextNonceValue(x)

(* The hubs that an opening has set waiting.                                *)
Waiting(f) == {h \in HUBS : f[h].protocolState = "WAITING_FOR_REQUEST"}

(* i nonces are drawn, own says for whom; each took an opening.             *)
Drew(i, own) ==
  /\ i \in Nat /\ i + Cardinality(Waiting(node)) <= calls
  /\ i < NONCE_MODULUS => nextNonce = Drawn(i)
  /\ \A h \in HUBS : node[h].protocolState = "WAITING_FOR_CONFIRMATION" =>
       Owned(node[h].currentNonce, node[h].peer, i, own)
  /\ \A n \in Nodes : rx[n] # NoPacket => Traced(rx[n], i, own)

NonceInv == calls <= MaxCalls /\ \E i, own : Drew(i, own)

LEMMA WaitingType ==
  ASSUME NEW f
  PROVE  IsFiniteSet(Waiting(f)) /\ Cardinality(Waiting(f)) \in Nat
<1>1. Waiting(f) \subseteq Nodes /\ IsFiniteSet(Nodes)
  BY NodesAssumption DEF Waiting, Nodes
<1> QED BY <1>1, FS_Subset, FS_CardinalityType

LEMMA WaitingShrinks ==
  ASSUME NEW f, NEW g, Waiting(g) \subseteq Waiting(f)
  PROVE  Cardinality(Waiting(g)) <= Cardinality(Waiting(f))
BY WaitingType, FS_Subset

(* One more nonce is drawn for d.                                           *)
LEMMA Drawing ==
  ASSUME NEW i \in Nat, NEW own, NEW d,
         NEW more, more = [j \in 0 .. i |-> IF j = i THEN d ELSE own[j]]
  PROVE  /\ \A x, e : Owned(x, e, i, own) => Owned(x, e, i + 1, more)
         /\ \A p : Traced(p, i, own) => Traced(p, i + 1, more)
         /\ Owned(Drawn(i), d, i + 1, more)
<1>1. i \in 0 .. (i + 1) - 1 /\ \A j \in 0 .. i - 1 : j \in 0 .. (i + 1) - 1 /\ j # i
  OBVIOUS
<1>2. more[i] = d /\ \A j \in 0 .. i - 1 : more[j] = own[j]
  BY <1>1
<1>3. \A x, e : Owned(x, e, i, own) => Owned(x, e, i + 1, more)
  BY <1>1, <1>2 DEF Owned
<1>4. Owned(Drawn(i), d, i + 1, more)
  BY <1>1, <1>2 DEF Owned
<1> QED BY <1>3, <1>4 DEF Traced

(* Different draws give different nonces, and the increment keeps them      *)
(* apart.                                                                   *)
LEMMA DrawnOnce ==
  ASSUME NEW j \in 0 .. NONCE_MODULUS - 1, NEW k \in 0 .. NONCE_MODULUS - 1, Drawn(j) = Drawn(k)
  PROVE  j = k
BY BoundsAssumption DEF Drawn

LEMMA IncrementIs ==
  ASSUME NEW x \in Nonces
  PROVE  NextNonceValue(x) = IF x = NONCE_MODULUS - 1 THEN 0 ELSE x + 1
<1>1. NONCE_MODULUS \in Nat \ {0} /\ x \in 0 .. NONCE_MODULUS - 1
  BY BoundsAssumption DEF Nonces
<1>2. CASE x = NONCE_MODULUS - 1
  <2>1. x + 1 = NONCE_MODULUS /\ NONCE_MODULUS % NONCE_MODULUS = 0
    BY <1>1, <1>2
  <2> QED BY <1>2, <2>1 DEF NextNonceValue
<1>3. CASE x # NONCE_MODULUS - 1
  <2>1. x + 1 \in 0 .. NONCE_MODULUS - 1
    BY <1>1, <1>3
  <2>2. (x + 1) % NONCE_MODULUS = x + 1
    BY <1>1, <2>1
  <2> QED BY <1>3, <2>2 DEF NextNonceValue
<1> QED BY <1>2, <1>3

LEMMA IncrementOnce ==
  ASSUME NEW x \in Nonces, NEW y \in Nonces, NextNonceValue(x) = NextNonceValue(y)
  PROVE  x = y
<1>1. NONCE_MODULUS \in Nat \ {0} /\ x \in 0 .. NONCE_MODULUS - 1 /\ y \in 0 .. NONCE_MODULUS - 1
  BY BoundsAssumption DEF Nonces
<1> QED BY <1>1, IncrementIs

LEMMA DrawnNext ==
  ASSUME NEW i \in Nat, i + 1 < NONCE_MODULUS
  PROVE  NextNonceValue(Drawn(i)) = Drawn(i + 1)
<1>1. NONCE_MODULUS \in Nat /\ Drawn(i) \in Nonces
  BY BoundsAssumption DEF Drawn, Nonces
<1>2. NextNonceValue(Drawn(i)) = IF Drawn(i) = NONCE_MODULUS - 1 THEN 0 ELSE Drawn(i) + 1
  BY <1>1, IncrementIs
<1> QED BY <1>1, <1>2 DEF Drawn

LEMMA DrawnType ==
  ASSUME NEW j \in Nat, j < NONCE_MODULUS PROVE Drawn(j) \in Nonces
BY BoundsAssumption DEF Drawn, Nonces

LEMMA TimeoutState ==
  ASSUME IInv, NEW n \in Nodes, NEW stored \in StorageOutcomes
  PROVE  LET r == CheckProtocolTimeouts(n, node[n], stored)
         IN  r = node[n] \/ r.protocolState = "PROTOCOL_IDLE"
<1> DEFINE off == [node[n] EXCEPT !.inclusionModeEnabled = FALSE]
<1>1. stored \in BOOLEAN
  BY DEF StorageOutcomes
<1>2. off \in NodeState
  BY DEF IInv, DomainsOK, NodeState
<1> HIDE DEF off
<1>3. ResetProtocolState(n, off, stored).protocolState = "PROTOCOL_IDLE"
  BY <1>1, <1>2, ResetFacts
<1> QED BY <1>3 DEF CheckProtocolTimeouts, off

(* A step of one node, after which i nonces are drawn.                      *)
LEMMA DrewStep ==
  ASSUME IInv, NEW n \in Nodes, NEW c, node' = [node EXCEPT ![n] = c],
         NEW i \in Nat, NEW own,
         i + Cardinality(Waiting(node')) <= calls',
         i < NONCE_MODULUS => nextNonce' = Drawn(i),
         \A h \in HUBS : node[h].protocolState = "WAITING_FOR_CONFIRMATION" =>
           Owned(node[h].currentNonce, node[h].peer, i, own),
         n \in HUBS /\ c.protocolState = "WAITING_FOR_CONFIRMATION" =>
           Owned(c.currentNonce, c.peer, i, own),
         \A m \in Nodes : rx[m] # NoPacket => Traced(rx[m], i, own),
         \A m \in Nodes : rx'[m] \in {rx[m], NoPacket} \/ Traced(rx'[m], i, own)
  PROVE  Drew(i, own)'
<1>1. \A m \in Nodes : node'[m] = IF m = n THEN c ELSE node[m]
  BY DEF IInv, DomainsOK
<1>2. HUBS \subseteq Nodes
  BY DEF Nodes
<1>3. \A h \in HUBS : node'[h].protocolState = "WAITING_FOR_CONFIRMATION" =>
        Owned(node'[h].currentNonce, node'[h].peer, i, own)
  BY <1>1, <1>2
<1>4. \A m \in Nodes : rx'[m] # NoPacket => Traced(rx'[m], i, own)
  OBVIOUS
<1> QED BY <1>3, <1>4 DEF Drew

(* A step that draws no nonce and sets no hub waiting.                      *)
LEMMA QuietStep ==
  ASSUME IInv, NEW n \in Nodes, NEW c, node' = [node EXCEPT ![n] = c],
         NEW i, NEW own, Drew(i, own),
         calls' \in Nat, calls <= calls', nextNonce' = nextNonce,
         \/ n \notin HUBS
         \/ c.protocolState \notin {"WAITING_FOR_REQUEST", "WAITING_FOR_CONFIRMATION"}
         \/ /\ c.protocolState = node[n].protocolState
            /\ c.currentNonce = node[n].currentNonce /\ c.peer = node[n].peer,
         \A m \in Nodes : rx'[m] \in {rx[m], NoPacket} \/ Traced(rx'[m], i, own)
  PROVE  Drew(i, own)'
<1>1. \A m \in Nodes : node'[m] = IF m = n THEN c ELSE node[m]
  BY DEF IInv, DomainsOK
<1>2. HUBS \subseteq Nodes
  BY DEF Nodes
<1>3. Waiting(node') \subseteq Waiting(node)
  BY <1>1, <1>2 DEF Waiting
<1>4. Cardinality(Waiting(node')) <= Cardinality(Waiting(node))
  BY <1>3, WaitingShrinks
<1>5. i \in Nat /\ i + Cardinality(Waiting(node)) <= calls /\ calls \in Nat
  BY DEF Drew, IInv, DomainsOK
<1>6. i + Cardinality(Waiting(node')) <= calls'
  BY <1>4, <1>5, WaitingType
<1>7. n \in HUBS /\ c.protocolState = "WAITING_FOR_CONFIRMATION" =>
        Owned(c.currentNonce, c.peer, i, own)
  BY DEF Drew
<1> QED BY <1>5, <1>6, <1>7, DrewStep DEF Drew

(* What a node sends is in some radios, and the others keep what they had.  *)
LEMMA Sending ==
  ASSUME IInv, NEW n, NEW p, NEW radio, Broadcast(n, p, radio), NEW k \in Nodes,
         radio \in {rx, Taken(k)}
  PROVE  \A m \in Nodes : rx'[m] \in {p, rx[m], NoPacket}
BY DEF Broadcast, Taken, IInv, DomainsOK

LEMMA TakingOne ==
  ASSUME IInv, NEW n \in Nodes
  PROVE  \A m \in Nodes : Taken(n)[m] \in {rx[m], NoPacket}
BY TakenFacts

(* The other topics carry no nonce.                                         *)
LEMMA BareTraced ==
  ASSUME NEW p, p.topic \notin {"INCLUDE_RESPONSE", "INCLUDE_CONFIRM"}, NEW i, NEW own
  PROVE  Traced(p, i, own)
BY DEF Traced

-----------------------------------------------------------------------------
(* Per action.                                                              *)

LEMMA EnterDraws ==
  ASSUME IInv, IInv', NEW h \in HUBS, EnterInclusionMode(h), NEW i, NEW own, Drew(i, own)
  PROVE  Drew(i, own)'
<1> DEFINE c == [node[h] EXCEPT !.inclusionModeEnabled = TRUE]
<1>1. h \in Nodes /\ node' = [node EXCEPT ![h] = c] /\ rx' = rx /\ UNCHANGED <<calls, nextNonce>>
  BY DEF EnterInclusionMode, Nodes, IInv, DomainsOK, NodeState
<1>2. /\ c.protocolState = node[h].protocolState
      /\ c.currentNonce = node[h].currentNonce /\ c.peer = node[h].peer
  BY <1>1 DEF IInv, DomainsOK, NodeState
<1> HIDE DEF c
<1>3. calls' \in Nat /\ calls <= calls' /\ \A m \in Nodes : rx'[m] = rx[m]
  BY <1>1 DEF IInv, DomainsOK
<1> QED BY <1>1, <1>2, <1>3, QuietStep

LEMMA ExitDraws ==
  ASSUME IInv, IInv', NEW h \in HUBS, ExitInclusionMode(h), NEW i, NEW own, Drew(i, own)
  PROVE  Drew(i, own)'
<1> DEFINE off == [node[h] EXCEPT !.inclusionModeEnabled = FALSE]
           c == ResetProtocolState(h, off, TRUE)
<1>1. /\ h \in Nodes /\ node' = [node EXCEPT ![h] = c] /\ rx' = rx
      /\ calls' = calls + 1 /\ nextNonce' = nextNonce
  BY DEF ExitInclusionMode, Nodes
<1>4. off \in NodeState
  <2>1. node[h] \in NodeState
    BY <1>1 DEF IInv, DomainsOK
  <2> HIDE DEF c
  <2> QED BY <2>1 DEF NodeState
<1>2. c.protocolState = "PROTOCOL_IDLE"
  <2> HIDE DEF off
  <2> QED BY <1>1, <1>4, ResetFacts
<1> HIDE DEF c, off
<1>3. calls' \in Nat /\ calls <= calls'
  BY <1>1 DEF IInv, DomainsOK
<1> QED BY <1>1, <1>2, <1>3, QuietStep

LEMMA SendOpenDraws ==
  ASSUME IInv, IInv', NEW h \in HUBS, SendInclusionOpen(h), NEW i, NEW own, Drew(i, own)
  PROVE  Drew(i, own)'
<1> DEFINE c == TransitionToState(node[h], "WAITING_FOR_REQUEST")
           q == Bare("INCLUDE_OPEN", h)
<1>1. /\ h \in Nodes /\ node' = [node EXCEPT ![h] = c] /\ Broadcast(h, q, rx)
      /\ calls' = calls + 1 /\ nextNonce' = nextNonce /\ node[h] \in NodeState
  BY DEF SendInclusionOpen, Nodes, IInv, DomainsOK
<1>2. c.protocolState = "WAITING_FOR_REQUEST"
  BY <1>1, TransitionFacts DEF InclusionProtocolState
<1>3. \A m \in Nodes : rx'[m] \in {rx[m], NoPacket} \/ Traced(rx'[m], i, own)
  <2>1. q.topic = "INCLUDE_OPEN"
    BY DEF Bare
  <2> HIDE DEF q
  <2> QED BY <1>1, <2>1, Sending, BareTraced
<1> HIDE DEF c, q
<1>4. Cardinality(Waiting(node')) <= Cardinality(Waiting(node)) + 1
  <2>1. Waiting(node') \subseteq Waiting(node) \cup {h}
    BY <1>1 DEF Waiting, IInv, DomainsOK, Nodes
  <2>2. /\ IsFiniteSet(Waiting(node) \cup {h})
        /\ Cardinality(Waiting(node) \cup {h}) <= Cardinality(Waiting(node)) + 1
    <3> DEFINE S == Waiting(node)
    <3>1. IsFiniteSet(S) /\ Cardinality(S) \in Nat
      BY WaitingType
    <3> HIDE DEF S
    <3>2. IsFiniteSet(S \cup {h}) /\ Cardinality(S \cup {h}) \in {Cardinality(S), Cardinality(S) + 1}
      BY <3>1, FS_AddElement
    <3> QED BY <3>1, <3>2 DEF S
  <2>3. Cardinality(Waiting(node')) <= Cardinality(Waiting(node) \cup {h})
    BY <2>1, <2>2, FS_Subset
  <2>4. Cardinality(Waiting(node) \cup {h}) \in Nat
    BY <2>2, FS_CardinalityType
  <2> QED BY <2>2, <2>3, <2>4, WaitingType
<1>5. i \in Nat /\ i + Cardinality(Waiting(node')) <= calls'
  BY <1>1, <1>4, WaitingType DEF Drew, IInv, DomainsOK
<1> QED BY <1>1, <1>2, <1>3, <1>5, DrewStep DEF Drew

(* A hub that answers was waiting for a request, and draws one nonce.       *)
LEMMA RequestDraws ==
  ASSUME IInv, IInv', NEW h \in Nodes, HandleRequest(h), NEW i, NEW own, Drew(i, own),
         calls <= NONCE_MODULUS
  PROVE  \E more : Drew(i + 1, more)'
<1> DEFINE c == CheckProtocolTimeouts(h, node[h], TRUE)
           p == rx[h]
           r == AfterRequest(c, p)
           q == [topic |-> "INCLUDE_RESPONSE", src |-> h, peer |-> p.src,
                 key |-> c.storedKey, nonce |-> nextNonce]
           more == [j \in 0 .. i |-> IF j = i THEN p.src ELSE own[j]]
<1>1. /\ h \in HUBS /\ c.protocolState = "WAITING_FOR_REQUEST"
      /\ node' = [node EXCEPT ![h] = r] /\ Broadcast(h, q, Taken(h))
      /\ nextNonce' = NextNonceValue(nextNonce) /\ calls' = calls
  BY NodesAssumption DEF HandleRequest, Accepts
<1>2. c = node[h] /\ node[h] \in NodeState
  <2>1. TRUE \in StorageOutcomes
    BY BoundsAssumption DEF StorageOutcomes
  <2> HIDE DEF c
  <2>2. c = node[h] \/ c.protocolState = "PROTOCOL_IDLE"
    BY <2>1, TimeoutState DEF c
  <2> QED BY <1>1, <2>2 DEF IInv, DomainsOK
<1>3. /\ r.protocolState = "WAITING_FOR_CONFIRMATION"
      /\ r.peer = p.src /\ r.currentNonce = nextNonce
  <2> DEFINE t == TransitionToState(c, "WAITING_FOR_CONFIRMATION")
  <2>1. "WAITING_FOR_CONFIRMATION" \in InclusionProtocolState
    BY DEF InclusionProtocolState
  <2> HIDE DEF c
  <2>2. t \in NodeState /\ t.protocolState = "WAITING_FOR_CONFIRMATION"
    BY <1>2, <2>1, TransitionFacts
  <2>3. r = [t EXCEPT !.peer = p.src, !.networkKey = c.storedKey, !.currentNonce = nextNonce]
    BY DEF AfterRequest
  <2> HIDE DEF t, p, r
  <2> QED BY <2>2, <2>3 DEF NodeState
<1>4. /\ \A m \in Nodes : rx'[m] \in {q, rx[m], NoPacket}
      /\ q.topic = "INCLUDE_RESPONSE" /\ q.peer = p.src /\ q.nonce = nextNonce
  <2>1. q.topic = "INCLUDE_RESPONSE" /\ q.peer = p.src /\ q.nonce = nextNonce
    BY DEF q
  <2> HIDE DEF q
  <2> QED BY <1>1, <2>1, Sending
<1> HIDE DEF c, p, r, q
<1>5. /\ i \in Nat /\ calls \in Nat /\ NONCE_MODULUS \in Nat
      /\ i + Cardinality(Waiting(node)) <= calls
  BY BoundsAssumption DEF Drew, IInv, DomainsOK
<1>6. Cardinality(Waiting(node')) = Cardinality(Waiting(node)) - 1
  <2>1. Waiting(node') = Waiting(node) \ {h} /\ h \in Waiting(node)
    BY <1>1, <1>2, <1>3 DEF Waiting, IInv, DomainsOK, Nodes
  <2> QED BY <2>1, WaitingType, FS_RemoveElement
<1>7. i + 1 + Cardinality(Waiting(node')) <= calls' /\ i < NONCE_MODULUS
  BY <1>1, <1>5, <1>6, WaitingType
<1>8. nextNonce = Drawn(i)
  BY <1>7 DEF Drew
<1>9. /\ \A x, e : Owned(x, e, i, own) => Owned(x, e, i + 1, more)
      /\ \A y : Traced(y, i, own) => Traced(y, i + 1, more)
      /\ Owned(Drawn(i), p.src, i + 1, more)
  BY <1>5, Drawing
<1> HIDE DEF more
<1>10. i + 1 < NONCE_MODULUS => nextNonce' = Drawn(i + 1)
  BY <1>1, <1>5, <1>8, DrawnNext
<1>11. Traced(q, i + 1, more)
  BY <1>4, <1>8, <1>9 DEF Traced
<1>12. \A m \in Nodes : rx'[m] \in {rx[m], NoPacket} \/ Traced(rx'[m], i + 1, more)
  BY <1>4, <1>11
<1>13. /\ \A m \in Nodes : rx[m] # NoPacket => Traced(rx[m], i + 1, more)
       /\ \A g \in HUBS : node[g].protocolState = "WAITING_FOR_CONFIRMATION" =>
            Owned(node[g].currentNonce, node[g].peer, i + 1, more)
  BY <1>9 DEF Drew
<1>14. Owned(r.currentNonce, r.peer, i + 1, more)
  BY <1>3, <1>8, <1>9
<1>15. i + 1 \in Nat
  BY <1>5
<1> QED BY <1>1, <1>7, <1>10, <1>12, <1>13, <1>14, <1>15, DrewStep

LEMMA ConfirmDraws ==
  ASSUME IInv, IInv', NEW h \in Nodes, HandleConfirm(h), NEW i, NEW own, Drew(i, own)
  PROVE  Drew(i, own)'
<1> DEFINE c == CheckProtocolTimeouts(h, node[h], TRUE)
           r == TransitionToState(c, "PROTOCOL_IDLE")
           q == [Bare("INCLUDE_SUCCESS", h) EXCEPT !.key = c.networkKey]
<1>1. /\ node' = [node EXCEPT ![h] = r] /\ Broadcast(h, q, Taken(h))
      /\ calls' = calls /\ nextNonce' = nextNonce
  BY DEF HandleConfirm
<1>2. c \in NodeState
  <2>1. NodeOK(h, node[h], confirmed) /\ TRUE \in StorageOutcomes
    BY BoundsAssumption DEF IInv, StorageOutcomes
  <2> QED BY <2>1, TimeoutFacts DEF NodeOK
<1>3. q.topic = "INCLUDE_SUCCESS"
  BY DEF Bare
<1> HIDE DEF c, q
<1>4. r.protocolState = "PROTOCOL_IDLE"
  BY <1>2, TransitionFacts DEF InclusionProtocolState
<1> HIDE DEF r
<1>5. \A m \in Nodes : rx'[m] \in {rx[m], NoPacket} \/ Traced(rx'[m], i, own)
  BY <1>1, <1>3, Sending, BareTraced
<1>6. calls' \in Nat /\ calls <= calls'
  BY <1>1 DEF IInv, DomainsOK
<1> QED BY <1>1, <1>4, <1>5, <1>6, QuietStep

(* The steps of a device, which may send one packet.                        *)
LEMMA DeviceDraws ==
  ASSUME IInv, IInv', NEW d \in DEVICES, NEW c, node' = [node EXCEPT ![d] = c],
         UNCHANGED <<calls, nextNonce>>, NEW i, NEW own, Drew(i, own),
         \A m \in Nodes : rx'[m] \in {rx[m], NoPacket} \/ Traced(rx'[m], i, own)
  PROVE  Drew(i, own)'
<1>1. d \in Nodes /\ d \notin HUBS /\ calls' \in Nat /\ calls <= calls' /\ nextNonce' = nextNonce
  BY NodesAssumption DEF Nodes, IInv, DomainsOK
<1> QED BY <1>1, QuietStep

LEMMA OpenDraws ==
  ASSUME IInv, IInv', NEW d \in Nodes, HandleOpen(d), NEW i, NEW own, Drew(i, own)
  PROVE  Drew(i, own)'
<1>1. PICK stored \in StorageOutcomes :
        LET c == CheckProtocolTimeouts(d, node[d], stored)
        IN  /\ rx[d].topic = "INCLUDE_OPEN" /\ Accepts(d, c, rx[d])
            /\ node' = [node EXCEPT ![d] = AfterOpen(c, rx[d], stored)]
            /\ Broadcast(d, Bare("INCLUDE_REQUEST", d), Taken(d))
            /\ UNCHANGED <<calls, nextNonce>>
  BY DEF HandleOpen
<1>2. d \in DEVICES
  BY <1>1 DEF Accepts
<1>3. Bare("INCLUDE_REQUEST", d).topic = "INCLUDE_REQUEST"
  BY DEF Bare
<1>4. \A m \in Nodes : rx'[m] \in {rx[m], NoPacket} \/ Traced(rx'[m], i, own)
  BY <1>1, <1>3, Sending, BareTraced
<1>5. PICK c : node' = [node EXCEPT ![d] = c]
  BY <1>1
<1> QED BY <1>1, <1>2, <1>4, <1>5, DeviceDraws

(* The addressee of the response answers with the next value of its nonce.  *)
LEMMA ResponseDraws ==
  ASSUME IInv, IInv', NEW d \in Nodes, HandleResponse(d), NEW i, NEW own, Drew(i, own)
  PROVE  Drew(i, own)'
<1>1. PICK stored \in StorageOutcomes :
        LET c == CheckProtocolTimeouts(d, node[d], stored)
        IN  /\ rx[d] # NoPacket
            /\ rx[d].topic = "INCLUDE_RESPONSE" /\ Accepts(d, c, rx[d])
            /\ node' = [node EXCEPT ![d] = AfterResponse(c, rx[d], stored)]
            /\ UNCHANGED <<calls, nextNonce>>
  BY DEF HandleResponse
<1> DEFINE p == rx[d]
           q == [Bare("INCLUDE_CONFIRM", d) EXCEPT
                   !.key = node'[d].networkKey, !.nonce = NextNonceValue(p.nonce)]
<1>2. Broadcast(d, q, Taken(d)) \/ rx' = Taken(d)
  BY DEF HandleResponse
<1>3. d \in DEVICES /\ d \notin HUBS
  BY <1>1, NodesAssumption DEF Accepts
<1>4. p.peer = d /\ p.nonce \in Nonces
  <2>1. p.src \in HUBS /\ p.nonce \in Nonces
    BY <1>1 DEF IInv, PacketOK
  <2>2. PICK c : Authentic(d, c, p)
    BY <1>1 DEF Accepts
  <2>3. {d, c.peer} = {p.src, p.peer}
    BY <1>1, <2>2 DEF Authentic
  <2> QED BY <1>3, <2>1, <2>3
<1>5. q.topic = "INCLUDE_CONFIRM" /\ q.src = d /\ q.nonce = NextNonceValue(p.nonce)
  BY DEF Bare
<1>6. Traced(q, i, own)
  <2>1. Owned(p.nonce, p.peer, i, own)
    BY <1>1 DEF Drew, Traced
  <2> HIDE DEF p, q
  <2> QED BY <1>4, <1>5, <2>1 DEF Traced
<1> HIDE DEF p, q
<1>7. \A m \in Nodes : rx'[m] \in {rx[m], NoPacket} \/ Traced(rx'[m], i, own)
  BY <1>2, <1>6, Sending, TakingOne
<1>8. PICK c : node' = [node EXCEPT ![d] = c]
  BY <1>1
<1> QED BY <1>1, <1>3, <1>7, <1>8, DeviceDraws

LEMMA SuccessDraws ==
  ASSUME IInv, IInv', NEW d \in Nodes, HandleSuccess(d), NEW i, NEW own, Drew(i, own)
  PROVE  Drew(i, own)'
<1>1. PICK stored \in StorageOutcomes :
        LET c == CheckProtocolTimeouts(d, node[d], stored)
        IN  /\ rx[d].topic = "INCLUDE_SUCCESS" /\ Accepts(d, c, rx[d])
            /\ node' = [node EXCEPT ![d] = AfterSuccess(c, stored)]
            /\ rx' = Taken(d) /\ UNCHANGED <<calls, nextNonce>>
  BY DEF HandleSuccess
<1>2. d \in DEVICES
  BY <1>1 DEF Accepts
<1>3. PICK c : node' = [node EXCEPT ![d] = c]
  BY <1>1
<1>4. \A m \in Nodes : rx'[m] \in {rx[m], NoPacket}
  BY <1>1, TakingOne
<1> QED BY <1>1, <1>2, <1>3, <1>4, DeviceDraws

(* A pass of run() that finds nothing to act on.                            *)
LEMMA PassDraws ==
  ASSUME IInv, IInv', NEW n \in Nodes, Ignore(n) \/ RunIdle(n), NEW i, NEW own, Drew(i, own)
  PROVE  Drew(i, own)'
<1>1. PICK stored \in StorageOutcomes :
        /\ node' = [node EXCEPT ![n] = CheckProtocolTimeouts(n, node[n], stored)]
        /\ rx' = Taken(n) \/ rx' = rx
        /\ UNCHANGED <<calls, nextNonce>>
  BY DEF Ignore, RunIdle
<1> DEFINE c == CheckProtocolTimeouts(n, node[n], stored)
<1>2. c = node[n] \/ c.protocolState = "PROTOCOL_IDLE"
  BY TimeoutState
<1>3. node' = [node EXCEPT ![n] = c] /\ nextNonce' = nextNonce
  BY <1>1
<1> HIDE DEF c
<1>4. \A m \in Nodes : rx'[m] \in {rx[m], NoPacket}
  BY <1>1, TakingOne
<1>5. calls' \in Nat /\ calls <= calls'
  BY <1>1 DEF IInv, DomainsOK
<1> QED BY <1>2, <1>3, <1>4, <1>5, QuietStep

LEMMA RunDraws ==
  ASSUME IInv, IInv', NEW n \in Nodes, Run(n), NEW i, NEW own, Drew(i, own),
         calls <= NONCE_MODULUS
  PROVE  \E j, more : Drew(j, more)'
BY RequestDraws, ConfirmDraws, OpenDraws, ResponseDraws, SuccessDraws, PassDraws DEF Run

(* Time, losses and restarts: a node that starts anew is idle.              *)
LEMMA EnvironmentDraws ==
  ASSUME IInv, IInv', NEW n \in Nodes, Environment(n), NEW i, NEW own, Drew(i, own)
  PROVE  Drew(i, own)'
<1>1. calls' = calls /\ nextNonce' = nextNonce
  BY DEF Environment, SessionExpires, LosePacket, Reboot, FactoryReset
<1>2. calls' \in Nat /\ calls <= calls'
  BY <1>1 DEF IInv, DomainsOK
<1>3. \A m \in Nodes : rx'[m] \in {rx[m], NoPacket}
  BY TakingOne DEF Environment, SessionExpires, LosePacket, Reboot, FactoryReset
<1>4. node[n] \in NodeState /\ node = [node EXCEPT ![n] = node[n]]
  BY DEF IInv, DomainsOK
<1>5. CASE SessionExpires(n)
  <2> DEFINE c == [node[n] EXCEPT !.timedOut = TRUE]
  <2>1. node' = [node EXCEPT ![n] = c]
    BY <1>5 DEF SessionExpires
  <2>2. /\ c.protocolState = node[n].protocolState
        /\ c.currentNonce = node[n].currentNonce /\ c.peer = node[n].peer
    BY <1>4 DEF NodeState
  <2> HIDE DEF c
  <2> QED BY <1>1, <1>2, <1>3, <2>1, <2>2, QuietStep
<1>6. CASE LosePacket(n)
  <2>1. node' = [node EXCEPT ![n] = node[n]]
    BY <1>4, <1>6 DEF LosePacket
  <2> QED BY <1>1, <1>2, <1>3, <2>1, QuietStep
<1>7. CASE Reboot(n)
  <2>1. node' = [node EXCEPT ![n] = Boot(n, node[n])]
    BY <1>7 DEF Reboot
  <2>2. Boot(n, node[n]).protocolState = "PROTOCOL_IDLE"
    BY <1>4 DEF Boot, NodeState
  <2> QED BY <1>1, <1>2, <1>3, <2>1, <2>2, QuietStep
<1>8. CASE FactoryReset(n)
  <2>1. node'[n].protocolState = "PROTOCOL_IDLE"
    BY <1>8, <1>4 DEF FactoryReset, Boot, NodeState, IInv, DomainsOK
  <2>2. node' = [node EXCEPT ![n] = node'[n]]
    BY <1>8 DEF FactoryReset, IInv, DomainsOK
  <2> QED BY <1>1, <1>2, <1>3, <2>1, <2>2, QuietStep
<1> QED BY <1>5, <1>6, <1>7, <1>8 DEF Environment

(* As many nonces as openings.                                              *)
NoncesSuffice == MaxCalls <= NONCE_MODULUS

LEMMA CallsAreBounded ==
  ASSUME IInv, calls <= MaxCalls, [Next]_vars
  PROVE  calls' <= MaxCalls
<1>1. calls' = calls \/ (calls < MaxCalls /\ calls' = calls + 1)
  BY DEF Next, vars, HubApplication, EnterInclusionMode, ExitInclusionMode, SendInclusionOpen,
         Run, HandleRequest, HandleConfirm, HandleOpen, HandleResponse, HandleSuccess, Ignore,
         RunIdle, Environment, SessionExpires, LosePacket, Reboot, FactoryReset
<1> QED BY <1>1, BoundsAssumption DEF IInv, DomainsOK

LEMMA NonceInit == Init => NonceInv
<1> SUFFICES ASSUME Init PROVE NonceInv
  OBVIOUS
<1>1. \A n \in Nodes : node[n].protocolState = "PROTOCOL_IDLE" /\ rx[n] = NoPacket
  BY DEF Init
<1>2. Waiting(node) = {} /\ HUBS \subseteq Nodes
  BY <1>1 DEF Waiting, Nodes
<1>3. Cardinality(Waiting(node)) = 0
  BY <1>2, FS_EmptySet
<1>4. calls = 0 /\ nextNonce = Drawn(0)
  BY DEF Init, Drawn
<1>5. Drew(0, <<>>)
  BY <1>1, <1>2, <1>3, <1>4 DEF Drew
<1> QED BY <1>4, <1>5, BoundsAssumption DEF NonceInv

LEMMA NonceStep ==
  ASSUME NoncesSuffice, IInv, IInv', NonceInv, [Next]_vars
  PROVE  NonceInv'
<1>1. PICK i, own : Drew(i, own)
  BY DEF NonceInv
<1>2. calls <= NONCE_MODULUS
  BY BoundsAssumption DEF NonceInv, NoncesSuffice, IInv, DomainsOK
<1>3. CASE UNCHANGED vars
  BY <1>1, <1>3 DEF vars, NonceInv, Drew, Waiting
<1>4. ASSUME NEW h \in HUBS, HubApplication(h) PROVE \E j, more : Drew(j, more)'
  BY <1>1, <1>4, EnterDraws, ExitDraws, SendOpenDraws DEF HubApplication
<1>5. ASSUME NEW n \in Nodes, Run(n) PROVE \E j, more : Drew(j, more)'
  BY <1>1, <1>2, <1>5, RunDraws
<1>6. ASSUME NEW n \in Nodes, Environment(n) PROVE \E j, more : Drew(j, more)'
  BY <1>1, <1>6, EnvironmentDraws
<1>7. calls' <= MaxCalls
  BY CallsAreBounded DEF NonceInv
<1> QED BY <1>3, <1>4, <1>5, <1>6, <1>7 DEF Next, NonceInv

(* The confirmation that a hub accepts is that of the device it answered.   *)
LEMMA ConfirmIsBound ==
  ASSUME NoncesSuffice, IInv, NonceInv, NEW h \in Nodes, HandleConfirm(h)
  PROVE  h \in HUBS /\ confirmed' = confirmed \cup {<<node[h].peer, node[h].storedKey>>}
<1> DEFINE c == CheckProtocolTimeouts(h, node[h], TRUE)
           p == rx[h]
<1>1. /\ h \in HUBS /\ p # NoPacket /\ p.topic = "INCLUDE_CONFIRM"
      /\ c.protocolState = "WAITING_FOR_CONFIRMATION"
      /\ p.nonce = NextNonceValue(c.currentNonce)
      /\ confirmed' = confirmed \cup {<<p.src, c.networkKey>>}
  BY NodesAssumption DEF HandleConfirm, Accepts
<1>2. c = node[h]
  <2>1. TRUE \in StorageOutcomes
    BY BoundsAssumption DEF StorageOutcomes
  <2>2. c = node[h] \/ c.protocolState = "PROTOCOL_IDLE"
    BY <2>1, TimeoutState
  <2> HIDE DEF c
  <2> QED BY <1>1, <2>2
<1> HIDE DEF c
<1>3. node[h].networkKey = node[h].storedKey
  BY <1>1, <1>2 DEF IInv, NodeOK, HubOK
<1>4. PICK i, own : Drew(i, own)
  BY DEF NonceInv
<1>5. i \in Nat /\ i <= NONCE_MODULUS /\ NONCE_MODULUS \in Nat
  <2>1. i \in Nat /\ i + Cardinality(Waiting(node)) <= calls /\ calls \in Nat /\ calls <= MaxCalls
    BY <1>4 DEF Drew, NonceInv, IInv, DomainsOK
  <2> QED BY <2>1, WaitingType, BoundsAssumption DEF NoncesSuffice
<1>6. PICK j \in 0 .. i - 1 : node[h].currentNonce = Drawn(j) /\ own[j] = node[h].peer
  BY <1>1, <1>2, <1>4 DEF Drew, Owned
<1>7. PICK x \in Nonces : Owned(x, p.src, i, own) /\ p.nonce = NextNonceValue(x)
  BY <1>1, <1>4 DEF Drew, Traced
<1>8. PICK k \in 0 .. i - 1 : x = Drawn(k) /\ own[k] = p.src
  BY <1>7 DEF Owned
<1>9. j \in 0 .. NONCE_MODULUS - 1 /\ k \in 0 .. NONCE_MODULUS - 1
  BY <1>5
<1>10. Drawn(j) = Drawn(k)
  <2>1. Drawn(j) \in Nonces
    <3>1. j \in Nat /\ j < NONCE_MODULUS
      BY <1>5, <1>9
    <3> QED BY <3>1, DrawnType
  <2> QED BY <1>1, <1>2, <1>6, <1>7, <1>8, <2>1, IncrementOnce
<1>11. j = k
  BY <1>9, <1>10, DrawnOnce
<1> QED BY <1>1, <1>2, <1>3, <1>6, <1>8, <1>11

LEMMA ConfirmedBy ==
  ASSUME [Next]_vars
  PROVE  confirmed' = confirmed \/ \E h \in Nodes : HandleConfirm(h)
BY DEF Next, vars, HubApplication, EnterInclusionMode, ExitInclusionMode, SendInclusionOpen,
       Run, HandleRequest, HandleOpen, HandleResponse, HandleSuccess, Ignore,
       RunIdle, Environment, SessionExpires, LosePacket, Reboot, FactoryReset

(* While the nonces of handleInclusionRequest do not repeat, the increment  *)
(* that a hub verifies comes from the device it answered last: no late      *)
(* confirmation of an earlier session, of another device or after a restart *)
(* is taken for it.                                                         *)
THEOREM ConfirmationsAreBound == NoncesSuffice => (Spec => ConfirmsTheAnsweredDevice)
<1> SUFFICES ASSUME NoncesSuffice PROVE Spec => ConfirmsTheAnsweredDevice
  OBVIOUS
<1>1. Init => NonceInv
  BY NonceInit
<1>2. IInv /\ IInv' /\ NonceInv /\ [Next]_vars => NonceInv'
  BY NonceStep
<1>3. IInv /\ NonceInv /\ [Next]_vars =>
        [\A p \in confirmed' \ confirmed :
           \E h \in HUBS : p = <<node[h].peer, node[h].storedKey>>]_vars
  BY ConfirmedBy, ConfirmIsBound
<1> QED BY <1>1, <1>2, <1>3, Invariance, PTL DEF Spec, ConfirmsTheAnsweredDevice
=============================================================================
