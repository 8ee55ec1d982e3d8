--------------------------- MODULE MessageSecurity ---------------------------
(***************************************************************************)
(* What EncryptionService and MicService do to the packets between nodes:  *)
(* method and keys by topic, type and inclusion state, encryption and MIC  *)
(* at each hop, verification and decryption by whoever receives a packet.  *)
(* The controller takes part with what it does to keys (its own protocol   *)
(* is in Inclusion): it answers requests, stores the key a response        *)
(* brings, confirms, and becomes a member.                                 *)
(*                                                                         *)
(* A public key is its owner, and a secret agreed upon is the set of its   *)
(* two ends.  AES runs in counter mode from a zero IV: a payload under a   *)
(* set of key streams, where encrypting and decrypting both toggle one.    *)
(* A MIC is the key and the bytes it was computed from.                    *)
(***************************************************************************)
EXTENDS Naturals, FiniteSets

CONSTANTS
  HUBS, DEVICES,  \* nodes of either MeshDeviceType; all devices relay
  NoNode,         \* an empty public key
  NetworkKeys,    \* keys a hub may draw
  NoKey,          \* an empty key
  Data,           \* what applications send
  Broadcast,      \* BROADCAST_ADDR
  Destinations,   \* to whom applications send
  MAX_HOPS,       \* 7 in the code
  MaxPackets      \* bound: packets on the air at a time

VARIABLES
  sec,  \* per node: inclusion state and the keys in its encryption service
  air   \* packets that may still be received, late, repeatedly, or not at all

vars == <<sec, air>>

Nodes == HUBS \cup DEVICES
InclusionTopic == {"INCLUDE_RESPONSE", "INCLUDE_CONFIRM", "INCLUDE_SUCCESS"}
ReservedTopic == {"PING"}
Topic == InclusionTopic \cup ReservedTopic \cup {"DATA"}

Secrets == {{n, m} : n \in Nodes, m \in Nodes}
Keys == NetworkKeys \cup Secrets
Security ==
  [state : {"NOT_INCLUDED", "INCLUSION_PENDING", "INCLUDED"},
   networkKey : NetworkKeys \cup {NoKey},
   hubPublicKey : HUBS \cup {NoNode}, tempDevicePublicKey : DEVICES \cup {NoNode}]

(* content is data, or the key a response carries.                         *)
Payload == [content : Data \cup NetworkKeys, streams : SUBSET Keys]
Header ==
  [topic : Topic, source : Nodes, dest : Nodes \cup {Broadcast}, hopCount : Nat, lastHop : Nodes,
   packetCrc : Payload]
Mic == [key : Keys, header : Header, payload : Payload]
Packet == [header : Header, payload : Payload, mic : Mic]

ASSUME SecurityAssumption ==
  /\ HUBS \cap DEVICES = {} /\ NoNode \notin Nodes
  /\ Broadcast \notin Nodes /\ Destinations \subseteq Nodes \cup {Broadcast}
  /\ NoKey \notin Keys
  /\ NetworkKeys \cap Secrets = {}
  /\ MAX_HOPS \in Nat /\ MaxPackets \in Nat

-----------------------------------------------------------------------------
(* EncryptionService.  s is the security state of node n.                  *)

(* Variant: all messages of the protocol are under the network key.        *)
DetermineCryptoMethodAES(n, s, topic) ==
  IF topic \in InclusionTopic \/ s.state = "INCLUDED" \/ n \in HUBS THEN "AES" ELSE "NONE"

DetermineCryptoMethod(n, s, topic) ==
  CASE topic = "INCLUDE_RESPONSE"                          -> "DIRECT_ECC"
    [] topic \in {"INCLUDE_CONFIRM", "INCLUDE_SUCCESS"}    -> "AES"
    [] topic \in {"PING", "DATA"} ->
         IF s.state = "INCLUDED" \/ n \in HUBS THEN "AES" ELSE "NONE"

(* ECDH of a node's private key and a public key, empty if that is.        *)
Curve25519(n, publicKey) == IF publicKey = NoNode THEN NoKey ELSE {n, publicKey}

(* encryptDirectECC: only the hub sends responses, under the key of the    *)
(* device it answers.                                                      *)
GetEncryptionKey(n, s, topic) ==
  CASE DetermineCryptoMethod(n, s, topic) = "DIRECT_ECC" -> Curve25519(n, s.tempDevicePublicKey)
    [] DetermineCryptoMethod(n, s, topic) = "AES"        -> s.networkKey
    [] OTHER                                             -> NoKey

(* decryptDirectECC: a hub has no private key for it; the other end is the *)
(* hub if its key is known.                                                *)
SenderPublicKey(s) == IF s.hubPublicKey # NoNode THEN s.hubPublicKey ELSE s.tempDevicePublicKey
GetDecryptionKey(n, s, topic) ==
  CASE DetermineCryptoMethod(n, s, topic) = "DIRECT_ECC" ->
         IF n \in DEVICES THEN Curve25519(n, SenderPublicKey(s)) ELSE NoKey
    [] DetermineCryptoMethod(n, s, topic) = "AES"        -> s.networkKey
    [] OTHER                                             -> NoKey

Toggled(payload, key) ==
  [payload EXCEPT !.streams = (@ \cup {key}) \ (@ \cap {key})]

(* Without a key, the data passes as it is.                                *)
Encrypt(n, s, topic, payload) ==
  LET key == GetEncryptionKey(n, s, topic)
  IN  IF key = NoKey THEN payload ELSE Toggled(payload, key)

Decrypt(n, s, topic, payload) ==
  LET key == GetDecryptionKey(n, s, topic)
  IN  IF key = NoKey THEN payload ELSE Toggled(payload, key)

-----------------------------------------------------------------------------
(* MicService.                                                             *)

GetECIESMacKey(n, s) ==
  Curve25519(n, IF n \in HUBS THEN s.tempDevicePublicKey ELSE s.hubPublicKey)

(* Variant: any device that has a network key uses it.                     *)
GetMICKeyAlways(n, s, topic) ==
  IF topic = "INCLUDE_RESPONSE" THEN GetECIESMacKey(n, s) ELSE s.networkKey

GetMICKey(n, s, topic) ==
  CASE topic = "INCLUDE_RESPONSE"                       -> GetECIESMacKey(n, s)
    [] topic \in {"INCLUDE_CONFIRM", "INCLUDE_SUCCESS"} -> s.networkKey
    [] topic \in {"PING", "DATA"} ->
         IF s.state = "INCLUDED" \/ n \in HUBS THEN s.networkKey ELSE NoKey

Cmac(key, header, payload) == [key |-> key, header |-> header, payload |-> payload]

VerifyPacketMIC(n, s, p) ==
  LET key == GetMICKey(n, s, p.header.topic)
  IN  key # NoKey /\ p.mic = Cmac(key, p.header, p.payload)

-----------------------------------------------------------------------------
Clear(content) == [content |-> content, streams |-> {}]

(* sendData: a new packet, before it is routed.                            *)
Draft(n, topic, dest, content) ==
  [topic |-> topic, source |-> n, dest |-> dest, hopCount |-> 0, lastHop |-> n,
   packetCrc |-> Clear(content)]

(* Variant: the MIC authenticates the header as it came.                   *)
RoutedMacFirst(n, s, header, payload) ==
  LET sealed == Encrypt(n, s, header.topic, payload)
      hop    == [header EXCEPT !.hopCount = @ + 1, !.lastHop = n, !.packetCrc = sealed]
  IN  [header |-> hop, payload |-> sealed,
       mic |-> Cmac(GetMICKey(n, s, header.topic), header, sealed)]

(* routePacket: hop, encryption, CRC and MIC, in this order.               *)
Routed(n, s, header, payload) ==
  LET sealed == Encrypt(n, s, header.topic, payload)
      hop    == [header EXCEPT !.hopCount = @ + 1, !.lastHop = n, !.packetCrc = sealed]
  IN  [header |-> hop, payload |-> sealed,
       mic |-> Cmac(GetMICKey(n, s, header.topic), hop, sealed)]

(* Variant: a packet is sent with whatever MIC it has.                     *)
RoutePacketUnkeyed(n, s, header, payload) ==
  IF header.hopCount >= MAX_HOPS THEN UNCHANGED air
  ELSE air' = air \cup {Routed(n, s, header, payload)}

(* A packet without a MIC key, or that came too far, is not sent.          *)
RoutePacket(n, s, header, payload) ==
  IF GetMICKey(n, s, header.topic) = NoKey \/ header.hopCount >= MAX_HOPS
    THEN UNCHANGED air
    ELSE air' = air \cup {Routed(n, s, header, payload)}

Init ==
  /\ \E drawn \in [HUBS -> NetworkKeys] :
       sec = [n \in Nodes |->
                [state |-> IF n \in HUBS THEN "INCLUDED" ELSE "NOT_INCLUDED",
                 networkKey |-> IF n \in HUBS THEN drawn[n] ELSE NoKey,
                 hubPublicKey |-> NoNode, tempDevicePublicKey |-> NoNode]]
  /\ air = {}

Room == Cardinality(air) < MaxPackets

(* Topics of the protocol are sent by the controller only; others need a   *)
(* member.                                                                 *)
SendData(n, topic, dest, content) ==
  /\ Room
  /\ sec[n].state = "INCLUDED"
  /\ RoutePacket(n, sec[n], Draft(n, topic, dest, content), Clear(content))
  /\ UNCHANGED sec

(* A device answers INCLUDE_OPEN in the clear, and remembers the hub.      *)
HandleOpen(d, h) ==
  /\ sec[d].state = "NOT_INCLUDED"
  /\ sec' = [sec EXCEPT ![d] = [@ EXCEPT !.state = "INCLUSION_PENDING", !.hubPublicKey = h]]
  /\ UNCHANGED air

(* A hub hears a request and answers with its network key.                 *)
HandleRequest(h, d) ==
  LET asked == [sec[h] EXCEPT !.tempDevicePublicKey = d]
  IN  /\ Room
      /\ sec[d].state = "INCLUSION_PENDING"
      /\ sec' = [sec EXCEPT ![h] = asked]
      /\ RoutePacket(h, asked, Draft(h, "INCLUDE_RESPONSE", d, sec[h].networkKey),
                     Clear(sec[h].networkKey))

(* The bytes of a key that is still under a key stream are another key.    *)
Brought(opened) ==
  IF opened.streams = {} THEN {opened.content} ELSE NetworkKeys \ {opened.content}

(* What the protocol does with a message that was opened: a device takes   *)
(* the key and confirms, a hub reports success, the device is a member.    *)
HandleInclusionMessage(n, header, opened) ==
  LET s == sec[n]
  IN  \/ /\ n \in DEVICES /\ s.state = "INCLUSION_PENDING" /\ header.topic = "INCLUDE_RESPONSE"
         /\ \E key \in Brought(opened), datum \in Data :
              LET keyed == [s EXCEPT !.networkKey = key]
              IN  /\ sec' = [sec EXCEPT ![n] = keyed]
                  /\ RoutePacket(n, keyed, Draft(n, "INCLUDE_CONFIRM", header.source, datum),
                                 Clear(datum))
      \/ /\ n \in HUBS /\ header.topic = "INCLUDE_CONFIRM"
         /\ \E datum \in Data :
              RoutePacket(n, s, Draft(n, "INCLUDE_SUCCESS", header.source, datum), Clear(datum))
         /\ UNCHANGED sec
      \/ /\ n \in DEVICES /\ s.state = "INCLUSION_PENDING" /\ header.topic = "INCLUDE_SUCCESS"
         /\ s.networkKey # NoKey
         /\ sec' = [sec EXCEPT ![n].state = "INCLUDED"]
         /\ UNCHANGED air

(* A factory reset clears what is stored; the keys in RAM stay.            *)
Reset(n) ==
  IF n \in DEVICES THEN [sec[n] EXCEPT !.state = "NOT_INCLUDED"] ELSE sec[n]

(* Reserved topics are not decrypted.                                      *)
Opened(n, p) ==
  IF p.header.topic \in ReservedTopic THEN p.payload
  ELSE Decrypt(n, sec[n], p.header.topic, p.payload)

(* handleReceivedData of a packet that was not seen before.  Application   *)
(* and reserved topics go to onPacketReceived, which may reset the node,   *)
(* before they are relayed.                                                *)
HandleReceivedData(n, p) ==
  /\ Room
  /\ p.header.packetCrc = p.payload
  /\ VerifyPacketMIC(n, sec[n], p)
  /\ IF p.header.topic \in InclusionTopic
       THEN HandleInclusionMessage(n, p.header, Opened(n, p))
       ELSE /\ n \in DEVICES /\ p.header.dest # n /\ p.header.lastHop # n
            /\ \E after \in {sec[n], Reset(n)} :
                 /\ sec' = [sec EXCEPT ![n] = after]
                 /\ RoutePacket(n, after, p.header, Opened(n, p))

(* factoryReset, with or without the restart after which a hub has a new   *)
(* key and a device none.                                                  *)
FactoryReset(n) ==
  /\ \/ sec' = [sec EXCEPT ![n] = Reset(n)]
     \/ \E key \in IF n \in HUBS THEN NetworkKeys ELSE {NoKey} :
          sec' = [sec EXCEPT ![n] =
                    [Reset(n) EXCEPT !.networkKey = key, !.hubPublicKey = NoNode,
                                     !.tempDevicePublicKey = NoNode]]
  /\ UNCHANGED air

Fades(p) == air' = air \ {p} /\ UNCHANGED sec

Next ==
  \/ \E p \in air : Fades(p)
  \/ \E n \in Nodes :
       \/ \E topic \in ReservedTopic \cup {"DATA"}, dest \in Destinations, datum \in Data :
            SendData(n, topic, dest, datum)
       \/ \E p \in air : HandleReceivedData(n, p)
       \/ FactoryReset(n)
  \/ \E d \in DEVICES, h \in HUBS : HandleOpen(d, h) \/ HandleRequest(h, d)

Spec == Init /\ [][Next]_vars

-----------------------------------------------------------------------------
(* Properties.                                                             *)

TypeOK ==
  /\ sec \in [Nodes -> Security]
  /\ air \subseteq Packet

(* encrypt() hands data through when it has no key or no method for it.    *)
(* That such data never leaves the node is the work of MicService, which   *)
(* then has no key either: whatever is sent is under one layer, that of    *)
(* the key of its MIC, at any distance from its source and although nodes  *)
(* lose keys and memberships between receiving and relaying.  Reserved     *)
(* topics are the exception: relays encrypt them again without decrypting. *)
AirIsProtected ==
  \A p \in air : p.header.topic \notin ReservedTopic => p.payload.streams = {p.mic.key}

(* Every node that can tell a packet's MIC by its key accepts the packet   *)
(* and reads what its source sent: keys for the MIC and for the payload    *)
(* are found independently, from topic, type and state, by hub and device. *)
AcceptedIsReadable ==
  \A n \in Nodes, p \in air :
    GetMICKey(n, sec[n], p.header.topic) = p.mic.key =>
      /\ VerifyPacketMIC(n, sec[n], p) /\ p.header.packetCrc = p.payload
      /\ p.header.topic \notin ReservedTopic /\ (n \in DEVICES \/ p.header.topic # "INCLUDE_RESPONSE")
         => Opened(n, p).streams = {}

(* A response, and with it the network key, is read by nobody but the      *)
(* device it is for, although every node hears it, with several hubs and   *)
(* sessions about.                                                         *)
ResponseReachesOnlyItsDevice ==
  \A n \in DEVICES, p \in air :
    p.header.topic = "INCLUDE_RESPONSE" /\ (Opened(n, p).streams = {} \/ VerifyPacketMIC(n, sec[n], p))
      => n = p.header.dest
=============================================================================
