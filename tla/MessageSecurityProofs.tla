------------------------ MODULE MessageSecurityProofs -------------------------
(* Theorems about the protection of messages, for any number of hubs,        *)
(* devices, keys, hops and packets on the air.                               *)
EXTENDS MessageSecurity, TLAPS

(* What a packet on the air went through: the CRC and the MIC were computed  *)
(* last, the MIC has the key of the one layer of encryption, and for a       *)
(* response that is the secret of its two ends.                              *)
PacketOK(p) ==
  /\ p.mic = Cmac(p.mic.key, p.header, p.payload)
  /\ p.header.packetCrc = p.payload
  /\ p.header.topic \notin ReservedTopic => p.payload.streams = {p.mic.key}
  /\ p.header.topic = "INCLUDE_RESPONSE" =>
       /\ p.payload.content \in NetworkKeys
       /\ p.header.dest \in DEVICES
       /\ \E h \in HUBS : p.mic.key = {h, p.header.dest}

(* A hub is a member with a key at any time.                                 *)
HubOK(s) == s.state = "INCLUDED" /\ s.networkKey \in NetworkKeys

(* The inductive invariant.                                                  *)
IInv ==
  /\ TypeOK
  /\ \A h \in HUBS : HubOK(sec[h])
  /\ \A p \in air : PacketOK(p)

-----------------------------------------------------------------------------
(* Keys.                                                                     *)

LEMMA SharedSecret ==
  ASSUME NEW n \in Nodes, NEW k \in Nodes \cup {NoNode}
  PROVE  /\ k = NoNode => Curve25519(n, k) = NoKey
         /\ k # NoNode => Curve25519(n, k) = {n, k} /\ {n, k} \in Secrets
BY SecurityAssumption DEF Curve25519, Secrets

(* What a sender encrypts with is what it authenticates with, if it has a    *)
(* key at all.                                                               *)
LEMMA SendersKeys ==
  ASSUME NEW n \in Nodes, NEW s \in Security, NEW topic \in Topic,
         topic = "INCLUDE_RESPONSE" => n \in HUBS,
         GetMICKey(n, s, topic) # NoKey
  PROVE  /\ GetEncryptionKey(n, s, topic) = GetMICKey(n, s, topic)
         /\ GetMICKey(n, s, topic) \in Keys
<1>1. /\ s.networkKey \in NetworkKeys \cup {NoKey}
      /\ s.tempDevicePublicKey \in Nodes \cup {NoNode}
  BY DEF Security, Nodes
<1>2. CASE topic = "INCLUDE_RESPONSE"
  BY <1>1, <1>2, SharedSecret
     DEF GetEncryptionKey, DetermineCryptoMethod, GetMICKey, GetECIESMacKey, Keys
<1>3. CASE topic \in {"INCLUDE_CONFIRM", "INCLUDE_SUCCESS"}
  BY <1>1, <1>3 DEF GetEncryptionKey, DetermineCryptoMethod, GetMICKey, Keys
<1>4. CASE topic \in {"PING", "DATA"}
  BY <1>1, <1>4 DEF GetEncryptionKey, DetermineCryptoMethod, GetMICKey, Keys
<1>. QED
  BY <1>2, <1>3, <1>4 DEF Topic, InclusionTopic, ReservedTopic

(* Who can verify a packet decrypts it with the same key; hubs do not        *)
(* decrypt responses.                                                        *)
LEMMA ReceiversKeys ==
  ASSUME NEW n \in Nodes, NEW s \in Security, NEW topic \in Topic,
         topic = "INCLUDE_RESPONSE" => n \in DEVICES,
         GetMICKey(n, s, topic) # NoKey
  PROVE  GetDecryptionKey(n, s, topic) = GetMICKey(n, s, topic)
<1>1. s.hubPublicKey \in Nodes \cup {NoNode}
  BY DEF Security, Nodes
<1>2. CASE topic = "INCLUDE_RESPONSE"
  BY <1>1, <1>2, SharedSecret, SecurityAssumption
     DEF GetDecryptionKey, DetermineCryptoMethod, GetMICKey, GetECIESMacKey, SenderPublicKey
<1>3. CASE topic \in {"INCLUDE_CONFIRM", "INCLUDE_SUCCESS"}
  BY <1>3 DEF GetDecryptionKey, DetermineCryptoMethod, GetMICKey
<1>4. CASE topic \in {"PING", "DATA"}
  BY <1>4 DEF GetDecryptionKey, DetermineCryptoMethod, GetMICKey
<1>. QED
  BY <1>2, <1>3, <1>4 DEF Topic, InclusionTopic, ReservedTopic

(* Encrypting or decrypting toggles one layer.                               *)
LEMMA TogglesOneLayer ==
  ASSUME NEW payload \in Payload, NEW key \in Keys
  PROVE  /\ Toggled(payload, key) \in Payload
         /\ Toggled(payload, key).content = payload.content
         /\ payload.streams = {} => Toggled(payload, key).streams = {key}
         /\ payload.streams = {key} => Toggled(payload, key).streams = {}
BY DEF Toggled, Payload

LEMMA OnlyItsKeyOpens ==
  ASSUME NEW payload \in Payload, NEW key \in Keys, NEW k,
         payload.streams = {k}, Toggled(payload, key).streams = {}
  PROVE  key = k
BY DEF Toggled, Payload

-----------------------------------------------------------------------------
(* A packet that is routed satisfies the invariant.                          *)
LEMMA RoutedIsOK ==
  ASSUME NEW n \in Nodes, NEW s \in Security, NEW header \in Header, NEW payload \in Payload,
         header.topic \notin ReservedTopic => payload.streams = {},
         header.topic = "INCLUDE_RESPONSE" =>
           /\ n \in HUBS /\ header.dest \in DEVICES /\ payload.content \in NetworkKeys
           /\ s.tempDevicePublicKey = header.dest,
         GetMICKey(n, s, header.topic) # NoKey
  PROVE  Routed(n, s, header, payload) \in Packet /\ PacketOK(Routed(n, s, header, payload))
<1>. DEFINE key == GetMICKey(n, s, header.topic)
            sealed == Encrypt(n, s, header.topic, payload)
            hop == [header EXCEPT !.hopCount = @ + 1, !.lastHop = n, !.packetCrc = sealed]
            r == Routed(n, s, header, payload)
<1>1. header.topic \in Topic /\ header.hopCount \in Nat /\ header.dest \in Nodes \cup {Broadcast}
  BY DEF Header
<1>2. key \in Keys /\ GetEncryptionKey(n, s, header.topic) = key
  BY <1>1, SendersKeys
<1>3. sealed = Toggled(payload, key) /\ key # NoKey
  BY <1>2 DEF Encrypt
<1>4. /\ sealed \in Payload /\ sealed.content = payload.content
      /\ payload.streams = {} => sealed.streams = {key}
  BY <1>2, <1>3, TogglesOneLayer
<1>5. ASSUME header.topic = "INCLUDE_RESPONSE"
      PROVE  key = {n, header.dest}
  BY <1>5, SharedSecret, SecurityAssumption DEF GetMICKey, GetECIESMacKey, Nodes
<1>. HIDE DEF key, sealed
<1>6. /\ hop \in Header /\ hop.topic = header.topic /\ hop.dest = header.dest
      /\ hop.packetCrc = sealed
  <2>. DEFINE one == [header EXCEPT !.hopCount = @ + 1]
              two == [one EXCEPT !.lastHop = n]
              three == [two EXCEPT !.packetCrc = sealed]
  <2>1. one \in Header /\ one.topic = header.topic /\ one.dest = header.dest
    BY <1>1 DEF Header
  <2>. HIDE DEF one
  <2>2. two \in Header /\ two.topic = header.topic /\ two.dest = header.dest
    BY <2>1 DEF Header
  <2>. HIDE DEF two
  <2>3. three \in Header /\ three.topic = header.topic /\ three.dest = header.dest
        /\ three.packetCrc = sealed
    BY <1>4, <2>2 DEF Header
  <2>4. hop = three
    BY DEF one, two
  <2>. QED
    BY <2>3, <2>4
<1>. HIDE DEF hop
<1>7. r = [header |-> hop, payload |-> sealed, mic |-> [key |-> key, header |-> hop, payload |-> sealed]]
  BY DEF Routed, Cmac, key, sealed, hop
<1>. HIDE DEF r
<1>8. r \in Packet
  BY <1>2, <1>4, <1>6, <1>7 DEF Packet, Mic
<1>9. PacketOK(r)
  BY <1>4, <1>5, <1>6, <1>7 DEF PacketOK, Cmac
<1>. QED
  BY <1>8, <1>9 DEF r

(* routePacket keeps the air in order.                                       *)
AirOK(a) == a \subseteq Packet /\ \A p \in a : PacketOK(p)

LEMMA RoutingKeepsAir ==
  ASSUME AirOK(air),
         NEW n \in Nodes, NEW s \in Security, NEW header \in Header, NEW payload \in Payload,
         header.topic \notin ReservedTopic => payload.streams = {},
         header.topic = "INCLUDE_RESPONSE" =>
           /\ n \in HUBS /\ header.dest \in DEVICES /\ payload.content \in NetworkKeys
           /\ s.tempDevicePublicKey = header.dest,
         RoutePacket(n, s, header, payload)
  PROVE  AirOK(air)'
BY RoutedIsOK DEF RoutePacket, AirOK

(* What the controller and sendData send is new and in the clear.            *)
LEMMA DraftIsClear ==
  ASSUME NEW n \in Nodes, NEW topic \in Topic, NEW dest \in Nodes \cup {Broadcast},
         NEW content \in Data \cup NetworkKeys
  PROVE  /\ Draft(n, topic, dest, content) \in Header
         /\ Draft(n, topic, dest, content).topic = topic
         /\ Draft(n, topic, dest, content).dest = dest
         /\ Clear(content) \in Payload /\ Clear(content).streams = {}
         /\ Clear(content).content = content
BY DEF Draft, Header, Clear, Payload

(* A message that is verified is read in the clear.                          *)
LEMMA VerifiedIsClear ==
  ASSUME NEW p \in Packet, PacketOK(p), NEW n \in Nodes, sec[n] \in Security,
         GetMICKey(n, sec[n], p.header.topic) = p.mic.key,
         p.header.topic = "INCLUDE_RESPONSE" => n \in DEVICES
  PROVE  /\ Opened(n, p) \in Payload /\ Opened(n, p).content = p.payload.content
         /\ p.header.topic \notin ReservedTopic => Opened(n, p).streams = {}
<1>1. p.header \in Header /\ p.header.topic \in Topic /\ p.payload \in Payload /\ p.mic.key \in Keys
  BY DEF Packet, Header, Mic
<1>2. p.mic.key # NoKey
  BY <1>1, SecurityAssumption
<1>3. GetDecryptionKey(n, sec[n], p.header.topic) = p.mic.key
  BY <1>1, <1>2, ReceiversKeys
<1>4. CASE p.header.topic \in ReservedTopic
  BY <1>1, <1>4 DEF Opened
<1>5. CASE p.header.topic \notin ReservedTopic
  <2>1. Opened(n, p) = Toggled(p.payload, p.mic.key)
    BY <1>2, <1>3, <1>5 DEF Opened, Decrypt
  <2>2. p.payload.streams = {p.mic.key}
    BY <1>5 DEF PacketOK
  <2>. QED
    BY <1>1, <2>1, <2>2, TogglesOneLayer
<1>. QED
  BY <1>4, <1>5

-----------------------------------------------------------------------------
(* Steps.                                                                    *)

(* A hub's key and state are its own; a device changes no hub.               *)
LEMMA SendKeepsInv ==
  ASSUME IInv, NEW n \in Nodes, NEW topic \in ReservedTopic \cup {"DATA"}, NEW dest \in Destinations,
         NEW datum \in Data, SendData(n, topic, dest, datum)
  PROVE  IInv'
<1>1. topic \in Topic /\ topic # "INCLUDE_RESPONSE" /\ dest \in Nodes \cup {Broadcast}
  BY SecurityAssumption DEF Topic, ReservedTopic
<1>2. AirOK(air) /\ sec[n] \in Security
  BY DEF IInv, TypeOK, AirOK
<1>3. AirOK(air)'
  BY <1>1, <1>2, DraftIsClear, RoutingKeepsAir DEF SendData
<1>. QED
  BY <1>3 DEF SendData, IInv, TypeOK, AirOK

LEMMA OpenKeepsInv ==
  ASSUME IInv, NEW d \in DEVICES, NEW h \in HUBS, HandleOpen(d, h) PROVE IInv'
<1>1. d \in Nodes /\ d \notin HUBS /\ sec[d] \in Security
  BY SecurityAssumption DEF IInv, TypeOK, Nodes
<1>2. [sec[d] EXCEPT !.state = "INCLUSION_PENDING", !.hubPublicKey = h] \in Security
  BY <1>1 DEF Security
<1>3. sec' \in [Nodes -> Security] /\ \A n \in HUBS : sec'[n] = sec[n]
  BY <1>1, <1>2 DEF HandleOpen, IInv, TypeOK
<1>. QED
  BY <1>3 DEF HandleOpen, IInv, TypeOK

LEMMA RequestKeepsInv ==
  ASSUME IInv, NEW h \in HUBS, NEW d \in DEVICES, HandleRequest(h, d) PROVE IInv'
<1>. DEFINE asked == [sec[h] EXCEPT !.tempDevicePublicKey = d]
            content == sec[h].networkKey
<1>1. h \in Nodes /\ d \in Nodes /\ sec[h] \in Security /\ HubOK(sec[h])
  BY DEF IInv, TypeOK, Nodes
<1>2. /\ asked \in Security /\ asked.tempDevicePublicKey = d
      /\ asked.state = sec[h].state /\ asked.networkKey = sec[h].networkKey
  BY <1>1 DEF Security
<1>3. content \in NetworkKeys
  BY <1>1 DEF HubOK
<1>4. sec' = [sec EXCEPT ![h] = asked]
      /\ RoutePacket(h, asked, Draft(h, "INCLUDE_RESPONSE", d, content), Clear(content))
  BY DEF HandleRequest
<1>. HIDE DEF asked, content
<1>5. /\ Draft(h, "INCLUDE_RESPONSE", d, content) \in Header
      /\ Draft(h, "INCLUDE_RESPONSE", d, content).topic = "INCLUDE_RESPONSE"
      /\ Draft(h, "INCLUDE_RESPONSE", d, content).dest = d
      /\ Clear(content) \in Payload /\ Clear(content).streams = {}
      /\ Clear(content).content = content
  BY <1>1, <1>3, DraftIsClear DEF Topic, InclusionTopic
<1>6. AirOK(air)
  BY DEF IInv, TypeOK, AirOK
<1>7. AirOK(air)'
  BY <1>1, <1>2, <1>3, <1>4, <1>5, <1>6, RoutingKeepsAir
<1>8. sec' \in [Nodes -> Security] /\ \A n \in HUBS : HubOK(sec'[n])
  BY <1>1, <1>2, <1>4 DEF IInv, TypeOK, HubOK
<1>. QED
  BY <1>7, <1>8 DEF IInv, TypeOK, AirOK

LEMMA MessageKeepsInv ==
  ASSUME IInv, NEW n \in Nodes, NEW header \in Header, NEW opened \in Payload,
         header.topic = "INCLUDE_RESPONSE" => opened.content \in NetworkKeys,
         HandleInclusionMessage(n, header, opened)
  PROVE  IInv'
<1>1. AirOK(air) /\ sec[n] \in Security /\ header.source \in Nodes \cup {Broadcast}
  BY DEF IInv, TypeOK, AirOK, Header
<1>2. /\ "INCLUDE_CONFIRM" \in Topic \ (ReservedTopic \cup {"INCLUDE_RESPONSE"})
      /\ "INCLUDE_SUCCESS" \in Topic \ (ReservedTopic \cup {"INCLUDE_RESPONSE"})
  BY DEF Topic, InclusionTopic, ReservedTopic
<1>3. ASSUME n \in DEVICES, header.topic = "INCLUDE_RESPONSE", NEW key \in Brought(opened),
             NEW datum \in Data, sec' = [sec EXCEPT ![n] = [sec[n] EXCEPT !.networkKey = key]],
             RoutePacket(n, [sec[n] EXCEPT !.networkKey = key],
                         Draft(n, "INCLUDE_CONFIRM", header.source, datum), Clear(datum))
      PROVE  IInv'
  <2>1. key \in NetworkKeys /\ n \notin HUBS
    BY <1>3, SecurityAssumption DEF Brought
  <2>2. [sec[n] EXCEPT !.networkKey = key] \in Security
    BY <1>1, <2>1 DEF Security
  <2>3. AirOK(air)'
    BY <1>1, <1>2, <1>3, <2>2, DraftIsClear, RoutingKeepsAir
  <2>4. sec' \in [Nodes -> Security] /\ \A h \in HUBS : sec'[h] = sec[h]
    BY <1>3, <2>1, <2>2 DEF IInv, TypeOK
  <2>. QED
    BY <2>3, <2>4 DEF IInv, TypeOK, AirOK
<1>4. ASSUME NEW datum \in Data, UNCHANGED sec,
             RoutePacket(n, sec[n], Draft(n, "INCLUDE_SUCCESS", header.source, datum), Clear(datum))
      PROVE  IInv'
  <2>1. AirOK(air)'
    BY <1>1, <1>2, <1>4, DraftIsClear, RoutingKeepsAir
  <2>. QED
    BY <1>4, <2>1 DEF IInv, TypeOK, AirOK
<1>5. ASSUME n \in DEVICES, sec' = [sec EXCEPT ![n].state = "INCLUDED"], UNCHANGED air
      PROVE  IInv'
  <2>1. n \notin HUBS /\ [sec[n] EXCEPT !.state = "INCLUDED"] \in Security
    BY <1>1, <1>5, SecurityAssumption DEF Security
  <2>2. sec' \in [Nodes -> Security] /\ \A h \in HUBS : sec'[h] = sec[h]
    BY <1>5, <2>1 DEF IInv, TypeOK
  <2>. QED
    BY <1>5, <2>2 DEF IInv, TypeOK
<1>. QED
  BY <1>3, <1>4, <1>5 DEF HandleInclusionMessage

(* A reset keeps the type, and hubs as they are.                             *)
LEMMA ResetFacts ==
  ASSUME IInv, NEW n \in Nodes
  PROVE  Reset(n) \in Security /\ (n \in HUBS => Reset(n) = sec[n])
BY SecurityAssumption DEF IInv, TypeOK, Reset, Security, Nodes

LEMMA ReceiveKeepsInv ==
  ASSUME IInv, NEW n \in Nodes, NEW p \in air, HandleReceivedData(n, p) PROVE IInv'
<1>1. /\ p \in Packet /\ PacketOK(p) /\ sec[n] \in Security /\ AirOK(air)
      /\ p.header \in Header
  BY DEF IInv, TypeOK, AirOK, Packet
<1>2. GetMICKey(n, sec[n], p.header.topic) = p.mic.key
  BY DEF HandleReceivedData, VerifyPacketMIC, Cmac
<1>3. CASE p.header.topic \in InclusionTopic /\ (p.header.topic = "INCLUDE_RESPONSE" => n \in DEVICES)
  <2>1. Opened(n, p) \in Payload /\ Opened(n, p).content = p.payload.content
    BY <1>1, <1>2, <1>3, VerifiedIsClear
  <2>2. HandleInclusionMessage(n, p.header, Opened(n, p))
    BY <1>3 DEF HandleReceivedData
  <2>3. p.header.topic = "INCLUDE_RESPONSE" => Opened(n, p).content \in NetworkKeys
    BY <1>1, <2>1 DEF PacketOK
  <2>. QED
    BY <1>1, <2>1, <2>2, <2>3, MessageKeepsInv
<1>4. CASE p.header.topic = "INCLUDE_RESPONSE" /\ n \notin DEVICES
  BY <1>4 DEF HandleReceivedData, HandleInclusionMessage, InclusionTopic
<1>5. CASE p.header.topic \notin InclusionTopic
  <2>1. p.header.topic # "INCLUDE_RESPONSE" /\ n \in DEVICES /\ n \notin HUBS
    BY <1>5, SecurityAssumption DEF HandleReceivedData, InclusionTopic
  <2>2. /\ Opened(n, p) \in Payload
        /\ p.header.topic \notin ReservedTopic => Opened(n, p).streams = {}
    BY <1>1, <1>2, <2>1, VerifiedIsClear
  <2>3. PICK after \in {sec[n], Reset(n)} :
          sec' = [sec EXCEPT ![n] = after] /\ RoutePacket(n, after, p.header, Opened(n, p))
    BY <1>5 DEF HandleReceivedData
  <2>4. after \in Security
    BY <1>1, ResetFacts
  <2>5. AirOK(air)'
    BY <1>1, <2>1, <2>2, <2>3, <2>4, RoutingKeepsAir
  <2>6. sec' \in [Nodes -> Security] /\ \A h \in HUBS : sec'[h] = sec[h]
    BY <2>1, <2>3, <2>4 DEF IInv, TypeOK
  <2>. QED
    BY <2>5, <2>6 DEF IInv, TypeOK, AirOK
<1>. QED
  BY <1>3, <1>4, <1>5

LEMMA FactoryResetKeepsInv ==
  ASSUME IInv, NEW n \in Nodes, FactoryReset(n) PROVE IInv'
<1>1. ASSUME NEW s \in Security, n \in HUBS => HubOK(s), sec' = [sec EXCEPT ![n] = s], UNCHANGED air
      PROVE  IInv'
  BY <1>1 DEF IInv, TypeOK
<1>2. Reset(n) \in Security /\ (n \in HUBS => HubOK(Reset(n)))
  BY ResetFacts DEF IInv
<1>3. ASSUME NEW key \in IF n \in HUBS THEN NetworkKeys ELSE {NoKey}
      PROVE  LET s == [Reset(n) EXCEPT !.networkKey = key, !.hubPublicKey = NoNode,
                                       !.tempDevicePublicKey = NoNode]
             IN  s \in Security /\ (n \in HUBS => HubOK(s))
  BY <1>2 DEF Security, HubOK
<1>. QED
  BY <1>1, <1>2, <1>3 DEF FactoryReset

LEMMA StepInv == ASSUME IInv, [Next]_vars PROVE IInv'
<1>1. CASE UNCHANGED vars
  BY <1>1 DEF vars, IInv, TypeOK
<1>2. ASSUME NEW p \in air, Fades(p) PROVE IInv'
  BY <1>2 DEF Fades, IInv, TypeOK
<1>. QED
  BY <1>1, <1>2, SendKeepsInv, ReceiveKeepsInv, FactoryResetKeepsInv, OpenKeepsInv,
     RequestKeepsInv DEF Next

LEMMA InitInv == ASSUME Init PROVE IInv
<1>1. PICK drawn \in [HUBS -> NetworkKeys] :
        sec = [n \in Nodes |->
                [state |-> IF n \in HUBS THEN "INCLUDED" ELSE "NOT_INCLUDED",
                 networkKey |-> IF n \in HUBS THEN drawn[n] ELSE NoKey,
                 hubPublicKey |-> NoNode, tempDevicePublicKey |-> NoNode]]
  BY DEF Init
<1>2. \A h \in HUBS : h \in Nodes /\ HubOK(sec[h])
  BY <1>1 DEF HubOK, Nodes
<1>3. sec \in [Nodes -> Security]
  BY <1>1 DEF Security
<1>. QED
  BY <1>2, <1>3 DEF Init, IInv, TypeOK

-----------------------------------------------------------------------------
(* The inductive invariant holds in every reachable state, for any number of *)
(* hubs, devices, keys, hops and packets.                                    *)
THEOREM Invariance == Spec => []IInv
<1>1. Init => IInv
  BY InitInv
<1>2. IInv /\ [Next]_vars => IInv'
  BY StepInv
<1>. QED
  BY <1>1, <1>2, PTL DEF Spec

THEOREM TypeCorrect == Spec => []TypeOK
BY Invariance, PTL DEF IInv

(* Whatever is sent is under the key of its MIC and no other.                *)
THEOREM AirStaysProtected == Spec => []AirIsProtected
<1>1. IInv => AirIsProtected
  BY DEF IInv, PacketOK, AirIsProtected
<1>. QED
  BY <1>1, Invariance, PTL

(* Who can tell the MIC of a packet accepts and reads it.                    *)
THEOREM AcceptedStaysReadable == Spec => []AcceptedIsReadable
<1>1. IInv => AcceptedIsReadable
  <2>. SUFFICES ASSUME IInv, NEW n \in Nodes, NEW p \in air,
                       GetMICKey(n, sec[n], p.header.topic) = p.mic.key
                PROVE  /\ VerifyPacketMIC(n, sec[n], p) /\ p.header.packetCrc = p.payload
                       /\ p.header.topic \notin ReservedTopic
                          /\ (n \in DEVICES \/ p.header.topic # "INCLUDE_RESPONSE")
                            => Opened(n, p).streams = {}
    BY DEF AcceptedIsReadable
  <2>1. p \in Packet /\ PacketOK(p) /\ sec[n] \in Security
    BY DEF IInv, TypeOK
  <2>2. p.mic.key # NoKey
    BY <2>1, SecurityAssumption DEF Packet, Mic
  <2>3. VerifyPacketMIC(n, sec[n], p) /\ p.header.packetCrc = p.payload
    BY <2>1, <2>2 DEF VerifyPacketMIC, PacketOK
  <2>4. p.header.topic \notin ReservedTopic /\ (n \in DEVICES \/ p.header.topic # "INCLUDE_RESPONSE")
          => Opened(n, p).streams = {}
    BY <2>1, VerifiedIsClear
  <2>. QED
    BY <2>3, <2>4
<1>. QED
  BY <1>1, Invariance, PTL

(* The network key is read by nobody but the device it was sent to, however  *)
(* many hubs answer however many devices.                                    *)
THEOREM ResponsesStayPrivate == Spec => []ResponseReachesOnlyItsDevice
<1>1. IInv => ResponseReachesOnlyItsDevice
  <2>. SUFFICES ASSUME IInv, NEW n \in DEVICES, NEW p \in air, p.header.topic = "INCLUDE_RESPONSE",
                       Opened(n, p).streams = {} \/ VerifyPacketMIC(n, sec[n], p)
                PROVE  n = p.header.dest
    BY DEF ResponseReachesOnlyItsDevice
  <2>. DEFINE s == sec[n]
  <2>1. /\ p \in Packet /\ PacketOK(p) /\ s \in Security /\ n \in Nodes
        /\ p.payload \in Payload /\ p.mic.key \in Keys
    BY DEF IInv, TypeOK, Nodes, Packet, Mic
  <2>2. PICK h \in HUBS : p.mic.key = {h, p.header.dest} /\ p.header.dest \in DEVICES
    BY <2>1 DEF PacketOK
  <2>3. /\ s.hubPublicKey \in HUBS \cup {NoNode} /\ s.tempDevicePublicKey \in DEVICES \cup {NoNode}
        /\ s.hubPublicKey \in Nodes \cup {NoNode} /\ SenderPublicKey(s) \in Nodes \cup {NoNode}
        /\ SenderPublicKey(s) \in HUBS \cup DEVICES \cup {NoNode}
    BY <2>1 DEF Security, Nodes, SenderPublicKey
  <2>4. ASSUME NEW other \in Nodes \cup {NoNode}, Curve25519(n, other) = p.mic.key
        PROVE  n = p.header.dest
    <3>1. p.mic.key = {n, other}
      BY <2>1, <2>4, SharedSecret, SecurityAssumption
    <3>2. n \in {h, p.header.dest} /\ n # h
      BY <2>2, <3>1, SecurityAssumption
    <3>. QED
      BY <3>2
  <2>5. CASE VerifyPacketMIC(n, s, p)
    <3>1. Curve25519(n, s.hubPublicKey) = p.mic.key
      BY <2>5, SecurityAssumption DEF VerifyPacketMIC, Cmac, GetMICKey, GetECIESMacKey
    <3>. QED
      BY <2>3, <2>4, <3>1
  <2>6. CASE Opened(n, p).streams = {}
    <3>. DEFINE key == Curve25519(n, SenderPublicKey(s))
    <3>1. p.payload.streams = {p.mic.key}
      BY <2>1 DEF PacketOK, ReservedTopic
    <3>2. Opened(n, p) = IF key = NoKey THEN p.payload ELSE Toggled(p.payload, key)
      BY DEF Opened, ReservedTopic, Decrypt, GetDecryptionKey, DetermineCryptoMethod
    <3>3. key # NoKey /\ Toggled(p.payload, key).streams = {}
      BY <2>6, <3>1, <3>2
    <3>4. key \in Keys
      BY <2>1, <2>3, <3>3, SharedSecret DEF Keys
    <3>. HIDE DEF key
    <3>5. key = p.mic.key
      BY <2>1, <3>1, <3>3, <3>4, OnlyItsKeyOpens
    <3>. QED
      BY <2>3, <2>4, <3>5 DEF key
  <2>. QED
    BY <2>5, <2>6
<1>. QED
  BY <1>1, Invariance, PTL
=============================================================================
