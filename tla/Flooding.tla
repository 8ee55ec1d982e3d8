------------------------------- MODULE Flooding -------------------------------
(***************************************************************************)
(* How messages spread over the mesh: the origin broadcasts a packet,      *)
(* every relay that has not seen it broadcasts it again, and hubs and      *)
(* destinations keep it.  The nodes are members of one network, so they    *)
(* hold one key and their MICs verify.  nextHopId is set by the routing    *)
(* table and read by no receiver: it is left out.                          *)
(***************************************************************************)
EXTENDS Naturals, Sequences, FiniteSets, SequencesExt

CONSTANTS
  Nodes,       \* the devices
  HUBS,        \* those built with MeshDeviceType::HUB
  RELAYS,      \* standard devices with relayEnabled
  Messages,    \* packet identifiers, each drawn by one call of sendData
  Source,      \* per message: the node that sends it
  Broadcast,   \* BROADCAST_ADDR
  Reserved,    \* messages with a topic up to MAX_RESERVED, such as PING
  ZeroCrc,     \* <<message, layers>>: payloads whose CRC is 0
  MAX_HOPS,    \* 7 in the code
  Meshes       \* the circumstances a behaviour may run under, see mesh

VARIABLES
  mesh,         \* one of Meshes, for the whole behaviour
  tracker,      \* per node: <<packet id, CRC>>, the most recently used first
  rx,           \* per node: the packets that wait in its radio
  sent,         \* messages handed to sendData
  transmitted,  \* history: how often each node sent each message on, and how
  delivered     \* often onPacketReceived got it, up to 2, since it last started

vars == <<mesh, tracker, rx, sent, transmitted, delivered>>

Neighbours == mesh.neighbours  \* per node: the nodes that hear it
Target     == mesh.target      \* per message: its destination, or Broadcast
Capacity   == mesh.capacity    \* entries of a packet tracker, 50 in the code
Lossy      == mesh.lossy       \* are packets lost and overwritten?
SendFaults == mesh.sendFaults  \* may the radio refuse a transmission?

ASSUME FloodingAssumption ==
  /\ IsFiniteSet(Nodes) /\ IsFiniteSet(Messages)
  /\ HUBS \subseteq Nodes /\ RELAYS \subseteq Nodes \ HUBS
  /\ Source \in [Messages -> Nodes]
  /\ Broadcast \notin Nodes
  /\ Reserved \subseteq Messages /\ ZeroCrc \subseteq Messages \X {0, 1}
  /\ MAX_HOPS \in Nat \ {0}
ASSUME MeshesAssumption ==
  \A c \in Meshes :
    /\ c.neighbours \in [Nodes -> SUBSET Nodes]
    /\ \A n \in Nodes : n \notin c.neighbours[n]
    /\ c.target \in [Messages -> Nodes \cup {Broadcast}]
    /\ c.capacity \in Nat \ {0}
    /\ c.lossy \in BOOLEAN /\ c.sendFaults \in BOOLEAN

(* layers is how many times the payload is encrypted.  AES runs in counter *)
(* mode from a zero IV: encrypting twice gives the clear text back.        *)
Packet == [id : Messages, hopCount : Nat, lastHopId : Nodes, layers : {0, 1}]

Toggled(p) == [p EXCEPT !.layers = 1 - @]

AtMostTwo(k) == IF k > 2 THEN 2 ELSE k

(* The CRC of a message tells its two payloads apart.                      *)
Crc(p) == IF <<p.id, p.layers>> \in ZeroCrc THEN 0 ELSE 1 + p.layers

-----------------------------------------------------------------------------
(* PacketTracker: a least recently used map from packet identifiers to     *)
(* the CRC of the payload that was sent.                                   *)

Ids(t) == {t[i][1] : i \in DOMAIN t}

Position(t, id) == CHOOSE i \in DOMAIN t : t[i][1] = id

Without(t, id) == IF id \in Ids(t) THEN RemoveAt(t, Position(t, id)) ELSE t

FindOrDefault(t, id) == IF id \in Ids(t) THEN t[Position(t, id)][2] ELSE 0

MoveToFront(t, id, crc) == <<<<id, crc>>>> \o Without(t, id)

(* A lookup that finds the entry makes it the most recent one.             *)
Touched(t, id) ==
  IF id \in Ids(t) THEN MoveToFront(t, id, FindOrDefault(t, id)) ELSE t

(* Variant: no entry is ever evicted.                                      *)
AddEntryUnbounded(t, id, crc) == <<<<id, crc>>>> \o t

AddEntry(t, id, crc) ==
  IF id \notin Ids(t) /\ Len(t) = Capacity
    THEN MoveToFront(Front(t), id, crc)
    ELSE MoveToFront(t, id, crc)

(* An identifier that is not in the tracker counts as one with CRC 0.      *)
Seen(t, p) == FindOrDefault(t, p.id) = Crc(p)

-----------------------------------------------------------------------------
Init ==
  /\ mesh \in Meshes
  /\ tracker = [n \in Nodes |-> <<>>]
  /\ rx = [n \in Nodes |-> <<>>]
  /\ sent = {}
  /\ transmitted = [n \in Nodes |-> [m \in Messages |-> 0]]
  /\ delivered = [n \in Nodes |-> [m \in Messages |-> 0]]

(* Variant: the last permitted hop is not made.                            *)
HopsLeftShort(p) == p.hopCount + 1 < MAX_HOPS

HopsLeft(p) == p.hopCount < MAX_HOPS

(* Variant: the hop is not counted.                                        *)
HopUncounted(n, p) == [Toggled(p) EXCEPT !.lastHopId = n]

(* The copy of p that n puts on the air.                                   *)
Hop(n, p) == [Toggled(p) EXCEPT !.lastHopId = n, !.hopCount = @ + 1]

(* A radio that still holds a packet loses it to the next one.             *)
Arrives(queue, p) == IF Lossy THEN <<p>> ELSE Append(queue, p)

(* q reaches some of the neighbours of n, all of them if nothing is lost.  *)
Air(n, q, radio) ==
  \E reached \in IF Lossy THEN SUBSET Neighbours[n] ELSE {Neighbours[n]} :
    rx' = [m \in Nodes |-> IF m \in reached THEN Arrives(radio[m], q) ELSE radio[m]]

(* Variant: only the node's own messages are tracked.                      *)
RoutePacketUntracked(n, p, radio) ==
  /\ HopsLeft(p)
  /\ Air(n, Hop(n, p), radio)
  /\ tracker' = IF p.hopCount > 0 THEN tracker
                ELSE [tracker EXCEPT ![n] = AddEntry(@, p.id, Crc(Hop(n, p)))]
  /\ transmitted' = [transmitted EXCEPT ![n][p.id] = AtMostTwo(@ + 1)]

(* PacketRouter::routePacket.  Only a packet that was sent is tracked.     *)
RoutePacket(n, p, radio) ==
  \/ /\ HopsLeft(p)
     /\ Air(n, Hop(n, p), radio)
     /\ tracker' = [tracker EXCEPT ![n] = AddEntry(Touched(@, p.id), p.id, Crc(Hop(n, p)))]
     /\ transmitted' = [transmitted EXCEPT ![n][p.id] = AtMostTwo(@ + 1)]
  \/ /\ ~HopsLeft(p) \/ SendFaults
     /\ rx' = radio
     /\ tracker' = [tracker EXCEPT ![n] = Touched(@, p.id)]
     /\ UNCHANGED transmitted

SendData(n, m) ==
  /\ Source[m] = n /\ m \notin sent
  /\ sent' = sent \cup {m}
  /\ RoutePacket(n, [id |-> m, hopCount |-> 0, lastHopId |-> n, layers |-> 0], rx)
  /\ UNCHANGED <<mesh, delivered>>

(* Variant: the payload is relayed as it came.                             *)
OpenedNever(p) == p

(* What reaches the application and the router: only application topics    *)
(* are decrypted.                                                          *)
Opened(p) == IF p.id \in Reserved THEN p ELSE Toggled(p)

(* Variant: hubs and destinations relay too.                               *)
ForwardsAlways(n, p) == n \in RELAYS \cup HUBS

Forwards(n, p) == n \in RELAYS /\ Target[p.id] # n

(* RadioMeshDevice::handleReceivedData, called by run(): a packet that was *)
(* seen is skipped, others go to the application first, whatever their     *)
(* destination, and are then relayed.                                      *)
HandleReceivedData(n) ==
  LET p      == Head(rx[n])
      radio  == [rx EXCEPT ![n] = Tail(@)]
      looked == [tracker EXCEPT ![n] = Touched(@, p.id)]
  IN  /\ rx[n] # <<>>
      /\ \/ /\ Seen(tracker[n], p)
            /\ rx' = radio /\ tracker' = looked
            /\ UNCHANGED <<transmitted, delivered>>
         \/ /\ ~Seen(tracker[n], p)
            /\ delivered' = [delivered EXCEPT ![n][p.id] = AtMostTwo(@ + 1)]
            /\ IF Forwards(n, p)
                 THEN RoutePacket(n, Opened(p), radio)
                 ELSE rx' = radio /\ tracker' = looked /\ UNCHANGED transmitted
      /\ UNCHANGED <<mesh, sent>>

(* The radio drops a packet, or its CRC or MIC does not verify.            *)
LosePacket(n) ==
  /\ Lossy
  /\ rx[n] # <<>>
  /\ rx' = [rx EXCEPT ![n] = Tail(@)]
  /\ UNCHANGED <<mesh, tracker, sent, transmitted, delivered>>

Restart(n) ==
  /\ Lossy
  /\ tracker[n] # <<>>
  /\ rx' = [rx EXCEPT ![n] = <<>>]
  /\ tracker' = [tracker EXCEPT ![n] = <<>>]
  /\ transmitted' = [transmitted EXCEPT ![n] = [m \in Messages |-> 0]]
  /\ delivered' = [delivered EXCEPT ![n] = [m \in Messages |-> 0]]
  /\ UNCHANGED <<mesh, sent>>

Next ==
  \E n \in Nodes :
    \/ HandleReceivedData(n) \/ LosePacket(n) \/ Restart(n)
    \/ \E m \in Messages : SendData(n, m)

Spec == Init /\ [][Next]_vars

(* As long as packets wait, some node takes one: less than that every loop *)
(* keeps calling run(), and enough.                                        *)
FairSpec == Spec /\ WF_vars(\E n \in Nodes : HandleReceivedData(n))

-----------------------------------------------------------------------------
(* Properties.                                                             *)

(* Packets, trackers and counts keep their shape, and a tracker its        *)
(* capacity, with one entry per identifier.                                *)
TypeOK ==
  /\ mesh \in Meshes
  /\ \A n \in Nodes :
       /\ rx[n] \in Seq(Packet)
       /\ tracker[n] \in Seq(Messages \X {0, 1, 2})
       /\ Len(tracker[n]) <= Capacity
       /\ Len(tracker[n]) = Cardinality(Ids(tracker[n]))
  /\ sent \subseteq Messages
  /\ transmitted \in [Nodes -> [Messages -> 0 .. 2]]
  /\ delivered \in [Nodes -> [Messages -> 0 .. 2]]

(* As long as no more messages are about than a tracker holds, a node puts *)
(* a message on the air at most once, however many copies of it arrive, in *)
(* whatever order.                                                         *)
TransmitsOnce ==
  Cardinality(Messages) <= Capacity =>
    \A n \in Nodes, m \in Messages \ Reserved : transmitted[n][m] <= 1

(* The nodes that m can reach in k hops when the nodes of F relay.         *)
Reach(m, F) ==
  LET at[k \in 0 .. MAX_HOPS] ==
        IF k = 0 THEN {Source[m]}
        ELSE UNION {Neighbours[n] : n \in at[k - 1] \cap (F \cup {Source[m]})}
  IN  at

(* A packet on the air has come as many hops as it says, over relays that  *)
(* are not its destination, and no more than MAX_HOPS; and the payload of  *)
(* an application message is encrypted once, at any distance, although     *)
(* each relay decrypts it and encrypts it again.                           *)
CopiesAreFaithful ==
  \A n \in Nodes : \A p \in Range(rx[n]) :
    /\ n \in Neighbours[p.lastHopId]
    /\ p.hopCount \in 1 .. MAX_HOPS
    /\ p.lastHopId \in Reach(p.id, RELAYS \ {Target[p.id]})[p.hopCount - 1]
    /\ p.lastHopId \in (RELAYS \ {Target[p.id]}) \cup {Source[p.id]}
    /\ p.id \notin Reserved => p.layers = 1

(* Flooding dies out: when nothing is sent, the air becomes quiet, also    *)
(* when trackers overflow, nodes restart and payloads keep changing.       *)
FloodEnds == <>[](\A n \in Nodes : rx[n] = <<>>)

(* With no losses, every message that is sent reaches every node that is   *)
(* connected to its source over relays, if MAX_HOPS is enough for all      *)
(* relays in a row.                                                        *)
AllReached ==
  \A m \in sent, n \in Nodes :
    (\E k \in 1 .. MAX_HOPS : n \in Reach(m, RELAYS)[k] \ {Source[m]}) =>
      delivered[n][m] > 0
RelaysReachAll ==
  Cardinality(RELAYS) < MAX_HOPS => []<>(Lossy \/ SendFaults \/ AllReached)
=============================================================================
