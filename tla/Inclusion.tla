------------------------------ MODULE Inclusion ------------------------------
(***************************************************************************)
(* The inclusion protocol of RadioMesh: how a standard device joins the    *)
(* network of a hub and receives its network key.                          *)
(*                                                                         *)
(*    hub                                   device                         *)
(*     | -------- INCLUDE_OPEN (public key) ----> |  NOT_INCLUDED          *)
(*     | <------- INCLUDE_REQUEST (public key) -- |  INCLUSION_PENDING     *)
(*     | -------- INCLUDE_RESPONSE (key, nonce) > |                        *)
(*     | <------- INCLUDE_CONFIRM (nonce + 1) --- |                        *)
(*     | -------- INCLUDE_SUCCESS --------------> |  INCLUDED              *)
(*                                                                         *)
(* Every message is a radio broadcast.  A node has one packet in its       *)
(* radio: a packet that arrives before the loop has read the previous one  *)
(* replaces it, and any packet may be lost.  A node is single threaded:    *)
(* the application's calls and RadioMeshDevice::run() do not overlap, so   *)
(* each of them is one step.  Public keys are the identities of the nodes, *)
(* a network key is the hub that drew it and the number of that draw.      *)
(***************************************************************************)
EXTENDS Naturals, FiniteSets

CONSTANTS
  HUBS,           \* nodes built with MeshDeviceType::HUB
  DEVICES,        \* nodes built with MeshDeviceType::STANDARD
  NoNode,         \* an empty public key
  NoKey,          \* an empty network key
  NoNonce,        \* an empty nonce
  NoPacket,       \* nothing received
  NONCE_MODULUS,  \* 2^32 in the code
  StorageFaults,  \* may the byte storage refuse a write for lack of space?
  Reliable,       \* does the radio lose nothing, and deliver before a session expires?
  MaxCalls,       \* bound: calls of sendInclusionOpen and enableInclusionMode(false)
  MaxReboots,     \* bound: restarts
  MaxResets       \* bound: calls of factoryReset

VARIABLES
  node,       \* per node: RAM of the controller and encryption service, storage
  rx,         \* per node: the packet in the radio, or NoPacket
  confirmed,  \* history: <<device, key>> of every INCLUDE_CONFIRM a hub accepted
  keysDrawn,  \* per hub: network keys generated so far
  nextNonce,  \* the next value generateNonce will return
  calls, reboots, resets

vars == <<node, rx, confirmed, keysDrawn, nextNonce, calls, reboots, resets>>

Nodes == HUBS \cup DEVICES
NetworkKeys == HUBS \X (Nat \ {0})
Nonces == 0 .. NONCE_MODULUS - 1

ASSUME NodesAssumption ==
  /\ IsFiniteSet(Nodes)
  /\ HUBS \cap DEVICES = {}
  /\ NoNode \notin Nodes
  /\ NoKey \notin NetworkKeys
  /\ NoNonce \notin Nonces
ASSUME BoundsAssumption ==
  /\ NONCE_MODULUS \in Nat \ {0}
  /\ StorageFaults \in BOOLEAN /\ Reliable \in BOOLEAN
  /\ MaxCalls \in Nat /\ MaxReboots \in Nat /\ MaxResets \in Nat

DeviceInclusionState == {"NOT_INCLUDED", "INCLUSION_PENDING", "INCLUDED"}
InclusionProtocolState ==
  {"PROTOCOL_IDLE", "WAITING_FOR_REQUEST", "WAITING_FOR_RESPONSE",
   "WAITING_FOR_CONFIRMATION", "WAITING_FOR_SUCCESS"}
InclusionTopic ==
  {"INCLUDE_OPEN", "INCLUDE_REQUEST", "INCLUDE_RESPONSE",
   "INCLUDE_CONFIRM", "INCLUDE_SUCCESS"}

(***************************************************************************)
(* A node.  hubPublicKey of a device and tempDevicePublicKey of a hub are  *)
(* the one field peer: the public key the encryption service agrees a      *)
(* secret with.  timedOut is millis() - stateStartTime > 60000.            *)
(***************************************************************************)
NodeState ==
  [state                : DeviceInclusionState,
   protocolState        : InclusionProtocolState,
   timedOut             : BOOLEAN,
   inclusionModeEnabled : BOOLEAN,
   currentNonce         : Nonces \cup {NoNonce},
   peer                 : Nodes \cup {NoNode},
   networkKey           : NetworkKeys \cup {NoKey},
   storedState          : DeviceInclusionState \cup {"ABSENT"},
   storedKey            : NetworkKeys \cup {NoKey}]

(* key is the network key a RESPONSE carries, or the one a CONFIRM or a    *)
(* SUCCESS is authenticated with; peer is the other end of a RESPONSE.     *)
Packet ==
  [topic : InclusionTopic,
   src   : Nodes,
   peer  : Nodes \cup {NoNode},
   key   : NetworkKeys \cup {NoKey},
   nonce : Nonces \cup {NoNonce}]

Bare(topic, n) ==
  [topic |-> topic, src |-> n, peer |-> NoNode, key |-> NoKey, nonce |-> NoNonce]

-----------------------------------------------------------------------------
(* The controller's own functions, on the state of one node.               *)

TransitionToState(c, s) ==
  IF c.protocolState = s
    THEN c
    ELSE [c EXCEPT !.protocolState = s, !.timedOut = FALSE]

(* DeviceStorage::persistState; the callers ignore its result.             *)
PersistState(c, stored) ==
  IF stored THEN [c EXCEPT !.storedState = c.state] ELSE c

(* Variant: the device is not put back to NOT_INCLUDED.                    *)
ResetLeavesPending(n, c, stored) == TransitionToState(c, "PROTOCOL_IDLE")

ResetProtocolState(n, c, stored) ==
  LET idle == TransitionToState(c, "PROTOCOL_IDLE")
  IN  IF n \in DEVICES /\ idle.state = "INCLUSION_PENDING"
        THEN PersistState([idle EXCEPT !.state = "NOT_INCLUDED"], stored)
        ELSE idle

(* Variant: no timeout while waiting for a confirmation.                   *)
TimedOutUnlessConfirming(c) ==
  c.protocolState \notin {"PROTOCOL_IDLE", "WAITING_FOR_CONFIRMATION"} /\ c.timedOut

IsStateTimedOut(c) == c.protocolState # "PROTOCOL_IDLE" /\ c.timedOut

(* The first thing run() does, before it looks at the radio.               *)
CheckProtocolTimeouts(n, c, stored) ==
  IF IsStateTimedOut(c)
    THEN ResetProtocolState(n, [c EXCEPT !.inclusionModeEnabled = FALSE], stored)
    ELSE c

(* Construction of a device and its controller on what the storage holds.  *)
Boot(n, c) ==
  LET loaded == IF n \in HUBS THEN "INCLUDED"
                ELSE IF c.storedState = "ABSENT" THEN "NOT_INCLUDED"
                ELSE c.storedState
  IN  [c EXCEPT !.state = loaded,
                !.protocolState = "PROTOCOL_IDLE",
                !.timedOut = FALSE,
                !.inclusionModeEnabled = FALSE,
                !.currentNonce = NoNonce,
                !.peer = NoNode,
                !.networkKey = IF loaded = "INCLUDED" THEN c.storedKey ELSE NoKey]

(* Variant: a RESPONSE is checked for its addressee only.                  *)
AuthenticForAddressee(n, c, p) ==
  CASE p.topic \in {"INCLUDE_OPEN", "INCLUDE_REQUEST"} -> TRUE
    [] p.topic = "INCLUDE_RESPONSE" -> p.peer = n
    [] OTHER -> c.networkKey # NoKey /\ c.networkKey = p.key

(* Does the MIC of p verify at n?  OPEN and REQUEST carry none; a RESPONSE *)
(* is authenticated with the secret of its two ends, CONFIRM and SUCCESS   *)
(* with the network key.                                                   *)
Authentic(n, c, p) ==
  CASE p.topic \in {"INCLUDE_OPEN", "INCLUDE_REQUEST"} -> TRUE
    [] p.topic = "INCLUDE_RESPONSE" -> {n, c.peer} = {p.src, p.peer}
    [] OTHER -> c.networkKey # NoKey /\ c.networkKey = p.key

(* Variant: the increment does not wrap.                                   *)
NextNonceUnbounded(x) == x + 1

(* uint32_t arithmetic.                                                    *)
NextNonceValue(x) == (x + 1) % NONCE_MODULUS

(* Variant: the inclusion state of the device is not looked at.            *)
AwaitsProtocolOnly(c, s, ps) == c.protocolState = ps

Awaits(c, s, ps) == c.state = s /\ c.protocolState = ps

(* The conditions under which handleInclusionMessage acts on p.            *)
Accepts(n, c, p) ==
  /\ Authentic(n, c, p)
  /\ \/ /\ n \in HUBS
        /\ p.topic = "INCLUDE_REQUEST"
        /\ c.inclusionModeEnabled
        /\ c.protocolState = "WAITING_FOR_REQUEST"
     \/ /\ n \in HUBS
        /\ p.topic = "INCLUDE_CONFIRM"
        /\ c.protocolState = "WAITING_FOR_CONFIRMATION"
        /\ p.nonce = NextNonceValue(c.currentNonce)
     \/ /\ n \in DEVICES
        /\ \/ /\ p.topic = "INCLUDE_OPEN"
              /\ Awaits(c, "NOT_INCLUDED", "PROTOCOL_IDLE")
           \/ /\ p.topic = "INCLUDE_RESPONSE"
              /\ Awaits(c, "INCLUSION_PENDING", "WAITING_FOR_RESPONSE")
           \/ /\ p.topic = "INCLUDE_SUCCESS"
              /\ Awaits(c, "INCLUSION_PENDING", "WAITING_FOR_SUCCESS")

-----------------------------------------------------------------------------
(* What each handler leaves in the node.                                   *)

(* Variants: the nonce of an earlier session is kept; the key handed out   *)
(* is not the one the hub goes on to use.                                  *)
RequestKeepsNonce(c, p) ==
  [TransitionToState(c, "WAITING_FOR_CONFIRMATION") EXCEPT
     !.peer = p.src, !.networkKey = c.storedKey,
     !.currentNonce = IF @ = NoNonce THEN nextNonce ELSE @]
RequestKeepsKey(c, p) ==
  [TransitionToState(c, "WAITING_FOR_CONFIRMATION") EXCEPT
     !.peer = p.src, !.currentNonce = nextNonce]

AfterRequest(c, p) ==
  [TransitionToState(c, "WAITING_FOR_CONFIRMATION") EXCEPT
     !.peer = p.src, !.networkKey = c.storedKey, !.currentNonce = nextNonce]

AfterOpen(c, p, stored) ==
  TransitionToState(
    PersistState([c EXCEPT !.peer = p.src, !.state = "INCLUSION_PENDING"], stored),
    "WAITING_FOR_RESPONSE")

(* Variants: the device joins without waiting for INCLUDE_SUCCESS; the     *)
(* result of setNetworkKey is ignored; the key is stored but not used.     *)
ResponseJoins(c, p, stored) ==
  TransitionToState(
    [c EXCEPT !.state = "INCLUDED", !.storedState = "INCLUDED",
              !.currentNonce = p.nonce, !.storedKey = p.key, !.networkKey = p.key],
    "PROTOCOL_IDLE")
ResponseUnchecked(c, p, stored) ==
  TransitionToState(
    [c EXCEPT !.currentNonce = p.nonce, !.networkKey = p.key,
              !.storedKey = IF stored THEN p.key ELSE @],
    "WAITING_FOR_SUCCESS")
ResponseKeyUnused(c, p, stored) ==
  TransitionToState([c EXCEPT !.currentNonce = p.nonce, !.storedKey = p.key],
                    "WAITING_FOR_SUCCESS")

(* setNetworkKey is checked: when it fails, only the nonce has changed.    *)
AfterResponse(c, p, stored) ==
  IF stored
    THEN TransitionToState(
           [c EXCEPT !.currentNonce = p.nonce, !.storedKey = p.key, !.networkKey = p.key],
           "WAITING_FOR_SUCCESS")
    ELSE [c EXCEPT !.currentNonce = p.nonce]

(* Variant: the new state is not persisted.                                *)
SuccessNotPersisted(c, stored) ==
  [TransitionToState([c EXCEPT !.state = "INCLUDED"], "PROTOCOL_IDLE")
     EXCEPT !.networkKey = c.storedKey]

AfterSuccess(c, stored) ==
  [TransitionToState(PersistState([c EXCEPT !.state = "INCLUDED"], stored), "PROTOCOL_IDLE")
     EXCEPT !.networkKey = c.storedKey]

-----------------------------------------------------------------------------
Init ==
  /\ node = [n \in Nodes |->
       [state                |-> IF n \in HUBS THEN "INCLUDED" ELSE "NOT_INCLUDED",
        protocolState        |-> "PROTOCOL_IDLE",
        timedOut             |-> FALSE,
        inclusionModeEnabled |-> FALSE,
        currentNonce         |-> NoNonce,
        peer                 |-> NoNode,
        networkKey           |-> IF n \in HUBS THEN <<n, 1>> ELSE NoKey,
        storedState          |-> "ABSENT",
        storedKey            |-> IF n \in HUBS THEN <<n, 1>> ELSE NoKey]]
  /\ rx = [n \in Nodes |-> NoPacket]
  /\ confirmed = {}
  /\ keysDrawn = [h \in HUBS |-> 1]
  /\ nextNonce = NONCE_MODULUS - 1
  /\ calls = 0 /\ reboots = 0 /\ resets = 0

(* The packet p that n sends reaches the nodes of one set and is lost to   *)
(* the others; a send that fails reaches none.                             *)
Broadcast(n, p, radio) ==
  \E reached \in IF Reliable THEN {Nodes \ {n}} ELSE SUBSET (Nodes \ {n}) :
    rx' = [m \in Nodes |-> IF m \in reached THEN p ELSE radio[m]]

Taken(n) == [rx EXCEPT ![n] = NoPacket]

(* Does the storage have room for what is written in this step?            *)
StorageOutcomes == IF StorageFaults THEN BOOLEAN ELSE {TRUE}

(* The application of a hub.                                               *)

EnterInclusionMode(h) ==
  /\ node' = [node EXCEPT ![h].inclusionModeEnabled = TRUE]
  /\ UNCHANGED <<rx, confirmed, keysDrawn, nextNonce, calls, reboots, resets>>

ExitInclusionMode(h) ==
  /\ calls < MaxCalls
  /\ node' = [node EXCEPT ![h] =
                ResetProtocolState(h, [@ EXCEPT !.inclusionModeEnabled = FALSE], TRUE)]
  /\ calls' = calls + 1
  /\ UNCHANGED <<rx, confirmed, keysDrawn, nextNonce, reboots, resets>>

(* The state moves before the broadcast is attempted.                      *)
SendInclusionOpen(h) ==
  /\ calls < MaxCalls
  /\ node[h].inclusionModeEnabled
  /\ node' = [node EXCEPT ![h] = TransitionToState(@, "WAITING_FOR_REQUEST")]
  /\ Broadcast(h, Bare("INCLUDE_OPEN", h), rx)
  /\ calls' = calls + 1
  /\ UNCHANGED <<confirmed, keysDrawn, nextNonce, reboots, resets>>

(* One pass of run() on a packet: the timeouts first, then the message.    *)

HandleRequest(h) ==
  LET c == CheckProtocolTimeouts(h, node[h], TRUE)
      p == rx[h]
  IN  /\ p # NoPacket
      /\ p.topic = "INCLUDE_REQUEST"
      /\ Accepts(h, c, p)
      /\ node' = [node EXCEPT ![h] = AfterRequest(c, p)]
      /\ Broadcast(h, [topic |-> "INCLUDE_RESPONSE", src |-> h, peer |-> p.src,
                       key |-> c.storedKey, nonce |-> nextNonce], Taken(h))
      /\ nextNonce' = NextNonceValue(nextNonce)
      /\ UNCHANGED <<confirmed, keysDrawn, calls, reboots, resets>>

HandleConfirm(h) ==
  LET c == CheckProtocolTimeouts(h, node[h], TRUE)
      p == rx[h]
  IN  /\ p # NoPacket
      /\ p.topic = "INCLUDE_CONFIRM"
      /\ Accepts(h, c, p)
      /\ node' = [node EXCEPT ![h] = TransitionToState(c, "PROTOCOL_IDLE")]
      /\ Broadcast(h, [Bare("INCLUDE_SUCCESS", h) EXCEPT !.key = c.networkKey], Taken(h))
      /\ confirmed' = confirmed \cup {<<p.src, c.networkKey>>}
      /\ UNCHANGED <<keysDrawn, nextNonce, calls, reboots, resets>>

HandleOpen(d) ==
  \E stored \in StorageOutcomes :
    LET c == CheckProtocolTimeouts(d, node[d], stored)
        p == rx[d]
    IN  /\ p # NoPacket
        /\ p.topic = "INCLUDE_OPEN"
        /\ Accepts(d, c, p)
        /\ node' = [node EXCEPT ![d] = AfterOpen(c, p, stored)]
        /\ Broadcast(d, Bare("INCLUDE_REQUEST", d), Taken(d))
        /\ UNCHANGED <<confirmed, keysDrawn, nextNonce, calls, reboots, resets>>

HandleResponse(d) ==
  \E stored \in StorageOutcomes :
    LET c == CheckProtocolTimeouts(d, node[d], stored)
        p == rx[d]
    IN  /\ p # NoPacket
        /\ p.topic = "INCLUDE_RESPONSE"
        /\ Accepts(d, c, p)
        /\ node' = [node EXCEPT ![d] = AfterResponse(c, p, stored)]
        /\ IF node'[d].protocolState = "WAITING_FOR_SUCCESS"
             THEN Broadcast(d, [Bare("INCLUDE_CONFIRM", d) EXCEPT
                                  !.key = node'[d].networkKey,
                                  !.nonce = NextNonceValue(p.nonce)], Taken(d))
             ELSE rx' = Taken(d)
        /\ UNCHANGED <<confirmed, keysDrawn, nextNonce, calls, reboots, resets>>

HandleSuccess(d) ==
  \E stored \in StorageOutcomes :
    LET c == CheckProtocolTimeouts(d, node[d], stored)
    IN  /\ rx[d] # NoPacket
        /\ rx[d].topic = "INCLUDE_SUCCESS"
        /\ Accepts(d, c, rx[d])
        /\ node' = [node EXCEPT ![d] = AfterSuccess(c, stored)]
        /\ rx' = Taken(d)
        /\ UNCHANGED <<confirmed, keysDrawn, nextNonce, calls, reboots, resets>>

(* A packet whose MIC, topic, nonce or moment is wrong is dropped.         *)
Ignore(n) ==
  \E stored \in StorageOutcomes :
    LET c == CheckProtocolTimeouts(n, node[n], stored)
    IN  /\ rx[n] # NoPacket
        /\ ~Accepts(n, c, rx[n])
        /\ node' = [node EXCEPT ![n] = c]
        /\ rx' = Taken(n)
        /\ UNCHANGED <<confirmed, keysDrawn, nextNonce, calls, reboots, resets>>

(* A pass of run() with nothing received.                                  *)
RunIdle(n) ==
  \E stored \in StorageOutcomes :
    /\ rx[n] = NoPacket
    /\ IsStateTimedOut(node[n])
    /\ node' = [node EXCEPT ![n] = CheckProtocolTimeouts(n, @, stored)]
    /\ UNCHANGED <<rx, confirmed, keysDrawn, nextNonce, calls, reboots, resets>>

Run(n) ==
  \/ HandleRequest(n) \/ HandleConfirm(n)
  \/ HandleOpen(n) \/ HandleResponse(n) \/ HandleSuccess(n)
  \/ Ignore(n)
  \/ RunIdle(n)

(* The environment.                                                        *)

(* Sixty seconds pass in the current protocol state.                       *)
SessionExpires(n) ==
  /\ node[n].protocolState # "PROTOCOL_IDLE"
  /\ ~node[n].timedOut
  /\ Reliable => \A m \in Nodes : rx[m] = NoPacket
  /\ node' = [node EXCEPT ![n].timedOut = TRUE]
  /\ UNCHANGED <<rx, confirmed, keysDrawn, nextNonce, calls, reboots, resets>>

(* The radio fails to read the packet, or a transmission overwrites it.    *)
LosePacket(n) ==
  /\ ~Reliable
  /\ rx[n] # NoPacket
  /\ rx' = Taken(n)
  /\ UNCHANGED <<node, confirmed, keysDrawn, nextNonce, calls, reboots, resets>>

Reboot(n) ==
  /\ reboots < MaxReboots
  /\ node' = [node EXCEPT ![n] = Boot(n, @)]
  /\ rx' = Taken(n)
  /\ reboots' = reboots + 1
  /\ UNCHANGED <<confirmed, keysDrawn, nextNonce, calls, resets>>

(* The storage is cleared and the controller built anew; the keys in the   *)
(* encryption service stay as they are.                                    *)
FactoryReset(n) ==
  /\ resets < MaxResets
  /\ keysDrawn' = IF n \in HUBS THEN [keysDrawn EXCEPT ![n] = @ + 1] ELSE keysDrawn
  /\ node' = [node EXCEPT ![n] =
       [Boot(n, [@ EXCEPT
                   !.storedState = "ABSENT",
                   !.storedKey = IF n \in HUBS THEN <<n, keysDrawn[n] + 1>> ELSE NoKey])
          EXCEPT !.networkKey = node[n].networkKey, !.peer = node[n].peer]]
  /\ resets' = resets + 1
  /\ UNCHANGED <<rx, confirmed, nextNonce, calls, reboots>>

HubApplication(h) == EnterInclusionMode(h) \/ ExitInclusionMode(h) \/ SendInclusionOpen(h)
Environment(n) == SessionExpires(n) \/ LosePacket(n) \/ Reboot(n) \/ FactoryReset(n)

Next ==
  \/ \E h \in HUBS : HubApplication(h)
  \/ \E n \in Nodes : Run(n) \/ Environment(n)

Spec == Init /\ [][Next]_vars

(* The loop of every node keeps calling run(), and time passes.            *)
Fairness == \A n \in Nodes : WF_vars(Run(n)) /\ WF_vars(SessionExpires(n))
FairSpec == Spec /\ Fairness

-----------------------------------------------------------------------------
(* Properties.                                                             *)

DomainsOK ==
  /\ node \in [Nodes -> NodeState]
  /\ rx \in [Nodes -> Packet \cup {NoPacket}]
  /\ confirmed \subseteq DEVICES \X NetworkKeys
  /\ keysDrawn \in [HUBS -> Nat \ {0}]
  /\ nextNonce \in Nonces
  /\ calls \in Nat /\ reboots \in Nat /\ resets \in Nat

(* Every variable stays in its domain, devices and hubs only take part in  *)
(* their own halves of the protocol, and a hub is always INCLUDED: the     *)
(* controller is one class for both and tells them apart at every call.    *)
TypeOK ==
  /\ DomainsOK
  /\ \A h \in HUBS :
       /\ node[h].state = "INCLUDED"
       /\ node[h].protocolState \in
            {"PROTOCOL_IDLE", "WAITING_FOR_REQUEST", "WAITING_FOR_CONFIRMATION"}
  /\ \A d \in DEVICES :
       /\ ~node[d].inclusionModeEnabled
       /\ node[d].protocolState \in
            {"PROTOCOL_IDLE", "WAITING_FOR_RESPONSE", "WAITING_FOR_SUCCESS"}

Member(d) == node[d].state = "INCLUDED"

(* A device is INCLUDED only with the network key it will still have after *)
(* a restart: the one in its encryption service is the one it stored.  The *)
(* results of persistState are ignored, only setNetworkKey is checked, and *)
(* that must be enough even when the storage refuses writes.               *)
MemberHoldsStoredKey ==
  \A d \in DEVICES :
    Member(d) => node[d].networkKey = node[d].storedKey /\ node[d].storedKey # NoKey

(* No device is INCLUDED with a key unless a hub accepted, under that key, *)
(* the incremented nonce of some device: INCLUDE_SUCCESS is only sent for  *)
(* a verified INCLUDE_CONFIRM, whatever was lost, repeated or restarted.   *)
MembershipIsBacked ==
  \A d \in DEVICES : Member(d) => \E e \in DEVICES : <<e, node[d].storedKey>> \in confirmed

(* With several hubs in range, the key a device takes is a key of the hub  *)
(* whose INCLUDE_OPEN it answered, never that of another hub that answered *)
(* the same broadcast request.                                             *)
KeyOfChosenHub ==
  \A d \in DEVICES :
    /\ node[d].peer # NoNode
    /\ node[d].protocolState = "WAITING_FOR_SUCCESS" \/ Member(d)
    => node[d].storedKey[1] = node[d].peer

(* A hub that waits for a confirmation verifies it with the key it has     *)
(* just handed out, also after a factory reset drew a new key while the    *)
(* encryption service kept the old one.                                    *)
ConfirmIsReadable ==
  \A h \in HUBS :
    node[h].protocolState = "WAITING_FOR_CONFIRMATION" => node[h].networkKey = node[h].storedKey

(* A stored membership can be resumed: INCLUDED is never on storage        *)
(* without the key, whichever writes were refused and wherever the device  *)
(* restarted.                                                              *)
StoredMembershipHasKey ==
  \A d \in DEVICES : node[d].storedState = "INCLUDED" => node[d].storedKey # NoKey

(* A nonce binds the confirmation to the request: the device a hub accepts *)
(* is the one it sent its last response to, also when an older response    *)
(* was answered late.                                                      *)
ConfirmsTheAnsweredDevice ==
  [][\A p \in confirmed' \ confirmed :
       \E h \in HUBS : p = <<node[h].peer, node[h].storedKey>>]_vars

(* A restart neither ends nor starts a membership, and keeps the key.      *)
RestartKeepsMembership ==
  [][reboots' # reboots =>
       \A d \in DEVICES :
         /\ Member(d)' = Member(d)
         /\ Member(d) => node'[d].networkKey = node[d].networkKey]_vars

(* Only a factory reset ends a membership or changes a member's key: no    *)
(* late INCLUDE_OPEN, INCLUDE_RESPONSE or timeout does.                    *)
MembershipIsStable ==
  [][\A d \in DEVICES :
       Member(d) /\ resets' = resets =>
         Member(d)' /\ node'[d].networkKey = node[d].networkKey]_vars

(* No device stays in INCLUSION_PENDING: it becomes INCLUDED, or its       *)
(* session times out and it may answer the next INCLUDE_OPEN.              *)
PendingResolves ==
  \A d \in DEVICES :
    node[d].state = "INCLUSION_PENDING" ~> node[d].state # "INCLUSION_PENDING"

(* A hub does not wait for ever for a device that went away.               *)
HubSessionEnds ==
  \A h \in HUBS :
    node[h].protocolState # "PROTOCOL_IDLE" ~> node[h].protocolState = "PROTOCOL_IDLE"

(* When nothing is lost, an INCLUDE_OPEN that finds a device ready makes   *)
(* it a member, unless the hub's application closes inclusion mode or      *)
(* calls a new session first: keys, nonces and MICs agree along the way.   *)
ReadyFor(d, k) ==
  /\ rx[d] # NoPacket /\ rx[d].topic = "INCLUDE_OPEN"
  /\ node[d].state = "NOT_INCLUDED" /\ node[d].protocolState = "PROTOCOL_IDLE"
  /\ node[rx[d].src].protocolState = "WAITING_FOR_REQUEST" /\ ~node[rx[d].src].timedOut
  /\ calls = k /\ resets = 0
Interrupted(k) == calls # k \/ resets # 0
JoinCompletes ==
  \A d \in DEVICES, k \in 1 .. MaxCalls : ReadyFor(d, k) ~> (Member(d) \/ Interrupted(k))

(* What membership means, without the messages: the abstract specification *)
(* that the protocol implements.                                           *)
Abstract == INSTANCE Membership WITH
  status <- [d \in DEVICES |-> node[d].state],
  key    <- [d \in DEVICES |-> IF Member(d) THEN node[d].networkKey ELSE NoKey],
  backed <- {p[2] : p \in confirmed},
  Keys   <- NetworkKeys

(* Every behaviour of the protocol is one of the abstract specification:   *)
(* a device passes through PENDING, enters with a key that a confirmation  *)
(* backed, keeps it, and leaves only by a factory reset.                   *)
ImplementsMembership == Abstract!Spec

=============================================================================
