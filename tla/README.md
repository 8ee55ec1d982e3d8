# A verification model of RadioMesh

RadioMesh is a C++ framework for LoRa mesh networks on ESP32 boards: standard
devices and hubs exchange encrypted packets over an SX1262 radio, relays flood
them, and a hub includes new devices into its network.  This directory holds
TLA+ modules translated from its source, TLC configurations that check them and
proofs for TLAPS.  `PROJECT.json` maps every definition to the lines it models.

## The system

| component | state it keeps | operations | talks to |
|---|---|---|---|
| `InclusionController`, one per device | `state`, `protocolState`, `stateStartTime`, `currentNonce`, temporary public keys, inclusion mode | `sendInclusionOpen`, `handleInclusionMessage`, `checkProtocolTimeouts`, enter and exit inclusion mode | device (sends), encryption and MIC service (keys), key manager, device storage |
| `KeyManager`, `DeviceStorage` | key pair, network key, persisted state | generate, load, persist | byte storage |
| `EEPROMStorage` | RAM image of the EEPROM, log of entries | begin, end, read, write, remove, commit, clear, defragment | EEPROM library |
| `RadioMeshDevice` | id, type, last packets, callbacks | `sendData`, `run`, `handleReceivedData`, `factoryReset` | everything |
| `PacketRouter`, `PacketTracker` | LRU map from packet id to CRC | `routePacket`, `isPacketFoundInTracker` | radio, routing table, encryption |
| `RoutingTable` | 10 slots with next hop, hops, RSSI and time | `updateRoute`, `findNextHop` | router, device |
| `EncryptionService`, `MicService` | device, hub and network keys | encrypt, decrypt, MIC by topic and state | AES, CMAC, ECDH |
| `LoraRadio` | `rxDone`, `txDone`, `radioStateError` set by an interrupt | send, read, check flags, start reception | SX1262 |
| `DeviceBuilder` | options collected so far; one builder for all devices | `start`, `with...`, `build` | device, the singletons |
| `WifiConnector`, `WifiAccessPoint` | parameters, connected or started | connect, reconnect, disconnect; set up, start, stop | wifi stack |
| `AsyncDevicePortal` | web socket clients, handlers by message type | broadcast, dispatch of messages | web server, in a task of its own |
| sketch `MiniHub` and its admin page | application state, mode flag; what the page shows | start and stop inclusion mode, status | device, portal |

A node is single threaded: the sketch's `loop()` calls `run()` and the
application's own calls.  There are two exceptions, the radio's interrupt
handler and, on a hub with a portal, the task of the web server, which calls
into the same controller as `loop()` without a lock.
All communication between nodes is radio broadcast, and the radio keeps one
packet.  What is hard here: messages that are lost, doubled by several ways or
late; restarts in the middle of a session; storage writes whose result is
ignored; interrupts between two accesses to the flags; an LRU cache that
overflows; the layout of a log in a byte array at its limits.

What should be true of each part:

* inclusion: a member holds a key a hub confirmed and it has stored, a late or
  foreign message changes no membership, no session lasts for ever;
* storage: it is a map, a write touches one key, a restart finds what was
  acknowledged;
* flooding: a node sends a message once, floods end, connected nodes are
  reached, payloads survive relaying;
* radio: no packet and no end of a transmission goes unnoticed;
* routing table: an answer is a neighbour that relayed from there recently,
  slots are not doubled, next hops settle;
* encryption and MIC: what leaves a node is protected, who can verify a packet
  can read it, and a network key is read by nobody else;
* wifi and builder: what the singletons remember is true, a device has the
  options it was built with;
* hub sketch: controller, flag and page agree on the mode, and the mode ends.

## Modules

| module | models |
|---|---|
| `Membership` | abstract: who is a member, with which key |
| `Inclusion` | controller, key manager, device storage of all nodes, radio slot of each node; implements `Membership` |
| `MCInclusion` | symmetry of the instances |
| `InclusionProofs` | the theorems about it |
| `KeyValueStore` | abstract: a map with explicit save, crash and reopen |
| `EEPROMStorage`, `MCEEPROMStorage`, `EEPROMStorageProofs` | the log of entries, cell by cell; implements `KeyValueStore` |
| `Flooding`, `MCFlooding`, `FloodingProofs` | sending, relaying and tracking of application packets on given topologies |
| `LoraRadio`, `LoraRadioProofs` | radio chip, interrupt handler and loop of one device |
| `RouteCache` | abstract: a bounded map from destinations to next hops |
| `RoutingTable`, `MCRoutingTable`, `RoutingTableProofs` | the slots, their quality and age; implements `RouteCache` |
| `MessageSecurity`, `MCMessageSecurity`, `MessageSecurityProofs` | method and keys of encryption and MIC, at every hop |
| `MiniHub`, `MiniHubProofs` | the hub sketch, its portal and the admin page: two tasks and a browser |
| `Wifi` | connector, access point and wifi stack |
| `DeviceSetup`, `DeviceSetupProofs` | the builder, composed with `Wifi` |

### Inclusion

`node[n]` is the RAM of a node's controller and encryption service together
with what its storage holds; `rx[n]` is its radio's one packet.  One action is
one call: a whole pass of `run()` on a packet (`HandleOpen`, `HandleRequest`,
`HandleResponse`, `HandleConfirm`, `HandleSuccess`, or `Ignore` when a MIC,
topic, nonce or state does not fit), each of which starts with
`CheckProtocolTimeouts` as `run()` does; a pass with nothing received
(`RunIdle`); or an application call.  The environment loses packets, lets the
60 s of a session pass, restarts a node and resets it.

Abstractions: a public key is its owner, a network key is the hub and the
number of the draw, a MIC verifies when both ends derive the same secret.
Nonces are counters that wrap at `NONCE_MODULUS`; random nonces or keys that
collide are out of the model.  `hubPublicKey` of a device and
`tempDevicePublicKey` of a hub are one field, `peer`.  Each handler writes each
stored item once, so a crash in the middle of a handler differs from one before
or after it only in what was sent, which loss covers.  `confirmed` is a history
variable.

Left out: a first boot at which key generation fails (it leaves `state`
unset), storage whose commit fails (in `EEPROMStorage`), a hub that cannot
read its own key, and applications that call the protocol's internal senders
by hand.  The sketches under `examples/` do not do that.

### EEPROMStorage

A cell is one field of an entry header, a key, or a unit of data.  Addresses
are computed from the lengths in the cells, so that an entry rewritten with
another size shifts what is behind it as it does in the code.  Each public
operation is an action; `commit()` may fail; a restart drops the RAM image.
The scans take the first of the addresses at which a valid entry of the key
lies (`Found`, `First`); `Compacted` is the loop of `defragment()` turn by turn,
in the one buffer it reads from and writes to, each turn (`Moved`) copying a
valid entry behind those kept so far (`Appended`, as for a new key).  `View` is
what a reader sees, and the refinement mapping to `KeyValueStore`.

### Flooding

All nodes are members of one network.  A message is a packet id, and `layers`
says whether its payload is encrypted: AES in counter mode with a zero IV makes
encrypting twice the identity, and the CRC tells the two payloads apart.
`nextHopId` is left out because no receiver reads it.  A mesh (`Meshes`, picked
in `Init`) has its links, the capacity of its trackers and its faults: where it
is lossy, a packet that arrives overwrites the one in the radio, and nodes
restart.

### LoraRadio

The loop is cut wherever an interrupt can fall between two accesses to the
flags or the chip; `pc` says where it is.  `getRadioStateError` resets, starts
reception and only then returns the flag.  The chip (one received packet,
interrupt flags, DIO1 that rises when the first flag is set, standby after a
transmission) is external and is taken from how the code and the RadioLib calls
in it use it.  Interrupts fall anywhere, and packet handlers, `onPacketSent` and
the application between two passes may send.  The history variable `disturbed`
records what happened beyond "receive, handle, answer": a chip event during a
pass of `run()`, a send by `onPacketSent`, a send by the application.  Each
property names the disturbances it survives.  Chip commands succeed; set-up,
sleep and standby are left out.

### RoutingTable

One node's table: `UpdateRoute` is what `handleReceivedData` does for a packet
that passed its checks, `FindNextHop` what `routePacket` asks.  A slot is found
by its destination whether it is active or not, memory that was never written
may hold anything inactive, the RSSI is cut to a signed byte, and times are
readings of a clock that wraps.  `written`, `heard` and `answer` are history.
`IsBetterRoute` compares RSSI and hops with two thresholds and is not
transitive; `Place` keeps the time of an entry that is not improved, as the
code does.  `RouteCache` is what a caller may rely on: only a destination that
is learnt displaces another one, one at most, and only when there is no room.

### MessageSecurity

Every node's security state (inclusion state, network key, the public key of
the other end) and the packets on the air, which stay there to be received
late, repeatedly or not at all.  `Encrypt`, `Decrypt` and the MIC choose their
keys separately, from topic, type and state, as the two services do;
`RoutePacket` sets the hop, encrypts, computes CRC and MIC in the order of the
code, and `HandleReceivedData` undoes it, with a reset by the application
between opening and relaying.  A payload is its content and the set of key
streams over it (twice the same stream is none).  A shared secret is the set
of its two ends.  The session part of inclusion is `Inclusion`'s; here a device
and a hub may go through it in any way the messages allow.

### MiniHub

The steps of `loop()` and of the web server's callbacks, each an access to the
application state, the mode flag or the controller, in any interleaving; the
admin page with its socket, its queue and what it shows.  Leaving the mode is
two writes (mode, then protocol state) wherever the code does it: a stop, a
timeout, a start that failed (`ExitInclusionMode`); opening a session is the
test of the mode, the transition and the restart of its timer; a status is read
and then sent (`status`).  `raced` records that a start by the page met a
change by `loop()`: a stop, a confirmation, the reset of a timeout, or the two
statements by which `loop()` goes back to READY.  Two stops may meet freely.

### Wifi and DeviceSetup

The stack's link comes and goes by itself; `disturbed` records that it did so,
or that parameters were replaced, behind the connector's back.  `DeviceSetup`
has one builder on these singletons: `Build` goes through the options in the
order of the code and stops at the first one that fails, with everything before
it applied, `Abandon` deletes the device, and a storage that does not begin
ends the build before anything else.  `givenBy` says by which device a
singleton got its parameters.

## Runs

Bounds are constants: `MaxCalls`, `MaxReboots`, `MaxResets` of the inclusion
protocol, `MaxPackets` and `MaxSends` of the radio, `MaxPackets` on the air of
`MessageSecurity`, `MaxTime` of the routing table, `MaxBuilds`, `MaxQueue`,
`Messages` of flooding; `Size`, `Capacity`, `MAX_ROUTES`, `ROUTE_TIMEOUT`,
`CLOCK`, `MAX_HOPS` and `NONCE_MODULUS` are scaled down from the code.

| run | instance | shows |
|---|---|---|
| `inclusion_two_devices` | 1 hub, 2 devices, 2 calls, 1 restart, 1 reset | types; memberships are backed and bound to the answered device; the protocol implements `Membership` |
| `inclusion_two_hubs` | 2 hubs, 1 device, writes refused, restart, reset | the device takes the key of the hub it answered; a member, also one on storage, has its key; a waiting hub can read the confirmation |
| `inclusion_liveness` | 1 hub, 2 devices, losses, writes refused | sessions end on both sides |
| `inclusion_reliable` | 1 hub, 1 device, no losses, reset | an opening makes a ready device a member |
| `inclusion_restart_pending` | 1 hub, 1 device, 1 restart | a violation, see below |
| `eeprom` | 2 keys, 11 cells: two entries, commits fail | the log is sound; it implements `KeyValueStore`; what was acknowledged is durable |
| `flooding` | two meshes. Diamond: device and hub over two relays that hear each other, a message each way, one of a reserved topic; losses, refused transmissions, restarts. Line: two relays in a row, trackers of one entry, no losses | a node sends a message once; hops and payloads are right; the air becomes quiet; without losses every message reaches every node |
| `radio` | 3 packets, 3 sends, interrupts anywhere | no report of a transmission that did not end; packets, ends of transmissions and reception are lost only with the disturbances the properties name |
| `routing_table` | 3 devices, one heard by three ways, 2 slots, a clock that wraps after 4 ticks, 5 ticks | answers are recent; next hops settle; implements `RouteCache` |
| `message_security` | 2 hubs, 2 devices, 2 network keys, 2 packets on the air | the air is protected; what is accepted is readable; a response is read by its device only |
| `minihub` | 1 page, queues of two messages | sketch and controller agree; the mode ends; the page catches up |
| `device_setup` | 2 networks, 3 options, 2 builds | what the singletons remember is true; a device is built as asked |

The bounds are small and still meet the cases that matter: two devices are
what a stale confirmation or a foreign `INCLUDE_SUCCESS` needs, two calls are
two openings, of which the second falls into the session of the first, nonces
start at the last value and wrap at once, a tracker of one entry overflows with
two messages, the EEPROM holds two entries and one cell, so that a first entry
can be rewritten and a second one cannot, and three packets and three sends let
one of each fall into every gap of the loop.  In a table of two slots the third
device displaces one, and the clock goes past its wrap with routes both fresh
and expired.  Two packets on the air are what a late response needs beside the
one that overtakes it.  One page is one stale view; a second one adds commands,
which the first can give in any order as it is.  Two builds let a failed one
come before a good one; the three options are the one with a choice of
arguments and the pair of which one needs the other.

Deadlock is checked except in `flooding`, where messages run out and the air
becomes quiet, and in `minihub`, where `setup()` may end in an error after
which nothing moves.

Fairness: every node's loop keeps calling `run()` (weak fairness of `Run`; in
`Flooding` it is enough that some node with a packet handles it), the clock passes 60 s (weak fairness of
`SessionExpires`), and a transmission ends by itself (`TransmissionEnds`).  In
`MiniHub` both tasks get the processor (FreeRTOS schedules them), the clocks of
timeout and status go on, and a message reaches a page that stays open, as TCP
does; nobody has to click or to send a packet.  No fairness is assumed of
applications, losses or restarts, and no strong fairness of anything.
`inclusion_reliable` and the line of `flooding` assume a radio that loses
nothing, which is what their properties are about.  `RoutesSettle` needs no
fairness: it says that an infinite behaviour does not flap.

### Disagreements with the documentation

One run checks what a document says and finds a counterexample:
`inclusion_restart_pending`.  A device that restarts during inclusion resumes
`INCLUSION_PENDING` from storage with no timer, and stays there until a factory
reset.  `PROJECT.json` quotes the line.

The models show more of them without a run of their own.  Inclusion and
storage:

* a device in `WAITING_FOR_SUCCESS` joins on an `INCLUDE_SUCCESS` that another
  device's confirmation caused (`MembershipIsBacked` says "some device");
* `begin()` reports failure when it has initialised a blank EEPROM, and removed
  entries stay counted in `numEntries`;
* a value of another size, written over the old one, shifts what is behind it
  and changes what is read under other keys (`EEPROMStorage.cpp:181`; `eeprom`
  fixes the size of each key, as `DeviceStorage` does);
* the inclusion design document describes time-outs of 5 s with retries where
  the code waits 60 s and never retries; the network key design document has
  `INCLUDE_REQUEST` encrypted, which the code sends in the clear.

Packets and radio:

* hubs and destinations deliver every copy of a message, as only what a device
  sends or relays is tracked (`Device.cpp:341`);
* a relay that receives its own packet of a reserved topic does not recognise
  it, because the payload changes at each hop, and sends it again until the hops
  run out (`TransmitsOnce` is about application topics);
* a packet whose CRC is 0 counts as seen everywhere;
* a hub relays nothing, where `Definitions.h` says that it can;
* a packet that arrives while another is read is never read, nor are those
  after it, until something is sent (`LoraRadio.cpp:274`);
* a send while a received packet waits can leave the radio in standby, a packet
  sent by `onPacketSent` is cut short by the `startReceive()` that follows, and
  the radio error is cleared before it is returned;
* an expired route is renewed only by a packet that is better than it was; an
  RSSI below -128 dBm wraps to a strong one; and among four ways next hops can
  go round for ever.

Hub and wifi:

* a page that turns the mode on between the two statements in which `loop()`
  goes back to READY leaves the mode on with the flag cleared, and neither page
  nor callback turns it off (`MiniHub.ino:346`; `ModeEnds` excludes it by
  `raced`);
* a timeout turns the mode off and then resets the protocol state; a page that
  turns the mode on and opens a session between the two has its session ended
  at once, as it has by a confirmation that `loop()` had accepted just before:
  the mode is on with no timer running (`InclusionController.cpp:572`, then 548; `ModeEnds`
  excludes it by `raced`);
* the callback stops the mode on any confirmation, also one the controller
  refused; `get_status` without data is not answered; `sendToClient` sends
  twice; a panel that lost its socket does not get it back, because the name it
  retries by is taken;
* `connect` answers "already connected" from memory when the link is lost or
  the parameters have changed; `reconnect` after `disconnect` has no
  parameters; the signal strength of a lost link, 0, counts as excellent;
* an access point whose configuration was refused is up with `started` false,
  and `stop()` does nothing;
* a build that fails leaves the router with the services of a deleted device,
  and the result of `AesCrypto::setParams` is ignored.

## Proofs

Two lemmas stand under several proofs.  `Induction`, over the numbers, is
derived from the pigeonhole principle of the library, in a form that takes a
set where the library's own takes an operator, which the provers cannot
instantiate; `Iteration` derives from it that a function defined turn by turn,
as `Addresses` and `Compacted` are, satisfies its recursive equation.  With
them what a loop computes is proved and not only tried out.

`InclusionProofs` proves, for any finite set of nodes, any nonce width, refused
writes and any number of calls, restarts and resets, that `IInv` is inductive
and with it `TypeOK`, `MemberHoldsStoredKey`, `MembershipIsBacked`,
`KeyOfChosenHub`, `ConfirmIsReadable` and `StoredMembershipHasKey`.  `TypeOK`
has the roles of the nodes in it: a hub stays INCLUDED, a device never enters
inclusion mode, and each is only in the protocol states of its own half.  A
membership, for one, comes from what a packet in the air and the storage hold,
so these are not inductive by themselves.  `IInv` says of each node

* of a device: while it waits for the success it holds a key that it has
  stored and uses, and that came from its peer; a member's key is, besides,
  backed by a confirmation; `INCLUDED` on storage comes with a stored, backed
  key, so that a restart gives a member again;
* of a hub: its stored key is one of its own, it is always `INCLUDED`, and while
  it waits for a confirmation the key in use is the stored one;

and of each packet in a radio: a response carries a key of the hub that sent
it, a confirmation comes from a device, and the key of a success is backed.
The last part carries `MembershipIsBacked` across the radio.  `OneNodeStep`
reduces each action to its node and the packet it sends; there is one lemma
for each action.

It proves from the same invariant that `Inclusion` implements
`Membership`, and `MembershipIsStable` and `RestartKeepsMembership`.  These
assume `StorageFaults = FALSE`: the result of `persistState` is ignored, and
when that write is refused a restart does lose a membership.

`ConfirmationsAreBound` is `ConfirmsTheAnsweredDevice` for any behaviour in
which fewer nonces are drawn than there are (`NoncesSuffice`, a bound on the
openings; there are 2^32 nonces).  Without it the property is false: once
nonces wrap, a confirmation from an old session can carry the increment a hub
waits for.  `NonceInv` numbers the draws: it keeps, for the draws so far, the
device whose request each one answered (`Drew`), and says that a waiting hub's
nonce was drawn for its peer, that whatever a device or a packet holds goes
back to a draw for that device (`Owned`, `Traced`), and that the hubs that may
still draw have openings left to pay for it (`Waiting`).  Two draws with the
same nonce are then the same draw.  TLC checked `NonceInv` before it was
proved.

`EEPROMStorageProofs` proves, for any size of the memory, any keys and values,
`TypeOK`, and, when all values of a key have one size (`SameSizes`),
`LogIsSound`, `ImplementsMap` and `AcknowledgedIsDurable`.  `DeviceStorage` gives
each of its keys one size; with two sizes under a key the three properties are
false, as listed above, while `TypeOK` needs no such hypothesis.  The
invariant says of both copies, where they are valid, that they are `Sound`:
every address of the log holds the header, key and data of some entry, the log
ends inside the memory, and a key has one valid entry at most.  `Has` says that
a key has an entry with a value, and is what `Read` returns (`Present`,
`Missing`).  `Appending` and `Patching` are what the two kinds of write, behind
the log and in place, do to soundness and to `Has`, of the written key and of
all others.  Defragmentation is repeated appending to a shorter log that lies in
the same cells as the one being read: `Compacting` says after each turn that the
entries kept so far are sound and end before the next one to be read, which is
why copying in place destroys nothing (`Moving`, `CompactionLoop`).

`RoutingTableProofs` proves, for any number of slots, devices and packets, any
thresholds and any width of the clock, that `IInv` is inductive and with it
`TypeOK`, `ActiveSlotsAreFound` (the loops that stop at the first slot of a
destination miss no active one) and `AnswersAreRecent`.  The invariant adds
`SlotsRecord`: a slot in use holds a hop that was heard, and the reading of the
clock at the time it was written.  `ElapsedTime` is the lemma about the clock:
the unsigned difference of two readings is the time between them, short of a
whole turn.  That the table implements `RouteCache` needs a count: as many
destinations as slots are known only when every slot is in use (`KnownFits`
maps known destinations injectively into slots).  `NoCircleOfTwoWays` and
`NoCircleOfThreeWays` are why `RoutesSettle` speaks of three ways.

`MessageSecurityProofs` proves `TypeOK`, `AirIsProtected`, `AcceptedIsReadable`
and `ResponseReachesOnlyItsDevice` for any number of hubs, devices, keys, hops
and packets.  The invariant says of a packet on the air what it went through:
CRC and MIC were computed last, the MIC's key is the one the payload is under,
and for a response that is the secret of a hub and the device it is for; and of
a hub that it always has a key.  `SendersKeys` and `ReceiversKeys` are the
heart: the two services, which decide apart from each other, decide alike.

`LoraRadioProofs` proves `TypeOK`, in which `unreported >= 0` is the point, and
`NoSendIsAborted`, for any number of packets.  `Account` bounds what is
unreported from below by the ends the loop still knows of (the flag, and the
call it is about to make) and from above by what was sent; `LoopWaits` says
that undisturbed the loop never gets to its end with a transmission under way.

`MiniHubProofs` proves `TypeOK` and `SketchAgrees` for any number of pages and
any queue.  `Ordered` says, as long as no start has met a change by `loop()`, how
far a change of the mode has come by where its task is: `Leaving` for the two
tasks together, since both may stop the mode at a time, `Noticing` for `loop()`
as it finds the mode left, `Starting` for the page.

`DeviceSetupProofs` proves `TypeOK`, `WifiStateIsKnown` and `BuiltAsAsked` for
any options, networks and number of builds.  The invariant adds that the
blueprint has an argument for exactly the options asked for, and that a
connector that counts as connected has a network; `BuildCases` reduces a build
to the options it got through.

`FloodingProofs` proves `TypeOK`, `TransmitsOnce` and `CopiesAreFaithful` for any topology, any
losses and restarts, and any number of nodes and messages.  `Moved`, `Touching`
and `Adding` show that the list of a tracker behaves as a map: a lookup changes
the order only, an addition one entry, and another one is evicted only if there
are more messages than it holds.  The invariant is `SentIsSeen`: a node that sent
an application message on has in its tracker the CRC that every copy of it has,
since every copy on the air is encrypted once (`Waiting`).  For
`CopiesAreFaithful` it adds that the node a copy was sent by can be reached in as
many hops as the copy counts; one more hop to a neighbour is one more step of
`Reach`, by its recursive equation.

The assumptions are those the modules name (`...Assumption`): constants have
their types, absent values are no values, the identities of hubs and devices
differ.  Nothing else is assumed.

Every invariant and every action property of the runs, and the three
refinements, are thus stated by a theorem.  Only model-checked are the liveness
properties, as liveness under fairness and ENABLED are out of TLAPS' reach:
`PendingResolves`, `HubSessionEnds`, `JoinCompletes`, `FloodEnds`,
`RelaysReachAll`, `EveryPacketIsRead`, `ListensAgain`, `EverySendIsReported`,
`RoutesSettle`, `ActiveIsEnabled`, `ModeEnds` and `PagesCatchUp`.

## Plan

1. `LoraRadio` with chip commands that fail, and its set-up.
2. A restart during `INCLUSION_PENDING` in the liveness instance with the timer
   resumed, as the abstract behaviour a correction would have to implement.

## Not modelled

AES, CMAC, CRC32 and conversions are pure computation on bytes; the models use
the identity of keys, nonces and payloads.  The display draws.  Logging, error
texts, radio presets and the constants of `common/` have no behaviour.  The HTTP
pages and the captive DNS server of the portal keep no state, and no example
calls its `stop()`.  The sketch of a standard device sends sensor values on a
timer and draws; what it does in inclusion is a device of `Inclusion`.  Vendored
libraries (RadioLib, the EEPROM library, the wifi stack, the web server) appear
as the code uses them and are marked external.  Radio set-up, standby and sleep
are parameter checks and calls nobody makes.
