-------------------------- MODULE DeviceSetupProofs ---------------------------
(* Theorems about the builder and the wifi singletons, for any networks, any *)
(* options in use and any number of builds.                                  *)
EXTENDS DeviceSetup, TLAPS

(* The singletons: besides what is known of them, a connector that counts as *)
(* connected has a network.                                                  *)
WifiInv ==
  /\ WifiTypeOK
  /\ WifiStateIsKnown
  /\ connected => params # NoNetwork

(* The blueprint has an argument for exactly the options asked for.          *)
BlueprintOK ==
  /\ isBuilderStarted \in BOOLEAN
  /\ DOMAIN blueprint = Options
  /\ \A o \in Options : blueprint[o] \in Arguments(o) \cup {"none"}
  /\ asked = {o \in Options : Given(o)}

(* Devices are numbered, and nothing belongs to one that was not created.    *)
MadeOK ==
  /\ created \in 0 .. MaxBuilds /\ devices \subseteq 1 .. created
  /\ services \in 0 .. created /\ built \in devices \cup {0}
  /\ givenBy \in [Options -> 0 .. created]

(* The inductive invariant.                                                  *)
IInv == WifiInv /\ BlueprintOK /\ MadeOK

-----------------------------------------------------------------------------
(* The singletons.                                                           *)

LEMMA ConnectorStep ==
  ASSUME WifiInv,
         (\E n \in Networks \cup {NoNetwork} : Connect(n)) \/ Disconnect \/ LinkDrops \/ LinkReturns
  PROVE  WifiInv'
<1>. USE WifiAssumption DEF WifiInv, WifiTypeOK, WifiStateIsKnown
<1>1. CASE \E n \in Networks \cup {NoNetwork} : Connect(n)
  <2>1. PICK n \in Networks \cup {NoNetwork} : Connect(n)
    BY <1>1
  <2>2. CASE UNCHANGED connector
    BY <2>1, <2>2 DEF Connect, connector, accessPoint
  <2>3. CASE \E t \in Networks : ConnectedTo(t) \/ NotConnectedTo(t)
    <3>1. PICK t \in Networks : ConnectedTo(t) \/ NotConnectedTo(t)
      BY <2>3
    <3>2. UNCHANGED accessPoint
      BY <2>1 DEF Connect
    <3>3. CASE ConnectedTo(t)
      BY <3>2, <3>3 DEF ConnectedTo, accessPoint
    <3>4. CASE NotConnectedTo(t)
      <4>1. disturbed' \in BOOLEAN /\ ~(connected /\ ~disturbed')
        BY <3>4 DEF NotConnectedTo
      <4>. QED
        BY <3>2, <3>4, <4>1 DEF NotConnectedTo, accessPoint
    <3>. QED
      BY <3>1, <3>3, <3>4
  <2>. QED
    BY <2>1, <2>2, <2>3 DEF Connect
<1>2. CASE Disconnect
  <2>1. CASE connected' = FALSE /\ params' = NoNetwork /\ begun' = NoNetwork /\ link' = NoNetwork /\ disturbed' = FALSE
    BY <1>2, <2>1 DEF Disconnect, accessPoint
  <2>2. CASE UNCHANGED connector
    BY <1>2, <2>2 DEF Disconnect, connector, accessPoint
  <2>. QED
    BY <1>2, <2>1, <2>2 DEF Disconnect
<1>3. CASE LinkDrops \/ LinkReturns
  BY <1>3 DEF LinkDrops, LinkReturns, accessPoint
<1>. QED
  BY <1>1, <1>2, <1>3

LEMMA AccessPointStep ==
  ASSUME WifiInv, SetupAP \/ StartAP \/ StopAP
  PROVE  WifiInv'
<1>. USE DEF WifiInv, WifiTypeOK, WifiStateIsKnown
<1>1. UNCHANGED connector
  BY DEF SetupAP, StartAP, StopAP
<1>2. CASE SetupAP
  BY <1>1, <1>2 DEF SetupAP, SetAPParams, connector, accessPoint
<1>3. CASE StartAP
  <2>1. CASE apParams = "set" /\ started' = TRUE /\ softAP' = TRUE
    BY <1>1, <1>3, <2>1 DEF StartAP, connector
  <2>2. CASE UNCHANGED started /\ softAP' \in {softAP, TRUE}
    <3>1. started' = FALSE /\ softAP' \in BOOLEAN /\ apParams' = apParams
      BY <1>3, <2>2 DEF StartAP
    <3>. QED
      BY <1>1, <3>1 DEF connector
  <2>. QED
    BY <1>3, <2>1, <2>2 DEF StartAP
<1>4. CASE StopAP
  <2>1. CASE started' = FALSE /\ softAP' = FALSE /\ apParams' = "cleared"
    BY <1>1, <2>1 DEF connector
  <2>2. CASE UNCHANGED accessPoint
    BY <1>1, <2>2 DEF connector, accessPoint
  <2>. QED
    BY <1>4, <2>1, <2>2 DEF StopAP
<1>. QED
  BY <1>2, <1>3, <1>4

LEMMA SetParamsStep ==
  ASSUME WifiInv,
         UNCHANGED connector \/ \E n \in Networks : SetParams(n),
         UNCHANGED accessPoint \/ SetAPParams
  PROVE  WifiInv'
BY WifiAssumption
   DEF WifiInv, WifiTypeOK, WifiStateIsKnown, SetParams, SetAPParams, connector, accessPoint

LEMMA WifiUnchanged == WifiInv /\ UNCHANGED wifi => WifiInv'
BY DEF WifiInv, WifiTypeOK, WifiStateIsKnown, wifi, connector, accessPoint

-----------------------------------------------------------------------------
(* The builder.                                                              *)

LEMMA BlueprintUnchanged == BlueprintOK /\ UNCHANGED <<blueprint, asked>> /\ isBuilderStarted' \in BOOLEAN => BlueprintOK'
BY DEF BlueprintOK, Given

LEMMA StartStep == BlueprintOK /\ Start => BlueprintOK'
BY DEF BlueprintOK, Start, Given, made

(* An argument is never "none".                                              *)
LEMMA WithStep ==
  ASSUME BlueprintOK, NEW o \in Options, NEW argument \in Arguments(o), With(o, argument)
  PROVE  BlueprintOK'
<1>1. argument # "none"
  BY SetupAssumption DEF Arguments
<1>2. /\ DOMAIN blueprint' = Options
      /\ blueprint'[o] = argument
      /\ \A p \in Options \ {o} : blueprint'[p] = blueprint[p]
  BY DEF BlueprintOK, With
<1>. QED
  BY <1>1, <1>2 DEF BlueprintOK, With, Given

(* What an option gives its singletons that does not stop the build: the     *)
(* connector gets a network.                                                 *)
LEMMA ApplyKeepsWifi ==
  ASSUME WifiInv, BlueprintOK, NEW done \in SUBSET Options, NEW d,
         \A o \in done : Given(o) /\ ~Fails(o),
         Apply(done, d)
  PROVE  WifiInv'
<1>1. "Wifi" \in done => blueprint["Wifi"] \in Networks
  BY DEF BlueprintOK, Given, Fails, Arguments
<1>. QED
  BY <1>1, SetParamsStep DEF Apply

(* The ways a build ends.                                                    *)
LEMMA BuildCases ==
  ASSUME IInv, Build
  PROVE  \E done \in SUBSET Options :
           /\ \A o \in done : Given(o) /\ ~Fails(o)
           /\ Apply(done, created + 1)
           /\ \/ /\ done = asked /\ isBuilderStarted' = FALSE
                 /\ devices' = devices \cup {created + 1} /\ built' = created + 1
              \/ /\ isBuilderStarted' = isBuilderStarted
                 /\ devices' = devices /\ built' = 0
<1>. DEFINE All == {o \in Options : Given(o)}
            Until(o) == {p \in Before(o) : Given(p)}
<1>1. CASE /\ \A o \in Options : Given(o) => ~Fails(o)
           /\ Apply(All, created + 1)
           /\ isBuilderStarted' = FALSE
           /\ devices' = devices \cup {created + 1} /\ built' = created + 1
  <2>1. All \in SUBSET Options /\ All = asked
    BY DEF IInv, BlueprintOK
  <2>2. \A o \in All : Given(o) /\ ~Fails(o)
    BY <1>1
  <2>. QED
    BY <1>1, <2>1, <2>2
<1>2. CASE \E o \in Options :
             /\ \A p \in Before(o) : ~(Given(p) /\ Fails(p))
             /\ Apply(Until(o), created + 1)
             /\ Abandon(created + 1)
  <2>1. PICK o \in Options : /\ \A p \in Before(o) : ~(Given(p) /\ Fails(p))
                             /\ Apply(Until(o), created + 1)
                             /\ Abandon(created + 1)
    BY <1>2
  <2>2. Until(o) \in SUBSET Options
    BY DEF Before
  <2>3. \A p \in Until(o) : Given(p) /\ ~Fails(p)
    BY <2>1
  <2>. QED
    BY <2>1, <2>2, <2>3 DEF Abandon
<1>. QED
  BY <1>1, <1>2 DEF Build

(* A new number for whatever the build did.                                  *)
LEMMA NumbersStep ==
  ASSUME MadeOK, created < MaxBuilds, created' = created + 1,
         \/ devices' = devices /\ built' = 0
         \/ devices' = devices \cup {created + 1} /\ built' = created + 1,
         services' \in {services, created + 1},
         NEW done \in SUBSET Options,
         givenBy' = [o \in Options |-> IF o \in done THEN created + 1 ELSE givenBy[o]]
  PROVE  MadeOK'
<1>. USE SetupAssumption DEF MadeOK
<1>1. created \in Nat /\ created' \in 0 .. MaxBuilds
  OBVIOUS
<1>2. created + 1 \in 1 .. created' /\ 0 .. created \subseteq 0 .. created'
      /\ 1 .. created \subseteq 1 .. created'
  BY <1>1
<1>3. devices' \subseteq 1 .. created' /\ built' \in devices' \cup {0}
  BY <1>2
<1>4. services' \in 0 .. created'
  BY <1>1
<1>5. givenBy' \in [Options -> 0 .. created']
  BY <1>1
<1>. QED
  BY <1>1, <1>3, <1>4, <1>5

LEMMA BuildStep == IInv /\ Build => IInv'
<1>. SUFFICES ASSUME IInv, Build PROVE IInv'
  OBVIOUS
<1>1. PICK done \in SUBSET Options :
        /\ \A o \in done : Given(o) /\ ~Fails(o)
        /\ Apply(done, created + 1)
        /\ \/ /\ done = asked /\ isBuilderStarted' = FALSE
              /\ devices' = devices \cup {created + 1} /\ built' = created + 1
           \/ /\ isBuilderStarted' = isBuilderStarted
              /\ devices' = devices /\ built' = 0
  BY BuildCases
<1>2. WifiInv'
  BY <1>1, ApplyKeepsWifi DEF IInv
<1>3. BlueprintOK'
  <2>1. isBuilderStarted' \in BOOLEAN /\ UNCHANGED <<blueprint, asked>>
    BY <1>1 DEF Build, IInv, BlueprintOK
  <2>. QED
    BY <2>1, BlueprintUnchanged DEF IInv
<1>4. MadeOK'
  <2>1. created < MaxBuilds /\ created' = created + 1 /\ services' = created + 1
    BY DEF Build
  <2>2. givenBy' = [o \in Options |-> IF o \in done THEN created + 1 ELSE givenBy[o]]
    BY <1>1 DEF Apply
  <2>. QED
    BY <1>1, <2>1, <2>2, NumbersStep DEF IInv
<1>. QED
  BY <1>2, <1>3, <1>4 DEF IInv

LEMMA BuildWithoutStorageStep == IInv /\ BuildWithoutStorage => IInv'
<1>. SUFFICES ASSUME IInv, BuildWithoutStorage PROVE IInv'
  OBVIOUS
<1>1. WifiInv'
  BY WifiUnchanged DEF IInv, BuildWithoutStorage
<1>2. BlueprintOK'
  BY BlueprintUnchanged DEF IInv, BlueprintOK, BuildWithoutStorage, builder
<1>3. MadeOK'
  <2>1. givenBy' = [o \in Options |-> IF o \in {} THEN created + 1 ELSE givenBy[o]]
    BY DEF IInv, MadeOK, BuildWithoutStorage
  <2>2. /\ created < MaxBuilds /\ created' = created + 1
        /\ devices' = devices /\ built' = 0 /\ services' = services
    BY DEF BuildWithoutStorage
  <2>3. {} \in SUBSET Options
    OBVIOUS
  <2>. QED
    BY <2>1, <2>2, <2>3, NumbersStep DEF IInv
<1>. QED
  BY <1>1, <1>2, <1>3 DEF IInv

-----------------------------------------------------------------------------
LEMMA Initially == Init => IInv
<1>. SUFFICES ASSUME Init PROVE IInv
  OBVIOUS
<1>1. WifiInv
  BY DEF Init, WifiInit, WifiInv, WifiTypeOK, WifiStateIsKnown
<1>2. BlueprintOK
  BY DEF Init, BlueprintOK, Given
<1>3. MadeOK
  BY SetupAssumption DEF Init, MadeOK
<1>. QED
  BY <1>1, <1>2, <1>3 DEF IInv

(* Every step keeps the invariant: the builder's steps that are no build     *)
(* leave devices and singletons alone, and the singletons' leave the builder *)
(* and the devices.                                                          *)
LEMMA Inductive == IInv /\ [Next]_vars => IInv'
<1>. SUFFICES ASSUME IInv, [Next]_vars PROVE IInv'
  OBVIOUS
<1>1. CASE UNCHANGED made /\ WifiInv' /\ BlueprintOK'
  BY <1>1 DEF IInv, MadeOK, made
<1>2. CASE Start
  BY <1>1, <1>2, StartStep, WifiUnchanged DEF IInv, Start
<1>3. CASE \E o \in Options : \E argument \in Arguments(o) : With(o, argument)
  BY <1>1, <1>3, WithStep, WifiUnchanged DEF IInv, With
<1>4. CASE WifiNext /\ UNCHANGED <<builder, made>>
  <2>1. WifiInv'
    BY <1>4, ConnectorStep, AccessPointStep DEF IInv, WifiNext
  <2>2. BlueprintOK'
    BY <1>4, BlueprintUnchanged DEF IInv, BlueprintOK, builder
  <2>. QED
    BY <1>1, <1>4, <2>1, <2>2
<1>5. CASE UNCHANGED vars
  <2>1. BlueprintOK'
    BY <1>5, BlueprintUnchanged DEF IInv, BlueprintOK, builder, vars
  <2>. QED
    BY <1>1, <1>5, <2>1, WifiUnchanged DEF IInv, vars
<1>. QED
  BY <1>2, <1>3, <1>4, <1>5, BuildStep, BuildWithoutStorageStep DEF Next

(* The inductive invariant of builder and singletons holds in every          *)
(* reachable state.                                                          *)
THEOREM Invariance == Spec => []IInv
BY Initially, Inductive, PTL DEF Spec

(* Blueprint, devices and singletons keep their types; nothing belongs to a  *)
(* device that was never created, however many builds failed.                *)
THEOREM TypeCorrect == Spec => []TypeOK
<1>1. IInv => TypeOK
  BY DEF IInv, WifiInv, BlueprintOK, MadeOK, TypeOK
<1>. QED
  BY Invariance, <1>1, PTL

(* What connector and access point take for up is up, as long as the link    *)
(* was not changed behind the connector's back.                              *)
THEOREM WifiStaysKnown == Spec => []WifiStateIsKnown
<1>1. IInv => WifiStateIsKnown
  BY DEF IInv, WifiInv
<1>. QED
  BY Invariance, <1>1, PTL

(* A device that build() returns has the options that were asked for since   *)
(* start(), no others, and the router has its services, whatever was built   *)
(* before or failed.                                                         *)
THEOREM DevicesAreBuiltAsAsked == Spec => BuiltAsAsked
<1>. DEFINE Asked == built' # 0 /\ built' # built =>
                       /\ {o \in Options : givenBy'[o] = built'} = asked
                       /\ services' = built'
<1>1. IInv /\ [Next]_vars => [Asked]_vars
  <2>. SUFFICES ASSUME IInv, Next, built' # 0, built' # built
                PROVE  /\ {o \in Options : givenBy'[o] = built'} = asked
                       /\ services' = built'
    OBVIOUS
  <2>1. Build
    BY DEF Next, Start, With, BuildWithoutStorage, made
  <2>2. /\ Apply(asked, created + 1)
        /\ built' = created + 1
    BY <2>1, BuildCases
  <2>3. \A o \in Options : givenBy[o] # created + 1
    BY SetupAssumption DEF IInv, MadeOK
  <2>4. asked \subseteq Options
    BY DEF IInv, BlueprintOK
  <2>. QED
    BY <2>1, <2>2, <2>3, <2>4 DEF Apply, Build
<1>. QED
  BY Invariance, <1>1, PTL DEF Spec, BuiltAsAsked
===============================================================================
