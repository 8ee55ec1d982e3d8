----------------------------- MODULE DeviceSetup ------------------------------
(***************************************************************************)
(* DeviceBuilder: start(), the with...() calls, build().  A device is put  *)
(* together from singletons, which keep what they were given over builds   *)
(* that fail; one that fails deletes its device.  Between builds the       *)
(* application uses the wifi singletons (Wifi).                            *)
(***************************************************************************)
EXTENDS Wifi, Sequences, SequencesExt

CONSTANTS
  Options,   \* the options in use
  MaxBuilds  \* bound: devices that are created

VARIABLES
  isBuilderStarted,  \* start() was called since the last device was built
  blueprint,         \* per option: the argument it was given, or "none"
  created,           \* how many devices were created; a device is its number
  devices,           \* those not deleted
  services,          \* whose services the router has; 0 for none
  givenBy,           \* per option: whose parameters its singleton or field has
  asked,             \* history: the options named since start()
  built              \* history: the device the last build returned, or 0

builder == <<isBuilderStarted, blueprint, asked>>
made == <<created, devices, services, givenBy, built>>
vars == <<wifi, builder, made>>

(* The order in which build() looks at its options.                        *)
BuildOrder ==
  <<"RxCallback", "TxCallback", "LoraRadio", "Display", "Wifi", "WifiAccessPoint", "DevicePortal">>

ASSUME SetupAssumption ==
  /\ Options \subseteq ToSet(BuildOrder) /\ MaxBuilds \in Nat
  /\ Networks \cap {"none", "bad", "good"} = {}

(* Legal parameters are a network for the connector and "good" otherwise.  *)
Arguments(o) == {"bad"} \cup IF o = "Wifi" THEN Networks ELSE {"good"}
Given(o) == blueprint[o] # "none"
Before(o) == {p \in Options : IndexFirstSubSeq(<<p>>, BuildOrder) < IndexFirstSubSeq(<<o>>, BuildOrder)}

Init ==
  /\ WifiInit
  /\ isBuilderStarted = FALSE
  /\ blueprint = [o \in Options |-> "none"]
  /\ created = 0 /\ devices = {}
  /\ services = 0
  /\ givenBy = [o \in Options |-> 0]
  /\ asked = {} /\ built = 0

(* Variant: options of an earlier device are kept.                         *)
StartKeepsBlueprint ==
  /\ isBuilderStarted' = TRUE
  /\ asked' = {}
  /\ UNCHANGED <<blueprint, made, wifi>>

Start ==
  /\ isBuilderStarted' = TRUE
  /\ blueprint' = [o \in Options |-> "none"]
  /\ asked' = {}
  /\ UNCHANGED <<made, wifi>>

With(o, argument) ==
  /\ blueprint' = [blueprint EXCEPT ![o] = argument]
  /\ asked' = asked \cup {o}
  /\ UNCHANGED <<isBuilderStarted, made, wifi>>

(* An option that stops the build: a bad argument, or a portal without an  *)
(* access point.                                                           *)
Fails(o) ==
  \/ blueprint[o] = "bad"
  \/ o = "DevicePortal" /\ Given(o) /\ ("WifiAccessPoint" \in Options => ~Given("WifiAccessPoint"))

(* The parameters of the options done reach their singletons.              *)
Apply(done, d) ==
  /\ givenBy' = [o \in Options |-> IF o \in done THEN d ELSE givenBy[o]]
  /\ IF "Wifi" \in done THEN SetParams(blueprint["Wifi"]) ELSE UNCHANGED connector
  /\ IF "WifiAccessPoint" \in done THEN SetAPParams ELSE UNCHANGED accessPoint

(* Variant: the device that could not be completed is returned.            *)
AbandonReturns(d) ==
  /\ built' = d
  /\ UNCHANGED <<isBuilderStarted, devices>>

(* destroyDevice and no device: the builder stays started, with what it    *)
(* was asked, and the application may call build() again.                  *)
Abandon(d) ==
  /\ built' = 0
  /\ UNCHANGED <<isBuilderStarted, devices>>

(* build() with a storage that begins.  The device's services go to the    *)
(* router first.                                                           *)
Build ==
  /\ isBuilderStarted /\ created < MaxBuilds
  /\ LET d == created + 1
     IN  /\ created' = d /\ services' = d
         /\ \/ /\ \A o \in Options : Given(o) => ~Fails(o)
               /\ Apply({o \in Options : Given(o)}, d)
               /\ isBuilderStarted' = FALSE
               /\ devices' = devices \cup {d} /\ built' = d
            \/ \E o \in Options :
                 /\ Given(o) /\ Fails(o) /\ \A p \in Before(o) : ~(Given(p) /\ Fails(p))
                 /\ Apply({p \in Before(o) : Given(p)}, d)
                 /\ Abandon(d)
  /\ UNCHANGED <<blueprint, asked>>

(* initialize() fails before the router hears of the device.               *)
BuildWithoutStorage ==
  /\ isBuilderStarted /\ created < MaxBuilds
  /\ created' = created + 1 /\ built' = 0
  /\ UNCHANGED <<builder, devices, services, givenBy, wifi>>

Next ==
  \/ Start \/ Build \/ BuildWithoutStorage
  \/ \E o \in Options : \E argument \in Arguments(o) : With(o, argument)
  \/ WifiNext /\ UNCHANGED <<builder, made>>

Spec == Init /\ [][Next]_vars

-----------------------------------------------------------------------------
(* Properties.                                                             *)

TypeOK ==
  /\ WifiTypeOK
  /\ isBuilderStarted \in BOOLEAN
  /\ \A o \in Options : blueprint[o] \in Arguments(o) \cup {"none"}
  /\ created \in 0 .. MaxBuilds /\ devices \subseteq 1 .. created
  /\ services \in 0 .. created /\ built \in devices \cup {0}
  /\ givenBy \in [Options -> 0 .. created]
  /\ asked \subseteq Options

(* A device that was built has the options named since start(), no others, *)
(* with its own parameters in the shared singletons, and the router works  *)
(* with its services, whatever builds failed before.  (A build that fails  *)
(* later takes singletons and router away from it.)                        *)
BuiltAsAsked ==
  [][built' # 0 /\ built' # built =>
       /\ {o \in Options : givenBy'[o] = built'} = asked
       /\ services' = built']_vars
===============================================================================
