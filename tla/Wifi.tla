--------------------------------- MODULE Wifi ---------------------------------
(***************************************************************************)
(* WifiConnector and WifiAccessPoint, the two singletons on top of the     *)
(* wifi stack.  Each remembers what it was told and whether it is up; the  *)
(* stack knows what is really up, and a link comes and goes by itself.     *)
(* A network stands for its SSID and its password.                         *)
(***************************************************************************)
EXTENDS Naturals

CONSTANTS
  Networks,  \* networks that may be in range, with credentials of legal size
  NoNetwork  \* empty credentials

VARIABLES
  params, connected,   \* of the connector
  begun, link,         \* of the stack: the network it was given last; the one it is on
  apParams, started,   \* of the access point
  softAP,              \* of the stack: it is an access point
  disturbed            \* history: the link changed behind the connector's back

connector == <<params, connected, begun, link, disturbed>>
accessPoint == <<apParams, started, softAP>>
wifi == <<connector, accessPoint>>

ASSUME WifiAssumption == NoNetwork \notin Networks

WifiTypeOK ==
  /\ params \in Networks \cup {NoNetwork} /\ connected \in BOOLEAN
  /\ begun \in Networks \cup {NoNetwork} /\ link \in Networks \cup {NoNetwork}
  /\ apParams \in {"unset", "set", "cleared"} /\ started \in BOOLEAN
  /\ softAP \in BOOLEAN /\ disturbed \in BOOLEAN

WifiInit ==
  /\ params = NoNetwork /\ connected = FALSE
  /\ begun = NoNetwork /\ link = NoNetwork
  /\ apParams = "unset" /\ started = FALSE
  /\ softAP = FALSE /\ disturbed = FALSE

-----------------------------------------------------------------------------
(* The connector.                                                          *)

(* From the builder, at any time: nothing asks whether there is a link.    *)
SetParams(n) ==
  /\ params' = n
  /\ disturbed' = (disturbed \/ (connected /\ n # params))
  /\ UNCHANGED <<connected, begun, link>>

(* Variant: the network that was connected to is not remembered.           *)
ConnectedToForgets(n) ==
  /\ connected' = TRUE /\ begun' = n /\ link' = n /\ disturbed' = FALSE
  /\ UNCHANGED params

ConnectedTo(n) ==
  /\ connected' = TRUE /\ params' = n /\ begun' = n /\ link' = n /\ disturbed' = FALSE

(* The wait is over before there is a link; the old one is gone.           *)
NotConnectedTo(n) ==
  /\ begun' = n /\ link' = NoNetwork
  /\ disturbed' = (disturbed \/ connected)
  /\ UNCHANGED <<params, connected>>

(* connect, with a network or, as reconnect does, with the one it has.     *)
(* Refused parameters, "already connected" and a network that is not in    *)
(* the scan change nothing.                                                *)
Connect(n) ==
  /\ LET target == IF n = NoNetwork THEN params ELSE n
     IN  IF target = NoNetwork \/ (target = params /\ connected)
           THEN UNCHANGED connector
           ELSE ConnectedTo(target) \/ NotConnectedTo(target) \/ UNCHANGED connector
  /\ UNCHANGED accessPoint

Disconnect ==
  /\ \/ /\ connected' = FALSE /\ params' = NoNetwork
        /\ begun' = NoNetwork /\ link' = NoNetwork /\ disturbed' = FALSE
     \/ UNCHANGED connector
  /\ UNCHANGED accessPoint

(* The stack loses its network, and finds it again or for the first time.  *)
LinkDrops ==
  /\ link # NoNetwork /\ link' = NoNetwork
  /\ disturbed' = (disturbed \/ connected)
  /\ UNCHANGED <<params, connected, begun, accessPoint>>

LinkReturns ==
  /\ link = NoNetwork /\ begun # NoNetwork /\ link' = begun
  /\ UNCHANGED <<params, connected, begun, disturbed, accessPoint>>

-----------------------------------------------------------------------------
(* The access point.                                                       *)

SetAPParams == apParams' = "set" /\ UNCHANGED <<started, softAP>>

(* setup(): parameters of its own, or those it has, which it only checks.  *)
SetupAP ==
  /\ ~started
  /\ SetAPParams \/ UNCHANGED accessPoint
  /\ UNCHANGED connector

(* Variant: the access point counts as started before the stack is asked.  *)
StartAPEarly ==
  /\ ~started /\ apParams # "unset"
  /\ started' = TRUE /\ softAP' \in BOOLEAN
  /\ UNCHANGED <<apParams, connector>>

(* start(): an address that was never set does not parse.  The stack takes *)
(* no empty name and may refuse any of its calls, but what it was told by  *)
(* then stays: it may be an access point that does not count as started.   *)
StartAP ==
  /\ ~started /\ apParams # "unset"
  /\ \/ apParams = "set" /\ started' = TRUE /\ softAP' = TRUE
     \/ UNCHANGED started /\ softAP' \in {softAP, TRUE}
  /\ UNCHANGED <<apParams, connector>>

StopAP ==
  /\ started
  /\ \/ started' = FALSE /\ softAP' = FALSE /\ apParams' = "cleared"
     \/ UNCHANGED accessPoint
  /\ UNCHANGED connector

WifiNext ==
  \/ \E n \in Networks \cup {NoNetwork} : Connect(n)
  \/ Disconnect \/ LinkDrops \/ LinkReturns
  \/ SetupAP \/ StartAP \/ StopAP

-----------------------------------------------------------------------------
(* What the singletons take for up is up: the connector's network as long  *)
(* as no link was lost, no switch to another network failed and no builder *)
(* gave other parameters while it was connected; the access point always.  *)
(* (connect answers "already connected" by these two variables alone.)     *)
WifiStateIsKnown ==
  /\ connected /\ ~disturbed => link = params
  /\ started => softAP /\ apParams = "set"
===============================================================================
