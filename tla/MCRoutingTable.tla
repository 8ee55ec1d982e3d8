---------------------------- MODULE MCRoutingTable ---------------------------
(* A node that hears three others, one of them over three relays at once,   *)
(* with room for two routes.                                                *)
EXTENDS RoutingTable

CONSTANTS a, b, c

Heard(source, lastHop, hopCount, rssi) ==
  [source |-> source, lastHop |-> lastHop, hopCount |-> hopCount, rssi |-> rssi]

(* Any two of the ways to a are within reach of the thresholds.  One       *)
(* packet has come too far to be worth a route, and the RSSI of the last   *)
(* one does not fit.                                                       *)
SomePackets ==
  {Heard(a, a, 3, -100), Heard(a, b, 2, -106), Heard(a, c, 1, -112),
   Heard(b, b, 1, -90), Heard(b, a, 6, -60), Heard(c, c, 1, -130)}

(* Memory that holds nothing, or by chance the route of a device.          *)
SomeLeftovers ==
  {[destId |-> d, nextHopId |-> NoDevice, hops |-> 3, rssi |-> -110,
    lastSeen |-> 0, active |-> FALSE] : d \in {NoDevice, a}}
=============================================================================
