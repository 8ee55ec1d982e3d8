----------------------------- MODULE RouteCache ------------------------------
(* What a routing table promises: a partial map from destinations to next   *)
(* hops, of bounded size.  A destination that is learnt displaces another   *)
(* one only when there is no room, and never more than one.                 *)
EXTENDS Naturals, FiniteSets

CONSTANTS Devices, NoDevice, Size

VARIABLE hop  \* per destination: the next hop, or NoDevice

Known == {d \in Devices : hop[d] # NoDevice}

Init == hop = [d \in Devices |-> NoDevice]

Learn(d, h) ==
  /\ d \in Known \/ Cardinality(Known) < Size
  /\ hop' = [hop EXCEPT ![d] = h]

Replace(d, h, e) ==
  /\ d \notin Known /\ e \in Known /\ Cardinality(Known) = Size
  /\ hop' = [hop EXCEPT ![d] = h, ![e] = NoDevice]

Forget(d) == hop' = [hop EXCEPT ![d] = NoDevice]

Next ==
  \E d \in Devices :
    \/ \E h \in Devices : Learn(d, h) \/ \E e \in Devices : Replace(d, h, e)
    \/ Forget(d)

Spec == Init /\ [][Next]_hop
==============================================================================
