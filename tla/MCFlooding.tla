------------------------------ MODULE MCFlooding ------------------------------
(* Model-checking instances of flooding: small meshes and the messages sent *)
(* over them.                                                               *)
EXTENDS Flooding, TLC

CONSTANTS a, r1, r2, h, m1, m2

Links(edges) == [n \in Nodes |-> {x \in Nodes : {n, x} \in edges}]

(* A device and a hub, connected over either of two relays.                 *)
Diamond == Links({{a, r1}, {a, r2}, {r1, r2}, {r1, h}, {r2, h}})

(* ... over two relays in a row.                                            *)
Line == Links({{a, r1}, {r1, r2}, {r2, h}})

(* The device and the hub send each other a message.                        *)
BothWays == m1 :> a @@ m2 :> h
ToEachOther == m1 :> h @@ m2 :> a
ToAll == m1 :> Broadcast @@ m2 :> Broadcast

Mesh(links, target, capacity, faults) ==
  [neighbours |-> links, target |-> target, capacity |-> capacity,
   lossy |-> faults, sendFaults |-> faults]

(* Trackers overflow only in the line, where every message has to be        *)
(* relayed by both relays.                                                  *)
FaultyDiamond == Mesh(Diamond, ToEachOther, 2, TRUE)
QuietLine == Mesh(Line, ToAll, 1, FALSE)
AllMeshes == {FaultyDiamond, QuietLine}
=============================================================================
