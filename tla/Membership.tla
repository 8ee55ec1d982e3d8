------------------------------ MODULE Membership ------------------------------
(***************************************************************************)
(* What the inclusion protocol promises of the members of a network, with  *)
(* no messages, nonces, timeouts or storage.  A key is backed once a hub   *)
(* has verified that some device can use it.                               *)
(***************************************************************************)
CONSTANTS
  DEVICES,  \* the standard devices
  Keys,     \* the network keys
  NoKey     \* the key of a device that is not a member

VARIABLES
  status,   \* DeviceInclusionState of each device
  key,      \* the network key of each member
  backed    \* the keys under which a hub accepted a confirmation

vars == <<status, key, backed>>

Init ==
  /\ status = [d \in DEVICES |-> "NOT_INCLUDED"]
  /\ key = [d \in DEVICES |-> NoKey]
  /\ backed = {}

(* A device starts to join. *)
Start(d) ==
  /\ status[d] = "NOT_INCLUDED"
  /\ status' = [status EXCEPT ![d] = "INCLUSION_PENDING"]
  /\ UNCHANGED <<key, backed>>

(* A device gives up: a timeout or a factory reset. *)
Abandon(d) ==
  /\ status[d] = "INCLUSION_PENDING"
  /\ status' = [status EXCEPT ![d] = "NOT_INCLUDED"]
  /\ UNCHANGED <<key, backed>>

(* A hub verifies a confirmation made with some key. *)
Back ==
  /\ \E k \in backed' : k \in Keys /\ backed' = backed \cup {k}
  /\ UNCHANGED <<status, key>>

(* A device becomes a member. *)
Join(d, k) ==
  /\ status[d] = "INCLUSION_PENDING"
  /\ k \in backed
  /\ status' = [status EXCEPT ![d] = "INCLUDED"]
  /\ key' = [key EXCEPT ![d] = k]
  /\ UNCHANGED backed

(* A factory reset of a member. *)
Leave(d) ==
  /\ status[d] = "INCLUDED"
  /\ status' = [status EXCEPT ![d] = "NOT_INCLUDED"]
  /\ key' = [key EXCEPT ![d] = NoKey]
  /\ UNCHANGED backed

Next ==
  \/ \E d \in DEVICES : Start(d) \/ Abandon(d) \/ Leave(d)
  \/ Back
  \/ \E d \in DEVICES, k \in backed : Join(d, k)

Spec == Init /\ [][Next]_vars
=============================================================================
