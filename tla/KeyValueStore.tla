----------------------------- MODULE KeyValueStore -----------------------------
(***************************************************************************)
(* What IByteStorage promises: a map from keys to values, of which the     *)
(* part that was committed survives a restart.                             *)
(***************************************************************************)
CONSTANTS Keys, Values, Absent

VARIABLES
  open,     \* between begin() and end()
  live,     \* what read() returns
  durable   \* what it will return after a restart

vars == <<open, live, durable>>

Empty == [k \in Keys |-> Absent]

Init == open = FALSE /\ live = Empty /\ durable = Empty

(* Every call leaves what is durable alone or makes it what is live after  *)
(* the call; opening and a crash make live what is durable.                *)
Reload(opened) == open' = opened /\ live' = durable /\ durable' = durable
Saves == durable' \in {durable, live'}

Open == ~open /\ Reload(TRUE)
Crash == Reload(FALSE)
Close == open /\ ~open' /\ live' = live /\ Saves

(* One key is set or deleted.                                              *)
Change(k) ==
  /\ open /\ open'
  /\ live'[k] \in Values[k] \cup {Absent}
  /\ live' = [live EXCEPT ![k] = live'[k]]
  /\ live'[k] = Absent => durable' = durable
  /\ Saves

Save == open /\ open' /\ live' = live /\ Saves
Wipe == open /\ open' /\ live' = Empty /\ Saves

Next == Open \/ Crash \/ Close \/ Save \/ Wipe \/ \E k \in Keys : Change(k)

Spec == Init /\ [][Next]_vars
=============================================================================
