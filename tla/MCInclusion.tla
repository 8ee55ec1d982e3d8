----------------------------- MODULE MCInclusion -----------------------------
(* Model-checking instances of the inclusion protocol.                      *)
EXTENDS Inclusion, TLC

(* The devices of an instance are interchangeable, and so are its hubs.     *)
Symmetry == Permutations(DEVICES) \cup Permutations(HUBS)
=============================================================================
