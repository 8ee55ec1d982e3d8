--------------------------- MODULE MCMessageSecurity -------------------------
(* Model-checking instance of message security: nodes of one type, keys and  *)
(* data are interchangeable.                                                 *)
EXTENDS MessageSecurity, TLC

Symmetry == Permutations(HUBS) \cup Permutations(DEVICES) \cup Permutations(NetworkKeys)
=============================================================================
