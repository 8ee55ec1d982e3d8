---------------------------- MODULE MCEEPROMStorage ----------------------------
(* Model-checking instances of the byte storage: two keys, values of one or *)
(* two cells.                                                               *)
EXTENDS EEPROMStorage

MCKeys == {1, 2}

(* Each key has values of one size, as all keys of DeviceStorage have; an   *)
(* empty value is refused.                                                  *)
FixedSizes == [k \in MCKeys |-> IF k = 1 THEN {<<5>>, <<6>>} ELSE {<<7>>, <<>>}]
=============================================================================
