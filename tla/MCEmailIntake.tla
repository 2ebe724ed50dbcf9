--------------------------- MODULE MCEmailIntake ---------------------------
(* Small instances of EmailIntake for TLC. *)
EXTENDS EmailIntake

Once(S) == [d \in Disturbances |-> IF d \in S THEN 1 ELSE 0]

Everything == [Once(Disturbances) EXCEPT !["restart"] = 2]
=============================================================================
