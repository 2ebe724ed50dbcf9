---------------------------- MODULE MCRoutines ----------------------------
(* Small instances of Routines for TLC. *)
EXTENDS Routines

EveryInstant == <<1>>

Quiet == [k \in Disturbances |-> IF k = "create" THEN 1 ELSE 0]
Triggered == [Quiet EXCEPT !["message"] = 2, !["manual"] = 1]
Crashing  == [Quiet EXCEPT !["message"] = 1, !["crash"] = 1, !["fault"] = 1]
Changing  == [Quiet EXCEPT !["message"] = 1, !["edit"] = 1]
Broken    == [Quiet EXCEPT !["edit"] = 1, !["fault"] = 1]
Crowded   == [Quiet EXCEPT !["create"] = 2]
MixedUse  == {Triggered, Crashing, Changing, Broken, Crowded}
=============================================================================
