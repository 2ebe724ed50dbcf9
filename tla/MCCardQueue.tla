---------------------------- MODULE MCCardQueue ----------------------------
(* Small instances of CardQueue for TLC. *)
EXTENDS CardQueue

Everything == [refine |-> 1, restart |-> 2, dbfault |-> 1]
=============================================================================
