----------------------------- MODULE MCTodoBoard ----------------------------
(* Small instances of TodoBoard for TLC. *)
EXTENDS TodoBoard

MCEdits == {[status |-> "Completed"], [status |-> "Created", title |-> 1]}
MCDocEdits == {[content |-> 1], [title |-> 1]}
=============================================================================
