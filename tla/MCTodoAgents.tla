---------------------------- MODULE MCTodoAgents ----------------------------
(***************************************************************************)
(* Small instances of TodoAgents for TLC.  A scenario names the            *)
(* disturbances that may happen and how often; all others do not.          *)
(***************************************************************************)
EXTENDS TodoAgents, TLC

Once(S) == [d \in Disturbances |-> IF d \in S THEN 1 ELSE 0]

\* Scenarios in which every queued todo keeps its ticket.
Calm == {[Once({}) EXCEPT !["approval"] = 2],
         Once({"approval", "restart", "ctrlc"}),
         Once({"followup", "restart", "panic"}),
         Once({"empty"})}

\* Scenarios in which the periodic recovery must help.
Faults == {Once({"panic", "followup"}), Once({"dbfault"}), Once({"edit"}),
           Once({"approval"})}

\* Agent and card identities are interchangeable.
Symmetry == Permutations(Agents) \cup Permutations(Cards)
=============================================================================
