--------------------------- MODULE MCAgentThreads ---------------------------
(* Instances of AgentThreads for TLC. *)
EXTENDS AgentThreads

\* Three chat windows: "low" and "up" send the same thread id, in canonical form
\* and in the upper case of Swift's uuidString; "cli" sends none.
MCParse == [e \in Ext |-> IF e = "cli" THEN NoThread ELSE "uuid"]
MCCanon == [e \in Ext |-> IF e = "cli" THEN "cli" ELSE "low"]

\* A tool without need of approval, and two commands of the shell, one of them
\* on the list of commands that always ask.
MCToolOf == [c \in Calls |-> IF c = "read" THEN "read" ELSE "shell"]
MCBatches == {<<"read", "sh">>, <<"rm">>}
=============================================================================
