---------------------------- MODULE MCAgentTools ----------------------------
(***************************************************************************)
(* Two agents, the chat agent and a todo's, on a memory file and two       *)
(* seeded files.                                                           *)
(***************************************************************************)
EXTENDS AgentTools

CONSTANTS chat, todo

MCCallers == {chat, todo}
MCFiles == {"MEMORY.md", "WORKER.md", "AGENTS.md"}
MCSeeds == <<"AGENTS.md", "WORKER.md">>
MCProtected == {"AGENTS.md"}

\* Commands: silent, too talkative, with a short limit, with a child process.
Command(work, out, asked, forks) ==
    [tool |-> "shell", refused |-> FALSE, file |-> "MEMORY.md", work |-> work,
     out |-> out, err |-> 0, asked |-> asked, forks |-> forks]

MCCalls ==
    {[tool |-> "memory_write", file |-> "MEMORY.md", append |-> p] : p \in BOOLEAN}
    \cup {[tool |-> "memory_write", file |-> "AGENTS.md", append |-> TRUE]}
    \cup {[tool |-> "write_file", file |-> "WORKER.md", empty |-> e] : e \in BOOLEAN}
    \cup {[tool |-> "apply_patch", file |-> "MEMORY.md", all |-> e, empty |-> e] : e \in BOOLEAN}
    \cup {[tool |-> "apply_patch", file |-> "WORKER.md", all |-> FALSE, empty |-> TRUE]}
    \cup {[tool |-> "memory_read", file |-> "MEMORY.md", offset |-> o] : o \in {2, 3}}
    \cup {[tool |-> "read_file", file |-> "MEMORY.md", offset |-> 0]}
    \cup {Command(0, 2, None, FALSE), Command(1, 3, None, FALSE),
          Command(2, 0, 1, FALSE), Command(3, 0, 1, TRUE)}
    \cup {[Command(3, 0, None, FALSE) EXCEPT !.file = "WORKER.md"]}
    \cup {[Command(0, 0, None, FALSE) EXCEPT !.refused = TRUE]}
=============================================================================
