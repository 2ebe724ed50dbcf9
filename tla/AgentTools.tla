----------------------------- MODULE AgentTools -----------------------------
(***************************************************************************)
(* The tools that agents run on the workspace and the machine: memory_read *)
(* and memory_write, read_file, write_file and apply_patch, and shell.     *)
(* The chat agent and the todo agents call them at the same time on the    *)
(* same files, and nothing locks a file.                                   *)
(*                                                                         *)
(* A file is a sequence of lines; the line a call writes is the call's     *)
(* number.  fs::write opens the file, which truncates it, and then writes  *)
(* from the start: two steps, and either can fail with the error returned. *)
(* Time is counted in units in which a tool call may take OuterLimit; a    *)
(* command works, prints, and then appends its line to a file.             *)
(***************************************************************************)
EXTENDS Naturals, Sequences, SequencesExt, FiniteSetsExt, Sift

CONSTANTS
    Callers, Chat, \* the agents; the one that runs in main itself
    Files,         \* paths
    Seeds,         \* the files ensure_dirs seeds, in its order
    Protected,     \* PROTECTED_IDENTITY_FILES
    Calls,         \* what the models may ask for
    MaxCalls,      \* bound: tool calls
    MaxCrashes,    \* bound: ends of the program
    MaxReadSize,   \* MAX_READ_SIZE of read_file, in lines
    Pipe,          \* what a pipe holds (64 KB)
    OuterLimit,    \* execution_timeout (60 s)
    DefaultLimit,  \* DEFAULT_TIMEOUT of shell (120 s)
    None

ASSUME LimitAssumption ==
    {Pipe, OuterLimit, DefaultLimit} \subseteq Nat \ {0} /\ {MaxCalls, MaxReadSize} \subseteq Nat
ASSUME SeedAssumption == Chat \in Callers /\ Seeds \in Seq(Files)

\* What the parsers of the tools' parameters let through.
ASSUME CallAssumption ==
    \A c \in Calls :
        /\ c.tool \in {"memory_write", "write_file", "apply_patch", "memory_read", "read_file",
                       "shell"}
        /\ c.file \in Files
        /\ c.tool = "memory_write" => c.append \in BOOLEAN
        /\ c.tool \in {"write_file", "apply_patch"} => c.empty \in BOOLEAN
        /\ c.tool \in {"memory_read", "read_file"} => c.offset \in Nat
        /\ c.tool = "shell" => /\ {c.work, c.out, c.err} \subseteq Nat
                              /\ c.asked \in Nat \cup {None}
                              /\ c.refused \in BOOLEAN /\ c.forks \in BOOLEAN

ASSUME NoneAssumption ==
    None \notin Callers \cup Seq(Nat)
                \cup [state : {"attached", "loose", "dead", "exited"}, left : Nat, call : Calls]

VARIABLES
    files,      \* contents, or None
    boot,       \* the seeds ensure_dirs has not looked at; <<>> once the agents run
    seeding,    \* it has created the first of them and not written it yet
    agent,      \* the agents and the calls they wait for
    proc,       \* the command each shell call has started
    made,       \* the calls so far
    crashes,
    kept,       \* history: lines reported as written and not replaced or cut off since
    disturbed,  \* history: files that two calls worked on at once
    torn,       \* history: files a crash or a failing write has left truncated
    blank,      \* history: files whose last write had nothing to put there
    told,       \* history: what each call returned
    late,       \* history: commands that acted after they were reported dead
    known,      \* history: lines of each file, as last told to each agent
    panics      \* history: reads that panicked

disk == <<files, kept, disturbed, torn, blank>>
toolVars == <<disk, boot, seeding, agent, proc, made, crashes, told, late, known, panics>>

Ids == 1 .. MaxCalls
Running == boot = <<>>
Idle == [pc |-> "idle"]

Fresh == [a \in Callers |-> [f \in Files |-> [lines |-> 0, stale |-> FALSE]]]

ToolsInit ==
    /\ files = [f \in Files |-> None] /\ boot = Seeds /\ seeding = FALSE
    /\ agent = [a \in Callers |-> Idle]
    /\ proc = [i \in Ids |-> None] /\ told = [i \in Ids |-> "none"]
    /\ made = 0 /\ crashes = 0
    /\ kept = {} /\ disturbed = {} /\ torn = {} /\ blank = {} /\ late = {} /\ panics = {}
    /\ known = Fresh

-----------------------------------------------------------------------------
(* Workspace::ensure_dirs *)

\* Mutant: creates the file and leaves it empty.
Seed_Touch ==
    /\ ~Running /\ ~seeding
    /\ boot' = Tail(boot)
    /\ files' = [files EXCEPT ![Head(boot)] = IF @ = None THEN <<>> ELSE @]
    /\ UNCHANGED <<seeding, agent, proc, made, crashes, kept, disturbed, torn, blank, told, late, known, panics>>

\* A file that exists is left alone, whatever it holds.
Seed ==
    /\ ~Running /\ ~seeding
    /\ IF files[Head(boot)] = None
         THEN /\ files' = [files EXCEPT ![Head(boot)] = <<>>]
              /\ seeding' = TRUE /\ UNCHANGED boot
         ELSE boot' = Tail(boot) /\ UNCHANGED <<files, seeding>>
    /\ UNCHANGED <<agent, proc, made, crashes, kept, disturbed, torn, blank, told, late, known, panics>>

\* What is in a file after a write of s from its start.
Overlay(s, old) == s \o SubSeq(old, Len(s) + 1, Len(old))

SeedWrite ==
    /\ seeding
    /\ files' = [files EXCEPT ![Head(boot)] = Overlay(<<0>>, @)]
    /\ seeding' = FALSE /\ boot' = Tail(boot)
    /\ UNCHANGED <<agent, proc, made, crashes, kept, disturbed, torn, blank, told, late, known, panics>>

\* A directory or a file that cannot be created or written: main warns and goes on
\* without the other seeds.
SeedFails ==
    /\ ~Running
    /\ seeding \/ boot = Seeds \/ files[Head(boot)] = None
    /\ torn' = IF seeding THEN torn \cup {Head(boot)} ELSE torn
    /\ boot' = <<>> /\ seeding' = FALSE
    /\ UNCHANGED <<files, agent, proc, made, crashes, kept, disturbed, blank, told, late, known, panics>>

-----------------------------------------------------------------------------
(* execute_chat_tool *)

On(a, pcs) == agent[a].pc \in pcs
File(a) == agent[a].call.file
Id(a) == agent[a].id

\* Another agent has opened f, or has read what it will write there.
Busy(f, a) == \E b \in Callers \ {a} : On(b, {"truncate", "write"}) /\ File(b) = f

\* The call has no line to write: write_file of "", apply_patch with "" as its new text.
WritesNothing(c) == c.tool \in {"write_file", "apply_patch"} /\ c.empty

Disturb(f, a) == disturbed' = IF Busy(f, a) THEN disturbed \cup {f} ELSE disturbed

Stale(f) == known' = [a \in Callers |-> [known[a] EXCEPT ![f].stale = TRUE]]

\* The call returns r to the agent's loop.
Return(a, r) ==
    /\ agent' = [agent EXCEPT ![a] = Idle]
    /\ told' = [told EXCEPT ![Id(a)] = r]

\* Where a call starts, once its parameters are read.
Entry(c) ==
    CASE c.tool = "memory_write" -> IF c.file \in Protected THEN "refused"
                                    ELSE IF c.append THEN "append" ELSE "truncate"
      [] c.tool = "write_file" -> "truncate"
      [] c.tool = "apply_patch" -> "patch"
      [] c.tool \in {"memory_read", "read_file"} -> "look"
      [] c.tool = "shell" -> IF c.refused THEN "refused" ELSE "spawn"

\* A call that has started under number i.
Started(c, i) ==
    [pc |-> Entry(c), call |-> c, id |-> i, age |-> 0,
     buf |-> IF WritesNothing(c) THEN <<>> ELSE <<i>>]

Begin(a, c) ==
    /\ Running /\ On(a, {"idle"}) /\ made < MaxCalls
    /\ made' = made + 1
    /\ IF Entry(c) = "refused"
         THEN told' = [told EXCEPT ![made + 1] = "error"] /\ UNCHANGED agent
         ELSE agent' = [agent EXCEPT ![a] = Started(c, made + 1)] /\ UNCHANGED told
    /\ UNCHANGED <<disk, boot, seeding, proc, crashes, late, known, panics>>

-----------------------------------------------------------------------------
(* Files *)

Content(f) == IF files[f] = None THEN <<>> ELSE files[f]

\* Mutant: an append that does not keep what it read.
AppendRead_Drops(a) ==
    /\ On(a, {"append"})
    /\ agent' = [agent EXCEPT ![a].pc = "truncate", ![a].buf = <<Id(a)>>]
    /\ Disturb(File(a), a)
    /\ UNCHANGED <<files, kept, torn, blank, boot, seeding, proc, made, crashes, told, late, known, panics>>

\* Workspace::append reads the whole file, if there is one, to write it again.
AppendRead(a) ==
    /\ On(a, {"append"})
    /\ agent' = [agent EXCEPT ![a].pc = "truncate", ![a].buf = Content(File(a)) \o <<Id(a)>>]
    /\ Disturb(File(a), a)
    /\ UNCHANGED <<files, kept, torn, blank, boot, seeding, proc, made, crashes, told, late, known, panics>>

\* apply_patch: replaces the first line that matches, or all.
Replaced(s, old, new, all) ==
    [i \in 1 .. Len(s) |->
       IF s[i] = old /\ (all \/ \A j \in 1 .. i - 1 : s[j] # old) THEN new ELSE s[i]]

\* With "" as the new text they are gone.
Removed(s, old, all) ==
    IF all THEN Sift(s, Nat \ {old})
    ELSE LET i == Min({j \in 1 .. Len(s) : s[j] = old})
         IN SubSeq(s, 1, i - 1) \o SubSeq(s, i + 1, Len(s))

Patched(s, c, old, new) ==
    IF WritesNothing(c) THEN Removed(s, old, c.all) ELSE Replaced(s, old, new, c.all)

PatchRead(a, old) ==
    /\ On(a, {"patch"})
    /\ IF old \in Range(Content(File(a)))
         THEN /\ agent' = [agent EXCEPT ![a].pc = "truncate",
                             ![a].buf = Patched(Content(File(a)), agent[a].call, old, Id(a))]
              /\ Disturb(File(a), a)
              /\ kept' = kept \ {<<File(a), old>>}
              /\ UNCHANGED told
         ELSE Return(a, "error") /\ UNCHANGED <<kept, disturbed>>
    /\ UNCHANGED <<files, torn, blank, boot, seeding, proc, made, crashes, late, known, panics>>

\* fs::write opens the file.
Truncate(a) ==
    /\ On(a, {"truncate"})
    /\ files' = [files EXCEPT ![File(a)] = <<>>]
    /\ agent' = [agent EXCEPT ![a].pc = "write"]
    /\ Disturb(File(a), a) /\ Stale(File(a))
    /\ kept' = IF Entry(agent[a].call) = "truncate" THEN {p \in kept : p[1] # File(a)} ELSE kept
    /\ UNCHANGED <<torn, blank, boot, seeding, proc, made, crashes, told, late, panics>>

Write(a) ==
    /\ On(a, {"write"})
    /\ files' = [files EXCEPT ![File(a)] = Overlay(agent[a].buf, @)]
    /\ Disturb(File(a), a) /\ Stale(File(a))
    /\ kept' = IF WritesNothing(agent[a].call) THEN kept ELSE kept \cup {<<File(a), Id(a)>>}
    /\ torn' = torn \ {File(a)}
    /\ blank' = IF agent[a].buf = <<>> THEN blank \cup {File(a)} ELSE blank \ {File(a)}
    /\ Return(a, "ok")
    /\ UNCHANGED <<boot, seeding, proc, made, crashes, late, panics>>

\* A file, or its directory, that cannot be created, opened or read: the error is
\* returned and the file is as it was.
OpenFails(a) ==
    /\ On(a, {"append", "patch", "truncate", "look"})
    /\ Return(a, "error")
    /\ UNCHANGED <<disk, boot, seeding, proc, made, crashes, late, known, panics>>

\* Mutant: the error of the write is not looked at.
WriteFails_Ignored(a, n) ==
    /\ On(a, {"write"}) /\ n < Len(agent[a].buf)
    /\ files' = [files EXCEPT ![File(a)] = Overlay(SubSeq(agent[a].buf, 1, n), @)]
    /\ Disturb(File(a), a) /\ Stale(File(a))
    /\ kept' = IF WritesNothing(agent[a].call) THEN kept ELSE kept \cup {<<File(a), Id(a)>>}
    /\ torn' = torn \cup {File(a)}
    /\ Return(a, "ok")
    /\ UNCHANGED <<blank, boot, seeding, proc, made, crashes, late, panics>>

\* A write that fails after its first n lines, as on a full disk: the error is returned
\* and the file stays cut; what it held is lost.
WriteFails(a, n) ==
    /\ On(a, {"write"}) /\ n < Len(agent[a].buf)
    /\ files' = [files EXCEPT ![File(a)] = Overlay(SubSeq(agent[a].buf, 1, n), @)]
    /\ Disturb(File(a), a) /\ Stale(File(a))
    /\ kept' = {p \in kept : p[1] # File(a)}
    /\ torn' = torn \cup {File(a)}
    /\ Return(a, "error")
    /\ UNCHANGED <<blank, boot, seeding, proc, made, crashes, late, panics>>

\* The first of the lines a read shows, counted from 0.
StartLine(offset) == IF offset > 0 THEN offset - 1 ELSE 0

\* Mutant: takes the offset as it is.
ReadPanics_OffByOne(offset, total) == offset > total

\* lines[start_line..end_line]: a range that starts behind the last line panics,
\* whatever the limit, since end_line is cut to the number of lines.
ReadPanics(offset, total) == StartLine(offset) > total

\* memory_read and read_file.  Only read_file has a limit on the size, and checks
\* it before it looks at offset and limit.
ReadFails(a) == \/ files[File(a)] = None
                \/ agent[a].call.tool = "read_file" /\ Len(files[File(a)]) > MaxReadSize

Read(a) ==
    /\ On(a, {"look"})
    /\ ~ReadFails(a) => ~ReadPanics(agent[a].call.offset, Len(files[File(a)]))
    /\ known' = IF ReadFails(a) THEN known
                ELSE [known EXCEPT ![a][File(a)] = [lines |-> Len(files[File(a)]), stale |-> FALSE]]
    /\ Return(a, IF ReadFails(a) THEN "error" ELSE "ok")
    /\ UNCHANGED <<disk, boot, seeding, proc, made, crashes, late, panics>>

-----------------------------------------------------------------------------
(* The end of the program *)

\* Calls are dropped where they are; commands go on with nobody to read from them.
Down ==
    LET open == {File(a) : a \in {b \in Callers : On(b, {"write"})}}
                  \cup (IF seeding THEN {Head(boot)} ELSE {})
    IN /\ torn' = torn \cup open
       /\ kept' = {p \in kept : p[1] \notin open}
       /\ agent' = [a \in Callers |-> Idle]
       /\ proc' = [i \in Ids |-> IF proc[i] # None /\ proc[i].state = "attached"
                                   THEN [proc[i] EXCEPT !.state = "loose"] ELSE proc[i]]
       /\ boot' = Seeds /\ seeding' = FALSE
       /\ known' = Fresh
       /\ UNCHANGED <<files, disturbed, blank, made, told, late>>

Crash ==
    /\ crashes < MaxCrashes /\ crashes' = crashes + 1
    /\ Down /\ UNCHANGED panics

\* The panic of a read unwinds the task it runs in: the program's own for the chat
\* agent, that of the todo for another.
ReadPanic(a) ==
    /\ On(a, {"look"}) /\ ~ReadFails(a)
    /\ ReadPanics(agent[a].call.offset, Len(files[File(a)]))
    /\ panics' = panics \cup {[offset |-> agent[a].call.offset, known |-> known[a][File(a)]]}
    /\ IF a = Chat
         THEN crashes < MaxCrashes /\ crashes' = crashes + 1 /\ Down
         ELSE /\ agent' = [agent EXCEPT ![a] = [pc |-> "dead"]]
              /\ UNCHANGED <<disk, boot, seeding, proc, made, crashes, told, late, known>>

-----------------------------------------------------------------------------
(* shell *)

Spawn(a) ==
    /\ On(a, {"spawn"})
    /\ agent' = [agent EXCEPT ![a].pc = "wait"]
    /\ proc' = [proc EXCEPT ![Id(a)] = [state |-> "attached", left |-> agent[a].call.work, call |-> agent[a].call]]
    /\ UNCHANGED <<disk, boot, seeding, made, crashes, told, late, known, panics>>

Alive(i) == proc[i] # None /\ proc[i].state \in {"attached", "loose"}

\* Mutant: a full pipe blocks its writer.
Stuck_Full(i) == LET p == proc[i] IN
    p.state = "attached" /\ (p.call.out >= Pipe \/ p.call.err >= Pipe)

\* It has more to print than its pipe holds, and wait() comes before the reads.
Stuck(i) == LET p == proc[i] IN
    p.state = "attached" /\ (p.call.out > Pipe \/ p.call.err > Pipe)

CanEnd(i) == Alive(i) /\ proc[i].left = 0 /\ ~Stuck(i)

\* The command prints and then appends its line; printing to a pipe that nobody
\* holds any more kills it.
CommandEnds(i) ==
    /\ CanEnd(i)
    /\ LET p == proc[i]
           f == p.call.file
           sigpipe == p.state = "loose" /\ p.call.out + p.call.err > 0
       IN IF sigpipe
            THEN /\ proc' = [proc EXCEPT ![i].state = "dead"]
                 /\ UNCHANGED <<files, kept, disturbed, late, known>>
            ELSE /\ proc' = [proc EXCEPT ![i].state = "exited"]
                 /\ files' = [files EXCEPT ![f] = Append(Content(f), i)]
                 /\ kept' = kept \cup {<<f, i>>}
                 /\ disturbed' = IF Busy(f, None) \/ (seeding /\ f = Head(boot))
                                   THEN disturbed \cup {f} ELSE disturbed
                 /\ late' = IF told[i] = "timeout" THEN late \cup {i} ELSE late
                 /\ Stale(f)
    /\ UNCHANGED <<torn, blank, boot, seeding, agent, made, crashes, told, panics>>

\* What execute_command makes of the timeout parameter.
Limit(c) == IF c.asked = None THEN DefaultLimit ELSE c.asked

Waits(a) == On(a, {"wait"}) /\ proc[Id(a)].state = "attached"

\* Time passes only while nobody has anything to do about a command.
Tick ==
    /\ \E i \in Ids : Alive(i) /\ ~(proc[i].state = "loose" /\ proc[i].left = 0)
    /\ \A i \in Ids : ~CanEnd(i)
    /\ \A a \in Callers : On(a, {"wait"}) =>
         Waits(a) /\ agent[a].age < OuterLimit /\ agent[a].age < Limit(agent[a].call)
    /\ proc' = [i \in Ids |-> IF Alive(i) /\ proc[i].left > 0
                                THEN [proc[i] EXCEPT !.left = @ - 1] ELSE proc[i]]
    /\ agent' = [a \in Callers |-> IF On(a, {"wait"}) THEN [agent[a] EXCEPT !.age = @ + 1]
                                  ELSE agent[a]]
    /\ UNCHANGED <<disk, boot, seeding, made, crashes, told, late, known, panics>>

ShellDone(a) ==
    /\ On(a, {"wait"}) /\ proc[Id(a)].state = "exited"
    /\ Return(a, "ok")
    /\ UNCHANGED <<disk, boot, seeding, proc, made, crashes, late, known, panics>>

\* Mutant: the command is reported dead and lives.
InnerTimeout_NoKill(a) ==
    /\ Waits(a) /\ agent[a].age >= Limit(agent[a].call)
    /\ proc' = [proc EXCEPT ![Id(a)].state = "loose"]
    /\ Return(a, "timeout")
    /\ UNCHANGED <<disk, boot, seeding, made, crashes, late, known, panics>>

\* The limit of shell: the shell is killed, a command it has started is not.
InnerTimeout(a) ==
    /\ Waits(a) /\ agent[a].age >= Limit(agent[a].call)
    /\ proc' = [proc EXCEPT ![Id(a)].state = IF agent[a].call.forks THEN "loose" ELSE "dead"]
    /\ Return(a, "timeout")
    /\ UNCHANGED <<disk, boot, seeding, made, crashes, late, known, panics>>

\* The limit of execute_chat_tool: the future is dropped, the child with it, and
\* without kill_on_drop the command goes on.
OuterTimeout(a) ==
    /\ Waits(a) /\ agent[a].age >= OuterLimit
    /\ proc' = [proc EXCEPT ![Id(a)].state = "loose"]
    /\ Return(a, "timeout")
    /\ UNCHANGED <<disk, boot, seeding, made, crashes, late, known, panics>>

-----------------------------------------------------------------------------
ToolsNext ==
    \/ Seed \/ SeedWrite \/ SeedFails \/ Tick \/ Crash
    \/ \E a \in Callers :
         \/ \E c \in Calls : Begin(a, c)
         \/ AppendRead(a) \/ Truncate(a) \/ Write(a) \/ Read(a) \/ ReadPanic(a)
         \/ OpenFails(a) \/ \E n \in 0 .. MaxCalls : WriteFails(a, n)
         \/ \E old \in Ids \cup {0} : PatchRead(a, old)
         \/ Spawn(a) \/ ShellDone(a) \/ InnerTimeout(a) \/ OuterTimeout(a)
    \/ \E i \in Ids : CommandEnds(i)

ToolsSpec == ToolsInit /\ [][ToolsNext]_toolVars

-----------------------------------------------------------------------------
(* Properties *)

\* Workspace::append, apply_patch and fs::write: a line that a call reported as
\* written stays in its file until a call replaces or removes it, or a crash or a
\* failing write cuts the file, unless two calls worked on the file at once (the one
\* hazard that needs two agents: each rewrites the file from what it read).
LostLineHasACause ==
    \A p \in kept :
        \/ p[2] \in Range(Content(p[1]))
        \/ p[1] \in disturbed
        \/ \E a \in Callers : On(a, {"write"}) /\ File(a) = p[1]

\* A file is empty while no call is writing it only if a crash or an error came between
\* the truncation and the write, or if the last write had nothing to put there
\* (write_file of "", apply_patch that removed all there was).  ensure_dirs does not
\* look into a file that exists: a seed left empty stays so.
EmptyFileHasACause ==
    \A f \in Files :
        files[f] = <<>> =>
            \/ f \in torn \cup blank
            \/ seeding /\ f = Head(boot)
            \/ \E a \in Callers : On(a, {"write"}) /\ File(a) = f

\* What is on disk can be explained: no line is lost (LostLineHasACause) and no file
\* empty (EmptyFileHasACause) without two writers, a crash, a failing write or a call
\* that asked for it.
FilesHaveACause == LostLineHasACause /\ EmptyFileHasACause

\* execute_direct: a command that was reported as timed out still acts on the
\* machine only if the limit it was given is not below that of execute_chat_tool,
\* which drops the call without killing the command, or if the shell had started
\* another process.
LateCommandHasACause ==
    \A i \in late : LET c == proc[i].call IN Limit(c) >= OuterLimit \/ c.forks

\* execute_direct waits for the command before it reads its output: a command is
\* reported as timed out only if it works longer than the limit or prints more
\* than a pipe holds.
TimeoutHasACause ==
    \A i \in Ids :
        told[i] = "timeout" =>
            LET c == proc[i].call IN
            \/ c.work >= Limit(c) \/ c.work >= OuterLimit
            \/ c.out > Pipe \/ c.err > Pipe

\* memory_read and read_file: a read that starts no later than one line behind the
\* total_lines its agent was last told panics only if the file has been written
\* since; the panic of the chat agent's call ends the program.
PanicHasACause ==
    \A p \in panics : p.known.stale \/ p.offset > p.known.lines + 1

\* What a call reports can be explained: a command that acts after its report
\* (LateCommandHasACause), a timeout (TimeoutHasACause), a panic (PanicHasACause).
ReportsHaveACause == LateCommandHasACause /\ TimeoutHasACause /\ PanicHasACause

=============================================================================
