----------------------------- MODULE Compaction -----------------------------
(***************************************************************************)
(* The conversation a thread sends to the model and what becomes of its    *)
(* old turns: the size estimate and the choice of a strategy               *)
(* (agent/context_monitor.rs), the three ways to compact                   *)
(* (agent/compaction.rs), before each turn and for /compact, and the daily *)
(* file of the workspace, where summaries and archived turns go.  The      *)
(* thread is locked throughout, so a compaction is one step; undo, which   *)
(* may bring turns back, is AgentThreads' subject.                         *)
(***************************************************************************)
EXTENDS Integers, FiniteSets, Sequences, Totals

CONSTANTS
    Limit,           \* context_limit (100,000), in tokens
    KeepTruncated,   \* turns that Truncate keeps (3)
    KeepSummarized,  \* turns that Summarize keeps (5)
    KeepMoved,       \* turns that MoveToWorkspace keeps (10)
    Inputs,          \* words in a message of the user
    Replies,         \* words in a reply; Silence for a turn without one
    Silence,
    MaxTurns         \* bound: turns, and commands of the user

ASSUME KeepAssumption ==
    /\ {Limit, KeepTruncated, KeepSummarized, KeepMoved} \subseteq Nat
    /\ 0 < KeepTruncated /\ KeepTruncated <= KeepSummarized /\ KeepSummarized <= KeepMoved
    /\ Inputs \subseteq Nat /\ Replies \ {Silence} \subseteq Nat

VARIABLE ctx         \* the thread, the daily file, and the last compaction as history

-----------------------------------------------------------------------------
(* ContextMonitor: all sizes in tokens.                                    *)

\* 1.3 tokens to a word, and 4 for the role.
estimate_message_tokens(words) == (words * 13) \div 10 + 4

\* The messages of a turn, by their words.
messages(turn) == <<turn.input>> \o (IF turn.reply = Silence THEN <<>> ELSE <<turn.reply>>)

turn_tokens(turn) ==
    LET m == messages(turn)
    IN  Total([k \in DOMAIN m |-> estimate_message_tokens(m[k])], DOMAIN m)

estimate_tokens(turns) ==
    Total([i \in DOMAIN turns |-> turn_tokens(turns[i])], DOMAIN turns)

needs_compaction(turns) == estimate_tokens(turns) >= (Limit * 80) \div 100

CompactionStrategy == {"None", "Summarize", "Truncate", "MoveToWorkspace"}

Critical(turns) == estimate_tokens(turns) * 100 > Limit * 95

suggest_compaction(turns) ==
    IF ~needs_compaction(turns) THEN "None"
    ELSE IF Critical(turns) THEN "Truncate"
    ELSE IF estimate_tokens(turns) * 100 > Limit * 85 THEN "Summarize"
    ELSE "MoveToWorkspace"

-----------------------------------------------------------------------------
(* ContextCompactor.  A result has the turns that are left, what was       *)
(* appended to the daily file, and whether the caller is told so.          *)

Smaller(a, b) == IF a < b THEN a ELSE b

\* Mutant: keeps the oldest turns.
KeepOldest(turns, keep) == SubSeq(turns, 1, Smaller(keep, Len(turns)))

truncate_turns(turns, keep) == SubSeq(turns, Len(turns) - Smaller(keep, Len(turns)) + 1, Len(turns))

OldTurns(turns, keep) == SubSeq(turns, 1, Len(turns) - Smaller(keep, Len(turns)))

Result(turns, entries, written, failed) ==
    [turns |-> turns, entries |-> entries, written |-> written, failed |-> failed]

empty(turns) == Result(turns, <<>>, FALSE, FALSE)

compact_truncate(turns, keep) == Result(truncate_turns(turns, keep), <<>>, FALSE, FALSE)

\* The summary is asked for with the texts of these turns, and covers them.
generate_summary(turns) == {turns[i].id : i \in DOMAIN turns}

\* What Workspace::append leaves in the file, if it succeeds.
write_summary_to_workspace(about, ws) ==
    IF ws = "ok" THEN <<[kind |-> "Context Summary", about |-> about]>> ELSE <<>>
write_context_to_workspace(about, ws) ==
    IF ws = "ok" THEN <<[kind |-> "Archived Context", about |-> about]>> ELSE <<>>

\* A failing model ends it with nothing changed; a failing append does not.
compact_with_summary(turns, keep, llm, ws) ==
    IF Len(turns) <= keep THEN empty(turns)
    ELSE IF ~llm THEN Result(turns, <<>>, FALSE, TRUE)
    ELSE Result(truncate_turns(turns, keep),
                write_summary_to_workspace(generate_summary(OldTurns(turns, keep)), ws),
                ws = "ok", FALSE)

format_turns_for_storage(turns) == {turns[i].id : i \in DOMAIN turns}

\* Mutant: archives what is left instead of what goes.
ArchiveKept(turns, ws) ==
    IF ws = "none" THEN compact_truncate(turns, KeepSummarized)
    ELSE IF Len(turns) <= KeepMoved THEN empty(turns)
    ELSE LET left == truncate_turns(turns, KeepMoved)
         IN  Result(left, write_context_to_workspace(format_turns_for_storage(left), ws),
                    ws = "ok", FALSE)

\* Without a workspace it truncates, to as many turns as a summary would leave.
compact_to_workspace(turns, ws) ==
    IF ws = "none" THEN compact_truncate(turns, KeepSummarized)
    ELSE IF Len(turns) <= KeepMoved THEN empty(turns)
    ELSE Result(truncate_turns(turns, KeepMoved),
                write_context_to_workspace(
                    format_turns_for_storage(OldTurns(turns, KeepMoved)), ws),
                ws = "ok", FALSE)

compact(turns, strategy, llm, ws) ==
    CASE strategy = "None" -> empty(turns)
      [] strategy = "Truncate" -> compact_truncate(turns, KeepTruncated)
      [] strategy = "Summarize" -> compact_with_summary(turns, KeepSummarized, llm, ws)
      [] strategy = "MoveToWorkspace" -> compact_to_workspace(turns, ws)

-----------------------------------------------------------------------------
NoContext == [pc |-> "off", turns |-> <<>>, log |-> <<>>, steps |-> 0,
              last |-> [strategy |-> "None", before |-> <<>>, after |-> <<>>,
                        llm |-> TRUE, ws |-> "ok", written |-> FALSE, failed |-> FALSE]]

ContextInit == ctx = [NoContext EXCEPT !.pc = "on"]

\* The thread after strategy; last has what the compaction met and reported.
Compacted(strategy, llm, ws) ==
    LET r == compact(ctx.turns, strategy, llm, ws)
    IN  [ctx EXCEPT !.turns = r.turns, !.log = @ \o r.entries,
                    !.last = [strategy |-> strategy, before |-> ctx.turns,
                              after |-> r.turns, llm |-> llm, ws |-> ws,
                              written |-> r.written, failed |-> r.failed]]

Alive == ctx.pc = "on" /\ ctx.steps < MaxTurns

\* process_user_input: the context is compacted, whatever comes of it the turn
\* follows and ends with or without a reply.
UserTurn(input, reply, llm, ws) ==
    /\ Alive
    /\ LET c == Compacted(suggest_compaction(ctx.turns), llm, ws)
           new == [id |-> ctx.steps + 1, input |-> input, reply |-> reply]
       IN  ctx' = [c EXCEPT !.turns = Append(@, new), !.steps = @ + 1]

\* /compact, which summarises when nothing calls for more.
process_compact(llm, ws) ==
    /\ Alive /\ ctx.turns # <<>>
    /\ LET s == suggest_compaction(ctx.turns)
           c == Compacted(IF s = "None" THEN "Summarize" ELSE s, llm, ws)
       IN  ctx' = [c EXCEPT !.steps = @ + 1]

ContextNext ==
    \E llm \in BOOLEAN, ws \in {"ok", "broken", "none"} :
        \/ \E input \in Inputs, reply \in Replies : UserTurn(input, reply, llm, ws)
        \/ process_compact(llm, ws)

ContextSpec == ContextInit /\ [][ContextNext]_ctx

-----------------------------------------------------------------------------
(* Properties.                                                             *)

\* What is left is the newest part of the conversation, in order and without
\* a gap, and it is never less than Truncate keeps.
NewestSurvive ==
    LET b == ctx.last.before
        a == ctx.last.after
    IN  /\ a = SubSeq(b, Len(b) - Len(a) + 1, Len(b))
        /\ Len(a) >= Smaller(Len(b), KeepTruncated)

\* A turn leaves the context without a trace in the daily file only if the
\* context was critically full, or there was no workspace, or the append
\* failed, which nobody is told of but the user who typed /compact.
ForgottenHasACause ==
    \A i \in DOMAIN ctx.last.before :
        LET t == ctx.last.before[i]
        IN  \/ \E j \in DOMAIN ctx.last.after : ctx.last.after[j] = t
            \/ \E e \in DOMAIN ctx.log : t.id \in ctx.log[e].about
            \/ ~ctx.last.written /\ (Critical(ctx.last.before) \/ ctx.last.ws # "ok")

\* After a compaction the context is still due for one only if it was small
\* in turns already, the model failed to summarise, or the turns that are
\* kept are too large; above 95 percent it has at most KeepTruncated turns,
\* whatever failed.
StillFullHasACause ==
    LET a == ctx.last.after
    IN  /\ Critical(a) => Len(a) <= KeepTruncated
        /\ needs_compaction(a) => Len(a) <= KeepMoved \/ ctx.last.failed
        /\ ctx.last.failed => a = ctx.last.before /\ ~ctx.last.llm

\* suggest_compaction and compact: old turns make room for new ones and leave
\* a record.
CompactionKeepsTrack ==
    /\ ctx.last.strategy \in CompactionStrategy
    /\ NewestSurvive /\ ForgottenHasACause /\ StillFullHasACause

=============================================================================
