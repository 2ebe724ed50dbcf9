---------------------------- MODULE MCDataPaths ----------------------------
(* Small instances of seven parts that do not share state, for one run: a  *)
(* behaviour exercises one of them while the others stay idle.             *)
EXTENDS ToolTurn, CardPath, ActivityFeed, ChatLog, LlmCalls, RoutineRow, Compaction

Tok(kind, v, n) == [k |-> kind, v |-> v, n |-> n]

Alphabet ==
    {<<"word", "plain">>, <<"word", "here">>, <<"word", "safe">>, <<"line", "plain">>,
     <<"open", "thinking">>, <<"attr", "thinking">>, <<"gt", "thinking">>,
     <<"close", "thinking">>, <<"open", "tool_call">>, <<"close", "tool_call">>,
     <<"popen", "thinking">>, <<"pclose", "thinking">>}

SmallAlphabet ==
    {<<"word", "plain">>, <<"word", "here">>, <<"line", "plain">>,
     <<"open", "thinking">>, <<"close", "thinking">>}

Texts(alphabet, lengths) ==
    UNION {{[i \in 1 .. n |-> Tok(f[i][1], f[i][2], i)] : f \in [1 .. n -> alphabet]} : n \in lengths}

\* Longer texts of words, newlines and whole blocks.
Pieces == {<<<<"word", "plain">>>>, <<<<"word", "here">>>>, <<<<"word", "markdown">>>>,
           <<<<"line", "plain">>>>, <<<<"line", "plain">>, <<"line", "plain">>>>,
           <<<<"open", "thinking">>, <<"word", "here">>, <<"close", "thinking">>>>}

Lines(lengths) ==
    {LET p == FlattenSeq(f) IN [i \in 1 .. Len(p) |-> Tok(p[i][1], p[i][2], i)] :
        f \in UNION {[1 .. n -> Pieces] : n \in lengths}}

Text(toks) == [t |-> "text", toks |-> toks, name |-> ""]
Call(name) == [t |-> "call", toks |-> <<>>, name |-> name]
Thought == [t |-> "reasoning", toks |-> <<>>, name |-> ""]

MCLongReplies == {<<Text(s)>> : s \in Texts(Alphabet, 1 .. 3) \cup Texts(SmallAlphabet, 4 .. 5)
                                       \cup Lines(4 .. 5)}

Written(name, n) == <<Tok("open", "tool_call", n), Tok("word", name, n + 1),
                      Tok("close", "tool_call", n + 2)>>

MCShortReplies ==
    {<<>>, <<Thought, Text(<<Tok("word", "plain", 1)>>)>>,
     <<Call("safe")>>, <<Call("gated"), Call("safe")>>, <<Call("ghost"), Call("gated")>>,
     <<Text(Written("safe", 1))>>,
     <<Text(Written("safe", 1)), Text(Written("gated", 4))>>}

A(who) == [who |-> who, up |-> FALSE]
B(who) == [who |-> who, up |-> TRUE]

Lists(S, n) == UNION {[1 .. k -> S] : k \in 0 .. n}

MCMails ==
    {[from |-> f, to |-> to, cc |-> cc, marks |-> {}] :
        f \in {B("alice"), A("us"), A("junk"), A("stranger")},
        to \in Lists({B("us"), A("bob"), A("alice")}, 2),
        cc \in Lists({B("bob"), A("carol"), A("junk")}, 2)}
      \cup {[from |-> A("alice"), to |-> <<A("us")>>, cc |-> <<>>, marks |-> m] :
               m \in SUBSET {"bulk_sender", "unsubscribe_subject", "unsubscribe_footer",
                             "shipping", "receipt"}}

Raws == Lists({"json", "fence_json", "fence", "prose"}, 3)

MCTriageReplies ==
    {[raw |-> <<"json">>, action |-> a, draft |-> d, confidence |-> 7, tone |-> t] :
        a \in {"ignore", "notify", "draft_reply", "digest", "later"},
        d \in {"", "draft"}, t \in BOOLEAN}
      \cup {[raw |-> r, action |-> "notify", draft |-> "", confidence |-> 0, tone |-> FALSE] :
               r \in Raws}

Suggestion(text, c) == [text |-> text, confidence |-> c]
MCSuggestions ==
    {[raw |-> <<"json">>, list |-> l] :
        l \in Lists({Suggestion("", 9), Suggestion("a", 5), Suggestion("b", 5),
                     Suggestion("c", 7)}, 3)}
      \cup {[raw |-> r, list |-> <<Suggestion("a", 5)>>] : r \in Raws}

-----------------------------------------------------------------------------
(* ActivityFeed: two runs of one todo each, in scenarios that bring out    *)
(* one difficulty at a time.                                               *)

MCTodoOf == [a \in FeedAgents |-> IF a = "a" THEN "t1" ELSE "t2"]

Scenario(runs, tools, phone, inflight, trouble) ==
    [runs |-> runs, tools |-> tools, phone |-> phone, inflight |-> inflight, trouble |-> trouble]

MCScenarios ==
    {Scenario({"a"}, 2, FALSE, 0, 0), Scenario({"a"}, 1, TRUE, 0, 0),
     Scenario({"a"}, 0, TRUE, 2, 1), Scenario({"a", "b"}, 0, FALSE, 0, 0),
     Scenario({"b"}, 0, TRUE, 0, 0)}

-----------------------------------------------------------------------------
(* ChatLog: every kind of text once; several turns and their pages.        *)

MCTexts ==
    {<<"hello">>, <<"ok">>, <<"{exec_approval}">>, <<"/undo">>, <<"/ping">>, <<"/debug">>,
     <<"/quit">>, <<"/model">>, <<"/model", "m">>, <<"/thread", "new">>, <<"/thread", "id">>,
     <<"/thread", "x">>, <<"/resume", "id">>, <<"/resume">>}

Sitting(texts, inputs, ticks) == [texts |-> texts, inputs |-> inputs, ticks |-> ticks]

MCSittings ==
    {Sitting(MCTexts, 1, 0), Sitting({<<"hello">>}, 2, 2)}

-----------------------------------------------------------------------------
(* LlmCalls: a chat and a routine at once, each with one of the callers    *)
(* that record nothing, and a routine by itself.                           *)

MCModels ==
    <<[prefix |-> "openai/", name |-> "gpt-4o"], [prefix |-> "", name |-> "llama3"],
      [prefix |-> "", name |-> "other"]>>
MCPrice == [x \in {"gpt-4o"} |-> 2]
MCNotify == {{"Attention", "Failed"}, {"Ok"}}

Budget(chats, runs, others) ==
    [c \in Purposes |-> IF c = "chat" THEN chats ELSE IF c = "routine" THEN runs
                        ELSE IF c \in others THEN 1 ELSE 0]
MCBudgets ==
    {Budget(1, 1, {}), Budget(0, 2, {}), Budget(0, 1, {"triage"}),
     Budget(1, 0, {"draft", "refine"}), Budget(1, 0, {"summarize"}), Budget(1, 0, {"suggest"}),
     Budget(1, 0, {"compaction"})}

-----------------------------------------------------------------------------
(* RoutineRow: parameters with and without the optional ones.              *)

MCCreateParams ==
    {[name |-> "name", description |-> "about", prompt |-> "ask", trigger_type |-> t,
      schedule |-> s, event_pattern |-> e, event_channel |-> c, action_type |-> a,
      context_paths |-> p, cooldown_secs |-> Null] :
        t \in {"cron", "event", "webhook", "manual", "odd"}, s \in {"daily", "bad", Null},
        e \in {Null, "x"}, c \in {Null, "telegram"}, a \in {Null, "full_job", "odd"},
        p \in {{}, {"notes"}}}

MCUpdateParams ==
    {[prompt |-> "new"], [enabled |-> FALSE], [schedule |-> "weekly"], [schedule |-> "bad"],
     [description |-> "again", enabled |-> TRUE]}

-----------------------------------------------------------------------------
FeedOff == FeedStart(Scenario({}, 0, FALSE, 0, 0))
ChatOff == ChatStart(Sitting({}, 0, 0))
LlmOff == LlmStart(Budget(0, 0, {}))

Init ==
    \/ TurnInit /\ path = NoPath /\ FeedOff /\ ChatOff /\ LlmOff /\ routine = NoRow /\ ctx = NoContext
    \/ PathInit /\ turn = Idle /\ FeedOff /\ ChatOff /\ LlmOff /\ routine = NoRow /\ ctx = NoContext
    \/ FeedInit /\ turn = Idle /\ path = NoPath /\ ChatOff /\ LlmOff /\ routine = NoRow /\ ctx = NoContext
    \/ ChatInit /\ turn = Idle /\ path = NoPath /\ FeedOff /\ LlmOff /\ routine = NoRow /\ ctx = NoContext
    \/ LlmInit /\ turn = Idle /\ path = NoPath /\ FeedOff /\ ChatOff /\ routine = NoRow /\ ctx = NoContext
    \/ RowInit /\ turn = Idle /\ path = NoPath /\ FeedOff /\ ChatOff /\ LlmOff /\ ctx = NoContext
    \/ ContextInit /\ turn = Idle /\ path = NoPath /\ FeedOff /\ ChatOff /\ LlmOff /\ routine = NoRow

Next ==
    \/ TurnNext /\ UNCHANGED <<path, feedVars, chatVars, llmVars, routine, ctx>>
    \/ PathNext /\ UNCHANGED <<turn, feedVars, chatVars, llmVars, routine, ctx>>
    \/ FeedNext /\ UNCHANGED <<turn, path, chatVars, llmVars, routine, ctx>>
    \/ ChatNext /\ UNCHANGED <<turn, path, feedVars, llmVars, routine, ctx>>
    \/ LlmNext /\ UNCHANGED <<turn, path, feedVars, chatVars, routine, ctx>>
    \/ RowNext /\ UNCHANGED <<turn, path, feedVars, chatVars, llmVars, ctx>>
    \/ ContextNext /\ UNCHANGED <<turn, path, feedVars, chatVars, llmVars, routine>>
=============================================================================
