------------------------------ MODULE ToolTurn ------------------------------
(***************************************************************************)
(* One turn of the agentic loop, from the messages the provider is sent to *)
(* the text the user is shown: llm/rig_adapter.rs (conversion to and from  *)
(* the provider's format), llm/reasoning.rs (structured tool calls, tool   *)
(* calls recovered from the text, removal of model-internal markup), the   *)
(* message bookkeeping of agent/tool_executor.rs and agent/approval.rs and *)
(* the turn's own record of its tool calls (agent/session.rs).             *)
(*                                                                         *)
(* A reply is a sequence of items; a text is a sequence of tokens.  A      *)
(* token is a word, a newline, or a piece of markup; `n' is its place in   *)
(* the reply and tells equal tokens apart.  Blanks are left out.           *)
(***************************************************************************)
EXTENDS Integers, FiniteSets, Sequences, SequencesExt, FiniteSetsExt, Sift

CONSTANTS
    Tools,          \* names of the registered tools
    Gated,          \* the tools whose requires_approval() is true
    LongReplies,    \* replies used to exercise the text conversions
    ShortReplies,   \* replies used to exercise the loop
    MAX_TOOL_ITERATIONS,
    MaxMessages     \* bound on the conversation: an approval restarts the count

VARIABLE turn

-----------------------------------------------------------------------------
(* Texts.  Kinds of token: "word" (v: "plain", "markdown", "here" or a     *)
(* tool's name), "line" (a newline), "open" <T>, "attr" (the unended  *)
(* "<T "), "gt" (a lone ">"), "close" </T>, "popen" <|T|>, "pclose" <|/T|>. *)

TokenKinds == {"word", "line", "open", "attr", "gt", "close", "popen", "pclose"}
Token == [k : TokenKinds, v : STRING, n : Nat]

\* An item of a reply: a text, a tool call or a thought.
Item == [t : {"text", "call", "reasoning"}, toks : Seq(Token), name : STRING]

ASSUME ToolTurnAssumption ==
    /\ Gated \subseteq Tools
    /\ MAX_TOOL_ITERATIONS \in Nat \ {0}
    /\ MaxMessages \in Nat
    /\ LongReplies \cup ShortReplies \subseteq Seq(Item)

INTERNAL_TAGS == <<"thinking", "tool_call", "function_call", "tool_calls">>

HasGt(tok) == tok.k \in {"open", "close", "popen", "pclose", "gt"}

Drop(s, i) == SubSeq(s, i + 1, Len(s))

\* The elements of s at the places in T, in order.
Keep(s, T) ==
    LET at == Sift([i \in 1 .. Len(s) |-> i], T)
    IN  [k \in 1 .. Len(at) |-> s[at[k]]]

\* The places of tokens of some kinds and one value.
TokensAt(s, kinds, v) == {i \in 1 .. Len(s) : s[i].k \in kinds /\ s[i].v = v}
Behind(i, T) == {j \in T : j > i}

\* Bug for mutation testing: one block is removed, a second one stays.
StripXmlOnce(s, tag) ==
    LET opens == TokensAt(s, {"open", "attr"}, tag)
        ends == Behind(Min(opens), TokensAt(s, {"close"}, tag))
    IN  IF opens = {} THEN s
        ELSE IF ends = {} THEN s
        ELSE SubSeq(s, 1, Min(opens) - 1) \o Drop(s, Min(ends))

\* left[i] is what is left of the text behind place i.  An opening tag that never
\* ends makes the code push `remaining' again after what it already pushed: the
\* text before the tag appears twice.
strip_xml_tag(s, tag) ==
    LET left[i \in 0 .. Len(s)] ==
            LET opens == Behind(i, TokensAt(s, {"open", "attr"}, tag))
                before == SubSeq(s, i + 1, Min(opens) - 1)
                gts == {j \in Min(opens) .. Len(s) : HasGt(s[j])}
                ends == Behind(Min(gts), TokensAt(s, {"close"}, tag))
            IN  IF opens = {} THEN Drop(s, i)
                ELSE IF gts = {} THEN before \o Drop(s, i)
                ELSE IF ends = {} THEN before
                ELSE before \o left[Min(ends)]
    IN  left[0]

strip_pipe_tag(s, tag) ==
    LET left[i \in 0 .. Len(s)] ==
            LET opens == Behind(i, TokensAt(s, {"popen"}, tag))
                before == SubSeq(s, i + 1, Min(opens) - 1)
                ends == Behind(Min(opens), TokensAt(s, {"pclose"}, tag))
            IN  IF opens = {} THEN Drop(s, i)
                ELSE IF ends = {} THEN before
                ELSE before \o left[Min(ends)]
    IN  left[0]

IsLine(tok) == tok.k = "line"

Trim(s) ==
    Keep(s, {i \in 1 .. Len(s) : /\ \E j \in 1 .. i : ~IsLine(s[j])
                                 /\ \E j \in i .. Len(s) : ~IsLine(s[j])})

\* Of a run of newlines two are left: an empty line.
Collapse(s) ==
    Keep(s, {i \in 1 .. Len(s) : ~(i > 2 /\ \A j \in i - 2 .. i : IsLine(s[j]))})

\* A block between two newlines leaves an empty line behind.
strip_internal_tags(s) ==
    Trim(Collapse(FoldLeft(LAMBDA r, tag : strip_pipe_tag(strip_xml_tag(r, tag), tag),
                           s, INTERNAL_TAGS)))

LooksLikeAnswer(s) == Head(s).k = "word" /\ Head(s).v \in {"markdown", "here"}

strip_reasoning_patterns(s) ==
    LET empty == {i \in 2 .. Len(s) : IsLine(s[i - 1]) /\ IsLine(s[i])}
        answer == Trim(Drop(s, Min(empty)))
    IN  IF s = <<>> \/ empty = {} THEN s
        ELSE IF Head(s).k = "word" /\ Head(s).v = "markdown" THEN s
        ELSE IF answer # <<>> /\ LooksLikeAnswer(answer) THEN answer ELSE s

clean_response(s) == strip_reasoning_patterns(strip_internal_tags(s))

-----------------------------------------------------------------------------
(* Tool calls written into the text.                                       *)

CallTags == <<<<"open", "close", "tool_call">>, <<"popen", "pclose", "tool_call">>,
              <<"open", "close", "function_call">>,
              <<"popen", "pclose", "function_call">>>>

\* The contents of the closed blocks of one kind, in order.  A closing tag ends a
\* block if an opening one stands between it and the closing tag before it; the
\* first of those begins the block.
BlockContents(s, ct) ==
    LET opens == TokensAt(s, {ct[1]}, ct[3])
        closes == TokensAt(s, {ct[2]}, ct[3])
        Begins(c) == {o \in opens : o < c /\ closes \cap o .. c - 1 = {}}
        ends == Keep([i \in 1 .. Len(s) |-> i], {c \in closes : Begins(c) # {}})
    IN  [k \in 1 .. Len(ends) |-> Trim(SubSeq(s, Min(Begins(ends[k])) + 1, ends[k] - 1))]

\* Bug for mutation testing: the counter is not used in the id.
SameId(n) == <<"recovered", 0, 0>>

RecoveredId(n) == <<"recovered", 0, n>>

\* JSON with a known name and a bare known name are both the name alone here.
recover_tool_calls_from_content(s) ==
    LET inner == BlockContents(s, CallTags[1]) \o BlockContents(s, CallTags[2])
                   \o BlockContents(s, CallTags[3]) \o BlockContents(s, CallTags[4])
        named == Keep(inner, {i \in 1 .. Len(inner) :
                                 Len(inner[i]) = 1 /\ inner[i][1].k = "word"
                                                  /\ inner[i][1].v \in Tools})
    IN  [i \in 1 .. Len(named) |-> [id |-> RecoveredId(i - 1), name |-> named[i][1].v]]

-----------------------------------------------------------------------------
(* The provider's format.                                                  *)

Absent == <<>>

system == [role |-> "system", text |-> Absent, calls |-> <<>>, id |-> Absent]
user(text) == [role |-> "user", text |-> text, calls |-> <<>>, id |-> Absent]
assistant(text) == [role |-> "assistant", text |-> text, calls |-> <<>>, id |-> Absent]
assistant_with_tool_calls(text, calls) ==
    [role |-> "assistant", text |-> text, calls |-> calls, id |-> Absent]
tool_result(id) == [role |-> "tool", text |-> Absent, calls |-> <<>>, id |-> id]

\* System messages go to the preamble, tool results become user items.
convert_messages(messages) ==
    LET kept == Keep(messages, {i \in 1 .. Len(messages) : messages[i].role # "system"})
    IN  [i \in 1 .. Len(kept) |->
            [role |-> IF kept[i].role = "tool" THEN "user" ELSE kept[i].role,
             text |-> kept[i].text, calls |-> kept[i].calls, id |-> kept[i].id]]

Hello == [k |-> "word", v |-> "plain", n |-> 0]

build_rig_request(history) == IF history = <<>> THEN <<user(<<Hello>>)>> ELSE history

\* Text items are joined, reasoning items are dropped.
TextOf(items) ==
    LET texts == Keep(items, {i \in 1 .. Len(items) : items[i].t = "text"})
    IN  FlattenSeq([i \in 1 .. Len(texts) |-> texts[i].toks])

extract_response(items, fresh) ==
    LET calls == Keep(items, {i \in 1 .. Len(items) : items[i].t = "call"})
    IN  [text |-> TextOf(items),
         calls |-> [i \in 1 .. Len(calls) |->
                       [id |-> <<"provider", fresh, i>>, name |-> calls[i].name]]]

complete_with_tools(items, fresh) == extract_response(items, fresh)

\* Tool calls of a completion without tools are discarded.
complete(items) == TextOf(items)

NotSure == [k |-> "word", v |-> "plain", n |-> -1]

\* A result is a text or tool calls with the text that came with them: the
\* text beside structured calls is passed on as it is, the text beside
\* recovered calls is cleaned.
respond_with_tools(items, has_tools, fresh) ==
    IF ~has_tools
    THEN [calls |-> <<>>, text |-> clean_response(complete(items))]
    ELSE LET response == complete_with_tools(items, fresh)
             raw == IF response.text = Absent THEN <<NotSure>> ELSE response.text
         IN  IF response.calls # <<>>
             THEN [calls |-> response.calls, text |-> response.text]
             ELSE [calls |-> recover_tool_calls_from_content(raw),
                   text |-> clean_response(raw)]

-----------------------------------------------------------------------------
(* The turn's own record of its calls.  `of' is the call whose outcome was *)
(* stored; `batch' the number of calls of the reply it came in.            *)

NewRecord(call, batch) ==
    [id |-> call.id, batch |-> batch, result |-> Absent, error |-> Absent]

\* Bug for mutation testing: the first call of the turn receives the outcome.
RecordOnFirst(calls, id) ==
    IF calls = <<>> THEN calls ELSE [calls EXCEPT ![1].result = id]

\* The outcome goes to the call recorded last.
record_tool_result(calls, id) ==
    IF calls = <<>> THEN calls ELSE [calls EXCEPT ![Len(calls)].result = id]

record_tool_error(calls, id) ==
    IF calls = <<>> THEN calls ELSE [calls EXCEPT ![Len(calls)].error = id]

RecordOutcome(calls, id, ok) ==
    IF ok THEN record_tool_result(calls, id) ELSE record_tool_error(calls, id)

-----------------------------------------------------------------------------
(* The loop.  phase: "ask" (top of the loop), "run" (executing the calls   *)
(* in `queue'), "wait" (returned NeedApproval), "done", "failed",          *)
(* "rejected".                                                             *)
(* `skipped' is kept for the properties: the calls an approval left behind. *)

Idle == [phase |-> "idle"]

Question == [k |-> "word", v |-> "plain", n |-> 0]

Start(has_tools, long) ==
    [phase |-> "ask", has_tools |-> has_tools, long |-> long, iteration |-> 0,
     tools_executed |-> FALSE, messages |-> <<user(<<Question>>)>>,
     queue |-> <<>>, pending |-> Absent, auto |-> {}, calls |-> <<>>,
     skipped |-> {}, said |-> <<>>, shown |-> <<>>]

\* A turn resumed by an approved tool: its call and its result are there.
Resumed ==
    LET call == [id |-> <<"provider", 1, 1>>, name |-> CHOOSE t \in Gated : TRUE]
    IN  [Start(TRUE, TRUE) EXCEPT
            !.tools_executed = TRUE,
            !.messages = <<user(<<Question>>), assistant_with_tool_calls(<<>>, <<call>>),
                           tool_result(call.id)>>,
            !.calls = record_tool_result(<<NewRecord(call, 1)>>, call.id)]

TurnInit ==
    turn \in {Start(TRUE, FALSE), Start(FALSE, TRUE)}
               \cup (IF Gated = {} THEN {} ELSE {Resumed})

Reprompt(messages, text) == messages \o <<assistant(text), user(<<Question>>)>>

Request == build_rig_request(convert_messages(<<system>> \o turn.messages))

\* The loop's next round: tool calls, or a reply that is asked again for tool calls,
\* or the answer.
Iterate(items) ==
    /\ turn.phase = "ask"
    /\ turn.iteration < MAX_TOOL_ITERATIONS
    /\ Len(turn.messages) <= MaxMessages
    /\ LET out == respond_with_tools(items, turn.has_tools, Len(turn.messages))
           said == TextOf(items)
       IN  turn' =
             IF out.calls # <<>>
             THEN [turn EXCEPT !.iteration = @ + 1, !.said = said, !.shown = <<>>,
                      !.tools_executed = TRUE, !.phase = "run", !.queue = out.calls,
                      !.messages = Append(@, assistant_with_tool_calls(out.text, out.calls)),
                      !.calls = @ \o [i \in 1 .. Len(out.calls) |->
                                       NewRecord(out.calls[i], Len(out.calls))]]
             ELSE IF ~turn.tools_executed /\ turn.iteration + 1 < 3 /\ turn.has_tools
             THEN [turn EXCEPT !.iteration = @ + 1, !.said = said, !.shown = <<>>,
                      !.messages = Reprompt(@, out.text)]
             ELSE [turn EXCEPT !.iteration = @ + 1, !.said = said, !.shown = out.text,
                      !.phase = "done"]

IterationsExceeded ==
    /\ turn.phase = "ask"
    /\ turn.iteration = MAX_TOOL_ITERATIONS
    /\ turn' = [turn EXCEPT !.phase = "failed"]

LlmError ==
    /\ turn.phase = "ask"
    /\ turn.iteration < MAX_TOOL_ITERATIONS
    /\ turn' = [turn EXCEPT !.phase = "failed", !.iteration = @ + 1]

NeedsApproval(call) == call.name \in Gated /\ call.name \notin turn.auto

\* A tool that is not registered is not gated and fails.
RunTool(ok) ==
    /\ turn.phase = "run"
    /\ LET call == Head(turn.queue)
       IN  /\ ~NeedsApproval(call)
           /\ ok => call.name \in Tools
           /\ turn' = [turn EXCEPT
                 !.calls = RecordOutcome(@, call.id, ok),
                 !.messages = Append(@, tool_result(call.id)),
                 !.queue = Tail(@),
                 !.phase = IF Tail(turn.queue) = <<>> THEN "ask" ELSE "run"]

\* Where the calls still in the queue stand: message and place in it.
QueuedPlaces ==
    LET asked == {i \in 1 .. Len(turn.messages) : turn.messages[i].calls # <<>>}
        size == Len(turn.messages[Max(asked)].calls)
    IN  {Max(asked)} \X (size - Len(turn.queue) + 1 .. size)

\* The rest of the reply's calls is dropped with the loop's local variables.
NeedApproval ==
    /\ turn.phase = "run"
    /\ LET call == Head(turn.queue)
       IN  /\ NeedsApproval(call)
           /\ turn' = [turn EXCEPT
                 !.phase = "wait",
                 !.pending = call,
                 !.skipped = @ \cup {p \in QueuedPlaces : \E q \in QueuedPlaces : q[2] < p[2]},
                 !.queue = <<>>]

\* Bug for mutation testing: the approved tool's result is not given to the model.
ApproveSilently(always, ok) ==
    /\ turn.phase = "wait"
    /\ turn' = [turn EXCEPT !.auto = IF always THEN @ \cup {turn.pending.name} ELSE @,
                            !.calls = RecordOutcome(@, turn.pending.id, ok),
                            !.pending = Absent,
                            !.phase = "ask",
                            !.iteration = 0,
                            !.tools_executed = TRUE]

\* The approved tool runs and a new loop starts from the saved messages.
ApproveTool(always, ok) ==
    /\ turn.phase = "wait"
    /\ turn' = [turn EXCEPT !.auto = IF always THEN @ \cup {turn.pending.name} ELSE @,
                            !.calls = RecordOutcome(@, turn.pending.id, ok),
                            !.messages = Append(@, tool_result(turn.pending.id)),
                            !.pending = Absent,
                            !.phase = "ask",
                            !.iteration = 0,
                            !.tools_executed = TRUE]

RejectTool ==
    /\ turn.phase = "wait"
    /\ turn' = [turn EXCEPT !.phase = "rejected", !.pending = Absent]

TurnNext ==
    \/ /\ turn.phase = "ask"
       /\ \E items \in (IF turn.long THEN LongReplies ELSE ShortReplies) : Iterate(items)
    \/ IterationsExceeded
    \/ LlmError
    \/ \E ok \in BOOLEAN : RunTool(ok)
    \/ NeedApproval
    \/ \E always, ok \in BOOLEAN : ApproveTool(always, ok)
    \/ RejectTool

TurnSpec == TurnInit /\ [][TurnNext]_turn

-----------------------------------------------------------------------------
(* Properties.                                                             *)

\* Whenever the provider is asked, every tool call of an assistant message
\* of the request is answered, in order, by the tool results that directly
\* follow the message (the order tool_executor.rs says the protocol
\* requires), except the calls an approval in the middle of the batch left
\* behind; and no result stands anywhere else.
UnansweredHasACause ==
    turn.phase = "ask" =>
        LET h == Request
            Due(i) == {j \in DOMAIN h[i].calls : <<i, j>> \notin turn.skipped}
            Place(i, j) == i + Cardinality({k \in Due(i) : k <= j})
        IN  /\ \A i \in DOMAIN h : \A j \in Due(i) :
                  Place(i, j) \in DOMAIN h /\ h[Place(i, j)].id = h[i].calls[j].id
            /\ \A p \in DOMAIN h : h[p].id # Absent =>
                  \E i \in DOMAIN h : \E j \in Due(i) : p = Place(i, j)

\* Two calls of one conversation share an id only when both were recovered
\* from text in different replies: the recovered ids start again at zero in
\* every reply, all other ids tell their calls apart.
DuplicateIdHasACause ==
    turn.phase # "idle" =>
        \A i, j \in 1 .. Len(turn.messages) :
            \A a \in 1 .. Len(turn.messages[i].calls) :
            \A b \in 1 .. Len(turn.messages[j].calls) :
                (/\ <<i, a>> # <<j, b>>
                 /\ turn.messages[i].calls[a].id = turn.messages[j].calls[b].id)
                => i # j /\ turn.messages[i].calls[a].id[1] = "recovered"

\* The turn's record gives a call the outcome of another call only when both
\* came in a reply with several calls; a call that came alone and was run
\* has its own outcome.
OutcomeOnItsCall ==
    turn.phase \in {"ask", "done"} =>
        \A i \in 1 .. Len(turn.calls) :
            LET c == turn.calls[i]
            IN  c.batch = 1 => /\ {c.result, c.error} \subseteq {c.id, Absent}
                               /\ {c.result, c.error} # {Absent}

-----------------------------------------------------------------------------
(* Reference reading of a reply: the blocks are the pairs of an opening    *)
(* and a closing tag of the same kind with no markup between them.         *)

IsMarkup(tok) == tok.k \notin {"word", "line"}

Pairs(s) ==
    {p \in (1 .. Len(s)) \X (1 .. Len(s)) :
        /\ p[1] < p[2]
        /\ s[p[1]].v = s[p[2]].v
        /\ \/ s[p[1]].k = "open" /\ s[p[2]].k = "close"
           \/ s[p[1]].k = "popen" /\ s[p[2]].k = "pclose"
           \/ s[p[1]].k = "attr" /\ s[p[2]].k = "close"
        /\ LET between == {i \in p[1] + 1 .. p[2] - 1 : IsMarkup(s[i])}
           IN  IF s[p[1]].k = "attr"
               THEN Cardinality(between) = 1 /\ \A i \in between : s[i].k = "gt"
               ELSE between = {}}

InsideBlocks(s) == UNION {p[1] .. p[2] : p \in Pairs(s)}

WellFormed(s) == {i \in 1 .. Len(s) : IsMarkup(s[i])} \subseteq InsideBlocks(s)

Words(s) == SelectSeq(s, LAMBDA x : x.k = "word")

Outside(s, T) == Words(Keep(s, T \ InsideBlocks(s)))

VisibleWords(s) == Outside(s, 1 .. Len(s))

\* Where the user sees an empty line begin: at newlines outside the blocks with
\* nothing, or only blocks, between them.
EmptyLines(s) ==
    {i \in 1 .. Len(s) : \E j \in i + 1 .. Len(s) :
        /\ IsLine(s[i]) /\ IsLine(s[j]) /\ {i, j} \cap InsideBlocks(s) = {}
        /\ i + 1 .. j - 1 \subseteq InsideBlocks(s)}

\* For a reply whose markup is well formed, the user is shown exactly the
\* words outside its blocks, each once and in order; or, of a reply that does
\* not start with markdown, the part behind its first empty line if that
\* starts like an answer.  The empty line may be one that the model did not
\* write: a block on a line of its own leaves one.
ShownIsTheVisibleText ==
    turn.phase = "done" /\ turn.said # <<>> /\ WellFormed(turn.said) =>
        LET v == VisibleWords(turn.said)
            Before(i) == Outside(turn.said, 1 .. i)
            gaps == {i \in EmptyLines(turn.said) : Before(i) # <<>>}
            rest == Drop(v, Len(Before(Min(gaps))))
            IsCut == /\ gaps # {}
                     /\ Head(v).v # "markdown"
                     /\ rest # <<>> /\ LooksLikeAnswer(rest)
        IN  Words(turn.shown) = IF IsCut THEN rest ELSE v

\* Calls and results belong together, in what the provider is sent
\* (UnansweredHasACause, DuplicateIdHasACause) and in the turn's own record
\* (OutcomeOnItsCall).
ResultsMatchCalls == UnansweredHasACause /\ DuplicateIdHasACause /\ OutcomeOnItsCall

=============================================================================
