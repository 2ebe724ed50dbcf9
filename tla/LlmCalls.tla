------------------------------ MODULE LlmCalls ------------------------------
(***************************************************************************)
(* Calls to the language model and what they cost: the failover over       *)
(* several providers (llm/failover.rs), the prices (llm/costs.rs), the     *)
(* record that a chat turn (agent/tool_executor.rs) and a lightweight      *)
(* routine (agent/routine_engine.rs) write after each call, what the       *)
(* routine makes of the answer, and the sums over the table llm_calls      *)
(* (store/libsql_backend.rs).  The other callers write no record: the      *)
(* triage of a mail (pipeline/processor.rs), drafts and their refinement   *)
(* (cards/reply_drafter.rs), /summarize and /suggest (agent/commands.rs)   *)
(* and the summary of a compaction (agent/compaction.rs).  They use the    *)
(* same failover.                                                          *)
(*                                                                         *)
(* A shipped binary has one provider: Len(Models) = 1.  Times are numbers; *)
(* to_rfc3339 keeps their order as text, so the period query compares as   *)
(* if they were.                                                           *)
(***************************************************************************)
EXTENDS Integers, FiniteSets, Sequences, Totals

CONSTANTS
    Models,         \* the model of each provider, in the order they are tried:
                    \* [prefix |-> "openai/" or "", name |-> its id]
    Price,          \* prices in the table, by id; LocalModels are free
    LocalModels,
    DefaultPrice,
    LlmErrors,      \* the errors a provider returns here
    Answers,       \* kinds of answer a routine gets: see execute_lightweight
    NotifyConfigs,  \* sets of outcomes a routine notifies of
    Tokens,         \* token counts of an answer
    MaxTime,        \* bound on the clock
    CallBudgets     \* bounds: how many calls each caller makes

\* Who calls the model, and who of them records what it cost.
Recorders == {"chat", "routine"}
Purposes == Recorders \cup {"triage", "draft", "refine", "summarize", "suggest", "compaction"}

ASSUME LlmCallsAssumption ==
    /\ Len(Models) \in Nat \ {0}
    /\ DefaultPrice \in Nat /\ \A x \in DOMAIN Price : Price[x] \in Nat
    /\ DOMAIN Price \cap LocalModels = {}
    /\ Tokens \subseteq Nat /\ MaxTime \in Nat
    /\ \A b \in CallBudgets : DOMAIN b = Purposes /\ \A c \in DOMAIN b : b[c] \in Nat

VARIABLES
    last_used,  \* the failover's index of the provider that last answered
    caller,     \* where each caller is with its call
    llm_calls,  \* the table, in the order of its rows
    time,
    answered    \* for the properties: every call a provider answered, and
                \* whether its record could not be written

llmVars == <<last_used, caller, llm_calls, time, answered>>

-----------------------------------------------------------------------------
(* Providers.                                                              *)

RetryableErrors ==
    {"RequestFailed", "RateLimited", "InvalidResponse", "SessionRenewalFailed",
     "ModelNotAvailable", "Io"}

is_retryable(err) == err \in RetryableErrors

\* The prefix before the last "/" is not looked at.
model_cost(model) ==
    IF model.name \in DOMAIN Price THEN {Price[model.name]}
    ELSE IF model.name \in LocalModels THEN {0}
    ELSE {}

\* RigAdapter::new: a model that is not in the table gets the default price.
PriceOf(i) ==
    IF model_cost(Models[i]) = {} THEN DefaultPrice
    ELSE CHOOSE p \in model_cost(Models[i]) : TRUE

cost_per_token == PriceOf(last_used)
model_name == Models[last_used]

-----------------------------------------------------------------------------
(* A call.  pc: "idle", "trying" (provider i is asked), "answered",        *)
(* "priced" (the price was read), "named" (the model name was read too),   *)
(* "recorded" (a routine looks at the content).  `n' names the call in     *)
(* `answered'; `raced': another provider answered another caller since.    *)

Free(left) == [pc |-> "idle", i |-> 0, n |-> 0, cost |-> 0, model |-> Models[1],
               raced |-> FALSE, content |-> "text", status |-> "none", notified |-> "nothing",
               left |-> left]

\* d has its answer, from another provider, and has yet to read last_used.
Overtaken(c, d) == caller[d].pc \in {"answered", "priced"} /\ caller[c].i # caller[d].i

\* Only a caller that records goes on to the price; to the others the call is
\* over with its answer.
Answered(c) == IF c \in Recorders THEN "answered" ELSE "idle"

Ask(c) ==
    /\ caller[c].pc = "idle"
    /\ caller[c].left > 0
    /\ caller' = [caller EXCEPT ![c] = [Free(@.left - 1) EXCEPT !.pc = "trying", !.i = 1]]
    /\ UNCHANGED <<last_used, llm_calls, time, answered>>

\* Bug for mutation testing: last_used is only set when a later provider
\* had to step in.
OkSticky(c, content, tokens) ==
    /\ caller[c].pc = "trying"
    /\ last_used' = IF caller[c].i > 1 THEN caller[c].i ELSE last_used
    /\ answered' = Append(answered, [by |-> caller[c].i, for |-> c, tokens |-> tokens,
                                     dropped |-> FALSE])
    /\ caller' = [d \in DOMAIN caller |->
                    IF d = c THEN [caller[c] EXCEPT !.pc = Answered(c), !.n = Len(answered) + 1,
                                                    !.content = content]
                    ELSE [caller[d] EXCEPT !.raced = @ \/ Overtaken(c, d)]]
    /\ UNCHANGED <<llm_calls, time>>

\* try_providers, Ok: the index is stored, then the answer returned.
ProviderAnswers(c, content, tokens) ==
    /\ caller[c].pc = "trying"
    /\ last_used' = caller[c].i
    /\ answered' = Append(answered, [by |-> caller[c].i, for |-> c, tokens |-> tokens,
                                     dropped |-> FALSE])
    /\ caller' = [d \in DOMAIN caller |->
                    IF d = c THEN [caller[c] EXCEPT !.pc = Answered(c), !.n = Len(answered) + 1,
                                                    !.content = content]
                    ELSE [caller[d] EXCEPT !.raced = @ \/ Overtaken(c, d)]]
    /\ UNCHANGED <<llm_calls, time>>

\* try_providers, Err: the next provider, or the error itself when it is not
\* retryable or was the last one.
ProviderFails(c, err) ==
    /\ caller[c].pc = "trying"
    /\ IF is_retryable(err) /\ caller[c].i < Len(Models)
       THEN caller' = [caller EXCEPT ![c].i = @ + 1]
       ELSE caller' = [caller EXCEPT ![c].pc = IF c = "routine" THEN "failed" ELSE "idle"]
    /\ UNCHANGED <<last_used, llm_calls, time, answered>>

ReadPrice(c) ==
    /\ caller[c].pc = "answered"
    /\ caller' = [caller EXCEPT ![c].pc = "priced",
                                ![c].cost = cost_per_token * answered[caller[c].n].tokens]
    /\ UNCHANGED <<last_used, llm_calls, time, answered>>

ReadName(c) ==
    /\ caller[c].pc = "priced"
    /\ caller' = [caller EXCEPT ![c].pc = "named", ![c].model = model_name]
    /\ UNCHANGED <<last_used, llm_calls, time, answered>>

\* A failure to write the record is logged and no more.
record_llm_call(c, ok) ==
    /\ caller[c].pc = "named"
    /\ llm_calls' = IF ok THEN Append(llm_calls, [n |-> caller[c].n, purpose |-> c,
                                                  model |-> caller[c].model,
                                                  cost |-> caller[c].cost,
                                                  tokens |-> answered[caller[c].n].tokens,
                                                  at |-> time, raced |-> caller[c].raced])
                          ELSE llm_calls
    /\ answered' = IF ok THEN answered ELSE [answered EXCEPT ![caller[c].n].dropped = TRUE]
    /\ caller' = [caller EXCEPT ![c].pc = IF c = "routine" THEN "recorded" ELSE "idle"]
    /\ UNCHANGED <<last_used, time>>

-----------------------------------------------------------------------------
(* The routine.                                                            *)

\* Bug for mutation testing: an answer without content is refused before it
\* is recorded.
RefuseEmptyFirst(c) ==
    /\ c = "routine"
    /\ \/ caller[c].pc = "recorded"
       \/ caller[c].pc = "answered" /\ caller[c].content \in {"empty", "truncated"}
    /\ caller' = [caller EXCEPT ![c].pc = "failed"]
    /\ UNCHANGED <<last_used, llm_calls, time, answered>>

\* No content (a truncated answer too) is an error; a text that mentions
\* ROUTINE_OK anywhere says all is well and its words are dropped.
execute_lightweight(c) ==
    /\ c = "routine"
    /\ caller[c].pc = "recorded"
    /\ caller' = [caller EXCEPT
                    ![c].pc = IF caller[c].content \in {"empty", "truncated"}
                              THEN "failed" ELSE "finished",
                    ![c].status = IF caller[c].content \in {"ROUTINE_OK", "text with ROUTINE_OK"}
                                  THEN "Ok" ELSE "Attention"]
    /\ UNCHANGED <<last_used, llm_calls, time, answered>>

\* NotifyConfig says of which outcomes the user is told; the summary is the
\* text that asks for attention or the error of a failed run.
send_notification(c, notify) ==
    /\ caller[c].pc \in {"finished", "failed"}
    /\ LET status == IF caller[c].pc = "failed" THEN "Failed" ELSE caller[c].status
       IN  caller' = [caller EXCEPT
                        ![c].pc = "idle",
                        ![c].status = status,
                        ![c].notified = CASE status \notin notify -> "nothing"
                                          [] status = "Failed" -> "error"
                                          [] status = "Attention" -> caller[c].content
                                          [] OTHER -> "no summary"]
    /\ UNCHANGED <<last_used, llm_calls, time, answered>>

-----------------------------------------------------------------------------
(* Sums over the table.                                                    *)

CallRows == 1 .. Len(llm_calls)

Summary(at) ==
    [total_cost |-> Total([i \in CallRows |-> llm_calls[i].cost], at),
     total_tokens |-> Total([i \in CallRows |-> llm_calls[i].tokens], at),
     call_count |-> Cardinality(at)]

\* Bug for mutation testing: the end of a period belongs to it.
ClosedPeriod(start, end) ==
    Summary({i \in CallRows : llm_calls[i].at >= start /\ llm_calls[i].at <= end})

get_costs_by_period(start, end) ==
    Summary({i \in CallRows : llm_calls[i].at >= start /\ llm_calls[i].at < end})

get_total_spend == Summary(CallRows)

Wait ==
    /\ time < MaxTime
    /\ \E c \in Purposes : caller[c].left > 0 \/ caller[c].pc # "idle"
    /\ time' = time + 1
    /\ UNCHANGED <<last_used, caller, llm_calls, answered>>

LlmStart(budget) ==
    /\ last_used = 1
    /\ caller = [c \in Purposes |-> Free(budget[c])]
    /\ llm_calls = <<>>
    /\ time = 0
    /\ answered = <<>>

LlmInit == \E b \in CallBudgets : LlmStart(b)

LlmNext ==
    \/ \E c \in Purposes :
          \/ Ask(c)
          \/ \E content \in IF c = "routine" THEN Answers ELSE {"text"}, tokens \in Tokens :
                ProviderAnswers(c, content, tokens)
          \/ \E err \in LlmErrors : ProviderFails(c, err)
          \/ ReadPrice(c)
          \/ ReadName(c)
          \/ \E ok \in BOOLEAN : record_llm_call(c, ok)
          \/ \E notify \in NotifyConfigs : send_notification(c, notify)
          \/ execute_lightweight(c)
    \/ Wait

LlmSpec == LlmInit /\ [][LlmNext]_llmVars

-----------------------------------------------------------------------------
(* Properties.                                                             *)

\* A record bears the model and the price of the provider that answered the
\* call, unless another provider answered another caller between the answer
\* and the reads: last_used is shared by all calls and read after the fact.
AttributionHasACause ==
    \A i \in CallRows :
        LET r == llm_calls[i] IN
        ~r.raced => /\ r.model = Models[answered[r.n].by]
                    /\ r.cost = PriceOf(answered[r.n].by) * answered[r.n].tokens

\* Once nobody is at work the calls of chats and routines that a provider
\* answered have one record each, also the one whose content the routine
\* refused, unless the write itself failed, and the calls of everyone else
\* have none: "total spend across all time" (get_total_spend) is that of
\* chats and routines.  The spend of two adjacent periods adds up to the
\* total wherever the line between them is drawn.
SpendIsComplete ==
    /\ (\A c \in Purposes : caller[c].pc = "idle") =>
          \A n \in 1 .. Len(answered) :
              Cardinality({i \in CallRows : llm_calls[i].n = n}) =
                  IF answered[n].dropped \/ answered[n].for \notin Recorders THEN 0 ELSE 1
    /\ \A t \in 0 .. MaxTime :
          get_costs_by_period(0, t).total_cost + get_costs_by_period(t, MaxTime + 1).total_cost
              = get_total_spend.total_cost

\* Every call of a chat or a routine is accounted for, once (SpendIsComplete)
\* and under the name of who answered it, unless another call, recorded or
\* not, came between (AttributionHasACause).
SpendIsAccountedFor == SpendIsComplete /\ AttributionHasACause

=============================================================================
