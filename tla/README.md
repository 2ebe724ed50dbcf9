# A TLA+ development for ai-assist

ai-assist is a personal assistant server (Rust, tokio) with an iOS client. Agents
work on todos, draft replies to mail and ask the user's permission with approval
cards; nothing goes out without one. This directory models the parts of the server
where several tasks, the database, the user and failures meet, checks the models
with TLC on small instances and proves the most important invariants with TLAPS for
every instance.

Paths below are relative to the repository root (`src/agent/...` etc.).

## 1. Inventory

| Component | State | Operations | Talks to |
|---|---|---|---|
| Agent queue (`agent/agent_queue.rs`, `todos/pickup.rs`) | unbounded dispatch channel, semaphore of `max_concurrency` permits, follow-up contexts | `enqueue`, `enqueue_followup`, `dispatch_loop`, `recover`, `scan_startable` | todos table, spawns todo agents |
| Todo agents (`agent/todo_agent.rs`, `channels/todo_channel.rs`, message loop of `agent/agent_loop.rs`) | inbox of capacity 8, permit slot, `responded`, buffered event | start, `respond`, `send_status`, `shutdown` | card queue, registry, semaphore, todos table, activity feed |
| Approval registry and ActionHandler (`todos/approval_registry.rs`, `cards/handlers/action.rs`) | card id -> sender, permit slot, todo | `register`, `take`, `remove_for_todo`, `resolve_approval` | agents, agent queue |
| Card queue (`cards/queue.rs`, `cards/handlers/*.rs`) | `VecDeque` behind an `RwLock`, cards table | push, approve, dismiss, edit, refine, expire, prune, `mark_sent`, `with_db` | clients, SMTP, LLM, messages table |
| Card stream and questions (`cards/ws.rs`, `tools/builtin/ask_user.rs`, `cards/choice_registry.rs`, iOS `CardWebSocket.swift`) | broadcast channel, each client's list, a oneshot per question | snapshot, subscribe, lag, resync, answer, timeout | card queue, tool calls |
| Email intake (`channels/email_poller.rs`, `channels/email.rs`, `pipeline/*.rs`, recovery in `main.rs`) | INBOX flags, messages table, the batch and list in hand | `poll_once`, `process_pending_emails`, `route_to_card`, startup recovery | IMAP server, LLM, card queue |
| Sessions and threads (`agent/session*.rs`, `undo.rs`, `commands.rs`, `approval.rs`, `tool_executor.rs`) | thread state, turns, pending approval, undo stacks | submit, approve, interrupt, undo, redo, compact | LLM, tools, store |
| Context (`agent/context_monitor.rs`, `agent/compaction.rs`) | the turns, the daily file | estimate, summarise, truncate, archive | threads, LLM, workspace |
| Tool turns and model replies (`llm/reasoning.rs`, `llm/rig_adapter.rs`, `llm/provider.rs`) | messages of one turn, tool records | clean, recover calls, convert, run, ask | LLM, tools |
| Card contents (`channels/email.rs`, `pipeline/rules.rs`, `pipeline/processor.rs`, `cards/reply_drafter.rs`, card rows of the store) | one card and its row | rules, triage, draft, refine, edit, reload, send | card queue, SMTP |
| Todo list and documents (`todos/ws.rs`, `documents/routes.rs`, `tools/builtin/todo.rs`, `document.rs`, iOS `TodoWebSocket.swift`) | rows, broadcast channel, the client's list | create, update, snooze, complete, delete | store, agents, clients |
| Activity feed (`todos/activity.rs`, `logging/agent_logger.rs`) | broadcast channel, job_actions, log files | emit, save, replay, subscribe, clean up | todo agents, clients |
| Routines (`agent/routine_engine.rs`, `agent/routine.rs`, `tools/builtin/routine.rs`) | rows, event cache, running counter, run rows | cron pass, event check, `fire_manual`, create, update, delete | LLM, store, worker |
| Worker (`worker/*.rs`) | job contexts, memories, subtasks | create, transition, remove, run a tool, spawn, stop | tools |
| Chat channels (`channels/telegram.rs`, `ios.rs`, `cli.rs`, `manager.rs`) | offset, queues, broadcast channel | poll, deliver, take, reply in chunks | Telegram, phones, agent loop |
| Typed commands and conversation log (`agent/submission.rs`, `commands.rs`, history of `ios.rs`) | conversation rows | parse, persist, page | store |
| LLM calls and costs (`llm/failover.rs`, `llm/costs.rs`) | `last_used`, llm_calls | call, fail over, price, record, sum | LLM, store |
| Workspace and tools (`workspace.rs`, `tools/builtin/memory.rs`, `file.rs`, `shell.rs`) | files, processes | read, write, append, patch, run | agents |
| Tool registry, safety, configuration, errors | a table filled at start, settings | | |

What is hard here is the same everywhere: every `.await` is a point where another task
may run; the database, the in-memory state and the user's screen are three copies of
one thing; the process may die between any two steps; timers (15-minute `recover`,
30-second scan, 60-second sweep, the pollers) act on what they read earlier; broadcasts
are lossy and statements fail with no more than a log line. The list `hazards` of
`PROJECT.json` names the places.

What makes the components correct:

* **Agent queue and agents**: no permit is lost or invented; a queued todo is
  dispatched; an answer reaches the run that asked; a tool call runs only after its
  own approval.
* **Cards**: one decision per card; one mail per approval, with the words and readers the
  user saw; a pending card survives a restart; an old one goes away; the client's list is
  the queue; a question's answer reaches the tool call that asked.
* **Email intake**: no mail is lost or answered from two cards without a crash or
  failure; every stored mail is triaged.
* **Sessions and threads**: a tool call the user took back never runs; a prompt stays
  answerable; a thread never gets stuck; turns keep their answers through undo,
  compaction, the database and back; every result belongs to a call.
* **Routines and jobs**: runs do not overlap, a due routine fires, limits hold, records
  go away with what they belong to.
* **Channels, board, feed, tools**: what the user is shown, what is stored and what is
  on disk agree with what happened, and where the code cannot guarantee it there is a
  short list of causes.

## 2. Plan

| Module | Models | Proved |
|---|---|---|
| `TodoAgents`, `MCTodoAgents`, `TodoAgentsProofs` | agent queue, todo agents, registry, action handler | every safety property |
| `CardQueue`, `MCCardQueue`, `CardQueueProofs`, `Outbox`, `Sift` | card queue and reply handler, against the abstract `Outbox` | every safety property, the refinement |
| `EmailIntake`, `MCEmailIntake`, `EmailIntakeProofs`, `Sift` | poller, processor, startup recovery | every safety property |
| `AgentThreads`, `MCAgentThreads`, `AgentThreadsProofs`, `Sift` | session manager, threads, approvals, undo/redo, hydration, pruning | every safety property |
| `CardStream`, `MCCardStream`, `CardStreamProofs` | broadcast, one connection, the client's list, `ask_user` | every safety property |
| `Routines`, `MCRoutines`, `RoutinesProofs` | triggers, cache, runs, tools | every safety property |
| `Jobs`, `MCJobs`, `DataPathsProofs` | job contexts and memories, subtasks, full jobs | every safety property |
| `TodoBoard`, `MCTodoBoard`, `EmailIntakeProofs` | todo and document rows, their writers, one connection, the client's list | every safety property |
| `Channels`, `MCChannels`, `CardQueueProofs` | Telegram, iOS chat, command line, the main loop | every safety property |
| `AgentTools`, `MCAgentTools`, `TodoAgentsProofs` | files and commands shared by agents | every safety property |
| `LlmCalls`, `RoutineRow`, `Compaction`, `ChatLog`, `CardPath`, `ActivityFeed`, `Totals`, composed by `MCDataPaths`, `DataPathsProofs` | calls of the model and their cost, rows of routines, shrinking of a context, the conversation log, the contents of cards, the events of a run and its log | every safety property |
| `ToolTurn`, composed by `MCDataPaths`, `CardStreamProofs` | a model's reply, its tool calls and their results | that calls and results belong together |
| `SiftLemmas` | what `Sift`, the sub-sequence of the elements of a set, and `FlattenSeq` return | for every sequence |

What the user is shown of a reply (`ShownIsTheVisibleText`) and liveness under fairness
stay with TLC.

## 3. The modules

### 3.1 `TodoAgents`

One action is one stretch of code between two points where another task can see or
change shared state. The state is the status column of the todos, the approval cards
that carry a todo id, the dispatch channel, the semaphore, and for each concurrent
task its place in the code: `dpc` for `dispatch_loop`, `apc[a]` for the task of agent
run `a`, `rpc[c]` for the `resolve_approval` call of card `c`, `ppc` for the pickup
loop, the spawned follow-up tasks and one Update or Snooze between its read and its
write.

* *dispatch_loop*: `DispatchRecv`, `DispatchAcquire`, `DispatchLoad`,
  `DispatchClaim`, `DispatchSpawn`. (`spawn_todo_agent` never returns an error.)
* *pickup loop*: `PickupRecover`, `PickupReset`, `PickupListQueued`, `PickupResend`,
  `PickupScan`, `PickupEnqueue`, `PickupDone`. Each list is read once and worked
  through afterwards, as in the code.
* *an agent*: `AgentReceive` ... `AgentUnregister`. `AgentNeedApproval`,
  `AgentRegister`, `AgentAwait` and `AgentRelease` are the four steps of `send_status`
  in the code's order. What the language model decides is a choice between
  `AgentFinish`, `AgentEmpty` and `AgentNeedApproval`.
* *the user and ActionHandler*: `UserDecides`, `ResolveTake`, `ResolveAcquire`,
  `ResolveSend`, `ResolveEnqueue`.
* *the sockets*: `CreateTodo`, `CompleteOrDelete`, `EditRead`/`EditWrite`,
  `UserFollowUp`, `FollowUpWorking`, `FollowUpEnqueue`.
* *the process*: `CtrlC`, `AgentPanic`, `Restart`; every database call may fail (`Db`).

Abstractions. `enqueue` writes AgentQueued and then sends the ticket; the model does
both at once. Between the two only a ticket that is already on its way can act on the
new status, and it acts the same way when the new ticket is already behind it in the
channel; a crash between the two looks like a crash right after both, because the
channel is lost and `recover` reads the table. Reading a todo back and broadcasting
it changes nothing an action reads. The order of `recover`'s list is left open.
`Agents` and `Cards` are identities that are reused once nothing refers to them, so
finitely many stand for any number of runs.

### 3.2 `CardQueue` and `Outbox`

`approve`, `dismiss`, `edit` and `mark_sent` hold the write lock across their database
statement, so each is one action; `push` (insert, then queue), `refine` (look, LLM,
apply, write) and `expire_old` (table, then memory and pruning) are not and have one
action per part. `mem` and `db` are the two copies of a card's status. `Restart` loads
the pending, unexpired rows as `with_db` does. `SendReply` is the SMTP exchange;
`sent` and `sentRun` count mails as history.

`Outbox` is the promise to the user: an approval can be granted, used for one mail, or
forfeited. `CardQueue` implements it with `granted` as the cards that a handler has
been told to send.

### 3.3 `EmailIntake`

The mailbox is a sequence because the poller works with sequence numbers, read in one
IMAP session and used in another. `PollFetch` is a whole session (the server does not
renumber within one) and may break after any FETCH; `FETCH RFC822` makes the server
set `\Seen` (RFC 3501, 6.4.5), which the model gives to the external mailbox. Other mail
clients delete mails (`Expunge`), mark them unread (`MarkUnread`) or read them before the
poller does (`ReadElsewhere`): a mail read elsewhere is never returned by SEARCH UNSEEN.
`PollPersist` handles one mail with filter, lookup and insert, `PollMark` stores the
flags. The processor is `ProcList`, `ProcTriage`, `ProcRoute`, `ProcStatus`. Cards are
counted per mail: `holders` are the placeholders of startup recovery (with a message
id), `drafts` the cards of the pipeline (without one). What a mail says, and which of
the three card-producing triage actions is chosen, is abstracted. A mail without a
Message-ID is not modelled. A mail that `fetch_unseen_imap` cannot parse is marked seen and
dropped; it counts as one that is not `Wanted`, as do those of senders that are not allowed.
A line of a mail that begins with the tag of the IMAP command ends the reader's response
early (`email.rs`); the model takes every response as complete.

### 3.4 `AgentThreads`

One user with the chat windows `Ext`. The main loop handles one message at a time, so
only the tasks beside it interleave with a handler: the pruner, and the writers that
`persist_turn` spawns. `h` is the message in hand with the handler's locals. A message
goes through hydration (`HydrateRead`, `HydrateInsert`, `RegisterMap`,
`RegisterSession`), resolution (`ResolveSession`, `ResolveFind`, `ResolveMap`,
`ResolveUndo`), and one of the commands or a turn (`BeginTurn`, then `Nudge`,
`LoopCalls`, `ToolRuns` and an end: `LoopText`, `LoopError`, `ToolGated`). The message
is parsed first in the code; parsing is pure, so the model chooses what it asks for
when it is dispatched. `prune_stale_sessions` is five steps, one per lock it takes.
`Sess` has two members: the session in the map and the one a handler may still hold
after it was pruned; `Finish` is where such an Arc is dropped.

`map` has the client's spelling of a thread id as its key, `Canon` the spelling
`to_string` gives: hydration registers the second, resolution looks up the first.

Abstractions. A message is a role and the number of its input, an answer carries the
number it answers. What the context size calls for is free (`Compacted`; `Compaction` has the sizes). `Tick` is the
idle timeout, assumed longer than the handling of a message. Rows are in the order in
which they were written; `created_at` has a resolution of a second, and SQLite sorts
equal ones, in practice, in the order of insertion. `Session::active_thread` is written and never
read by a handler and is left out. The check for an interrupted turn after the loop is
left out too: no handler runs beside it that could interrupt. `/quit` is a `Restart`.

### 3.5 `CardStream`

The same cards as `CardQueue`, seen from a client. `card` is the status in memory, `rx`
the connection's receiver with its capacity and lag, `list` how often each card is in the
client's list. `approve`, `dismiss`, `edit` and `expire_old` broadcast under the lock that
guards the status and are one action; `push` and `refine` broadcast after they have
released it and are two. A connection goes through `Connect` (snapshot), `Subscribe`,
`Forward`, `Resync`, `Disconnect`; it handles one request at a time, a refinement or an
answer that it is still waiting for included (`busy`). A second `rest` request runs
beside it. `ask_user` registers a oneshot, pushes its card and waits; `AskTimeout` is its
own limit, `AskDropped` the limit of `execute_chat_tool` around it, which drops the call
without removing the entry. `on_decision` is the handler of a question: "select" resolves
the call, "outside" is a `SelectOption` whose index the card does not have, which decides
the card and only logs a warning, so the call waits for its timeout, as it does after a plain
Approve (`plain` has these questions). The iOS client takes a card off its list as soon as the user
has decided it (`ClientActs`), before the server knows.

### 3.6 `TodoBoard`

Rows of todos and documents, three writers (the todo socket, the tools of the agents,
REST), each in the middle of at most one operation. Update, Snooze, the update tools and
PUT are a read and a write of the whole row; `serial` is what the rows would be if each
change had applied only its own fields, and `overlap` the rows on which two operations
overlapped. The list that `Connect` and `Resync` owe the client may fail to be read: on
connecting that is logged, after a lag it is skipped without a word, and no `TodosSync` is
sent in either case (`SendList`, `unsent`). `main.rs` builds two `TodoState`s (lines 262 and 280): what agents and the
queue announce goes to a channel nobody receives (`unheard`). The list is a sequence,
because the client appends what it takes for new.

### 3.7 `Channels`

Telegram keeps updates until a request carries a larger offset (external); `PollOk` and
`Deliver` are the poller, which advances its offset per update and drops those of unknown
users. The stream of all channels is merged, `Take` takes one message and the loop handles
it to the end (`StatusUpdate`, `Handled`, `ChunkSent`). `Outgoing` is the iOS broadcast
with its lag. `Crash` and `Quit` lose everything in memory, the offset too.

### 3.8 `Routines` and `RoutineRow`

`Routines` has the table, the event cache, the cron pass that works through a list, the
event check, `fire_manual`, and per run the task `spawn_fire` starts, from the row it was
spawned with to its three statements. The tools read, write and refresh the cache in
separate steps, and two of them may overlap. `now` counts cron instants. Time goes on for
ever: at its last instant `Tick` takes the clock and every time that is still compared with
it back by `Cycle`, which changes no comparison, since only differences of times matter and
a time older than the cooldown is as good as any older one (`ClockAssumption`).

`RoutineRow` follows the contents of one routine: parameters of `routine_create`, type tag
and JSON columns, defaults on reading, `routine_update`, what a run writes. An update reads
the routine (`UpdateReads`) and writes the whole configuration back (`UpdateWrites`); a run
is given the routine (`RunReads`) and later writes `last_run_at` and the fire time of the
schedule it was given (`RunWritesRuntime`). `Hands` are the updates and runs under way at
once: two agents have the tool, and a run takes as long as its model call. `told` is what
each field was last told to be; `lost` has the fields an overlapping update put back.

### 3.9 `Jobs`

`ContextManager` has two maps with a lock each, so creating and removing a job are two
steps each; subtasks have a task, a wrapper in the map, and a poller that removes it.
`execute_full_job` is the caller in production: each failing step ends it and leaves what
was done. Nothing inserts into the scheduler's map of jobs, so `stop` finds nothing.

### 3.10 `AgentTools`

Files are sequences of lines; `fs::write` is a truncation and a write. Two agents work at
once; a crash may fall in between. Opening may fail and leave the file alone (`OpenFails`);
a write may fail behind any of its lines and leave the file cut (`WriteFails`), the error
returned to the agent; a seed that fails is a warning at startup, and the seeds behind it are
not written (`SeedFails`). `write_file` of "" and an `apply_patch` that replaces a line by ""
are calls with `empty`; an `apply_patch` whose old text is "" (which `contains` finds
everywhere) is not modelled. A shell command works for some time, prints, and then
appends a line; both time limits, the pipe's capacity, `kill` without the children and
the drop of a call are modelled. Which commands and paths are refused is a field of the
call (`refused`).

### 3.11 The data paths

Seven modules that follow data rather than interleavings; one run checks them side by
side (`MCDataPaths`), since they share no state.

* `ToolTurn`: a model reply, as a sequence of words, newlines and tags, through the removal
  of internal markup, the cut at the first empty line and the recovery of tool calls from
  text (blanks are left out: a line of blanks is not an empty line to the code, so with
  blanks next to its newlines a reply is cut less often, never more); the messages of the agentic
  loop with approvals, refusals and results; the conversion for the provider.
* `CardPath`: a mail with its headers through allowlist, rules and triage answer, or a
  chat message through the drafter, to a card, its row, the card read back, refinement,
  edit, approval, and the mail that goes out.
* `ActivityFeed`: the events of a todo agent's run, each saved by a task of its own; the
  activity socket with history, subscription and lag; the log of the run and the
  clean-up of old logs.
* `ChatLog`: what a typed text asks for, the rows that turns leave, the history endpoint
  and the pages of the store, with times as the texts the code compares. The history is the
  tail of a list in ascending order, a page the reversed head of one in descending order; the
  order of rows of one second is chosen anew by every statement (`Ascending`, `Descending`),
  as SQL leaves it open.
* `LlmCalls`: failover over providers, prices, the llm_calls row, sums and periods; what a
  lightweight routine makes of an answer. All callers of the model share the failover and
  its `last_used`; only chats and lightweight routines record what a call cost
  (`Recorders`).
* `RoutineRow`: see 3.8.
* `Compaction`: the size of a context in tokens, the strategy it calls for, what each
  strategy removes and leaves in the daily file when the model or the file fails.

## 4. What TLC checks

A *scenario* (`Scenarios`, `Budget`, `MixedUse`) bounds how often each disturbance
happens; other steps are unbounded except for named bounds.

Many properties have the form "X has a cause": the code does not guarantee that X never
happens, and the property lists every way in which it can. A reader who wants X excluded
finds in the list what would have to change.

| Run | Instance | Distinct states | Shows |
|---|---|---|---|
| `todo_safety` | 1 todo, 3 agent runs, 2 cards, 1 permit, 2 tickets; four scenarios: two approvals; approval with restart and Ctrl+C; follow-up with restart and panic; an empty answer | 1.29 M | `PermitsConserved`; `NoPermitOfTheDead`; `WaitingIsServed` (a registry entry leads to the run that asked, `EntryLeadsToAsker`; a queued todo has a ticket, `QueuedHasTicket`; no inbox fills up, `InboxNeverFull`); `ToolRunsOnlyIfApproved` |
| `todo_live` | 1 todo, 2 runs, 1 card, 1 permit; scenarios panic and follow-up, database fault, edit, approval | 146 k | `QueuedIsDispatched`, `WorkingMovesOn`, `TakenEntryIsAnswered` |
| `card_decisions` | 2 email cards, 2 callers, 1 refinement, 2 restarts, 1 fault, pruning above 1 card | 188 k | `SentOncePerRun`; `TableIsEnough` (`SentAtMostOnce`, `PendingSurvives`); `ImplementsOutbox`; `CardsMoveOn` (`DecisionsAreFinal`, `PastIsExpired`) |
| `card_stream` | 1 question and 1 expiring card, options picked by a valid or an invalid index, receiver of 2, 1 request under way, 1 disconnection, 1 refinement each | 3.98 M | `CardListHasACause` (`ListDiffersHasACause`), `AnswerReachesAsker` |
| `email_intake` | 1 wanted and 1 filtered mail, each disturbance once, 2 restarts | 176 k | `ExtraCardsHaveACause`; `TableHoldsTheMail` (`UnstoredHasACause`); `MailMovesForward` (`AnsweredStaysAnswered`, `PendingIsTriaged`) |
| `threads` | 1 window, 2 inputs, 1 approval request, 1 checkpoint, two rounds of the tool loop, 1 prune, failing statement or crash | 500 k | `RevokedNeverRuns`; `NeverLeftProcessing`; `PromptIsAnswerable`; `HistoryIsRight` (`AnswersBelong`, `MissingHasACause`); `TurnsMoveForward` (`RedoLosesNothing`, `MessageIsHandled`) |
| `routines` | 2 routines of any kind, 2 tasks, 1 place, 2 tool calls, a clock without end; scenarios two messages and a manual trigger, crash and fault, edit, edit and fault, each with one routine, and two cron routines that compete for the place | 342 k | `EngineFollowsTable` (`OverlapHasACause`, `StuckHasACause`, `CacheFollowsRows`); `DueIsServed` |
| `jobs` | 2 jobs, 2 clients, 1 full job, 1 call, 1 subtask, limit 1 | 724 k | `JobsAreAccountedFor` (`ActiveBounded`, `OrphanMemoryHasACause`); `SubtasksAreForgotten` |
| `board` | 2 todos, 1 document, 4 operations, receiver of 1, 1 disconnection or list that cannot be read | 3.33 M | `LostUpdateHasACause`; `PhoneListHasACause` (`ListDiffersHasACause`, `InternalNeverShown`) |
| `channels` | 2 updates of a known or an unknown user, 2 chats, 1 line, replies of 2 chunks, receiver of 1, 1 fault, 1 end of the program | 6.05 M | `TakenOnceHasACause` (`LostHasACause`, `TwiceHasACause`); `UnreadHasACause` (`ReplyHasNoGap`, `UnseenHasACause`) |
| `tools` | 2 agents, 3 files, 3 calls out of all tools, empty ones included, 1 crash, writes that fail anywhere | 1.16 M | `FilesHaveACause` (`LostLineHasACause`, `EmptyFileHasACause`); `ReportsHaveACause` (`LateCommandHasACause`, `TimeoutHasACause`, `PanicHasACause`) |
| `data_paths` | replies of up to 5 tokens, and of up to 5 pieces of whole blocks and lines, mails with up to 2 readers in To and Cc, runs with up to 2 tools, 3 typed texts and 3 instants, up to 3 model calls of two or three callers, 3 updates and runs of a routine, 2 of them at once, 6 steps of a context | 589 k | `ResultsMatchCalls`, `ShownIsTheVisibleText`, `CardKeepsContents`, `PhoneShowsTheFeed`, `FeedTellsTheRun`, `LogReadsBack`, `SpendIsAccountedFor`, `RoutineReadsBack`, `CompactionKeepsTrack` |

The type invariant of a module is a conjunct of one of its properties (`WaitingIsServed`,
`TableIsEnough`, `TableHoldsTheMail`, `HistoryIsRight`, `EngineFollowsTable`, ...); the
data paths but two, and `AgentTools`, do without one. Each
run ends within four minutes with two workers.

Why the bounds are enough. One todo suffices to get several concurrent agents,
because the periodic `recover` resets a todo whose agent is alive and dispatches
another one; two runs of the *same* todo are the harder case, since `remove_for_todo`
and the status writes do not tell them apart. One permit makes every wait for a permit
a real one. Three runs are one more than can be asking, so the dispatcher is never
stopped by the lack of an identity. One filtered mail next to a wanted one is enough
to shift sequence numbers and to have the wrong mail marked. A `recover` that finds
its ticket in a full channel adds no copy. In `threads`, two inputs are a turn to undo
and one that replaces it, commands are unbounded (`MaxRedo` bounds the redo stack, which
the code does not), and at most one message is received while a prune is under way.
`raced` marks behaviours in which a prune overlapped with a message: the pruner's sweep
may then remove what the message registered, which loses prompts, undo history and the
path of a turn to its thread; `PromptIsAnswerable`, `MissingHasACause` and
`RedoLosesNothing` are claimed for the others only, the rest for all. Receivers of one or
two events lag after two or three, which stands for 256 or more in the code. In
`card_stream` and `board` two entries of different kinds are enough for one to be missed
while the other is shown twice. In `routines` two tasks are one more than the limit of
concurrent runs, and two routines are one more than the places: `CrowdedOut` names the pass
that breaks off at the limit (routine_engine.rs:151) with a routine still on its list.
Without that cause TLC finds a behaviour in which one routine takes the place with every
pass and the other, due all the time, never runs: the rows come back in no particular order; in `jobs` two clients can create and remove the same job at once. In
`tools` three calls are two writers and a reader of one file. In `data_paths` the
lengths are those at which nested and unfinished tags, a second page and every strategy
of compaction occur.

### Disagreements between documents and code

Met while modelling. The models follow the code; the properties above exclude or name
these cases.

| Statement | What the code does |
|---|---|
| docs/features/todo-agent-workflow.md:100, "the agent re-acquires a slot before resuming" | the user approves between `register` and the release of the permit (`todo_channel.rs:382`); the agent then drops the permit it was just given and runs without one |
| PRD.md:499, tools "block until the user responds" | the user decides between push and `register` (`todo_channel.rs:352`); the decision finds no entry and the agent waits for ever |
| agent_queue.rs:106, "no agents survive restart" | `recover` also runs every 15 minutes, and resets todos with live agents |
| agent_queue.rs:81, "Broadcast update to iOS" | the channel is that of the first `TodoState` (`main.rs:262`), the sockets subscribe to that of the second (`main.rs:280`) |
| cards/queue.rs:21, "all mutations are written through to the database" | `refine` writes Pending after it has released the lock, over a decision made meanwhile |
| cards/handlers/compose.rs:25, "Card already has edited text by the time handler runs" | only replies are edited in memory: an edited compose card sends its first draft |
| ask_user.rs:142, "Timeout - clean up" | the limit of `execute_chat_tool` around it has the same length, started first and drops the call before the clean-up |
| channels/email.rs:345, "\Seen is NOT marked here" | FETCH RFC822 marks it; a broken connection then loses the mail |
| processor.rs:149, "falling back to Notify" | the caller gets the error and leaves the row pending |
| session_manager.rs:182, "skip if contended (someone is actively using it)" | no message on a thread in memory touches `last_active_at`, and a handler waiting for the model holds no lock: the session of an active user is removed, pending approval included |
| ChatWebSocket.swift:284, "so conversations survive app restarts" | the client's thread id is in upper case, hydration registers it in lower case (`session_manager.rs:126`), so each session's turns go to a thread with a random id that no client asks for |
| agent_loop.rs:299, "Each channel renders the approval prompt via send_status" | Telegram's `send_status` ignores `ApprovalNeeded` |
| tools/builtin/routine.rs:95, "Minimum seconds between fires" | the cooldown is checked against `last_run_at` of a snapshot (`routine_engine.rs:116`), which a run in progress has not written yet |
| routine_engine.rs:409, "reply EXACTLY with: ROUTINE_OK" | any answer that contains the word is taken for Ok (line 478) |
| store/traits.rs:242, "total spend across all time"; README.md:147, "per-call recording" | triage (`processor.rs:141`), drafts and refinements (`reply_drafter.rs:142`, 234), `/summarize` and `/suggest` (`commands.rs:283`, 330) and compaction (`compaction.rs:216`) call the model and record nothing: the total is that of chats and lightweight routines |
| tools/builtin/shell.rs:297, "default 120" | `execute_chat_tool` ends the call after 60 s, and the command goes on |

Further observations, visible without an interleaving: `scan_startable` queues
a todo whose queue card was dismissed (todo-agent-workflow.md:112 says it stays
Created); an empty model answer leaves the agent waiting with its permit
(agent_loop.rs:177, todo-agent-workflow.md:133); the processor marks a row Replied
when only a card was made (store/traits.rs:64, "Reply has been sent"); a second `/undo`
restores the same checkpoint again (undo.rs:114); `/new` and `/thread` set
`active_thread`, which `resolve_thread` never reads; `/interrupt` is read from the same
queue as the turn it is meant for and only after it (session.rs:9); a turn that waited for
an approval is never written to the database (docs/agent-loop-architecture.md:214); a
call in the middle of a batch that needs approval leaves the calls behind it unanswered;
`record_tool_result` writes to the turn's last call; recovered calls of different replies
have the same ids; text before an unfinished tag is shown twice; "yes", "ok" and "no" with
nothing pending are errors, and "/models" is taken for `/model`, which no rig provider can
change; a refined reply loses its confidence, an action card its text and a question its
options when a card is read back; a changed schedule keeps the old `next_fire_at` until
the next run, and a run under way during the change writes the old schedule's time once
more (routine_engine.rs:339); two overlapping `routine_update` put each other's old values
back (tools/builtin/routine.rs:313); a cron pass breaks off at the global limit with no
order that would favour the routines left behind; a `SelectOption` with an index the
question does not have decides the card and leaves the tool call waiting; a `TodosSync`
whose list cannot be read is not sent, nor tried again; a failing
`fs::write` leaves a file cut; a block on a line of its own leaves an empty line in a reply,
before which the visible words may be cut off (reasoning.rs:649, 752); a mail read in another
client before the poll is never seen by the program; pages of one day repeat while `has_more` stays true; the activity socket
filters only `Started` by todo; `Started` and `ApprovalResolved` are never saved; a
context of at most ten long turns is not compacted at 80 to 85 percent; an archive that
cannot be written does not keep the turns from being cut; `read_file` checks the size
before it looks at offset and limit, and a read that starts behind the last line panics;
`CreateTodoTool` stores the chat's user while the list shows the user "default"; Ctrl+C is
noticed only between two messages.

### Fairness

`TodoAgents`: weak fairness for every server task; strong fairness for
`DispatchAcquire` and `ResolveAcquire`, because tokio's semaphore serves its waiters
in order; strong fairness for `PickupRecover`, because its timer fires every 15 minutes
whatever the scan does. Users, the model's answers and disturbances are not fair.
`CardQueue`: weak fairness of the sweep (an interval timer). `EmailIntake`: weak
fairness of the poller and of the processor (interval timers). `AgentThreads`: weak
fairness of the handler and of each writer; a model call or a tool ends with an answer,
an error or a timeout. `Routines`: weak fairness of the cron pass (an interval timer), of
the check of each routine on its list, and of each run. `Jobs`: weak fairness of each
subtask with its wrapper and poller. The user, the pruner, edits and crashes are not fair.

## 5. What TLAPS proves

All theorems hold for every value of the constants under the named assumptions of the
modules, which TLC evaluates in every run: finitely many agents, cards, jobs and tasks; at
least one permit and one place in a broadcast channel; null values outside the sets they
are null values of; budgets and bounds that are numbers; replies that are sequences of
texts, calls and thoughts. `ExtAssumption` of `AgentThreads`
says what parsing a thread id does: ids of fresh threads are not typed by a client, the
canonical spelling parses to the same thread, and two spellings have one canonical form
exactly if they name one thread.

Each property below is proved by an inductive invariant of its own, checked with TLC
before it was proved. What the invariants add, and why the property needs it:

| Theorem | States | Rests on |
|---|---|---|
| `TodoAgentsProofs`: `PermitsAreConserved`, `PermitsReturn`, `TypeCorrect` | `PermitsConserved`, `NoPermitOfTheDead`, `TypeOK` | `PermitInv`: a `resolve_approval` call past `take` has an agent, whoever has an inbox or a card names a real todo, and a dead agent's slot is empty unless such a call carries it. Without it a permit put into the slot of an agent that has exited would be lost and `ResolveSend` would not keep the count |
| `ToolsWaitForTheUser` | `ToolRunsOnlyIfApproved` | `EntryInv`, `AnswerInv`: whoever refers to an agent, in the registry or in a `resolve_approval` call, does so for the card it asked about, and nobody does once its answer is in the inbox; an answer in an inbox is what the user decided. An approval in an inbox could otherwise be that of an earlier request or of another run of the todo |
| `WaitersAreServed`, `EntriesLeadToAskers` | `WaitingIsServed`; two of its conjuncts | `EntryInv`, and that nothing but the server's own tasks writes a status. Hypothesis: scenarios without edits and database faults, by which a queued todo does lose its ticket (the 15-minute `recover` then helps, `QueuedIsDispatched`). `EntriesLeadToAskers` has no hypothesis |
| `FilesAreExplained` | `FilesHaveACause` | `ToolInv`: unless two calls have met on a file, a line that was reported is on disk or in the hands of everyone who will write the file, the files of two writers apart. The property speaks of lines on disk only, which while a file is truncated are nowhere but in the writer's buffer. A failing write takes the lines of its file out of the account and marks the file as cut (`torn`), and a file nobody writes is empty only if it is marked so or its last write had nothing to put there (`blank`) |
| `ReportsAreExplained` | `ReportsHaveACause` | `ToolInv`: what is left of a waiting command and what its call has waited are its work together, or it is stuck in a full pipe; a command told dead has been killed or is one of those that may act. And what an agent knows of a file is no more than is there until it is written again |
| `CardQueueProofs`: `SentOnce` | `SentOncePerRun` | `SendInv`: the card of a caller that is about to send is no longer pending, no other caller holds the same approval, and it was not sent in this process |
| `RefinesOutbox` | `ImplementsOutbox` | the same; each step of the queue is a step of `Outbox` or a stutter |
| `TableHoldsTheCards` | `TableIsEnough` | `TableInv`: a card whose row is inserted and which is not yet in memory is pending in the table, nobody refines without a refinement having begun, and a card that is being or was sent is decided in both copies. `SentAtMostOnce` counts over restarts, so what a restart reads back must be known of every sent card |
| `DecisionsStand` | `DecisionsAreFinal`, the action part of `CardsMoveOn` | `TableInv`, and that whoever sends holds a decided card, so `mark_sent` overwrites no other decision |
| `UpdatesTakenOnce` | `TakenOnceHasACause` | `ChannelInv`: the poller works through the updates that follow the offset; what it has passed is in the stream, taken or lost; the stream holds updates once and in order; and an update taken was taken since the last start, is confirmed, or is known to come again. Between a delivery and the next request the offset in memory is ahead of what Telegram has confirmed, so the property, which speaks of the confirmed ones, does not tell what that request will confirm |
| `RepliesAreRead` | `UnreadHasACause` | `ChannelInv`: the chunks left to send follow what has arrived; a message of the client waits, is being answered, or has its reply in the receiver, and without a connection all are seen or given up. Otherwise a reply sent while nobody listens would be missed without a cause |
| `EmailIntakeProofs`: `ExtraCards` | `ExtraCardsHaveACause` | `CardBound`: a mail still due for a card (on the list, in hand or pending) has had no card beyond the crashes and failed statements so far, and a mail without a row has had none |
| `NoMailIsLost` | `TableHoldsTheMail` | `MailIsKept`: until something breaks the path, the sequence numbers in the poller's hands still name the mails they were fetched for, and a wanted mail that is seen is stored, still in the batch, or was read by another client. The numbers are read in one session and used in another, which is where a mail would be lost |
| `AnswersStand` | `AnsweredStaysAnswered`, the action part of `MailMovesForward` | the types of `MailIsKept` |
| `UpdatesAreKept` | `LostUpdateHasACause` | `RowsInv`: a change that is to write a row back has read it as it is, unless another was made to that id meanwhile; two changes at work on one id are known to overlap, and an id that is not in use has no row and no change that could bring one back. The property compares the row with `serial` and says nothing of the copy in a writer's hands, which is what the row will be |
| `PhoneListIsExplained` | `PhoneListHasACause` | `ClientInv`, below |
| `AgentThreadsProofs`: `NoStuckThread`, `RevokedStaysRevoked` | `NeverLeftProcessing`, `RevokedNeverRuns` | `IInv`: only the thread of the turn in hand is Processing; a request that some thread awaits is neither revoked nor run, and no two threads await the same one, without which taking one back would not keep another from being run |
| `PromptsStayAnswerable` | `PromptIsAnswerable` | `PromptInv`: a key of the map in canonical form leads to the thread of that id or nowhere, hydrated threads are found by it, and the handler's place in the resolution says which of this already holds. A window's prompt could otherwise be cut off by another window that hydrates or creates a thread |
| `HistoryStaysRight` | `HistoryIsRight` | `HistoryInv`, below |
| `RedoNeverGoesBack` | `RedoLosesNothing`, the action part of `TurnsMoveForward` | `RedoInv`: of a thread in use the checkpoints to undo to are older and older and those to redo newer and newer than what it shows, and a thread not in use has an empty history unless the pruner is about to drop it. Without the second half a thread that is hydrated again could find the stack of its former self, which is what happens when a prune overlaps |
| `CardStreamProofs`: `PhoneFollowsTheQueue` | `CardListHasACause` | `ListInv`: the events of a card that the connection has not taken are in the order announcement, refinements, decision; and unless the receiver lags, the list will be right once they are applied; the expiry of a card is one of them, so an expired card leaves the list like a decided one. The property speaks of quiet moments only and is not inductive: the receiver's content is what ties list and queue together |
| `AnswersReachAskers` | `AnswerReachesAsker` | `AskInv`: a call without an answer keeps its sender registered from before the push on, and a decision of its card is in some request's hands, or was made without picking one of its options (`plain`) |
| `CallsAreMatched` | `ResultsMatchCalls` | `TurnInv`, below: what is still in the queue or asked of the user is the part of the newest calls that has no result yet |
| `RoutinesProofs`: `EngineKnowsTheTable` | `EngineFollowsTable` | `RoutinesInv`: `running_count` counts the executing tasks, each has its running row, tasks with and before their row stay within `max_concurrent` together unless raced; and a tool call under way alone holds a list that is up to date |
| `DataPathsProofs`: `JobsAccountedFor` | `JobsAreAccountedFor` | `JobsInv`: only ids in use have a context or a memory; a creation between its halves has a job of its own without a memory, and if the context is gone its removal is under way or came too early |
| `SpendAddsUp` | `SpendIsAccountedFor` | `LlmInv`: an answered call is held by the one caller that asked for it, or dropped, or in the table, and in one place only; and as long as no other provider has answered between, what the caller holds agrees with `last_used`. The calls of those who do not record are answered and nowhere else, and they move `last_used` as well. The property counts records when nobody is at work and is not inductive: the records still to come are in the callers' hands |
| `RowsReadBack` | `RoutineReadsBack` | `RowInv`: the row is the columns of a routine the tools can make, which the conversions of trigger and action turn into the same routine again; and each update or run under way holds a routine that agrees with the stored one but for the fields it has missed. The property looks at the row alone; what an overlapping write puts into it is in the hands of the others |
| `CompactionTracked` | `CompactionKeepsTrack` | `ContextInv`: turns have sizes that are numbers, and what the last compaction left is as its strategy promises. That a part of a context is no larger than the whole comes from `TotalOfRest` |
| `LogIsReadBack` | `LogReadsBack` | `ChatInv`: rows are those of typed inputs that start a turn, a question is stored before its answer's task goes on; and a walk that is promised more has left nothing unseen that is later than a row of its page, and shown nothing of an earlier day than all of its page. The next page is asked for by the first row of this one, so the property alone says nothing about what is left. Page and history come from statements of opposite orders that break ties as they like: the k-th row from the end is as late in both because as many rows are later (`TailsAgree`, by counting) |
| `ContentsAreKept` | `CardKeepsContents` | `PathInv`: a card made from a mail carries the addresses computed from that mail until it is sent, over refinement, restart and edit; before a restart its row holds all of it but the confidence of a refined one; and once decided its text is the one decided on, replies always. Nothing in the property ties the card to the mail before the mail leaves |
| `PhoneIsShownTheFeed` | `PhoneShowsTheFeed` | `FeedInv`: an event that is to be saved is saved once, being saved, or lost; and a socket, while it replays already, has accounted for every event up to its place. The property asks live sockets only, which is when the account is due, not when it is made |
| `RunsAreTold` | `FeedTellsTheRun` | `RunTold`, a part of `FeedInv`, below |

The lemmas come before the theorems, one per operator or group of actions. The first
three proofs about `AgentThreads` only ask sessions for their shape; nothing is said of
turns, and the operators on them are never expanded. Cardinalities come from FiniteSetTheorems.
`SiftLemmas` proves what the sub-sequence of the elements of a set is for every sequence
(`SiftExists`): a recursive function is shown to be defined up to n by the least number at
which it is not, since every non-empty set of numbers has a least element (`Least`, from
the well-foundedness of strict inclusion of finite sets). `CardQueue` and `EmailIntake`
use `Sift` for what the code does with `retain` and with the search of unseen mail,
`AgentThreads` for the user messages of a history, `ActivityFeed` for the history of a todo
and the tool events of a run, `ToolTurn` for the parts of a reply and of a conversation
that are kept (`Keep`). `FlattenSteps` does the same for joining sequences, and
`DataPathsProofs` for `Total`, the sum of a sequence over a set of places: `TotalSplits` says that the sums over
two disjoint sets add up, which is what makes adjacent periods cost what they cost
together and a shorter context smaller. The rows that a statement returns (`ListsAllOnce`,
`PageIsTail`, `PageIsAscending`) and the list of addresses without repetitions (`NewPeople`,
`ParsingPeople`, `CountedOnce`) have lemmas of the same kind: who is in the result, in
which order, how many.

`HistoryInv` follows the turns through every list that keeps them. Its parts: `Threads`
(turns in the order of their inputs, each with no answer or its own; a thread that awaits
approval does so for its newest turn, or an approved call would answer another one);
`Undos` and `Rows` (checkpoints and rows are such histories as messages); `Writers` (unless
a thread was written to by two tasks at once it has one writer, everything stored is older
than what that one will write, and between its two rows the user's message is the last);
`Dues` (an answered turn is stored, or its writer is at work and has the rest); `InHand`
(the handler writes to the newest turn, and as long as it holds an input to be written
nothing of that input is stored: this is what makes the rows of a new writer younger than
all others). The property itself is not inductive: nothing in it speaks of checkpoints,
of rows or of writers, which is where turns come back from. The lemmas `MessagesOK` and
`RestoreOK` say that a history in order becomes messages in order and comes back as one,
by what `FlattenSeq` and `Sift` do to sequences of any length.

`RunTold` says of each run, from its record and the events sent so far, what has been told of
it: `FeedBegins` (the place of its `started` is known, and nothing of it is older);
`FeedEnds` (no ending before the run ends, and only what `MayFollow` allows after it);
`AnswersAsked` (requests cover the resolutions sent and those `Owed`, that is, answered and
not announced yet, or asked and not answered); `ToolsAreTold` (the tool events sent,
together with the one that is held back to be merged with its output, are the tools that
ran); `ScriptTells` (the log has one end per tool that ran). The property speaks of ended
runs and of events sent; the event still held and the resolution still owed are only in the
record of the run, and without them no step that sends one could be seen to keep order.
A step is shown to keep `RunTold` by what it appends (`EventAppended`, `Appended`): at most
the held event and one more, so one lemma about adding one event is used twice. That a run's
events are untouched by other runs is a lemma of its own, and the logs are kept by
`LogsKept`: what any clean-up has listed and not yet removed is not among the newest.

`ClientInv` says, for a todo that no race and no agent has put out of step (`Good`): what
is about to be announced of it, and what was announced of it last, is the todo as it is
(`NewsFit`); its creation is announced once (`CreatedOnce`) and it is not listed before that
(`ListedOnce`), so the client, which appends what is announced as created, has it once; and
when nothing about it is on the way the list is right (`ListIsRight`). The property asks
only then, and what makes the list right is the last event the receiver still holds.
`InternalIsKept` is what lets `should_skip`, which looks at the announced row, stand for the
row of the table. `ListGrows`, `ListReplaces` and `ListShrinks` say what appending, replacing
and removing an entry change of what is shown of each todo, for lists of any length.

`TurnInv` describes a conversation at every moment of a turn, while the property looks at it
only when the model is asked. The calls of a message that are to be answered (`Given`) are
an initial part of its calls (`SkipsAreTails`), so the place of a result is that of its
message plus the number of the call (`GivenCount` counts them), and the results follow in
that order (`ResultsFollow`). While calls run (`RunsAt`) the queue is exactly the part of the
newest calls that have no result yet, and the last record of the turn is that of the call in
hand if its reply had no other; while the user is asked (`WaitsAt`) the call in question is
the last one that is still to be answered. Without the link between queue, messages and
records no step that appends a result could be seen to put it in its place. `IdsTell` says
which ids a reply can have; it comes from `CallsOfReplies`, on what the model's text yields
for any reply, and `RequestIs` says that the conversion for the provider keeps every message
but the system's at its place.

Only model-checked: the liveness properties (fairness and ENABLED are outside the prover),
`PastIsExpired`, `PendingIsTriaged`, `MessageIsHandled` and the other temporal halves among
them; and `ShownIsTheVisibleText`, which compares four passes over the tags of a reply with
another reading of the same reply: that is induction over the text, through every pass.

## 6. Not modelled

* The text of messages, prompts, drafts, subjects and summaries, the stripping of HTML and
  quotes, the wording of notifications and logs: no property depends on them.
* Operations that only read: searches, lists, badge counts, the detail and deliverables
  of a todo, previews of conversations, the transcript's format.
* Which paths and commands the tools refuse, and the safety layer, which passes text
  through in this version.
* Code without a caller in the program: `fetch_thread_by_subject`, the planning and
  evaluation of `reasoning.rs`, `router.rs` and `handle_command`, the back-off functions of
  `llm/retry.rs`, rich media of Telegram, `ChannelManager::broadcast`, settings and job
  rows of the store, `stop` of the scheduler. `FailoverProvider` and the pages of the
  conversation log have no caller either and are modelled, since they are finished and
  have state to get wrong. `persist_response_chain` writes nothing, as no provider has a
  chain id.
* The tool registry (filled once at start), configuration, error types, the database
  schema, the iOS views and the optimistic changes of a todo's detail view.
