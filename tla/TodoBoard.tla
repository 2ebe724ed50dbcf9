----------------------------- MODULE TodoBoard ------------------------------
(***************************************************************************)
(* The todo list and the documents as the user sees them: the rows in the  *)
(* database, the handlers and tools that change them, the broadcast of     *)
(* each change, one connection of the todo WebSocket and the list that the *)
(* iOS client keeps.                                                       *)
(*                                                                         *)
(* A change is a statement, or a read of the whole row, a merge and a      *)
(* write of the whole row; its broadcast comes last.  main builds two      *)
(* TodoStates: the connection subscribes to the channel of the second,     *)
(* while the agent queue and the todo agents send on that of the first,    *)
(* which nobody receives.  A todo created by the chat tool belongs to the  *)
(* user of the chat; the list is that of the user "default".               *)
(***************************************************************************)
EXTENDS Naturals, Sequences, SequencesExt, Sift

CONSTANTS
    Todos, Docs,    \* ids (fresh UUIDs: each is created once)
    Edits,          \* fields an update_todo call may set: [status, title]
    DocEdits,       \* fields an update_document call may set: [content, title]
    Capacity,       \* of the broadcast channel (256)
    MaxOps,         \* bound: changes
    MaxDrops,       \* bound: broken connections and lists that cannot be read
    None

ASSUME CapacityAssumption == Capacity \in Nat \ {0}
ASSUME BoundsAssumption == MaxOps \in Nat /\ MaxDrops \in Nat
ASSUME IdsAssumption == IsFiniteSet(Todos) /\ Todos \cap Docs = {}

VARIABLES
    todos, docs,      \* the tables: id -> row, or None
    used,             \* ids that have been created
    writer,           \* the change each writer is making
    conn, rx, lagged, \* the connection ("off", "synced", "live") and its receiver
    unsent,           \* the last list the connection owed the client was not sent
    list,             \* the client's list of [id, row]
    ops, drops,
    serial,           \* history: each row as if every change were one step
    overlap,          \* history: ids that two changes were made to at a time
    amiss,            \* history: todos that a race has put out of step at the client
    unheard           \* history: todos that agents have changed

link == <<conn, rx, lagged, unsent>>
hist == <<serial, overlap, amiss, unheard>>
boardVars == <<todos, docs, used, writer, link, list, ops, drops, hist>>

\* The WebSocket connection, tools of a chat or of an agent, REST requests.
Writers == {"ws", "tool", "rest"}
TodoStatus == {"Created", "AgentWorking", "Snoozed", "Completed"}
TodoItem == [status : TodoStatus, title : 0 .. 1, internal : BOOLEAN, mine : BOOLEAN]
Document == [content : 0 .. 1, title : 0 .. 1]
NewDocument == [content |-> 0, title |-> 0]
Ids == Todos \cup Docs
ASSUME NoneAssumption == None \notin Ids \cup TodoItem \cup Document
ASSUME EditsAssumption ==
    /\ \A set \in Edits : /\ DOMAIN set \subseteq {"status", "title"}
                          /\ "status" \in DOMAIN set => set.status \in TodoStatus
                          /\ "title" \in DOMAIN set => set.title \in 0 .. 1
    /\ \A set \in DocEdits : /\ DOMAIN set \subseteq DOMAIN NewDocument
                             /\ \A f \in DOMAIN set : set[f] \in 0 .. 1
Snoozed == [status |-> "Snoozed"]
Idle == [pc |-> "idle", id |-> None, row |-> None, set |-> None]

BoardTypeOK ==
    /\ todos \in [Todos -> TodoItem \cup {None}]
    /\ docs \in [Docs -> Document \cup {None}]
    /\ used \subseteq Ids
    /\ writer \in [Writers -> [pc : {"idle", "merge", "reread", "created", "updated", "deleted"},
                               id : Ids \cup {None}, row : TodoItem \cup Document \cup {None},
                               set : Edits \cup DocEdits \cup {Snoozed, None}]]
    /\ conn \in {"off", "synced", "live"} /\ lagged \in BOOLEAN /\ unsent \in BOOLEAN
    /\ rx \in Seq([k : {"created", "updated", "deleted"}, id : Todos, row : TodoItem \cup {None}])
    /\ list \in Seq([id : Todos, row : TodoItem])
    /\ ops \in 0 .. MaxOps /\ drops \in 0 .. MaxDrops
    /\ overlap \subseteq Ids /\ amiss \subseteq Todos /\ unheard \subseteq Todos

BoardInit ==
    /\ todos = [t \in Todos |-> None] /\ docs = [d \in Docs |-> None]
    /\ used = {} /\ writer = [w \in Writers |-> Idle]
    /\ conn = "off" /\ rx = <<>> /\ lagged = FALSE /\ unsent = FALSE /\ list = <<>>
    /\ ops = 0 /\ drops = 0
    /\ serial = [i \in Ids |-> None]
    /\ overlap = {} /\ amiss = {} /\ unheard = {}

-----------------------------------------------------------------------------
(* The statements *)

\* Mutant: the query forgets the column is_agent_internal.
list_user_todos_All ==
    {t \in Todos : todos[t] # None /\ todos[t].mine /\ todos[t].status # "Completed"}

\* list_user_todos for the user "default", without the completed ones.
list_user_todos ==
    {t \in Todos : todos[t] # None /\ ~todos[t].internal /\ todos[t].mine /\ todos[t].status # "Completed"}

\* The fields that a request sets; the others stay.
Merge(row, set) == [f \in DOMAIN row |-> IF f \in DOMAIN set THEN set[f] ELSE row[f]]

Overlaps(i) == IF \E w \in Writers : writer[w].id = i THEN {i} ELSE {}
OverlapsOthers(w, i) == IF \E v \in Writers \ {w} : writer[v].id = i THEN {i} ELSE {}

\* update_todo and update_document: all columns, where the row is still there.
update_todo(t, row) == todos' = [todos EXCEPT ![t] = IF @ = None THEN None ELSE row]
update_document(d, row) == docs' = [docs EXCEPT ![d] = IF @ = None THEN None ELSE row]

-----------------------------------------------------------------------------
(* Changes: TodoAction over the socket, the todo and document tools, REST *)

Begin(w, i, pc, row, set) ==
    /\ ops < MaxOps /\ ops' = ops + 1
    /\ writer[w] = Idle
    /\ w = "ws" => conn = "live"
    /\ writer' = [writer EXCEPT ![w] = [pc |-> pc, id |-> i, row |-> row, set |-> set]]
    /\ overlap' = overlap \cup Overlaps(i)

NewTodo(internal, mine) == [status |-> "Created", title |-> 0, internal |-> internal, mine |-> mine]

\* The row is inserted; TodoCreated is announced in a later step.  (The card that asks
\* to queue an agent-startable todo is TodoAgents' concern.)
create_todo(w, t, row) ==
    /\ t \notin used /\ used' = used \cup {t}
    /\ Begin(w, t, "created", row, None)
    /\ todos' = [todos EXCEPT ![t] = row]
    /\ serial' = [serial EXCEPT ![t] = row]
    /\ UNCHANGED <<docs, link, list, drops, amiss, unheard>>

\* TodoAction::Create
WsCreate(t) == create_todo("ws", t, NewTodo(FALSE, TRUE))

\* The chat tool: the todo belongs to the user of the chat.
CreateTodoTool(t) == create_todo("tool", t, NewTodo(FALSE, FALSE))

\* POST /api/todos/test may ask for an internal todo.
create_test_todo(t, internal) == create_todo("rest", t, NewTodo(internal, TRUE))

\* TodoAction::CreateSubtask: internal, and not announced.
CreateSubtask(t) ==
    /\ t \notin used /\ used' = used \cup {t}
    /\ ops < MaxOps /\ ops' = ops + 1
    /\ conn = "live" /\ writer["ws"] = Idle
    /\ todos' = [todos EXCEPT ![t] = NewTodo(TRUE, TRUE)]
    /\ serial' = [serial EXCEPT ![t] = NewTodo(TRUE, TRUE)]
    /\ UNCHANGED <<docs, writer, link, list, drops, overlap, amiss, unheard>>

\* get_todo of a change that will write the row back.
ReadTodo(w, t, set) ==
    /\ todos[t] # None
    /\ Begin(w, t, "merge", todos[t], set)
    /\ UNCHANGED <<todos, docs, used, link, list, drops, serial, amiss, unheard>>

WsUpdate(t, set) == ReadTodo("ws", t, set)
Snooze(t) == ReadTodo("ws", t, Snoozed)
UpdateTodoTool(t, set) == ReadTodo("tool", t, set)

\* The write, of the row as it was read; announced as it was written.
WriteTodo(w) ==
    /\ writer[w].pc = "merge" /\ writer[w].id \in Todos
    /\ LET t == writer[w].id
           row == Merge(writer[w].row, writer[w].set)
       IN /\ update_todo(t, row)
          /\ serial' = [serial EXCEPT ![t] = IF @ = None THEN None ELSE Merge(@, writer[w].set)]
          /\ writer' = [writer EXCEPT ![w] = [pc |-> "updated", id |-> t, row |-> row, set |-> None]]
    /\ UNCHANGED <<docs, used, link, list, ops, drops, overlap, amiss, unheard>>

\* TodoAction::Complete: the status alone, then the row is read for the broadcast.
complete_todo(t) ==
    /\ Begin("ws", t, "reread", None, None)
    /\ todos' = [todos EXCEPT ![t] = IF @ = None THEN None ELSE [@ EXCEPT !.status = "Completed"]]
    /\ serial' = [serial EXCEPT ![t] = IF @ = None THEN None ELSE [@ EXCEPT !.status = "Completed"]]
    /\ UNCHANGED <<docs, used, link, list, drops, amiss, unheard>>

\* A row that is gone, or that cannot be read, is announced as deleted.
CompleteReads(ok) ==
    /\ writer["ws"].pc = "reread"
    /\ LET t == writer["ws"].id
           row == IF ok THEN todos[t] ELSE None
           pc == IF row = None THEN "deleted" ELSE "updated"
       IN writer' = [writer EXCEPT !["ws"] = [pc |-> pc, id |-> t, row |-> row, set |-> None]]
    /\ UNCHANGED <<todos, docs, used, link, list, ops, drops, hist>>

\* A row that is not there is not announced.
delete_todo(w, t) ==
    /\ todos[t] # None
    /\ Begin(w, t, "deleted", None, None)
    /\ todos' = [todos EXCEPT ![t] = None]
    /\ serial' = [serial EXCEPT ![t] = None]
    /\ UNCHANGED <<docs, used, link, list, drops, amiss, unheard>>

WsDelete(t) == delete_todo("ws", t)
DeleteTodoTool(t) == delete_todo("tool", t)

\* update_todo_status by AgentQueue or TodoChannel; the broadcast that follows goes to
\* the channel without receivers.
AgentSets(t, s) ==
    /\ todos[t] # None /\ ops < MaxOps /\ ops' = ops + 1
    /\ todos[t].status # s
    /\ todos' = [todos EXCEPT ![t] = [@ EXCEPT !.status = s]]
    /\ serial' = [serial EXCEPT ![t] = [@ EXCEPT !.status = s]]
    /\ overlap' = overlap \cup Overlaps(t)
    /\ unheard' = unheard \cup {t}
    /\ amiss' = IF conn = "synced" THEN amiss \cup {t} ELSE amiss
    /\ UNCHANGED <<docs, used, writer, link, list, drops>>

\* The todo need not exist.
create_document(d) ==
    /\ d \notin used /\ used' = used \cup {d}
    /\ ops < MaxOps /\ ops' = ops + 1
    /\ docs' = [docs EXCEPT ![d] = NewDocument]
    /\ serial' = [serial EXCEPT ![d] = NewDocument]
    /\ UNCHANGED <<todos, writer, link, list, drops, overlap, amiss, unheard>>

\* POST /api/documents has the same effect.
CreateDocumentTool(d) == create_document(d)

\* get_document of a change that will write the row back.
ReadDocument(w, d, set) ==
    /\ docs[d] # None
    /\ Begin(w, d, "merge", docs[d], set)
    /\ UNCHANGED <<todos, docs, used, link, list, drops, serial, amiss, unheard>>

UpdateDocumentTool(d, set) == ReadDocument("tool", d, set)

\* PUT /api/documents/{id}
put_document(d, set) == ReadDocument("rest", d, set)

\* Mutant: a field that the request leaves out is cleared.
WriteDocument_Clears(w) ==
    /\ writer[w].pc = "merge" /\ writer[w].id \in Docs
    /\ LET d == writer[w].id
           set == writer[w].set
       IN /\ update_document(d, Merge(NewDocument, set))
          /\ serial' = [serial EXCEPT ![d] = IF @ = None THEN None ELSE Merge(@, set)]
    /\ writer' = [writer EXCEPT ![w] = Idle]
    /\ UNCHANGED <<todos, used, link, list, ops, drops, overlap, amiss, unheard>>

WriteDocument(w) ==
    /\ writer[w].pc = "merge" /\ writer[w].id \in Docs
    /\ LET d == writer[w].id
           set == writer[w].set
       IN /\ update_document(d, Merge(writer[w].row, set))
          /\ serial' = [serial EXCEPT ![d] = IF @ = None THEN None ELSE Merge(@, set)]
    /\ writer' = [writer EXCEPT ![w] = Idle]
    /\ UNCHANGED <<todos, used, link, list, ops, drops, overlap, amiss, unheard>>

\* DELETE /api/documents/{id}.
delete_document(d) ==
    /\ docs[d] # None /\ ops < MaxOps /\ ops' = ops + 1
    /\ docs' = [docs EXCEPT ![d] = None]
    /\ serial' = [serial EXCEPT ![d] = None]
    /\ overlap' = overlap \cup Overlaps(d)
    /\ UNCHANGED <<todos, used, writer, link, list, drops, amiss, unheard>>

-----------------------------------------------------------------------------
(* The broadcast, the connection and the client *)

\* tx.send of TodoCreated, TodoUpdated or TodoDeleted.  What is sent between
\* snapshot and subscription never arrives.
Announce(w) ==
    /\ writer[w].pc \in {"created", "updated", "deleted"}
    /\ LET t == writer[w].id
           all == Append(rx, [k |-> writer[w].pc, id |-> t, row |-> writer[w].row])
       IN /\ IF conn = "live"
               THEN /\ rx' = IF Len(all) > Capacity THEN Tail(all) ELSE all
                    /\ lagged' = (lagged \/ Len(all) > Capacity)
               ELSE UNCHANGED <<rx, lagged>>
          /\ amiss' = IF conn = "synced" THEN amiss \cup {t} ELSE amiss
          /\ overlap' = overlap \cup OverlapsOthers(w, t)
    /\ writer' = [writer EXCEPT ![w] = Idle]
    /\ UNCHANGED <<todos, docs, used, conn, unsent, list, ops, drops, serial, unheard>>

\* A list_user_todos snapshot, in some order.
Snapshot == [i \in 1 .. Cardinality(list_user_todos) |->
                LET t == SetToSeq(list_user_todos)[i] IN [id |-> t, row |-> todos[t]]]

\* Todos whose creation is written and not yet announced, or announced and still in
\* the receiver: the client will append them a second time.
Doubled == {writer[w].id : w \in {v \in Writers : writer[v].pc = "created"}} \cap Todos
StillNew == {rx[i].id : i \in {j \in DOMAIN rx : rx[j].k = "created"}}

\* TodosSync.  A list that cannot be read is logged, and the client keeps the list it has.
SendList(ok, doubled) ==
    /\ unsent' = ~ok
    /\ IF ok THEN list' = Snapshot /\ amiss' = amiss \cup doubled /\ drops' = drops
             ELSE /\ drops < MaxDrops /\ drops' = drops + 1
                  /\ UNCHANGED <<list, amiss>>

Connect(ok) ==
    /\ conn = "off" /\ conn' = "synced"
    /\ SendList(ok, Doubled)
    /\ UNCHANGED <<todos, docs, used, writer, rx, lagged, ops, serial, overlap, unheard>>

Subscribe ==
    /\ conn = "synced" /\ conn' = "live" /\ rx' = <<>> /\ lagged' = FALSE
    /\ UNCHANGED <<todos, docs, used, writer, unsent, list, ops, drops, hist>>

\* The connection's task is either forwarding or handling an action.
Free == conn = "live" /\ writer["ws"] = Idle

\* TodoWebSocket.applyMessage.
applyMessage(ev) ==
    CASE ev.k = "created" -> Append(list, [id |-> ev.id, row |-> ev.row])
      [] ev.k = "updated" -> LET at == {i \in DOMAIN list : list[i].id = ev.id}
                             IN IF at = {} THEN list
                                ELSE [list EXCEPT ![Min(at)] = [id |-> ev.id, row |-> ev.row]]
      [] ev.k = "deleted" -> Sift(list, [id : Todos \ {ev.id}, row : TodoItem])

\* should_skip
Skipped(ev) == ev.k # "deleted" /\ ev.row.internal

\* An update of a todo that the client does not list, as one that is reopened, is
\* dropped there.
Forward ==
    /\ Free /\ ~lagged /\ rx # <<>>
    /\ LET ev == Head(rx)
       IN /\ rx' = Tail(rx)
          /\ list' = IF Skipped(ev) THEN list ELSE applyMessage(ev)
          /\ amiss' = IF ev.k = "updated" /\ \A i \in DOMAIN list : list[i].id # ev.id
                        THEN amiss \cup {ev.id} ELSE amiss
    /\ UNCHANGED <<todos, docs, used, writer, conn, lagged, unsent, ops, drops, serial, overlap, unheard>>

\* Mutant: after a lag the list is not sent again.
Resync_Logged(ok) ==
    /\ Free /\ lagged /\ lagged' = FALSE
    /\ UNCHANGED <<todos, docs, used, writer, conn, rx, unsent, list, ops, drops, hist>>

\* RecvError::Lagged: a new snapshot; what the receiver still holds comes after it.
Resync(ok) ==
    /\ Free /\ lagged /\ lagged' = FALSE
    /\ SendList(ok, Doubled \cup StillNew)
    /\ UNCHANGED <<todos, docs, used, writer, conn, rx, ops, serial, overlap, unheard>>

Disconnect ==
    /\ conn # "off" /\ writer["ws"] = Idle
    /\ drops < MaxDrops /\ drops' = drops + 1
    /\ conn' = "off" /\ rx' = <<>> /\ lagged' = FALSE
    /\ UNCHANGED <<todos, docs, used, writer, unsent, list, ops, hist>>

BoardNext ==
    \/ \E t \in Todos :
          \/ WsCreate(t) \/ CreateTodoTool(t) \/ CreateSubtask(t)
          \/ \E internal \in BOOLEAN : create_test_todo(t, internal)
          \/ \E set \in Edits : WsUpdate(t, set) \/ UpdateTodoTool(t, set)
          \/ Snooze(t) \/ complete_todo(t) \/ WsDelete(t) \/ DeleteTodoTool(t)
          \/ \E s \in TodoStatus : AgentSets(t, s)
    \/ \E ok \in BOOLEAN : CompleteReads(ok) \/ Connect(ok) \/ Resync(ok)
    \/ \E w \in Writers : WriteTodo(w) \/ WriteDocument(w) \/ Announce(w)
    \/ \E d \in Docs : \/ CreateDocumentTool(d) \/ delete_document(d)
                       \/ \E set \in DocEdits : UpdateDocumentTool(d, set) \/ put_document(d, set)
    \/ Subscribe \/ Forward \/ Disconnect

BoardSpec == BoardInit /\ [][BoardNext]_boardVars

-----------------------------------------------------------------------------
(* Properties *)

Row(i) == IF i \in Todos THEN todos[i] ELSE docs[i]

\* A row holds what its changes, made one after the other, leave there, unless two of
\* them overlapped (update_todo and update_document write back what they have read).
LostUpdateHasACause == \A i \in Ids : Row(i) # serial[i] => i \in overlap

\* What the client shows of todo t, completed ones aside, and what it should show.
Shown(t) == {i \in DOMAIN list : list[i].id = t /\ list[i].row.status # "Completed"}
Listed(t) == {todos[u] : u \in {t} \cap list_user_todos}

\* It is shown once, if at all, and as the database has it.
ShowsTheTable(t) ==
    /\ {list[i].row : i \in Shown(t)} = Listed(t)
    /\ \A i, j \in Shown(t) : i = j

\* Nothing about t is under way.
Settled(t) ==
    /\ conn = "live" /\ ~lagged
    /\ \A w \in Writers : writer[w].id # t
    /\ \A i \in DOMAIN rx : rx[i].id # t

Foreign(t) == IF todos[t] = None THEN FALSE ELSE ~todos[t].mine

\* Once a change is announced and forwarded, the client shows the todo as the database
\* has it, unless a race on the way is to blame, an agent changed it, it belongs to
\* another user, or the list could not be read when the client connected or last fell
\* behind: then no TodosSync was sent (handle_socket, TodoWebSocket.applyMessage).
ListDiffersHasACause ==
    \A t \in Todos :
        Settled(t) /\ ~ShowsTheTable(t) =>
            t \in amiss \cup overlap \cup unheard \/ Foreign(t) \/ unsent

\* Agent-internal subtasks are never shown (should_skip, list_user_todos).
InternalNeverShown == \A i \in DOMAIN list : ~list[i].row.internal

\* The phone's list is the database's, internal todos left out, or there is a known
\* reason (ListDiffersHasACause, InternalNeverShown).
PhoneListHasACause == BoardTypeOK /\ ListDiffersHasACause /\ InternalNeverShown
=============================================================================
