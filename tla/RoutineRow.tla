----------------------------- MODULE RoutineRow -----------------------------
(***************************************************************************)
(* A routine on its way from a tool call to the table and back: what       *)
(* routine_create makes of its parameters (tools/builtin/routine.rs), the  *)
(* configuration columns of trigger and action (agent/routine.rs), the row *)
(* (store/libsql_backend.rs), routine_update, and the runs, which write    *)
(* the runtime columns.  An update reads the routine and writes the whole  *)
(* configuration back; a run computes the next fire time from the routine  *)
(* it was started with.  Several of both may be under way: the chat and    *)
(* every todo agent have the tool, and a routine's runs may overlap.  When *)
(* routines fire is the subject of Routines.                               *)
(*                                                                         *)
(* A JSON object is a function from its keys; Null stands for null and for *)
(* a parameter that is not given.  A schedule's next fire time is named by *)
(* the schedule.                                                           *)
(***************************************************************************)
EXTENDS Integers, FiniteSets, Sequences

CONSTANTS
    Null,
    CreateParams,   \* parameters of routine_create
    UpdateParams,   \* parameters of routine_update: the fields to change
    BadSchedules,   \* texts that are not cron schedules
    Hands,          \* updates and runs under way at a time
    MaxRowSteps     \* bound on updates and runs

ASSUME RoutineRowAssumption ==
    /\ MaxRowSteps \in Nat
    /\ Null # "full_job"
    /\ \A p \in CreateParams : Null \notin {p.name, p.prompt}  \* required
    /\ \A p \in UpdateParams :
          /\ DOMAIN p \subseteq {"enabled", "description", "prompt", "schedule"}
          /\ \A x \in DOMAIN p : p[x] # Null

VARIABLE routine

Is(type) == [x \in {"type"} |-> type]
With(type, fields) == [x \in {"type"} \cup DOMAIN fields |->
                          IF x = "type" THEN type ELSE fields[x]]

-----------------------------------------------------------------------------
(* The configuration columns.  Failed stands for an Err.                   *)

Failed == Is("error")

type_tag(x) == x.type

Get(config, key) == IF key \in DOMAIN config THEN config[key] ELSE Null

default_max_tokens == 4096
default_max_iterations == 10

OrDefault(v, d) == IF v = Null THEN d ELSE v

trigger_to_config(t) ==
    CASE t.type = "cron" -> [schedule |-> t.schedule]
      [] t.type = "event" -> [pattern |-> t.pattern, channel |-> t.channel]
      [] t.type = "webhook" -> [path |-> t.path, secret |-> t.secret]
      [] t.type = "manual" -> <<>>

trigger_from_db(tag, config) ==
    CASE tag = "cron" ->
           IF Get(config, "schedule") = Null THEN Failed
           ELSE With(tag, [schedule |-> config["schedule"]])
      [] tag = "event" ->
           IF Get(config, "pattern") = Null THEN Failed
           ELSE With(tag, [pattern |-> config["pattern"], channel |-> Get(config, "channel")])
      [] tag = "webhook" ->
           With(tag, [path |-> Get(config, "path"), secret |-> Get(config, "secret")])
      [] tag = "manual" -> Is(tag)
      [] OTHER -> Failed

action_to_config(a) ==
    IF a.type = "lightweight"
    THEN [prompt |-> a.prompt, context_paths |-> a.context_paths, max_tokens |-> a.max_tokens]
    ELSE [title |-> a.title, description |-> a.description, max_iterations |-> a.max_iterations]

\* Bug for mutation testing: the context paths are not read back.
ActionWithoutPaths(tag, config) ==
    IF tag = "lightweight"
    THEN With(tag, [prompt |-> config["prompt"], context_paths |-> {},
                    max_tokens |-> OrDefault(Get(config, "max_tokens"), default_max_tokens)])
    ELSE With(tag, [title |-> config["title"], description |-> config["description"],
                    max_iterations |-> OrDefault(Get(config, "max_iterations"),
                                                 default_max_iterations)])

action_from_db(tag, config) ==
    CASE tag = "lightweight" ->
           IF Get(config, "prompt") = Null THEN Failed
           ELSE With(tag, [prompt |-> config["prompt"],
                           context_paths |-> OrDefault(Get(config, "context_paths"), {}),
                           max_tokens |-> OrDefault(Get(config, "max_tokens"),
                                                    default_max_tokens)])
      [] tag = "full_job" ->
           IF Null \in {Get(config, "title"), Get(config, "description")} THEN Failed
           ELSE With(tag, [title |-> config["title"], description |-> config["description"],
                           max_iterations |-> OrDefault(Get(config, "max_iterations"),
                                                        default_max_iterations)])
      [] OTHER -> Failed

-----------------------------------------------------------------------------
(* The row.                                                                *)

create_row(r) ==
    [enabled |-> r.enabled, description |-> r.description,
     trigger_type |-> type_tag(r.trigger), trigger_config |-> trigger_to_config(r.trigger),
     action_type |-> type_tag(r.action), action_config |-> action_to_config(r.action),
     cooldown_secs |-> r.cooldown, notify |-> r.notify,
     last_run_at |-> r.last_run_at, next_fire_at |-> r.next_fire_at]

\* Not the runtime columns: last_run_at and next_fire_at stay as they are.
update_row(row, r) ==
    [create_row(r) EXCEPT !.last_run_at = row.last_run_at, !.next_fire_at = row.next_fire_at]

row_to_routine(row) ==
    LET trigger == trigger_from_db(row.trigger_type, row.trigger_config)
        action == action_from_db(row.action_type, row.action_config)
    IN  IF Failed \in {trigger, action} THEN Failed
        ELSE [type |-> "routine", enabled |-> row.enabled, description |-> row.description,
              trigger |-> trigger, action |-> action, cooldown |-> row.cooldown_secs,
              notify |-> row.notify, last_run_at |-> row.last_run_at,
              next_fire_at |-> row.next_fire_at]

-----------------------------------------------------------------------------
(* The tools.                                                              *)

next_cron_fire(s) == IF s \in BadSchedules THEN Failed ELSE [type |-> "ok", at |-> s]

\* Required parameters are checked by the tool; webhook takes none.
CreateTrigger(p) ==
    CASE p.trigger_type = "cron" ->
           IF p.schedule = Null \/ p.schedule \in BadSchedules THEN Failed
           ELSE With("cron", [schedule |-> p.schedule])
      [] p.trigger_type = "event" ->
           IF p.event_pattern = Null THEN Failed
           ELSE With("event", [channel |-> p.event_channel, pattern |-> p.event_pattern])
      [] p.trigger_type = "webhook" -> With("webhook", [path |-> Null, secret |-> Null])
      [] p.trigger_type = "manual" -> Is("manual")
      [] OTHER -> Failed

CreateAction(p) ==
    CASE OrDefault(p.action_type, "lightweight") = "lightweight" ->
           With("lightweight", [prompt |-> p.prompt,
                                context_paths |-> OrDefault(p.context_paths, {}),
                                max_tokens |-> 4096])
      [] p.action_type = "full_job" ->
           With("full_job", [title |-> p.name, description |-> p.prompt, max_iterations |-> 10])
      [] OTHER -> Failed

DefaultNotify == {"Attention", "Failed"}

NoRow == [pc |-> "none", steps |-> 0]

\* What routine_update can change, and what an update asks to be there.
Editable == {"enabled", "description", "prompt", "schedule"}

Prompt(a) == IF a.type = "lightweight" THEN a.prompt ELSE a.description

Told(r) == [enabled |-> r.enabled, description |-> r.description,
            prompt |-> Prompt(r.action), schedule |-> r.trigger]

Cron(schedule) == With("cron", [schedule |-> schedule])

Requested(told, p) ==
    [x \in Editable |-> IF x \notin DOMAIN p THEN told[x]
                        ELSE IF x = "schedule" THEN Cron(p.schedule) ELSE p[x]]

FireTime(t) == IF t.type = "cron" THEN next_cron_fire(t.schedule).at ELSE Null

\* An update or a run under way: the routine it read, what it is asked to
\* change and the fields that others have written since it read.
NoHand == Is("none")
UnderWay(type, r, p) == With(type, [read |-> r, asked |-> p, missed |-> {}])

\* Histories: the routine created (made), the value each field was last told
\* to have, the fields that a later write put back (lost), whether a run has
\* ended (ended), and whether one has that began after the schedule last
\* changed (ran).
CreateRoutine(p) ==
    LET trigger == CreateTrigger(p)
        action == CreateAction(p)
        r == [type |-> "routine", enabled |-> TRUE, description |-> p.description,
              trigger |-> trigger, action |-> action,
              cooldown |-> OrDefault(p.cooldown_secs, 300), notify |-> DefaultNotify,
              last_run_at |-> Null, next_fire_at |-> FireTime(trigger)]
    IN  /\ routine.pc = "new"
        /\ routine' = IF Failed \in {trigger, action}
                      THEN [NoRow EXCEPT !.pc = "refused"]
                      ELSE [pc |-> "stored", steps |-> 0, row |-> create_row(r), made |-> r,
                            told |-> Told(r), lost |-> {}, ended |-> FALSE, ran |-> TRUE,
                            hands |-> [h \in Hands |-> NoHand]]

\* Bug for mutation testing: an update that does not name enabled disables the
\* routine.
EditResets(r, p) ==
    [r EXCEPT !.enabled = OrDefault(Get(p, "enabled"), FALSE),
              !.trigger = IF "schedule" \in DOMAIN p THEN Cron(p.schedule) ELSE @]

\* A prompt goes to whichever action the routine has; a schedule makes it a
\* cron routine.
Edit(r, p) ==
    LET prompted == IF "prompt" \notin DOMAIN p THEN r.action
                    ELSE IF r.action.type = "lightweight"
                    THEN [r.action EXCEPT !.prompt = p.prompt]
                    ELSE [r.action EXCEPT !.description = p.prompt]
    IN  [r EXCEPT !.enabled = OrDefault(Get(p, "enabled"), @),
                  !.description = OrDefault(Get(p, "description"), @),
                  !.action = prompted,
                  !.trigger = IF "schedule" \in DOMAIN p THEN Cron(p.schedule) ELSE @,
                  !.next_fire_at = IF "schedule" \in DOMAIN p
                                   THEN next_cron_fire(p.schedule).at ELSE @]

\* The routine is read: by an update, or by whatever fires a run of it (the
\* cron check, the event cache that each update refreshes, fire_manual).
Reads(h, type, p) ==
    /\ routine.pc = "stored"
    /\ routine.steps < MaxRowSteps
    /\ routine.hands[h] = NoHand
    /\ LET r == row_to_routine(routine.row)
       IN  /\ r # Failed
           /\ type = "run" => r.enabled
           /\ routine' = [routine EXCEPT !.hands[h] = UnderWay(type, r, p), !.steps = @ + 1]

UpdateReads(h, p) == Reads(h, "update", p) /\ Get(p, "schedule") \notin BadSchedules

RunReads(h) == Reads(h, "run", <<>>)

\* Everyone else under way misses what is written now.
Missing(h, fields) ==
    [g \in Hands |-> IF g = h \/ routine.hands[g] = NoHand THEN NoHand
                     ELSE [routine.hands[g] EXCEPT !.missed = @ \cup fields]]

\* The whole configuration is written, with the fields as they were read.
UpdateWrites(h) ==
    /\ routine.pc = "stored"
    /\ routine.hands[h].type = "update"
    /\ LET p == routine.hands[h].asked
           missed == routine.hands[h].missed
       IN  routine' = [routine EXCEPT
               !.row = update_row(@, Edit(routine.hands[h].read, p)),
               !.told = Requested(@, p),
               !.lost = (@ \cup missed) \ DOMAIN p,
               !.ran = @ /\ "schedule" \notin DOMAIN p \cup missed,
               !.hands = Missing(h, DOMAIN p \cup missed)]

\* A run ends: last_run_at and, for a cron routine, the next fire time, both
\* from the routine as the run was given it.
RunWritesRuntime(h) ==
    /\ routine.pc = "stored"
    /\ routine.hands[h].type = "run"
    /\ routine' = [routine EXCEPT
           !.row.last_run_at = "ran",
           !.row.next_fire_at = FireTime(routine.hands[h].read.trigger),
           !.ended = TRUE,
           !.ran = "schedule" \notin routine.hands[h].missed,
           !.hands = Missing(h, {})]

\* The statement fails, or the process stops before it.
NothingWritten(h) ==
    /\ routine.pc = "stored"
    /\ routine.hands[h] # NoHand
    /\ routine' = [routine EXCEPT !.hands[h] = NoHand]

RowInit == routine = [NoRow EXCEPT !.pc = "new"]

RowNext ==
    \/ routine.pc = "new" /\ \E p \in CreateParams : CreateRoutine(p)
    \/ \E h \in Hands :
          \/ \E p \in UpdateParams : UpdateReads(h, p)
          \/ RunReads(h)
          \/ UpdateWrites(h)
          \/ RunWritesRuntime(h)
          \/ NothingWritten(h)

RowSpec == RowInit /\ [][RowNext]_routine

-----------------------------------------------------------------------------
(* Properties.                                                             *)

\* The fields of an action that a prompt may change.
Unprompted(a) == [x \in DOMAIN a \ {"prompt", "description"} |-> a[x]]

\* However a routine was created, edited and run, its row reads back, and
\* enabled, description, prompt and schedule are what the last update that
\* named them said, unless an update that had read the routine before wrote
\* its old values back after it (routine_update is a read, an edit and a
\* write of every column); no update touches the rest.  Edits and runs leave
\* each other's columns alone, and the next fire time belongs to the schedule
\* as soon as a run has ended that was started after the schedule last
\* changed: an update does not write it (update_routine), and a run that was
\* under way during the change writes the time of the old schedule.
RoutineReadsBack ==
    routine.pc = "stored" =>
        LET r == row_to_routine(routine.row)
            made == routine.made
        IN  /\ r # Failed
            /\ \A x \in Editable \ routine.lost : Told(r)[x] = routine.told[x]
            /\ Unprompted(r.action) = Unprompted(made.action)
            /\ r.cooldown = made.cooldown /\ r.notify = made.notify
            /\ r.last_run_at = IF routine.ended THEN "ran" ELSE Null
            /\ routine.ran => r.next_fire_at = FireTime(r.trigger)
=============================================================================
