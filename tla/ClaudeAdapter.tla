--------------------------- MODULE ClaudeAdapter ----------------------------
(***************************************************************************)
(* The Claude Code adapter (src/src/providers/claude.rs): what one frame   *)
(* of the stream-JSON protocol does to the parser state of a turn, and     *)
(* what the runtime reads off that state.  Every operator is a function:   *)
(* ParseLine(f, s) is [s |-> the state after f, out |-> AdapterOutput].    *)
(*                                                                         *)
(* A frame is a record with a field `type` (and `subtype` for `system`);   *)
(* a key the provider may leave out is read with Get.  Texts are           *)
(* abstracted to whether there is any; counters of tokens to small         *)
(* numbers; identifiers to model values.                                   *)
(***************************************************************************)
EXTENDS Integers, FiniteSets, SequencesExt

CONSTANTS
    MAX_TURN_MESSAGES,
    MAX_NATIVE_TASKS,
    MAX_RETIRED_TASKS,
    MAX_WORKFLOW_AGENTS,
    WORKFLOW_COUNTER_TICKS

ASSUME ClaudeAssumption ==
    /\ MAX_TURN_MESSAGES \in Nat \ {0}
    /\ MAX_NATIVE_TASKS \in Nat \ {0}
    /\ MAX_RETIRED_TASKS \in Nat
    /\ MAX_WORKFLOW_AGENTS \in Nat \ {0}
    /\ WORKFLOW_COUNTER_TICKS \in Nat \ {0}

Get(f, key, default) == IF key \in DOMAIN f THEN f[key] ELSE default

\* AdapterOutput.
NoOutput == [events |-> <<>>, writes |-> <<>>, optional |-> <<>>, ask |-> "none",
             terminal |-> FALSE, ok |-> TRUE]

Emit(p, e) == [p EXCEPT !.out.events = Append(@, e)]

\* ClaudeNativeState and the part of AdapterState the adapter writes.
Fresh ==
    [tasks |-> <<>>, retired_tasks |-> <<>>, task_usage |-> <<>>, background_task_ids |-> {},
     tool_use_to_task |-> <<>>, tool_names |-> <<>>, bash_inputs |-> {},
     effective_permission_mode |-> "unknown", permission_mode_before_plan |-> "unknown",
     result_seen |-> FALSE, manual_compaction_turn |-> FALSE, open_compaction |-> "none",
     open_compaction_succeeded |-> FALSE, retained_turn |-> FALSE, follow_up_active |-> FALSE,
     awaiting_follow_up |-> FALSE, own_commands |-> <<>>, identified_commands |-> {},
     lifecycle_seen |-> FALSE, interrupting |-> FALSE, read_now_interrupt |-> FALSE,
     quiet_ticks |-> <<>>, workflow_unsent |-> {}, session_title_wanted |-> FALSE,
     text |-> FALSE, failed |-> FALSE, session |-> "none", model |-> "none", title |-> FALSE,
     context |-> [model |-> "none", limit |-> "none"]]

-----------------------------------------------------------------------------
(* The messages of a turn.                                                 *)

OverReceipt == {"completed", "cancelled", "discarded"}

accept_input_receipt(previous, next) ==
    /\ next \in {"queued", "started"} \cup OverReceipt
    /\ previous \in OverReceipt => next = previous
    /\ ~(previous = "started" /\ next = "queued")

\* Mutant: a message not yet reported counts as finished.
OwnCommandsReported(s) ==
    s.lifecycle_seen => \A u \in DOMAIN s.own_commands : s.own_commands[u] \notin {"queued", "started"}

own_commands_done(s) ==
    s.lifecycle_seen =>
        \A u \in DOMAIN s.own_commands : s.own_commands[u] \notin {"pending", "queued", "started"}

answered(s) == s.result_seen /\ ~s.follow_up_active /\ own_commands_done(s)

\* Only work whose result is part of the answer holds a retained turn open.
holds_turn_open(s) ==
    IF ~s.retained_turn
    THEN s.background_task_ids # {}
    ELSE \E t \in s.background_task_ids : t \in DOMAIN s.tasks => s.tasks[t].kind # "shell"

prepare_turn(prompt, compacts, titled, s) ==
    [s EXCEPT !.manual_compaction_turn = compacts,
              !.session_title_wanted = titled,
              !.own_commands = (prompt :> "pending") @@ @]

mark_retained_turn(s) == [s EXCEPT !.retained_turn = TRUE]

\* encode_identified_input: the outcome, the state after it and the frame.
encode_identified_input(u, identified, s) ==
    IF ~s.retained_turn \/ answered(s)
    THEN [outcome |-> "unsupported", s |-> s]
    ELSE IF \/ identified /\ u \in DOMAIN s.own_commands
            \/ Cardinality(DOMAIN s.own_commands) >= MAX_TURN_MESSAGES
    THEN [outcome |-> "refused", s |-> s]
    ELSE [outcome |-> "frame",
          s |-> [s EXCEPT !.identified_commands = IF identified THEN @ \cup {u} ELSE @,
                          !.own_commands = (u :> "pending") @@ @]]

encode_input_control(u, background, s) ==
    IF ~s.retained_turn \/ ~s.lifecycle_seen
          \/ Get(s.own_commands, u, "none") \notin {"pending", "queued"}
    THEN [outcome |-> "unsupported", s |-> s]
    ELSE [outcome |-> "frame",
          s |-> [s EXCEPT !.read_now_interrupt = @ \/ ~background]]

\* What the runtime asks of the state between frames.
interrupt_request(s) == s.retained_turn

retained_interrupt_settled(s) == s.retained_turn /\ answered(s)

retained_follow_up_pending(s) == s.follow_up_active \/ s.awaiting_follow_up

retained_background_work(s) == s.background_task_ids # {} \/ retained_follow_up_pending(s)

retained_handoff_ready(s) ==
    /\ ~s.failed
    /\ s.retained_turn
    /\ answered(s)
    /\ ~s.awaiting_follow_up
    /\ s.background_task_ids # {}

retained_completion_grace(s) ==
    s.retained_turn /\ s.awaiting_follow_up /\ ~holds_turn_open(s) /\ own_commands_done(s)

-----------------------------------------------------------------------------
(* Permission modes and compaction.                                        *)

change_permission_mode(p, mode) ==
    IF p.s.effective_permission_mode = mode
    THEN p
    ELSE Emit([p EXCEPT
                 !.s.permission_mode_before_plan =
                    CASE mode = "plan" -> p.s.effective_permission_mode
                      [] mode # "plan" /\ p.s.effective_permission_mode = "plan" -> "unknown"
                      [] OTHER -> @,
                 !.s.effective_permission_mode = mode],
              [kind |-> "mode", mode |-> mode])

Trigger(s) == IF s.manual_compaction_turn THEN "manual" ELSE "automatic"

translate_compaction_status(f, p) ==
    CASE Get(f, "status", "none") = "compacting" ->
            IF p.s.open_compaction # "none"
            THEN p
            ELSE Emit([p EXCEPT !.s.open_compaction = Trigger(p.s),
                                !.s.open_compaction_succeeded = FALSE],
                      [kind |-> "compaction_started"])
      [] Get(f, "compact_result", "none") = "success" ->
            [p EXCEPT !.s.open_compaction_succeeded = @ \/ p.s.open_compaction # "none"]
      [] Get(f, "compact_result", "none") = "failed" ->
            Emit([p EXCEPT !.s.open_compaction = "none", !.s.open_compaction_succeeded = FALSE],
                 [kind |-> "compaction_failed"])
      [] OTHER -> p

close_unfinished_compaction(p) ==
    IF p.s.open_compaction = "none"
    THEN p
    ELSE Emit([p EXCEPT !.s.open_compaction = "none", !.s.open_compaction_succeeded = FALSE],
              [kind |-> IF p.s.open_compaction_succeeded THEN "compaction_completed"
                                                         ELSE "compaction_failed"])

\* A boundary replaces the occupancy measured before the compaction.
translate_compaction(f, p) ==
    LET q == Emit(p, [kind |-> "compaction_completed"])
    IN  IF Get(f, "post_tokens", FALSE)
        THEN Emit([q EXCEPT !.s.context = [model |-> p.s.model, limit |-> "unknown"]],
                  [kind |-> "usage"])
        ELSE q

-----------------------------------------------------------------------------
(* Native tasks: AgentTask and the bounded registry.                       *)

TerminalStatus == {"completed", "failed", "killed", "stopped", "ended", "cancelled",
                   "interrupted", "timed_out"}

is_terminal_task_status(status) == status \in TerminalStatus

task_activity_kind(status) ==
    CASE status = "completed" -> "completed"
      [] status \in {"failed", "timed_out"} -> "failed"
      [] status \in {"stopped", "killed", "cancelled", "interrupted"} -> "stopped"
      [] OTHER -> "updated"

task_kind(type, agent) ==
    CASE agent \/ type = "local_agent" -> "subagent"
      [] type = "local_bash" -> "shell"
      [] type = "local_workflow" -> "workflow"
      [] type = "none" -> "task"
      [] OTHER -> type

fallback_task == [kind |-> "task", status |-> "running", named |-> FALSE, agent |-> FALSE,
                  model |-> "none", summary |-> FALSE, workflow |-> <<>>]

Known(s, t) == IF t \in DOMAIN s.tasks THEN s.tasks[t] ELSE fallback_task

can_track(s, t) == t \in DOMAIN s.tasks \/ Cardinality(DOMAIN s.tasks) < MAX_NATIVE_TASKS

SetTask(p, t, task) == [p EXCEPT !.s.tasks = (t :> task) @@ @]

emit_tasks(p) == Emit(p, [kind |-> "tasks", tasks |-> p.s.tasks])

Activity(p, t, kind) == Emit(p, [kind |-> "activity", task |-> t, activity |-> kind])

task_id_for(s, tool) == Get(s.tool_use_to_task, tool, tool)

\* Mutant: a drained turn is not told to wait for Claude's answer to it.
DrainedQuietly(p, ended) ==
    IF ~p.s.result_seen \/ holds_turn_open(p.s)
    THEN p
    ELSE [p EXCEPT !.out.terminal = @ \/ ~p.s.retained_turn]

background_work_drained(p, ended) ==
    CASE ~p.s.result_seen \/ holds_turn_open(p.s) -> p
      [] ~p.s.retained_turn -> [p EXCEPT !.out.terminal = TRUE]
      [] ended -> [p EXCEPT !.s.awaiting_follow_up = ~p.s.follow_up_active]
      [] OTHER -> p

record_subagent_model(p, t, model) ==
    IF t \notin DOMAIN p.s.tasks \/ model = "none" \/ p.s.tasks[t].model = model
    THEN p
    ELSE emit_tasks([p EXCEPT !.s.tasks[t].model = model])

record_workflow_launch(p, t) ==
    IF t = "none" \/ ~can_track(p.s, t)
    THEN p
    ELSE emit_tasks(SetTask(p, t, IF t \in DOMAIN p.s.tasks
                                  THEN p.s.tasks[t]
                                  ELSE [fallback_task EXCEPT !.kind = "workflow"]))

-----------------------------------------------------------------------------
(* Workflows: a tick lists every agent, each with index, state and counter. *)

parse_workflow_agent(entry) ==
    [index |-> entry.index,
     state |-> CASE Get(entry, "blocked", FALSE) -> "blocked"
                 [] entry.state = "done" -> "completed"
                 [] entry.state = "error" -> "failed"
                 [] entry.state = "start" /\ ~Get(entry, "started", FALSE) -> "queued"
                 [] OTHER -> "running",
     tokens |-> Get(entry, "tokens", 0)]

parse_workflow(entries) ==
    LET agents == [i \in DOMAIN entries |-> parse_workflow_agent(entries[i])]
    IN  SubSeq(agents, 1, IF Len(agents) < MAX_WORKFLOW_AGENTS THEN Len(agents)
                                                               ELSE MAX_WORKFLOW_AGENTS)

workflow_counters_only(previous, next) ==
    LET plain(w) == [i \in DOMAIN w |-> [w[i] EXCEPT !.tokens = 0]]
    IN  plain(previous) = plain(next)

\* The first agent of the earlier snapshot with the index decides.
changed_workflow_agents(previous, next) ==
    SelectSeq(next, LAMBDA agent :
        LET i == SelectInSeq(previous, LAMBDA earlier : earlier.index = agent.index)
        IN  i = 0 \/ previous[i].state # agent.state)

\* The workflow branch of task_progress: counters alone wait for a few ticks.
WorkflowTick(p, t, task, changed, f) ==
    LET next   == IF "workflow_progress" \in DOMAIN f THEN parse_workflow(f.workflow_progress)
                                                      ELSE task.workflow
        moved  == changed_workflow_agents(task.workflow, next)
        only   == workflow_counters_only(task.workflow, next)
        counts == next # task.workflow /\ only
        quiet  == Get(p.s.quiet_ticks, t, 0) + 1
        unsent == p.s.workflow_unsent \cup (IF counts THEN {t} ELSE {})
        emit   == changed \/ ~only \/ (quiet >= WORKFLOW_COUNTER_TICKS /\ t \in unsent)
        shown  == FoldLeft(LAMBDA q, agent : Activity(q, t, agent.state), p, moved)
        q      == [SetTask(shown, t, [task EXCEPT !.workflow = next])
                     EXCEPT !.s.quiet_ticks = (t :> IF emit THEN 0 ELSE quiet) @@ @,
                            !.s.workflow_unsent = IF emit THEN unsent \ {t} ELSE unsent]
    IN  IF emit THEN emit_tasks(q) ELSE q

-----------------------------------------------------------------------------
(* translate_system_task_frame, one operator per subtype.                  *)

PermissionDenied(f, p) ==
    Emit([p EXCEPT !.s.tool_names = (f.tool :> f.name) @@ @],
         [kind |-> "tool", id |-> f.tool, status |-> "failed",
          task |-> task_id_for(p.s, Get(f, "agent_id", "none"))])

\* A start of a task that is already over only says what the task was.
EnrichEnded(f, p) ==
    LET known == p.s.tasks[f.task]
        agent == Get(f, "agent", FALSE)
        type  == Get(f, "task_type", "none")
        task  == [known EXCEPT !.kind = IF type = "none" THEN @ ELSE task_kind(type, agent),
                               !.named = @ \/ Get(f, "named", FALSE),
                               !.agent = @ \/ agent]
    IN  IF task = known THEN p ELSE emit_tasks(SetTask(p, f.task, task))

TaskStarted(f, p) ==
    LET q == IF "tool" \in DOMAIN f
             THEN [p EXCEPT !.s.tool_use_to_task = (f.tool :> f.task) @@ @] ELSE p
        known == Known(p.s, f.task)
        agent == Get(f, "agent", FALSE)
        task == [kind |-> task_kind(Get(f, "task_type", "none"), agent), status |-> "running",
                 named |-> Get(f, "named", FALSE), agent |-> agent, model |-> known.model,
                 summary |-> FALSE, workflow |-> known.workflow]
    IN  CASE ~can_track(p.s, f.task) -> p
          [] is_terminal_task_status(known.status) -> EnrichEnded(f, q)
          [] OTHER ->
             emit_tasks(Activity(
                [SetTask(q, f.task, task) EXCEPT
                    !.s.background_task_ids =
                        IF Get(f, "background", FALSE) THEN @ \cup {f.task} ELSE @],
                f.task, "started"))

TaskUpdated(f, p) ==
    LET t      == f.task
        known  == Known(p.s, t)
        status == Get(f, "status", "none")
        over   == is_terminal_task_status(status)
        q == [SetTask(p, t, [known EXCEPT !.named = @ \/ Get(f, "named", FALSE),
                                          !.status = IF status = "none" THEN @ ELSE status])
                EXCEPT !.s.background_task_ids =
                    IF "background" \notin DOMAIN f THEN IF over THEN @ \ {t} ELSE @
                    ELSE IF f.background /\ ~over THEN @ \cup {t} ELSE @ \ {t}]
        ended == t \in p.s.background_task_ids \/ Get(f, "background", FALSE)
    IN  IF \/ ~can_track(p.s, t)
           \/ is_terminal_task_status(known.status) /\ ~(known.status = "ended" /\ over)
        THEN p
        ELSE emit_tasks(Activity(IF over THEN background_work_drained(q, ended) ELSE q,
                                 t, IF status = "none" THEN "updated"
                                                       ELSE task_activity_kind(status)))

TaskProgress(f, p) ==
    LET t       == f.task
        known   == Known(p.s, t)
        agent   == Get(f, "agent", FALSE) \/ known.agent
        task    == [known EXCEPT !.kind = IF "workflow_progress" \in DOMAIN f THEN "workflow"
                                          ELSE task_kind(@, agent),
                                 !.named = @ \/ Get(f, "named", FALSE),
                                 !.agent = agent,
                                 !.summary = @ \/ Get(f, "summary", FALSE)]
        changed == t \notin DOMAIN p.s.tasks \/ task # known
    IN  CASE ~can_track(p.s, t) -> p
          [] task.kind = "workflow" -> WorkflowTick(p, t, task, changed, f)
          [] OTHER -> emit_tasks(Activity(SetTask(p, t, task), t, "progress"))

\* An empty snapshot only says "ended"; the receipt that says why comes later.
TaskNotification(f, p) ==
    LET t        == f.task
        known    == Known(p.s, t)
        was      == is_terminal_task_status(known.status)
        status   == Get(f, "status", known.status)
        over     == is_terminal_task_status(status)
        resolves == known.status = "ended" /\ over /\ status # "ended"
        task     == [known EXCEPT !.status = status, !.summary = @ \/ Get(f, "summary", FALSE)]
        usage    == Get(f, "usage", 0)
        news     == usage # 0 /\ Get(p.s.task_usage, t, 0) # usage
        q        == [p EXCEPT !.s.task_usage = IF usage = 0 THEN @ ELSE (t :> usage) @@ @]
        r        == [SetTask(q, t, task) EXCEPT
                        !.s.background_task_ids = IF over THEN @ \ {t} ELSE @]
    IN  CASE ~can_track(p.s, t) \/ (was /\ status # known.status /\ ~resolves) -> p
          [] task = known /\ was /\ ~news -> q
          [] OTHER ->
             emit_tasks(Activity(
                IF over THEN background_work_drained(r, t \in p.s.background_task_ids) ELSE r,
                t, IF was /\ ~resolves THEN "updated" ELSE task_activity_kind(status)))

Retired(s) == {s.retired_tasks[i].id : i \in DOMAIN s.retired_tasks}

BackgroundTasksChanged(f, p) ==
    LET Reconcile(acc, raw) ==
            IF \/ ~can_track(acc.p.s, raw.task)
               \/ raw.task \in Retired(p.s)
               \/ is_terminal_task_status(Known(acc.p.s, raw.task).status)
            THEN acc
            ELSE [p |-> SetTask(acc.p, raw.task,
                            [Known(acc.p.s, raw.task) EXCEPT
                                !.kind = task_kind(Get(raw, "task_type", "none"),
                                                   Known(acc.p.s, raw.task).agent),
                                !.status = "running"]),
                  live |-> acc.live \cup {raw.task}]
        seen == FoldLeft(Reconcile, [p |-> p, live |-> {}], f.tasks)
        gone == p.s.background_task_ids \ seen.live
        q    == [seen.p EXCEPT
                    !.s.tasks = [t \in DOMAIN @ |->
                        IF t \in gone /\ ~is_terminal_task_status(@[t].status)
                        THEN [@[t] EXCEPT !.status = "ended"] ELSE @[t]],
                    !.s.background_task_ids = seen.live]
    IN  emit_tasks(background_work_drained(q, gone # {}))

translate_system_task_frame(f, p) ==
    CASE f.subtype = "permission_denied" -> PermissionDenied(f, p)
      [] f.subtype = "task_started" -> TaskStarted(f, p)
      [] f.subtype = "task_updated" -> TaskUpdated(f, p)
      [] f.subtype = "task_progress" -> TaskProgress(f, p)
      [] f.subtype = "task_notification" -> TaskNotification(f, p)
      [] f.subtype = "background_tasks_changed" -> BackgroundTasksChanged(f, p)
      [] OTHER -> p

\* A retired task is put back among the tasks for its own frame only.
translate_system_task(f, p) ==
    LET i == SelectInSeq(p.s.retired_tasks, LAMBDA r : r.id = Get(f, "task", "none"))
        r == p.s.retired_tasks[i]
        q == translate_system_task_frame(f,
                [SetTask(p, r.id, r.task) EXCEPT !.s.retired_tasks = RemoveAt(@, i)])
    IN  IF i = 0
        THEN translate_system_task_frame(f, p)
        ELSE [q EXCEPT !.s.tasks = Restrict(@, DOMAIN @ \ {r.id}),
                       !.s.retired_tasks =
                           InsertAt(@, i, [id |-> r.id, task |-> q.s.tasks[r.id]])]

-----------------------------------------------------------------------------
(* parse_line, one operator per frame type.                                *)

report_session_title(p) ==
    IF p.s.title THEN p ELSE Emit([p EXCEPT !.s.title = TRUE], [kind |-> "title"])

System(f, p) ==
    LET titled == IF f.subtype = "session_title_changed" THEN report_session_title(p) ELSE p
        woken  == IF p.s.result_seen /\ f.subtype = "init"
                  THEN [titled EXCEPT !.s.follow_up_active = TRUE, !.s.awaiting_follow_up = FALSE]
                  ELSE titled
        moded  == IF "mode" \in DOMAIN f THEN change_permission_mode(woken, f.mode) ELSE woken
        ided   == IF Get(f, "session", p.s.session) # p.s.session
                  THEN Emit([moded EXCEPT !.s.session = f.session],
                            [kind |-> "session", id |-> f.session])
                  ELSE moded
        q      == [ided EXCEPT !.s.model = IF @ = "none" THEN Get(f, "model", "none") ELSE @]
    IN  CASE f.subtype = "compact_boundary" ->
                translate_compaction(f, [q EXCEPT !.s.open_compaction = "none",
                                                  !.s.open_compaction_succeeded = FALSE])
          [] f.subtype = "status" -> translate_compaction_status(f, q)
          [] OTHER -> translate_system_task(f, q)

StreamEvent(f, p) == Emit([p EXCEPT !.s.text = TRUE], [kind |-> "text"])

\* A subagent's message never says how full the conversation is.
Assistant(f, p) ==
    LET parent == Get(f, "parent", "none")
        model  == Get(f, "model", "none")
        q == record_subagent_model([p EXCEPT !.s.model = IF @ = "none" THEN model ELSE @],
                                   task_id_for(p.s, parent), model)
        Use(r, tool) ==
            Emit([r EXCEPT !.s.tool_names = (tool.id :> tool.name) @@ @,
                           !.s.bash_inputs = IF tool.name = "Bash" THEN @ \cup {tool.id} ELSE @],
                 [kind |-> "tool", id |-> tool.id, status |-> "started",
                  task |-> task_id_for(p.s, parent)])
        used == FoldLeft(Use, q, Get(f, "tools", <<>>))
        context == [model |-> IF model = "none" THEN q.s.model ELSE model, limit |-> "unknown"]
    IN  IF ~Get(f, "usage", FALSE) THEN used
        ELSE Emit(IF parent = "none" THEN [used EXCEPT !.s.context = context] ELSE used,
                  [kind |-> "usage"])

PlanMode(r, tool, failed, name) ==
    CASE failed -> r
      [] name = "EnterPlanMode" -> change_permission_mode(r, "plan")
      [] name = "ExitPlanMode" ->
            change_permission_mode(r, IF r.s.permission_mode_before_plan = "unknown"
                                      THEN "default" ELSE r.s.permission_mode_before_plan)
      [] OTHER -> r

\* Each call reports one result; forgetting it keeps the maps to calls in flight.
User(f, p) ==
    LET parent == Get(f, "parent", "none")
        q == record_workflow_launch(p, Get(f, "launch", "none"))
        Finish(r, block) ==
            LET name  == Get(r.s.tool_names, block.tool, "tool")
                t     == Get(r.s.tool_use_to_task, block.tool, "none")
                owner == CASE parent # "none" -> task_id_for(q.s, parent)
                           [] t \in DOMAIN r.s.tasks /\ Known(r.s, t).kind = "shell" -> t
                           [] OTHER -> "none"
                done  == [r EXCEPT !.s.tool_names = Restrict(@, DOMAIN @ \ {block.tool}),
                                   !.s.bash_inputs = @ \ {block.tool}]
            IN  PlanMode(Emit(done, [kind |-> "tool", id |-> block.tool, task |-> owner,
                                     status |-> IF block.failed THEN "failed" ELSE "succeeded"]),
                         block.tool, block.failed, name)
    IN  FoldLeft(Finish, q, f.results)

ControlRequest(f, p) ==
    [Emit(p, [kind |-> f.ask, id |-> f.id]) EXCEPT !.out.ask = f.id]

reported_context_limit(f, p) ==
    LET c     == p.s.context
        model == IF p.s.model = "none" THEN c.model ELSE p.s.model
    IN  IF c.limit = "none" \/ model \notin Get(f, "windows", {}) \/ c.model \notin {"none", model}
        THEN p
        ELSE Emit([p EXCEPT !.s.context = [model |-> model, limit |-> "reported"]],
                  [kind |-> "usage"])

ReplyFinished(p) == Emit(p, [kind |-> "reply_finished", tasks |-> p.s.background_task_ids])

ResultFrame(f, p) ==
    LET closed == close_unfinished_compaction(
                    [p EXCEPT !.s.result_seen = TRUE, !.s.follow_up_active = FALSE,
                              !.s.awaiting_follow_up = FALSE, !.s.read_now_interrupt = FALSE])
        holds  == holds_turn_open(p.s)
        done   == own_commands_done(p.s)
        interrupted == p.s.read_now_interrupt /\ Get(f, "interrupted", FALSE)
        failed == ~interrupted /\ Get(f, "is_error", FALSE)
        q == [closed EXCEPT !.out.terminal = ~holds /\ (p.s.retained_turn => done),
                            !.s.failed = IF interrupted THEN FALSE ELSE @ \/ failed]
        r == IF holds /\ done THEN ReplyFinished(q) ELSE q
        t == IF failed \/ r.s.text \/ ~Get(f, "text", FALSE) THEN r
             ELSE Emit([r EXCEPT !.s.text = TRUE], [kind |-> "text"])
    IN  reported_context_limit(f,
            [t EXCEPT !.s.session = IF @ = "none" THEN Get(f, "session", "none") ELSE @,
                      !.s.model = IF @ = "none" THEN Get(f, "model", "none") ELSE @])

CommandLifecycle(f, p) ==
    LET u     == f.command
        own   == u \in DOMAIN p.s.own_commands
        seen  == [p EXCEPT !.s.lifecycle_seen = TRUE]
        taken == [seen EXCEPT !.s.own_commands[u] = f.state]
        told  == IF u \in p.s.identified_commands
                 THEN Emit(taken, [kind |-> "input_state", id |-> u, state |-> f.state])
                 ELSE taken
        again == IF p.s.interrupting /\ f.state = "started"
                 THEN [told EXCEPT !.out.writes = Append(@, [type |-> "interrupt"])]
                 ELSE told
        q == CASE own -> again
               [] ~own /\ f.state = "started" /\ p.s.result_seen ->
                     [seen EXCEPT !.s.follow_up_active = TRUE, !.s.awaiting_follow_up = FALSE]
               [] OTHER -> seen
        r == IF q.s.retained_turn /\ answered(q.s) /\ holds_turn_open(q.s)
             THEN ReplyFinished(q) ELSE q
    IN  IF own /\ ~accept_input_receipt(p.s.own_commands[u], f.state)
        THEN seen
        ELSE [r EXCEPT !.out.terminal =
                /\ q.s.retained_turn
                /\ ~q.s.interrupting
                /\ ~q.s.awaiting_follow_up
                /\ answered(q.s)
                /\ ~holds_turn_open(q.s)]

ControlResponse(f, p) ==
    CASE f.request = "read_now" ->
            Emit([p EXCEPT !.s.read_now_interrupt = @ /\ (f.background \/ f.succeeded)],
                 [kind |-> "input_control", id |-> f.id, succeeded |-> f.succeeded])
      [] f.request = "interrupt" -> [p EXCEPT !.s.interrupting = TRUE]
      [] f.request = "title" /\ f.succeeded -> report_session_title(p)
      [] OTHER -> p

tool_progress(f, p) ==
    IF "tool" \in DOMAIN f
    THEN Emit(p, [kind |-> "progress", id |-> f.tool, name |-> Get(p.s.tool_names, f.tool, "tool")])
    ELSE p

RateLimit(f, p) == Emit(p, [kind |-> IF f.windows = {} THEN "warning" ELSE "account"])

parse_line(f, s) ==
    LET p == [s   |-> [s EXCEPT !.session_title_wanted = FALSE],
              out |-> [NoOutput EXCEPT !.optional =
                          IF s.session_title_wanted THEN <<[type |-> "title"]>> ELSE <<>>]]
    IN  CASE f.type = "system" -> System(f, p)
          [] f.type = "stream_event" -> StreamEvent(f, p)
          [] f.type = "assistant" -> Assistant(f, p)
          [] f.type = "user" -> User(f, p)
          [] f.type = "control_request" -> ControlRequest(f, p)
          [] f.type = "result" -> ResultFrame(f, p)
          [] f.type = "command_lifecycle" -> CommandLifecycle(f, p)
          [] f.type = "control_response" -> ControlResponse(f, p)
          [] f.type = "tool_progress" -> tool_progress(f, p)
          [] f.type = "rate_limit_event" -> RateLimit(f, p)
          [] f.type = "junk" -> [s |-> s, out |-> [NoOutput EXCEPT !.ok = FALSE]]
          [] OTHER -> p

-----------------------------------------------------------------------------
(* inherit_retained_handoff: only live work crosses to the next turn.      *)

\* Mutant: every task crosses, the finished ones as live entries.
InheritAll(previous, next) ==
    [next EXCEPT !.tasks = previous.tasks,
                 !.background_task_ids = DOMAIN previous.tasks,
                 !.lifecycle_seen = previous.lifecycle_seen]

inherit_retained_handoff(previous, next) ==
    LET live == previous.background_task_ids
        over == SetToSeq({t \in DOMAIN previous.tasks \ live :
                            is_terminal_task_status(previous.tasks[t].status)})
        all  == previous.retired_tasks
                  \o [i \in DOMAIN over |-> [id |-> over[i], task |-> previous.tasks[over[i]]]]
        retired == SubSeq(all, IF Len(all) > MAX_RETIRED_TASKS
                               THEN Len(all) - MAX_RETIRED_TASKS + 1 ELSE 1, Len(all))
        kept == live \cup {retired[i].id : i \in DOMAIN retired}
        Over(f, S) == Restrict(f, DOMAIN f \cap S)
    IN  [next EXCEPT
            !.retired_tasks = retired,
            !.task_usage = Over(previous.task_usage, kept),
            !.tasks = Over(previous.tasks, live),
            !.tool_use_to_task =
                Over(previous.tool_use_to_task,
                     {u \in DOMAIN previous.tool_use_to_task :
                        previous.tool_use_to_task[u] \in live}),
            !.background_task_ids = live,
            !.tool_names = previous.tool_names,
            !.bash_inputs = previous.bash_inputs,
            !.effective_permission_mode = previous.effective_permission_mode,
            !.permission_mode_before_plan = previous.permission_mode_before_plan,
            !.lifecycle_seen = previous.lifecycle_seen]

=============================================================================
