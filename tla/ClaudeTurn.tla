----------------------------- MODULE ClaudeTurn -----------------------------
(***************************************************************************)
(* Claude Code behind a retained process: the read loop of RetainedTurn,   *)
(* the parser of ClaudeAdapter, and the command-line program itself, an    *)
(* external component modelled from the frames the parser expects of it.   *)
(***************************************************************************)
EXTENDS RetainedTurn, ClaudeAdapter

CONSTANTS Workload

VARIABLE cli    \* the program: its message queue, its exchange, its tasks

vars == <<turnVars, cli, load>>

-----------------------------------------------------------------------------
(* The adapter's hooks.                                                    *)

Prompt(n) == <<"p1", "p2", "p3">>[n]

ClaudeNewTurn(n) ==
    mark_retained_turn(prepare_turn(Prompt(n), load.compacts, load.titles /\ n = 1, Fresh))

ClaudeTurnStart(n, s) == <<[type |-> "message", id |-> Prompt(n)]>>

ClaudeEncode(m, s) ==
    CASE m = "stop" -> encode_input_control("m1", FALSE, s)
      [] m = "background" -> encode_input_control("m1", TRUE, s)
      [] OTHER -> encode_identified_input(m, TRUE, s)

ClaudeResponse(ask, decision) ==
    IF ask = "none" THEN <<>> ELSE <<[type |-> "response", id |-> ask, decision |-> decision]>>

NotAffected(ask, s) == s

ClaudeInterrupt(s) == IF interrupt_request(s) THEN <<[type |-> "interrupt"]>> ELSE <<>>

Never(s) == FALSE

\* adapter.rs: the defaults of the idle hooks.
Unexpected(f) == "unexpected"

NoFrames(s) == <<>>

FailedResult(s) == s.failed

\* What the application is shown: tasks that were over, and compactions.
ObserveEvent(h, e) ==
    CASE e.kind = "tasks" ->
            [h EXCEPT !.shown = e.tasks,
                      !.over = @ \cup {t \in DOMAIN e.tasks : is_terminal_task_status(e.tasks[t].status)},
                      !.revived = @ \/ \E t \in DOMAIN e.tasks \cap h.over :
                                          ~is_terminal_task_status(e.tasks[t].status)]
      [] e.kind = "compaction_started" -> [h EXCEPT !.compacting = TRUE]
      [] e.kind \in {"compaction_completed", "compaction_failed"} -> [h EXCEPT !.compacting = FALSE]
      [] e.kind = "turn_started" ->
            \* The turn starts before an earlier turn's interrupt is acknowledged.
            [h EXCEPT !.late = \/ \E i \in DOMAIN e.unread : e.unread[i].type = "interrupt"
                               \/ \E i \in DOMAIN e.pending :
                                     /\ e.pending[i].type = "control_response"
                                     /\ e.pending[i].request = "interrupt"]
      [] OTHER -> h

-----------------------------------------------------------------------------
(* The program.                                                            *)

Lifecycle(u, state) ==
    IF load.lifecycle THEN <<[type |-> "command_lifecycle", command |-> u, state |-> state]>> ELSE <<>>

LifecycleOf(S, state) == FoldLeft(LAMBDA acc, u : acc \o Lifecycle(u, state), <<>>, SetToSeq(S))

Result(err) == <<[type |-> "result", is_error |-> err, text |-> TRUE, session |-> "s"]>>

Interrupted == <<[type |-> "result", is_error |-> TRUE, interrupted |-> TRUE]>>

Init0 == <<[type |-> "system", subtype |-> "init", session |-> "s", model |-> "opus", mode |-> cli.mode]>>

CliInit == [queue |-> <<>>, running |-> {}, tasks |-> {}, started |-> {}, notes |-> 0, ask |-> "none",
            by |-> "none", asks |-> 0, done |-> {}, mode |-> load.mode, before |-> "default", plans |-> 0, entered |-> 0,
            blind |-> FALSE, ticks |-> 0, stray |-> FALSE,
            compacting |-> FALSE, compactions |-> 0, replays |-> 0]

Snapshot(S) ==
    [type |-> "system", subtype |-> "background_tasks_changed",
     tasks |-> [i \in 1..Cardinality(S) |->
                  LET t == SetToSeq(S)[i] IN [task |-> t, task_type |-> load.kind[t]]]]

CliWrites(frames) == stdout' = stdout \o frames

UNCHANGED_turn == UNCHANGED <<turn, pc, end, st, alive, cancelled, asking, parked, handoff, asker, msg,
                              queue, writing, hist>>

\* Stopping the exchange cancels what is queued behind it, when the program can.
Stop(f, c) ==
    LET dropped == IF f.type = "interrupt" /\ load.cancelQueued THEN c.queue ELSE <<>>
        gone    == c.running \cup {dropped[i] : i \in DOMAIN dropped}
    IN  [c |-> [c EXCEPT !.running = {}, !.queue = IF dropped = <<>> THEN @ ELSE <<>>,
                         !.done = @ \cup gone, !.compacting = FALSE,
                         !.ask = IF c.by = "exchange" THEN "none" ELSE @,
                         !.by = IF @ = "exchange" THEN "none" ELSE @],
         frames |-> (IF c.running = {} THEN <<>> ELSE Interrupted) \o LifecycleOf(gone, "cancelled")]

CliRead ==
    /\ alive /\ stdin # <<>>
    /\ LET f == Head(stdin)
       IN  \/ /\ f.type = "message" /\ f.id \notin {"stop", "background"}
              /\ cli' = [cli EXCEPT !.queue = Append(@, f.id)]
              /\ CliWrites(Lifecycle(f.id, "queued"))
           \/ /\ f.type = "message" /\ f.id = "background"
              /\ CliWrites(<<[type |-> "control_response", request |-> "read_now", id |-> "m1",
                              background |-> TRUE, succeeded |-> TRUE]>>)
              /\ UNCHANGED cli
           \/ /\ f.type = "message" /\ f.id = "stop"
              /\ \E ok \in BOOLEAN :
                    LET r == Stop(f, cli)
                    IN  /\ cli' = IF ok THEN r.c ELSE cli
                        /\ CliWrites(<<[type |-> "control_response", request |-> "read_now",
                                        id |-> "m1", background |-> FALSE, succeeded |-> ok]>>
                                     \o IF ok THEN r.frames ELSE <<>>)
           \/ /\ f.type = "interrupt"
              /\ cli' = [Stop(f, cli).c EXCEPT !.stray = @ \/ cli.running \cap DOMAIN st.own_commands = {}]
              /\ CliWrites(<<[type |-> "control_response", request |-> "interrupt"]>>
                           \o Stop(f, cli).frames)
           \/ /\ f.type = "title"
              /\ CliWrites(<<[type |-> "control_response", request |-> "title", succeeded |-> TRUE]>>)
              /\ UNCHANGED cli
           \/ /\ f.type = "response"
              /\ cli' = IF cli.ask = f.id THEN [cli EXCEPT !.ask = "none", !.by = "none"] ELSE cli
              /\ UNCHANGED stdout
    /\ stdin' = Tail(stdin)
    /\ UNCHANGED_turn

\* An exchange begins with the next message, or with a task's notification.
CliStart ==
    /\ alive /\ cli.running = {}
    /\ \/ /\ cli.queue # <<>>
          /\ cli' = [cli EXCEPT !.running = {Head(cli.queue)}, !.queue = Tail(@)]
          /\ CliWrites(Init0 \o Lifecycle(Head(cli.queue), "started"))
       \/ /\ cli.notes > 0
          /\ cli' = [cli EXCEPT !.running = {"note"}, !.notes = @ - 1]
          /\ CliWrites(Init0 \o Lifecycle("note", "started"))
    /\ UNCHANGED stdin /\ UNCHANGED_turn

CliAbsorb ==
    /\ alive /\ cli.running # {} /\ cli.queue # <<>>
    /\ cli' = [cli EXCEPT !.running = @ \cup {Head(cli.queue)}, !.queue = Tail(@)]
    /\ CliWrites(Lifecycle(Head(cli.queue), "started"))
    /\ UNCHANGED stdin /\ UNCHANGED_turn

\* The answer and the receipts of the messages it answers, in either order.
CliFinish ==
    /\ alive /\ cli.running # {} /\ cli.by # "exchange"
    /\ \E err \in IF load.errors THEN BOOLEAN ELSE {FALSE}, first \in BOOLEAN :
          LET receipts == LifecycleOf(cli.running, "completed")
          IN  CliWrites(IF first THEN Result(err) \o receipts ELSE receipts \o Result(err))
    /\ cli' = [cli EXCEPT !.running = {}, !.done = @ \cup cli.running, !.compacting = FALSE]
    /\ UNCHANGED stdin /\ UNCHANGED_turn

CliStartTask(t) ==
    /\ alive /\ cli.running # {} /\ t \notin cli.started
    /\ cli' = [cli EXCEPT !.tasks = @ \cup {t}, !.started = @ \cup {t}]
    /\ CliWrites(<<[type |-> "assistant", tools |-> <<[id |-> t, name |-> "Bash"]>>, usage |-> TRUE,
                    model |-> "opus"],
                   [type |-> "system", subtype |-> "task_started", task |-> t, tool |-> t,
                    task_type |-> load.kind[t], background |-> TRUE]>>)
    /\ UNCHANGED stdin /\ UNCHANGED_turn

\* A killed task says so in an update and nothing more; the others are answered.
\* A task that waits for an approval can only be killed.
CliEndTask(t) ==
    /\ alive /\ t \in cli.tasks
    /\ LET rest == cli.tasks \ {t}
           told == [type |-> "system", subtype |-> "task_notification", task |-> t,
                    status |-> "completed", usage |-> 1]
       IN  \/ /\ cli.by # t
              /\ CliWrites(<<told>>)
              /\ cli' = [cli EXCEPT !.tasks = rest, !.notes = @ + 1]
           \/ /\ cli.by # t
              /\ CliWrites(<<Snapshot(rest), told>>)
              /\ cli' = [cli EXCEPT !.tasks = rest, !.notes = @ + 1]
           \/ /\ CliWrites(<<[type |-> "system", subtype |-> "task_updated", task |-> t,
                              status |-> "killed"]>>)
              /\ cli' = [cli EXCEPT !.tasks = rest,
                                    !.ask = IF cli.by = t THEN "none" ELSE @,
                                    !.by = IF @ = t THEN "none" ELSE @]
    /\ UNCHANGED stdin /\ UNCHANGED_turn

\* A frame about a task that ended in this chain of turns arrives again.
CliReplay(t) ==
    /\ alive /\ cli.replays < load.replays
    /\ t \in (cli.started \ cli.tasks) \cap (DOMAIN st.tasks \cup Retired(st))
    /\ cli' = [cli EXCEPT !.replays = @ + 1]
    /\ \/ CliWrites(<<[type |-> "system", subtype |-> "task_started", task |-> t,
                       task_type |-> load.kind[t], named |-> TRUE, background |-> TRUE]>>)
       \/ CliWrites(<<[type |-> "system", subtype |-> "task_updated", task |-> t,
                       status |-> "running", background |-> TRUE]>>)
       \/ CliWrites(<<[type |-> "system", subtype |-> "task_notification", task |-> t,
                       status |-> "completed", usage |-> 2]>>)
       \/ CliWrites(<<Snapshot(cli.tasks \cup {t})>>)
    /\ UNCHANGED stdin /\ UNCHANGED_turn

\* The exchange, or a subagent in the background, asks for an approval.
CliAsk ==
    /\ alive /\ cli.ask = "none" /\ cli.asks < load.asks
    /\ \E by \in (IF cli.running = {} THEN {} ELSE {"exchange"})
                  \cup {t \in cli.tasks : load.kind[t] # "local_bash"} :
          LET id == <<"a1", "a2">>[cli.asks + 1]
          IN  /\ cli' = [cli EXCEPT !.ask = id, !.by = by, !.asks = @ + 1]
              /\ CliWrites(<<[type |-> "control_request", ask |-> "approval", id |-> id]>>)
    /\ UNCHANGED stdin /\ UNCHANGED_turn

\* The model enters or leaves plan mode with a tool.
CliPlan ==
    /\ alive /\ cli.running # {} /\ cli.plans < load.plans
    /\ LET name == IF cli.mode = "plan" THEN "ExitPlanMode" ELSE "EnterPlanMode"
       IN  /\ cli' = [cli EXCEPT !.plans = @ + 1,
                                 !.before = IF cli.mode = "plan" THEN @ ELSE cli.mode,
                                 !.mode = IF cli.mode = "plan" THEN cli.before ELSE "plan",
                                 !.blind = cli.mode = "plan" /\ cli.entered # turn,
                                 !.entered = turn]
           /\ CliWrites(<<[type |-> "assistant", tools |-> <<[id |-> "plan", name |-> name]>>],
                          [type |-> "user", results |-> <<[tool |-> "plan", failed |-> FALSE]>>]>>)
    /\ UNCHANGED stdin /\ UNCHANGED_turn

CliCompact ==
    /\ alive /\ cli.running # {}
    /\ \/ /\ ~cli.compacting /\ cli.compactions < load.compactions
          /\ cli' = [cli EXCEPT !.compacting = TRUE, !.compactions = @ + 1]
          /\ CliWrites(<<[type |-> "system", subtype |-> "status", status |-> "compacting"]>>)
       \/ /\ cli.compacting
          /\ cli' = [cli EXCEPT !.compacting = FALSE]
          /\ \/ CliWrites(<<[type |-> "system", subtype |-> "status", compact_result |-> "success"],
                            [type |-> "system", subtype |-> "compact_boundary", post_tokens |-> TRUE]>>)
             \/ CliWrites(<<[type |-> "system", subtype |-> "status", compact_result |-> "failed"]>>)
    /\ UNCHANGED stdin /\ UNCHANGED_turn

\* A workflow's ticks: its agents start, count tokens and finish.
CliWorkflow ==
    /\ alive /\ cli.running # {} /\ cli.ticks < load.ticks
    /\ cli' = [cli EXCEPT !.ticks = @ + 1]
    /\ \E w \in {<<[index |-> 1, state |-> "start", started |-> FALSE]>>,
                 <<[index |-> 1, state |-> "start", started |-> TRUE, tokens |-> cli.ticks]>>,
                 <<[index |-> 1, state |-> "done"], [index |-> 2, state |-> "error"],
                   [index |-> 3, state |-> "start", blocked |-> TRUE]>>} :
          CliWrites(<<[type |-> "system", subtype |-> "task_progress", task |-> "w",
                       workflow_progress |-> w]>>)
    /\ UNCHANGED stdin /\ UNCHANGED_turn

\* Frames about a foreground subagent, its tools and its usage.
CliForeground ==
    /\ alive /\ cli.running # {} /\ cli.ticks < load.chatter
    /\ cli' = [cli EXCEPT !.ticks = @ + 1]
    /\ \E f \in {[type |-> "stream_event"],
                 [type |-> "assistant", parent |-> "u", model |-> "haiku", usage |-> TRUE,
                  tools |-> <<[id |-> "v", name |-> "Read"]>>],
                 [type |-> "user", parent |-> "u", results |-> <<[tool |-> "v", failed |-> TRUE]>>],
                 [type |-> "user", launch |-> "w", results |-> <<>>],
                 [type |-> "system", subtype |-> "task_started", task |-> "f", tool |-> "u",
                  agent |-> TRUE],
                 [type |-> "system", subtype |-> "task_progress", task |-> "f", named |-> TRUE],
                 [type |-> "system", subtype |-> "permission_denied", tool |-> "v", name |-> "Bash",
                  agent_id |-> "u"],
                 [type |-> "system", subtype |-> "session_title_changed"],
                 [type |-> "tool_progress", tool |-> "v"],
                 [type |-> "rate_limit_event", windows |-> {}],
                 [type |-> "unknown"], [type |-> "junk"]} :
          CliWrites(<<f>>)
    /\ UNCHANGED stdin /\ UNCHANGED_turn

CliDies ==
    /\ alive /\ load.deaths
    /\ alive' = FALSE
    /\ UNCHANGED <<turn, pc, end, st, stdout, stdin, cancelled, asking, parked, handoff, asker, msg,
                   queue, writing, hist, cli>>

CliNext ==
    \/ CliRead \/ CliStart \/ CliAbsorb \/ CliFinish \/ CliAsk \/ CliPlan \/ CliCompact \/ CliWorkflow
    \/ CliForeground \/ CliDies
    \/ \E t \in load.tasks : CliStartTask(t) \/ CliEndTask(t) \/ CliReplay(t)

Init ==
    /\ load \in Workload
    /\ TurnInit(ClaudeNewTurn(1), ClaudeTurnStart(1, Fresh))
    /\ cli = CliInit
    /\ hist = [over |-> {}, revived |-> FALSE, compacting |-> FALSE, late |-> FALSE,
               shown |-> <<>>]

Next ==
    /\ (TurnNext /\ UNCHANGED cli) \/ CliNext
    /\ UNCHANGED load

Spec == Init /\ [][Next]_vars

-----------------------------------------------------------------------------
(* Properties.                                                             *)

Kept == end \in {"completed", "handed_off", "interrupted"}

\* Every message of a turn has been dealt with when the turn ends in a way that
\* keeps the process: nothing the turn submitted is still unread, queued or being
\* answered (own_commands_done, answered).  A program that reports no
\* command_lifecycle cannot tell, and is left out.
MessagesAnswered ==
    Kept /\ load.lifecycle => DOMAIN st.own_commands \subseteq cli.done

\* A requester is told TRUE exactly for the turns that gave up the process: an
\* acceptance that lands while it gives up is honoured, one that comes later is
\* never made (request_retained_handoff, RetainedHandoff::answer).
HandoffAgreed ==
    asker.yes + (IF asker.pc # "idle" /\ asker.reply = "yes" THEN 1 ELSE 0) = asker.handed

\* A sender's outcome says what became of its message: Delivered means written
\* once; Withdrawn, Unsupported and NotAccepting mean never written -- but for a
\* turn dropped in the middle of the write (submit_retained_input).
OutcomeHonest ==
    \A m \in Messages : msg[m].pc = "done" =>
        /\ msg[m].reply = "delivered" => msg[m].written = 1
        /\ msg[m].reply \in {"withdrawn", "unsupported", "refused", "not_accepting"} =>
              msg[m].written = 0 \/ end = "dropped"

Drained == alive /\ stdout = <<>> /\ Running

CliIdle == cli.running = {} /\ cli.queue = <<>> /\ cli.notes = 0 /\ cli.ask = "none" /\ stdin = <<>>

\* A turn that nothing will wake is never left waiting: when the program is idle,
\* everything it wrote has been read and no subagent runs, the turn's quiet
\* completion is armed (retained_completion_grace, background_work_drained).
\* Left out is what follows an interrupt the program read when nothing of the turn
\* was left to stop: it may stop the answer to a notification, or the next turn.
NeverStuck ==
    Drained /\ CliIdle /\ pc = "loop" /\ queue = <<>> /\ ~hist.late /\ ~cli.stray
        /\ (\A t \in cli.tasks : load.kind[t] = "local_bash")
        => QuietArmed

\* The application last saw the task as it is, counters of a workflow excepted.
ShownIsKnown(t) ==
    /\ t \in DOMAIN hist.shown
    /\ hist.shown[t].status = st.tasks[t].status
    /\ workflow_counters_only(hist.shown[t].workflow, st.tasks[t].workflow)
    /\ t \in st.workflow_unsent => st.quiet_ticks[t] < WORKFLOW_COUNTER_TICKS

\* Once everything the program wrote is read, the parser agrees with it on which
\* background tasks run, which permission mode is in force and whether a
\* compaction runs, and the application was shown every task as it is -- across
\* turns, and whatever old frames were sent again (inherit_retained_handoff,
\* translate_system_task_frame).  A task shown as over is never shown as running
\* again.  (The mode is unknown to a parser that did not see plan mode entered.)
ViewAgrees ==
    /\ ~hist.revived
    /\ Drained =>
        /\ st.background_task_ids = cli.tasks
        /\ hist.compacting = cli.compacting
        /\ \A t \in DOMAIN st.tasks : ShownIsKnown(t)
        /\ st.effective_permission_mode \in {cli.mode, "unknown"} \/ cli.blind

\* A message is accounted for on both sides: what its sender was told is what
\* became of it, and a turn that kept the process left none behind.
MessagesAccounted == MessagesAnswered /\ OutcomeHonest
=============================================================================
