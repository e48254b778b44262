----------------------------- MODULE Providers ------------------------------
(***************************************************************************)
(* The turn loops of the runtime (RetainedTurn, and OneShot... for a turn  *)
(* on its own process, run_process of src/src/runtime.rs) composed with    *)
(* the adapters other than Claude's and with the providers they talk to:   *)
(* the Codex app server and `codex exec`, an ACP agent, pi, and OpenCode's *)
(* server behind the HTTP bridge and `opencode run`.                       *)
(***************************************************************************)
EXTENDS RetainedTurn

CONSTANTS
    Attached(_),             \* adapter.attach replaced the streams: the process outlives the protocol
    ExitGrace(_),            \* terminal_exit_grace is set
    ExitedOk(_),             \* TransportExitStatus.success of a process that exited
    Workload,                \* the initial values of load
    MAX_CONTINUATIONS, MAX_OPEN_PERMISSIONS, MAX_TRACKED_TOOLS, MAX_RUNNING_TOOLS

VARIABLES
    closed,                  \* a turn on its own process let go of the input
    srv                      \* the provider

vars == <<turnVars, closed, srv, load>>

-----------------------------------------------------------------------------
(* A turn with a provider process of its own (src/src/runtime.rs,          *)
(* run_process): the same adapters as in RetainedTurn, but the process is  *)
(* spawned for the turn, its input is closed when the protocol is over,    *)
(* and how it exits is part of the outcome.                                *)

idleVars == <<turn, parked, handoff, asker, msg, queue, writing, load>>

\* CompactionGuard: a compaction still shown as running is closed with the turn.
close_open_compaction(h) == [h EXCEPT !.compacting = FALSE]

\* The turn's future returns; the process is terminated with it.
Finish(how, s, h) ==
    /\ end' = how
    /\ st' = s
    /\ pc' = "done" /\ alive' = FALSE /\ asking' = "none"
    /\ hist' = close_open_compaction(h)

\* The outcome: the exit status, the adapter's terminal failure.
FinishAs(success, s, h) == Finish(IF success /\ ~Failed(s) THEN "completed" ELSE "failed", s, h)

\* The terminal frame: some processes are not waited for, others lose their input and are
\* read to the end.
ProtocolOver(s, h) ==
    IF RetireAfterCompletion(s) \/ Attached(load) \/ ExitGrace(load)
    THEN FinishAs(TRUE, s, h) /\ UNCHANGED closed
    ELSE /\ closed' = TRUE /\ st' = s /\ hist' = h
         /\ UNCHANGED <<pc, end, alive, asking>>

OneShotFrame ==
    /\ pc = "loop" /\ stdout # <<>>
    /\ stdout' = Tail(stdout)
    /\ LET r   == ParseLine(Head(stdout), st)
           h   == FoldLeft(Observe, hist, r.out.events)
           can == alive /\ ~closed
           in  == IF can THEN stdin \o r.out.writes \o r.out.optional ELSE stdin
       IN  \/ ~r.out.ok /\ Finish("failed", st, hist) /\ UNCHANGED <<stdin, closed>>
           \/ /\ r.out.ok /\ r.out.writes # <<>> /\ ~can
              /\ FinishAs(FinishAfterRetirement(r.s), r.s, h)
              /\ UNCHANGED <<stdin, closed>>
           \/ /\ r.out.ok /\ (r.out.writes = <<>> \/ can)
              /\ stdin' = in
              /\ \/ /\ r.out.ask # "none"
                    /\ pc' = "ask" /\ asking' = r.out.ask /\ st' = r.s /\ hist' = h
                    /\ UNCHANGED <<end, alive, closed>>
                 \/ /\ r.out.ask = "none" /\ r.out.terminal
                    /\ ProtocolOver(r.s, h)
                 \/ /\ r.out.ask = "none" /\ ~r.out.terminal
                    /\ st' = r.s /\ hist' = h
                    /\ UNCHANGED <<pc, end, alive, asking, closed>>
    /\ UNCHANGED <<idleVars, cancelled>>

\* End of output: what the exit status says, unless the adapter knows better.
OneShotEof ==
    /\ pc = "loop" /\ stdout = <<>> /\ ~alive
    /\ FinishAs(\/ FinishAfterRetirement(st)
                \/ ~CompletionPending(st) /\ ~Attached(load) /\ ExitedOk(load), st, hist)
    /\ UNCHANGED <<idleVars, cancelled, stdin, stdout, closed>>

\* COMPLETION_SETTLEMENT_TIMEOUT.
OneShotTimeout ==
    /\ load.timeouts
    /\ pc = "loop" /\ stdout = <<>> /\ CompletionPending(st)
    /\ Finish("failed", st, hist)
    /\ UNCHANGED <<idleVars, cancelled, stdin, stdout, closed>>

OneShotAnswered ==
    /\ pc = "ask"
    /\ \E decision \in {"allow", "deny"} :
          LET response == AskResponse(asking, decision)
              s        == InteractionAnswered(asking, st)
          IN  IF response # <<>> /\ (closed \/ ~alive)
              THEN Finish("failed", s, hist) /\ UNCHANGED stdin
              ELSE /\ stdin' = stdin \o response
                   /\ st' = s /\ pc' = "loop" /\ asking' = "none"
                   /\ UNCHANGED <<end, alive, hist>>
    /\ UNCHANGED <<idleVars, cancelled, stdout, closed>>

\* cancel_running_process: the interrupt is written, the process gets a moment, then it is killed.
OneShotCancelled ==
    /\ cancelled
    /\ \/ /\ pc \in {"loop", "ask"}
          /\ ~closed /\ alive /\ InterruptRequest(st) # <<>>
          /\ stdin' = stdin \o InterruptRequest(st)
          /\ pc' = "unwind" /\ closed' = TRUE
          /\ UNCHANGED <<end, st, alive, asking, hist>>
       \/ /\ pc = "unwind" \/ (pc \in {"loop", "ask"} /\ (closed \/ ~alive \/ InterruptRequest(st) = <<>>))
          /\ Finish("cancelled", st, hist)
          /\ UNCHANGED <<stdin, closed>>
    /\ UNCHANGED <<idleVars, cancelled, stdout>>

OneShotCancel ==
    /\ pc \in {"loop", "ask"} /\ ~cancelled /\ load.cancels
    /\ cancelled' = TRUE
    /\ UNCHANGED <<idleVars, pc, end, st, stdout, stdin, alive, asking, hist, closed>>

\* The turn's deadline: run_inner_with_retention drops the future.
OneShotDropped ==
    /\ pc \in {"loop", "ask"} /\ load.drops
    /\ Finish("dropped", st, hist)
    /\ UNCHANGED <<idleVars, cancelled, stdin, stdout, closed>>

OneShotNext ==
    \/ OneShotFrame \/ OneShotEof \/ OneShotTimeout \/ OneShotAnswered \/ OneShotCancelled
    \/ OneShotCancel \/ OneShotDropped

-----------------------------------------------------------------------------
Codex == INSTANCE CodexAdapter
Acp == INSTANCE AcpAdapter
Pi == INSTANCE PiAdapter
OpenCode == INSTANCE OpenCodeAdapter

Is(p) == load.provider = p

-----------------------------------------------------------------------------
(* The adapters behind the hooks of the turn loops.                        *)

parse_line(f, s) ==
    CASE Is("codex") -> Codex!parse_line(f, s)
      [] Is("codex_exec") -> Codex!exec_line(f, s)
      [] Is("acp") -> Acp!parse_line(f, s)
      [] Is("pi") -> Pi!parse_frame(f, s)
      [] Is("opencode") -> OpenCode!parse_line(f, s)
      [] Is("opencode_run") -> OpenCode!run_line(f, s)

\* What the caller asks of turn n: sessions are continued from the second turn on.
Resume(n) == IF n > 1 \/ load.resume THEN "s1" ELSE ""

Asks(n) == IF n = 1 THEN load.first ELSE load.second

New(n) ==
    CASE Is("codex") ->
            LET s == Codex!prepare_turn(n, n > 1 \/ load.resume, load.manual, load.titled)
            IN  IF load.retained THEN Codex!mark_retained(s) ELSE s
      [] Is("codex_exec") -> Codex!exec_turn(Resume(n))
      [] Is("acp") -> Acp!prepare_turn("here", Resume(n), Asks(n), load.policy, "prompt")
      [] Is("pi") -> Pi!prepare_turn(Resume(n), "prompt")
      [] Is("opencode") ->
            LET s == OpenCode!prepare_turn(Resume(n), load.manual, load.model, load.policy = "plan")
            IN  IF load.retained THEN OpenCode!mark_retained(s) ELSE s
      [] Is("opencode_run") -> OpenCode!run_turn(Resume(n))

\* The frames of a cold start: initial_stdin of the command.
ColdStart ==
    CASE Is("codex") -> Codex!handshake
      [] Is("acp") -> Acp!initialize
      [] Is("pi") -> Pi!get_state
      [] OTHER -> <<>>

Inherits(prior, s) == IF Is("acp") THEN Acp!inherit_retained_handoff(prior, s) ELSE s

Kept(s) == Is("acp")

\* A kept OpenCode server is reached over a new bridge.
Start(n, s) ==
    CASE Is("codex") -> Codex!retained_turn_start(s)
      [] Is("acp") -> Acp!retained_turn_start(s)
      [] OTHER -> <<[type |-> "attach", id |-> ""]>>

Unsupported(m, s) == [outcome |-> "not_supported", s |-> s]

Respond(ask, decision) ==
    CASE Is("codex") -> Codex!approval_response(ask, decision)
      [] Is("acp") -> Acp!approval_response(ask, decision)
      [] Is("pi") -> Pi!approval_response(ask, decision)
      [] OTHER -> OpenCode!approval_response(ask, decision)

AnsweredIn(ask, s) == IF Is("acp") THEN Acp!interaction_answered(ask, s) ELSE s

Interrupt(s) ==
    CASE Is("codex") -> Codex!interrupt(s)
      [] Is("acp") -> Acp!interrupt_request(s)
      [] Is("pi") -> Pi!interrupt_request
      [] Is("opencode") -> OpenCode!interrupt(s)
      [] OTHER -> <<>>

Pending(s) == Is("codex") /\ Codex!completion_pending(s)
Finishable(s) == Is("codex") /\ Codex!can_finish_after_retirement(s)
Retires(s) == Is("codex") /\ Codex!retire_after_completion(s)
HasFailed(s) == s.failed
Never(s) == FALSE

Idle(f) ==
    CASE Is("codex") -> Codex!classify_idle_frame(f)
      [] Is("acp") -> Acp!classify_idle_frame(f)
      [] OTHER -> "unexpected"

IdleState(f, s) == IF Is("acp") THEN Acp!observe_idle_frame(f, s) ELSE s

IdleAnswers(f) ==
    CASE Is("codex") -> Codex!idle_frame_writes(f)
      [] Is("acp") -> Acp!idle_frame_writes(f)
      [] OTHER -> <<>>

Probe(s) == IF Is("codex") THEN Codex!keepalive_probe(s) ELSE <<>>

AttachedTo(l) == l.provider = "opencode"
Grace(l) == l.provider = "acp"
CleanExit(l) == IF l.provider \in {"pi", "codex_exec", "opencode_run"} THEN srv.code = 0 ELSE closed

-----------------------------------------------------------------------------
(* What the application sees.                                              *)

\* foreign: something of another turn, thread or session was shown; twice: a text was shown
\* again; good: tools said to have succeeded; since: settings with an update unread when the
\* turn began; renamed, overruled: the user named the session, and a generated title followed.
NewHist == [foreign |-> FALSE, shown |-> {}, twice |-> FALSE, compacting |-> FALSE, good |-> {},
            since |-> {}, renamed |-> FALSE, overruled |-> FALSE]

See(h, e) ==
    CASE e.kind = "text" ->
            [h EXCEPT !.foreign = @ \/ e.from \notin {turn, -1}, !.shown = @ \cup {<<e.item, e.n>>},
                      !.twice = @ \/ <<e.item, e.n>> \in h.shown]
      [] e.kind \in {"output", "asked"} -> [h EXCEPT !.foreign = @ \/ e.from \notin {turn, -1}]
      [] e.kind = "tool_ended" -> [h EXCEPT !.good = IF e.how = "succeeded" THEN @ \cup {e.item} ELSE @]
      [] e.kind = "compaction_started" -> [h EXCEPT !.compacting = TRUE]
      [] e.kind \in {"compaction_completed", "compaction_failed"} -> [h EXCEPT !.compacting = FALSE]
      [] e.kind = "title" -> [h EXCEPT !.renamed = @ \/ e.by = "user",
                                       !.overruled = @ \/ (e.by = "flow" /\ h.renamed)]
      [] e.kind = "turn_started" ->
            [h EXCEPT !.renamed = FALSE,
                      !.since = IF Is("acp") THEN UNION {DOMAIN e.pending[i].settings : i \in DOMAIN e.pending}
                                ELSE {}]
      [] OTHER -> h

-----------------------------------------------------------------------------
(* Behaviours.                                                             *)

Init ==
    /\ load \in Workload
    /\ srv = CASE Is("codex") -> Codex!CodexInit
               [] Is("acp") -> Acp!AcpInit
               [] Is("opencode") -> OpenCode!BridgeInit
               [] OTHER -> Pi!PiInit
    /\ hist = NewHist
    /\ closed = FALSE
    /\ TurnInit(New(1), ColdStart)

\* A retained turn that ends closes the compaction it showed, like any other.
Guarded == end = "none" \/ ~hist.compacting

CompactionClosed ==
    /\ load.retained /\ ~Guarded
    /\ hist' = close_open_compaction(hist)
    /\ UNCHANGED <<turn, pc, end, st, stdout, stdin, alive, cancelled, asking, parked, handoff, asker, msg,
                   queue, writing, closed, srv>>

\* Steps the provider takes for the turn, and steps of its own.
Obliged ==
    \/ Is("codex") /\ (Codex!Reads \/ Codex!Works \/ Codex!Ends \/ Codex!Compacts
                       \/ Codex!WindsDown \/ Codex!GoalGoesOn \/ Codex!TitleTurn)
    \/ Is("acp") /\ (Acp!Reads(Asks(turn), hist.since) \/ Acp!Works \/ Acp!Ends)
    \/ Is("pi") /\ (Pi!Reads(Resume(1)) \/ Pi!Works \/ Pi!Settles)
    \/ Is("codex_exec") /\ Pi!Prints("thread.started", "item.completed", "item.started",
                                        "turn.completed", "turn.failed")
    \/ Is("opencode_run") /\ Pi!Prints("step_start", "text", "tool", "step_finish", "error")
    \/ Is("opencode") /\ (OpenCode!Attach \/ OpenCode!wait_until_ready \/ OpenCode!stream_events
                          \/ OpenCode!perform \/ OpenCode!Answered \/ OpenCode!Works \/ OpenCode!Ends)

ByItself ==
    \/ Is("codex") /\ (Codex!Late \/ Codex!Renamed)
    \/ Is("acp") /\ (Acp!Changes(Running) \/ Acp!Trails)
    \/ Is("pi") /\ Pi!TooLarge
    \/ Is("opencode") /\ OpenCode!Others

\* Its input is closed: a process of one turn exits.
Exits ==
    /\ alive /\ ~load.retained /\ closed
    /\ load.provider \in {"pi", "codex_exec", "opencode_run", "codex"}
    /\ alive' = FALSE
    /\ UNCHANGED <<stdin, stdout, srv>>

\* It ends in the middle of a turn, whatever its exit code.
Dies ==
    /\ alive /\ load.deaths
    /\ alive' = FALSE
    /\ IF load.provider \in {"pi", "codex_exec", "opencode_run"}
       THEN \E code \in {0, 1} : srv' = [srv EXCEPT !.code = code]
       ELSE UNCHANGED srv
    /\ UNCHANGED <<stdin, stdout>>

Provider ==
    /\ Obliged \/ ByItself \/ Exits \/ Dies
    /\ UNCHANGED <<turn, pc, end, st, cancelled, asking, parked, handoff, asker, msg, queue, writing, hist,
                   closed>>

Next ==
    /\ \/ load.retained /\ Guarded /\ TurnNext /\ UNCHANGED <<closed, srv>>
       \/ CompactionClosed
       \/ ~load.retained /\ OneShotNext /\ UNCHANGED srv
       \/ Provider
    /\ UNCHANGED load

Spec == Init /\ [][Next]_vars

-----------------------------------------------------------------------------
(* Properties.                                                             *)

\* What a turn shows is its own and true: no text or request of a hidden title
\* thread, an earlier turn, a replayed history or another session is shown; no
\* text is shown twice, whether it was streamed, sent whole or both; a tool is
\* said to have succeeded only if it did, even when the result was too large
\* to read; and a generated title never follows the name the user gave.
ShownIsOwn ==
    /\ ~hist.foreign
    /\ ~hist.twice
    /\ Is("pi") => hist.good \cap srv.bad = {}
    /\ ~hist.overruled

\* A turn reported as completed is whole: every text the provider produced for
\* it was shown, and the provider is no longer working for it, although a Codex
\* server winds down after its last event and may go on by itself for a goal.  (A
\* process of one turn that exits with 0 before its protocol is over counts as
\* completed: whole means all it wrote.)
CompletedIsWhole ==
    (end = "completed" /\ pc \in {"idle", "done"}) =>
        /\ \A m \in srv.made :
              m[1] = turn => /\ <<m[2], 1>> \in hist.shown
                             /\ Is("opencode") => <<m[2], 2>> \in hist.shown
        /\ (Is("codex") /\ ~load.manual /\ alive) => ~(srv.run # "" /\ srv.of = turn)

\* A turn never waits for a provider that has nothing left to do: whenever it
\* reads and nothing is there, the provider still owes a step.  A server that
\* answers the prompt only when its work is done is excluded: the bridge sends
\* one request at a time, so an approval would wait behind the prompt.
NeverHangs ==
    (pc = "loop" /\ stdout = <<>> /\ alive /\ ~cancelled /\ ~load.holds) => ENABLED (Obliged \/ Exits)

\* Every request of the provider is answered once, whether the application
\* answers it, a cancelled turn withdraws it, or it arrives between turns.
AnsweredOnce ==
    /\ IsInjective(srv.answers)
    /\ (pc = "idle" /\ alive /\ stdout = <<>> /\ stdin = <<>>) => srv.asks = {}

\* Nothing of a completed turn stays behind: the hidden threads that titled
\* the session are unsubscribed once a kept process is at rest, and no
\* compaction is still shown as running.
NothingLeaked ==
    /\ (Is("codex") /\ pc = "idle" /\ alive /\ stdout = <<>> /\ stdin = <<>>) => srv.hidden = {}
    /\ end = "completed" => ~hist.compacting

\* A prompt reaches the provider only on the terms of its turn: the ACP agent
\* has the mode, model and options that were asked for, unless it changed one
\* by itself since; a pi session that was to be continued is not an empty one;
\* OpenCode's events are subscribed to before it works.
PromptMeetsTerms == (load.provider \notin {"codex"}) => srv.kept

\* A turn is what it is reported to be: begun on its own terms, completed only
\* when all of it was shown and nothing of it stays behind in the provider.
TurnIsWhole == PromptMeetsTerms /\ CompletedIsWhole /\ NothingLeaked

\* Neither side waits for the other for ever: a turn reads only while its
\* provider owes a step, and no request of the provider stays unanswered.
NobodyWaits == NeverHangs /\ AnsweredOnce
=============================================================================
