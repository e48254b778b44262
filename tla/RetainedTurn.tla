---------------------------- MODULE RetainedTurn ----------------------------
(***************************************************************************)
(* One retained provider process and the turns that drive it               *)
(* (src/src/runtime.rs: drive_retained_turn_frames and what it calls): the *)
(* read loop, approvals, messages written into a running turn, the hand-   *)
(* off of a live process to the next turn, and cancellation.  The adapter  *)
(* is a parameter: its hooks are constant operators, so that every         *)
(* provider's parser runs in the same loop.  The provider itself is the    *)
(* environment: it reads `stdin` and appends frames to `stdout`.           *)
(*                                                                         *)
(* A frame is read, parsed, shown and answered in one step: the other      *)
(* actors only touch the message claims and the hand-off slot, which the   *)
(* turn does not read while it handles a frame.                            *)
(***************************************************************************)
EXTENDS Integers, FiniteSets, SequencesExt

CONSTANTS
    Messages,              \* inputs sent into a running turn
    TURN_MESSAGE_QUEUE,    \* capacity of a turn's message channel
    KeepsState(_),               \* Provider::Acp: the next turn inherits a completed one's state
    ParseLine(_, _),             \* parse_line
    NewTurn(_),                  \* prepare_turn of the turn with that number
    Inherit(_, _),               \* inherit_retained_handoff
    TurnStart(_, _),             \* retained_turn_start: the frames that begin a turn, none if it fails
    EncodeInput(_, _),           \* encode_identified_input, encode_input_control
    AskResponse(_, _),           \* approval_response, question_response
    InteractionAnswered(_, _),   \* interaction_answered
    HandoffReady(_),             \* retained_handoff_ready
    CompletionGrace(_),          \* retained_completion_grace
    CompletionPending(_),        \* completion_pending
    CanSettle(_),                \* retained_interrupt_settled is not None
    InterruptSettled(_),         \* retained_interrupt_settled is Some(true)
    InterruptRequest(_),         \* interrupt_request: its frames, none if unsupported
    BackgroundWork(_),           \* retained_background_work
    FollowUpPending(_),          \* retained_follow_up_pending
    FinishAfterRetirement(_),    \* can_finish_after_retirement
    RetireAfterCompletion(_),    \* retire_after_completion
    Failed(_),                   \* terminal_failure is set
    Observe(_, _),               \* what the application learns from an event
    ClassifyIdle(_),             \* classify_idle_frame
    ObserveIdle(_, _),           \* observe_idle_frame
    IdleWrites(_),               \* idle_frame_writes
    KeepaliveProbe(_)            \* retained_keepalive_probe

VARIABLES
    turn,      \* number of the current turn
    pc,        \* where the turn's task is
    end,       \* RetainedTurnEnd of the current turn, "none" while it runs
    st,        \* AdapterState: the running turn's, or the parked process's
    stdout,    \* frames the provider wrote and nobody read
    stdin,     \* frames written to the provider and not read by it
    alive,     \* the process runs
    cancelled, \* the current turn's cancellation token
    asking,    \* the approval or question shown to the application
    parked,    \* ParkedOutput.interactions
    handoff,   \* RetainedHandoff: the request in its slot, ready, wake, ParkedOutput.follow_up
    asker,     \* the hand-off requester: pc and what it received
    msg,       \* each sender's call: pc, claim, reply
    queue,     \* the turn's message channel
    writing,   \* the message whose frame is being written
    hist,      \* what the application has seen
    load       \* the workload: bounds on the turns, hand-off requests and messages,
               \* and which faults may happen

turnVars == <<turn, pc, end, st, stdout, stdin, alive, cancelled, asking, parked, handoff, asker,
              msg, queue, writing, hist>>

Running == pc \in {"loop", "ask", "answer", "write", "settle", "quiet"}

NewMsg == [pc |-> "idle", claim |-> "queued", reply |-> "none", turn |-> 0, written |-> 0]

-----------------------------------------------------------------------------
(* The end of a turn.                                                      *)

\* drive_retained_codex_turn: what is still queued is refused.
Refused(q) ==
    [m \in Messages |-> IF \E i \in DOMAIN q : q[i] = m
                        THEN [msg[m] EXCEPT !.reply = IF @ = "none" THEN "not_accepting" ELSE @]
                        ELSE msg[m]]

\* RetainedTurnEnd and what run_retained does with it.
EndTurn(how, s) ==
    /\ end' = how
    /\ st' = s
    /\ msg' = Refused(queue)
    /\ queue' = <<>>
    /\ writing' = "none"
    /\ asking' = "none"
    /\ handoff' = [handoff EXCEPT !.ready = FALSE, !.follow_up = FALSE]
    /\ pc' = CASE how = "handed_off" -> "parked"
               [] how \in {"completed", "interrupted"} ->
                     IF BackgroundWork(s) THEN "parked" ELSE "idle"
               [] OTHER -> "dead"
    /\ alive' = (alive /\ how \in {"handed_off", "completed", "interrupted"})

\* finish_retained_turn, complete_retained_turn.
complete_retained_turn(s) == EndTurn(IF Failed(s) THEN "failed" ELSE "completed", s)

finish_retired(s) == EndTurn(IF Failed(s) THEN "failed" ELSE "retired", s)

-----------------------------------------------------------------------------
(* Cancellation.                                                           *)

\* settle_retained_interrupt, up to the wait for the provider to unwind.
settle_retained_interrupt(s, in) ==
    \/ /\ InterruptSettled(s)
       /\ EndTurn("interrupted", s)
       /\ stdin' = in
    \/ /\ ~InterruptSettled(s)
       /\ \/ ~CanSettle(s) \/ ~alive
          \/ InterruptRequest(s) = <<>>
       /\ EndTurn("cancelled", s)
       /\ stdin' = in \o InterruptRequest(s)
    \/ /\ ~InterruptSettled(s) /\ CanSettle(s) /\ alive
       /\ InterruptRequest(s) # <<>>
       /\ stdin' = in \o InterruptRequest(s)
       /\ pc' = "settle"
       /\ st' = s
       /\ asking' = "none"
       /\ UNCHANGED <<end, alive, handoff, msg, queue, writing>>

\* apply_interrupted_frame with decline_interaction.
apply_interrupted_frame(f) ==
    LET r == ParseLine(f, st)
    IN  /\ r.out.ok
        /\ st' = r.s
        /\ stdin' = stdin \o r.out.writes \o AskResponse(r.out.ask, "deny") \o r.out.optional
        /\ hist' = FoldLeft(Observe, hist, r.out.events)

\* One step of the wait, or of the quiet that follows it.
Settle ==
    /\ pc \in {"settle", "quiet"}
    /\ \/ /\ pc = "settle" /\ InterruptSettled(st)
          /\ IF BackgroundWork(st)
             THEN EndTurn("interrupted", st)
             ELSE /\ pc' = "quiet"
                  /\ UNCHANGED <<end, st, alive, handoff, msg, queue, writing, asking>>
          /\ UNCHANGED <<stdout, stdin, hist>>
       \/ /\ pc = "settle" => ~InterruptSettled(st)
          /\ stdout # <<>>
          /\ apply_interrupted_frame(Head(stdout))
          /\ stdout' = Tail(stdout)
          /\ UNCHANGED <<pc, end, alive, handoff, msg, queue, writing, asking>>
       \/ /\ pc = "quiet" /\ stdout = <<>> /\ alive
          /\ EndTurn("interrupted", st)
          /\ UNCHANGED <<stdout, stdin, hist>>
       \/ \* INTERRUPT_SETTLE_TIMEOUT, the end of the stream, or a frame it cannot parse.
          /\ \/ pc = "settle" /\ ~InterruptSettled(st)
             \/ pc = "quiet" /\ stdout # <<>>
             \/ stdout # <<>> /\ ~ParseLine(Head(stdout), st).out.ok
             \/ stdout = <<>> /\ ~alive
          /\ EndTurn("cancelled", st)
          /\ UNCHANGED <<stdout, stdin, hist>>
    /\ UNCHANGED <<turn, cancelled, parked, asker>>

-----------------------------------------------------------------------------
(* The read loop.                                                          *)

\* A sender that returned hears nothing more.
Told(m, how) == IF msg[m].pc = "done" THEN msg[m].reply ELSE how

\* deliver_turn_message: the claim decides, then the adapter encodes.
deliver_turn_message ==
    /\ pc \in {"loop", "ask"}
    /\ queue # <<>>
    /\ LET m == Head(queue)
           e == EncodeInput(m, st)
       IN  /\ queue' = Tail(queue)
           /\ \/ /\ msg[m].claim # "queued"
                 /\ UNCHANGED <<pc, st, msg, writing>>
              \/ /\ msg[m].claim = "queued"
                 /\ e.outcome # "frame"
                 /\ msg' = [msg EXCEPT ![m].claim = "taken", ![m].reply = Told(m, e.outcome)]
                 /\ st' = e.s
                 /\ UNCHANGED <<pc, writing>>
              \/ /\ msg[m].claim = "queued"
                 /\ e.outcome = "frame"
                 /\ msg' = [msg EXCEPT ![m].claim = "taken"]
                 /\ st' = e.s
                 /\ writing' = m
                 /\ pc' = "write"
    /\ UNCHANGED <<turn, end, stdout, stdin, alive, cancelled, asking, parked, handoff, asker, hist>>

\* The write of that frame ends: written, or the pipe is broken.
MessageWritten ==
    /\ pc = "write"
    /\ IF alive
       THEN /\ stdin' = Append(stdin, [type |-> "message", id |-> writing])
            /\ msg' = [msg EXCEPT ![writing].reply = Told(writing, "delivered"), ![writing].written = @ + 1]
            /\ pc' = IF asking = "none" THEN "loop" ELSE "ask"
            /\ writing' = "none"
            /\ handoff' = [handoff EXCEPT !.ready = IF asking = "none" THEN HandoffReady(st) ELSE @]
            /\ UNCHANGED <<end, st, alive, asking, queue>>
       ELSE /\ end' = "failed" /\ pc' = "dead" /\ st' = st /\ alive' = FALSE
            /\ msg' = [Refused(queue) EXCEPT ![writing].reply = Told(writing, "error")]
            /\ queue' = <<>> /\ writing' = "none" /\ asking' = "none"
            /\ handoff' = [handoff EXCEPT !.ready = FALSE]
            /\ UNCHANGED stdin
    /\ UNCHANGED <<turn, stdout, cancelled, parked, asker, hist>>

\* What follows a parsed frame (runtime.rs 6397-6476).
AfterFrame(r) ==
    LET in == stdin \o r.out.writes \o r.out.optional
    IN  \/ /\ r.out.writes # <<>> /\ ~alive
           /\ IF FinishAfterRetirement(r.s) THEN finish_retired(r.s) ELSE EndTurn("failed", r.s)
           /\ UNCHANGED stdin
        \/ /\ r.out.writes = <<>> \/ alive
           /\ \/ /\ r.out.ask # "none"
                 /\ pc' = "ask"
                 /\ asking' = r.out.ask
                 /\ st' = r.s /\ stdin' = in
                 /\ UNCHANGED <<end, alive, handoff, msg, queue, writing>>
              \/ /\ r.out.ask = "none" /\ r.out.terminal
                 /\ IF RetireAfterCompletion(r.s) THEN finish_retired(r.s)
                                                 ELSE complete_retained_turn(r.s)
                 /\ stdin' = in
              \/ /\ r.out.ask = "none" /\ ~r.out.terminal /\ cancelled
                 /\ settle_retained_interrupt(r.s, in)
              \/ /\ r.out.ask = "none" /\ ~r.out.terminal /\ ~cancelled
                 /\ pc' = "loop"
                 /\ st' = r.s /\ stdin' = in
                 /\ handoff' = [handoff EXCEPT !.ready = HandoffReady(r.s)]
                 /\ UNCHANGED <<end, alive, msg, queue, writing, asking>>

ReadFrame ==
    /\ pc = "loop" /\ stdout # <<>>
    /\ LET r == ParseLine(Head(stdout), st)
       IN  IF r.out.ok
           THEN AfterFrame(r) /\ hist' = FoldLeft(Observe, hist, r.out.events)
           ELSE EndTurn("failed", st) /\ UNCHANGED <<stdin, hist>>
    /\ stdout' = Tail(stdout)
    /\ UNCHANGED <<turn, cancelled, parked, asker>>

EndOfOutput ==
    /\ pc = "loop" /\ stdout = <<>> /\ ~alive
    /\ IF FinishAfterRetirement(st) THEN finish_retired(st) ELSE EndTurn("failed", st)
    /\ UNCHANGED <<turn, stdout, stdin, cancelled, parked, asker, hist>>

\* The inactivity or the settlement deadline passes.
QuietArmed == CompletionGrace(st) \/ (load.heldQuiet /\ HandoffReady(st))

TimedOut ==
    /\ load.timeouts
    /\ pc = "loop" /\ stdout = <<>> /\ alive
    /\ ~QuietArmed \/ CompletionPending(st)
    /\ EndTurn("failed", st)
    /\ UNCHANGED <<turn, stdout, stdin, cancelled, parked, asker, hist>>

\* A turn that answered and hears nothing more completes.
QuietCompletion ==
    /\ pc = "loop" /\ stdout = <<>> /\ alive
    /\ QuietArmed
    /\ complete_retained_turn(st)
    /\ UNCHANGED <<turn, stdout, stdin, cancelled, parked, asker, hist>>

CancelSeen ==
    /\ pc \in {"loop", "ask"}
    /\ cancelled
    /\ settle_retained_interrupt(st, stdin)
    /\ UNCHANGED <<turn, stdout, cancelled, parked, asker, hist>>

\* answer_retained_interaction: the decision, or its timeout, is written.
Answered ==
    /\ pc = "ask"
    /\ \E decision \in {"allow", "deny"} :
          LET answer == AskResponse(asking, decision)
              s      == InteractionAnswered(asking, st)
          IN  IF answer # <<>> /\ ~alive
              THEN EndTurn("failed", s) /\ UNCHANGED <<stdin, parked>>
              ELSE /\ stdin' = stdin \o answer
                   /\ st' = s
                   \* Requests kept from the time no turn ran come before the first frame.
                   /\ IF parked = <<>>
                      THEN pc' = "loop" /\ asking' = "none" /\ UNCHANGED parked
                      ELSE pc' = "ask" /\ asking' = Head(parked) /\ parked' = Tail(parked)
                   /\ handoff' = [handoff EXCEPT !.ready = (parked = <<>> /\ HandoffReady(s))]
                   /\ UNCHANGED <<end, alive, msg, queue, writing>>
    /\ UNCHANGED <<turn, stdout, cancelled, asker, hist>>

-----------------------------------------------------------------------------
(* Handing the live process to the next turn.                              *)

\* request_retained_handoff, up to the wait.
RequestHandoff ==
    /\ asker.pc = "idle" /\ asker.asks < load.handoffs
    /\ alive /\ handoff.ready /\ handoff.slot = 0 /\ pc # "parked"
    /\ handoff' = [handoff EXCEPT !.slot = asker.asks + 1, !.wake = TRUE]
    /\ asker' = [asker EXCEPT !.pc = "waiting", !.asks = @ + 1, !.reply = "none"]
    /\ UNCHANGED <<turn, pc, end, st, stdout, stdin, alive, cancelled, asking, parked, msg, queue,
                   writing, hist>>

HandoffDecided ==
    /\ asker.pc = "waiting" /\ asker.reply # "none"
    /\ asker' = [asker EXCEPT !.pc = "idle", !.yes = IF asker.reply = "yes" THEN @ + 1 ELSE @]
    /\ UNCHANGED <<turn, pc, end, st, stdout, stdin, alive, cancelled, asking, parked, handoff, msg,
                   queue, writing, hist>>

\* HANDOFF_DECISION_TIMEOUT: withdraw the request, then close the reply and look once more.
HandoffGivesUp ==
    /\ asker.pc = "waiting" /\ asker.reply = "none"
    /\ handoff' = [handoff EXCEPT !.slot = 0]
    /\ asker' = [asker EXCEPT !.pc = "closing"]
    /\ UNCHANGED <<turn, pc, end, st, stdout, stdin, alive, cancelled, asking, parked, msg, queue,
                   writing, hist>>

\* Mutant: what landed before the close is not looked at.
CloseUnread ==
    /\ asker.pc = "closing"
    /\ asker' = [asker EXCEPT !.pc = "idle"]
    /\ UNCHANGED <<turn, pc, end, st, stdout, stdin, alive, cancelled, asking, parked, handoff, msg,
                   queue, writing, hist>>

HandoffCloses ==
    /\ asker.pc = "closing"
    /\ asker' = [asker EXCEPT !.pc = "idle", !.yes = IF asker.reply = "yes" THEN @ + 1 ELSE @]
    /\ UNCHANGED <<turn, pc, end, st, stdout, stdin, alive, cancelled, asking, parked, handoff, msg,
                   queue, writing, hist>>

\* The turn is woken and takes the request from the slot.
HandoffWoken ==
    /\ pc = "loop" /\ handoff.wake
    /\ handoff' = [handoff EXCEPT !.wake = FALSE, !.slot = 0, !.taken = handoff.slot]
    /\ pc' = IF handoff.slot # 0 THEN "answer" ELSE "loop"
    /\ UNCHANGED <<turn, end, st, stdout, stdin, alive, cancelled, asking, parked, asker, msg, queue,
                   writing, hist>>

\* RetainedHandoff::answer: the reply reaches a requester that has not closed.
answer ==
    /\ pc = "answer"
    /\ LET open     == asker.pc \in {"waiting", "closing"} /\ asker.asks = handoff.taken
           accepted == HandoffReady(st)
       IN  /\ asker' = IF open THEN [asker EXCEPT !.reply = IF accepted THEN "yes" ELSE "no",
                                                 !.handed = IF accepted THEN @ + 1 ELSE @]
                             ELSE asker
           /\ IF open /\ accepted
              THEN EndTurn("handed_off", st)
              ELSE pc' = "loop" /\ UNCHANGED <<end, st, alive, handoff, msg, queue, writing, asking>>
    /\ UNCHANGED <<turn, stdout, stdin, cancelled, parked, hist>>

-----------------------------------------------------------------------------
(* submit_retained_input: one sender per message.                          *)

Accepting == Running

SenderOpen(m) == Accepting /\ msg[m].turn = turn

SendMessage(m) ==
    /\ msg[m].pc = "idle" /\ m \in load.msgs
    /\ msg' = [msg EXCEPT ![m] =
                 IF Accepting /\ alive THEN [@ EXCEPT !.pc = "sending", !.turn = turn]
                 ELSE [@ EXCEPT !.pc = "done", !.reply = "not_accepting"]]
    /\ UNCHANGED <<turn, pc, end, st, stdout, stdin, alive, cancelled, asking, parked, handoff, asker,
                   queue, writing, hist>>

EnqueueMessage(m) ==
    /\ msg[m].pc = "sending"
    /\ \/ /\ SenderOpen(m) /\ Len(queue) < TURN_MESSAGE_QUEUE
          /\ queue' = Append(queue, m)
          /\ msg' = [msg EXCEPT ![m].pc = "waiting"]
       \/ /\ ~SenderOpen(m)
          /\ msg' = [msg EXCEPT ![m].pc = "done", ![m].reply = "not_accepting"]
          /\ UNCHANGED queue
       \/ /\ SenderOpen(m) /\ Len(queue) >= TURN_MESSAGE_QUEUE
          /\ msg' = [msg EXCEPT ![m].pc = "done", ![m].reply = "withdrawn"]
          /\ UNCHANGED queue
    /\ UNCHANGED <<turn, pc, end, st, stdout, stdin, alive, cancelled, asking, parked, handoff, asker,
                   writing, hist>>

MessageAnswered(m) ==
    /\ msg[m].pc \in {"waiting", "late"} /\ msg[m].reply # "none"
    /\ msg' = [msg EXCEPT ![m].pc = "done"]
    /\ UNCHANGED <<turn, pc, end, st, stdout, stdin, alive, cancelled, asking, parked, handoff, asker,
                   queue, writing, hist>>

\* TURN_MESSAGE_TIMEOUT: the claim decides who has the message.
MessageTimesOut(m) ==
    /\ msg[m].pc = "waiting" /\ msg[m].reply = "none"
    /\ msg' = [msg EXCEPT ![m] =
                 IF @.claim = "queued"
                 THEN [@ EXCEPT !.pc = "done", !.claim = "withdrawn", !.reply = "withdrawn"]
                 ELSE [@ EXCEPT !.pc = "late"]]
    /\ UNCHANGED <<turn, pc, end, st, stdout, stdin, alive, cancelled, asking, parked, handoff, asker,
                   queue, writing, hist>>

\* The second wait also ends: the caller is told only that it timed out.
MessageAbandoned(m) ==
    /\ msg[m].pc = "late" /\ msg[m].reply = "none"
    /\ msg' = [msg EXCEPT ![m].pc = "done", ![m].reply = "timeout"]
    /\ UNCHANGED <<turn, pc, end, st, stdout, stdin, alive, cancelled, asking, parked, handoff, asker,
                   queue, writing, hist>>

-----------------------------------------------------------------------------
(* Between turns.                                                          *)

\* A parked process is read on: requests are held for the next turn.
ParkedFrame ==
    /\ pc = "parked" /\ stdout # <<>>
    /\ LET r == ParseLine(Head(stdout), st)
       IN  /\ r.out.ok
           /\ st' = r.s
           /\ stdin' = stdin \o r.out.writes \o r.out.optional
           /\ parked' = IF r.out.ask = "none" THEN parked ELSE Append(parked, r.out.ask)
           /\ handoff' = [handoff EXCEPT !.follow_up = @ \/ FollowUpPending(r.s)]
           /\ hist' = FoldLeft(Observe, hist, r.out.events)
    /\ stdout' = Tail(stdout)
    /\ UNCHANGED <<turn, pc, end, alive, cancelled, asking, asker, msg, queue, writing>>

\* supervise_idle_retained_process: a probe, and the frames an idle process may write.
IdleProbe ==
    /\ pc = "idle" /\ alive /\ stdout = <<>> /\ stdin = <<>>
    /\ load.probes /\ KeepaliveProbe(st) # <<>>
    /\ stdin' = KeepaliveProbe(st)
    /\ UNCHANGED <<turn, pc, end, st, stdout, alive, cancelled, asking, parked, handoff, asker, msg,
                   queue, writing, hist>>

IdleFrame ==
    /\ pc = "idle" /\ stdout # <<>>
    /\ ClassifyIdle(Head(stdout)) \in {"background", "active"}
    /\ st' = IF KeepsState(st) THEN ObserveIdle(Head(stdout), st) ELSE st
    /\ stdin' = stdin \o IdleWrites(Head(stdout))
    /\ stdout' = Tail(stdout)
    /\ UNCHANGED <<turn, pc, end, alive, cancelled, asking, parked, handoff, asker, msg, queue,
                   writing, hist>>

\* Other output of an idle process retires it; a parked one with no work left is retired too.
RetireKept ==
    /\ \/ pc = "idle" /\ stdout # <<>> /\ ClassifyIdle(Head(stdout)) \in {"unexpected", "inactive"}
       \/ pc = "parked" /\ stdout = <<>>
            /\ ~BackgroundWork(st) /\ parked = <<>>
       \/ pc = "parked" /\ stdout # <<>> /\ ~ParseLine(Head(stdout), st).out.ok
       \/ pc \in {"idle", "parked"} /\ ~alive
    /\ pc' = "dead" /\ alive' = FALSE
    /\ UNCHANGED <<turn, end, st, stdout, stdin, cancelled, asking, parked, handoff, asker, msg, queue,
                   writing, hist>>

\* The next turn takes the process and its parked state (runtime.rs 5769-5871).
StartTurn(s, frames) ==
    /\ turn' = turn + 1
    /\ end' = "none"
    /\ cancelled' = FALSE
    /\ st' = s
    /\ stdin' = stdin \o frames
    /\ IF parked = <<>>
       THEN pc' = "loop" /\ asking' = "none" /\ UNCHANGED parked
       ELSE pc' = "ask" /\ asking' = Head(parked) /\ parked' = Tail(parked)
    /\ handoff' = [handoff EXCEPT !.ready = (parked = <<>> /\ HandoffReady(s)), !.follow_up = FALSE]
    /\ hist' = Observe(hist, [kind |-> "turn_started", unread |-> stdin, pending |-> stdout])
    /\ UNCHANGED <<stdout, alive, asker, msg, queue, writing>>

NextTurn ==
    /\ pc \in {"parked", "idle"} /\ alive
    /\ turn < load.turns
    /\ IF pc = "idle" /\ stdout # <<>> THEN ClassifyIdle(Head(stdout)) # "unexpected" ELSE TRUE
    /\ LET fresh  == NewTurn(turn + 1)
           s      == IF pc = "parked" \/ KeepsState(st) THEN Inherit(st, fresh) ELSE fresh
           frames == TurnStart(turn + 1, s)
       IN  \/ frames # <<>> /\ StartTurn(s, frames)
           \/ /\ frames = <<>>
              /\ turn' = turn + 1
              /\ EndTurn("failed", s)
              /\ UNCHANGED <<stdout, stdin, cancelled, parked, asker, hist>>

\* A continuation resumes the exchange the parked state tracks: it needs an answer
\* begun (continuation_ready), and has nothing to read when that answer finished
\* while parked.
Continuation ==
    /\ pc = "parked" /\ alive
    /\ turn < load.turns
    /\ handoff.follow_up \/ FollowUpPending(st)
    /\ \/ /\ FollowUpPending(st) \/ parked # <<>>
          /\ StartTurn(st, <<>>)
       \/ /\ ~FollowUpPending(st) /\ parked = <<>>
          /\ turn' = turn + 1
          /\ cancelled' = FALSE
          /\ hist' = Observe(hist, [kind |-> "turn_started", unread |-> stdin, pending |-> stdout])
          /\ complete_retained_turn(st)
          /\ UNCHANGED <<stdout, stdin, parked, asker>>

Cancel ==
    /\ Running /\ ~cancelled /\ load.cancels
    /\ cancelled' = TRUE
    /\ UNCHANGED <<turn, pc, end, st, stdout, stdin, alive, asking, parked, handoff, asker, msg, queue,
                   writing, hist>>

\* The turn's future is dropped (its own timeout): the process is killed, and
\* every reply channel with it, even one whose frame is half written.  `ready`
\* stays as it is: only the retired process keeps a request out.
DropTurn ==
    /\ Running /\ load.drops
    /\ end' = "dropped" /\ pc' = "dead" /\ alive' = FALSE
    /\ msg' = [m \in Messages |->
                 IF msg[m].reply = "none" /\ (m = writing \/ \E i \in DOMAIN queue : queue[i] = m)
                 THEN [msg[m] EXCEPT !.reply = "not_accepting",
                                     !.written = IF m = writing THEN @ + 1 ELSE @]
                 ELSE msg[m]]
    /\ queue' = <<>> /\ writing' = "none" /\ asking' = "none"
    /\ UNCHANGED <<turn, st, stdout, stdin, cancelled, parked, handoff, asker, hist>>

TurnInit(s, frames) ==
    /\ turn = 1 /\ pc = "loop" /\ end = "none"
    /\ st = s
    /\ stdout = <<>> /\ stdin = frames
    /\ alive = TRUE /\ cancelled = FALSE /\ asking = "none" /\ parked = <<>>
    /\ handoff = [slot |-> 0, taken |-> 0, ready |-> FALSE, wake |-> FALSE, follow_up |-> FALSE]
    /\ asker = [pc |-> "idle", asks |-> 0, reply |-> "none", yes |-> 0, handed |-> 0]
    /\ msg = [m \in Messages |-> NewMsg]
    /\ queue = <<>> /\ writing = "none"

TurnNext ==
    \/ Settle \/ deliver_turn_message \/ MessageWritten \/ ReadFrame \/ EndOfOutput \/ TimedOut
    \/ QuietCompletion \/ CancelSeen \/ Answered
    \/ RequestHandoff \/ HandoffDecided \/ HandoffGivesUp \/ HandoffCloses \/ HandoffWoken \/ answer
    \/ \E m \in Messages : \/ SendMessage(m) \/ EnqueueMessage(m) \/ MessageAnswered(m)
                           \/ MessageTimesOut(m) \/ MessageAbandoned(m)
    \/ ParkedFrame \/ IdleProbe \/ IdleFrame \/ RetireKept \/ NextTurn \/ Continuation \/ Cancel \/ DropTurn

=============================================================================
