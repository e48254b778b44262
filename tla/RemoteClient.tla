---------------------------- MODULE RemoteClient ----------------------------
(***************************************************************************)
(* RemoteRuntimeClient (src/src/protocol_client.rs) with the carriers it   *)
(* opens and the host at their other end (src/src/protocol_host.rs), for   *)
(* one runtime.  The tasks of the client start turns, call the host,       *)
(* deliver answers, interrupt turns that lost their consumer and recover   *)
(* active turns; one receive loop per carrier routes what the host sends.  *)
(*                                                                         *)
(* A carrier is named by its connection generation.  It keeps the order of *)
(* its frames; when it breaks, a suffix of what is under way in either     *)
(* direction is lost, and both ends notice in their own time.  A request   *)
(* id is a task and a serial number, an event its invocation and its       *)
(* sequence.  The host executes a request at once; its cache of answers is *)
(* RequestCache, its journal EventJournal, both here large enough.         *)
(***************************************************************************)
EXTENDS Integers, FiniteSets, SequencesExt

CONSTANTS
    Invocation,             \* invocation ids, numbers
    Workload,               \* what the applications may do
    MaxConnections,         \* bound: carriers
    ReplayLimit,            \* DEFAULT_PROTOCOL_REPLAY_EVENTS
    EVENT_CHANNEL_CAPACITY

(***************************************************************************)
(* A workload: what the application's other call may ask for, the sequence *)
(* of the event that asks for an approval, whether the consumer of the     *)
(* events may be slow or leave, how carriers fail, how many of them the    *)
(* connector opens and how many break, how many requests time out although *)
(* an answer may come, how many events a turn has, and the max_attempts of *)
(* the RemoteRecoveryPolicy.                                               *)
(***************************************************************************)
ASSUME ClientAssumption ==
    /\ Invocation \subseteq Nat \ {0}
    /\ Workload \subseteq [ops : SUBSET {"Health", "Interrupt", "Dispose", "Attach"},
                            ask : Nat, slow : BOOLEAN, ends : SUBSET {"lost", "denied"},
                            connections : 1..MaxConnections, breaks : Nat, timeouts : Nat,
                            events : Nat \ {0}, max_attempts : Nat \ {0}]
    /\ {MaxConnections, ReplayLimit, EVENT_CHANNEL_CAPACITY} \subseteq Nat \ {0}

Carrier == 1..MaxConnections

starter(i) == <<"start", i>>

deliverer(i) == <<"deliver", i>>

stopper(i) == <<"stop", i>>

\* The application's other call, about one of the invocations if it is an interruption.
caller == <<"call", CHOOSE i \in Invocation : TRUE>>

recovery == <<"recover", 0>>

Task == ({"start", "deliver", "stop"} \X Invocation) \cup {caller, recovery}

VARIABLES
    load,           \* the workload
    slot,           \* RemoteClientInner::connection: a carrier, or 0
    generation,     \* carriers opened so far
    wire,           \* each carrier: "none", "up", "lost", or "denied"
    upward,         \* frames under way to the host
    downward,       \* frames under way to the client
    loop,           \* the receive loop of each carrier
    routed,         \* the event a loop routes, and the last sequence it read
    pending,        \* RemoteClientInner::pending: registered request ids
    invocations,    \* RemoteClientInner::invocations
    last_sequence,
    queued,         \* events in the channel to the consumer
    consumer,       \* whether the consumer still holds the channel
    completed,      \* what each invocation completed with
    task,           \* each task and the request it makes
    runtime,        \* host: whether the runtime exists
    served,         \* host: the cached answers
    turn,           \* host: each turn
    journal,        \* host: events in the journal of each turn
    pumped,         \* host: events the pump has sent live
    final,          \* host: the sequence of the terminal event, or 0
    answered,       \* host: turns whose approval was resolved
    live_sink,      \* host: the carrier that live events go to, or 0
    timeouts,
    delivered,      \* history: the sequences the consumer's channel was given
    raced,          \* history: invocations that two loops routed at once
    missed          \* history: a reason why an active turn may not be recovered

carrierVars == <<slot, generation, wire, upward, downward, loop, routed>>

turnVars == <<invocations, last_sequence, queued, consumer, completed, delivered>>

hostVars == <<runtime, served, turn, journal, pumped, final, answered, live_sink>>

requestVars == <<pending, timeouts>>

historyVars == <<raced, missed>>

state == <<carrierVars, turnVars, hostVars, historyVars, requestVars, task>>

vars == <<state, load>>

NoResult == [kind |-> "none", delivery |-> "none"]

\* A task before it runs: no request made, no attempt, no message, no result.
Idle ==
    [pc |-> "idle", op |-> "none", serial |-> 0, attempt |-> 0, round |-> 0,
     via |-> 0, mail |-> <<>>, ready |-> FALSE, cursors |-> <<>>, result |-> NoResult]

Init ==
    /\ load \in Workload
    /\ slot = 0 /\ generation = 0
    /\ wire = [c \in Carrier |-> "none"]
    /\ upward = [c \in Carrier |-> <<>>]
    /\ downward = [c \in Carrier |-> <<>>]
    /\ loop = [c \in Carrier |-> "none"]
    /\ routed = [c \in Carrier |-> <<>>]
    /\ pending = {} /\ timeouts = 0
    /\ invocations = {}
    /\ last_sequence = [i \in Invocation |-> 0]
    /\ queued = [i \in Invocation |-> 0]
    /\ consumer = [i \in Invocation |-> "open"]
    /\ completed = [i \in Invocation |-> "no"]
    /\ delivered = [i \in Invocation |-> <<>>]
    /\ task = [t \in Task |-> Idle]
    /\ runtime = "present"
    /\ served = <<>>
    /\ turn = [i \in Invocation |-> "none"]
    /\ journal = [i \in Invocation |-> 0]
    /\ pumped = [i \in Invocation |-> 0]
    /\ final = [i \in Invocation |-> 0]
    /\ answered = {}
    /\ live_sink = 0
    /\ raced = {} /\ missed = FALSE

-----------------------------------------------------------------------------
(***************************************************************************)
(* Requests: request_with_id, and request_runtime for an attach.  A task   *)
(* registers, connects and sends in one action: a frame that is sent later *)
(* on the same carrier is as if it had been sent at once, and a carrier    *)
(* that breaks in between as if it had broken before.                      *)
(***************************************************************************)
Id(t) == <<t, task[t].serial>>

Transport(delivery) == [kind |-> "Transport", delivery |-> delivery]

Permission(delivery) == [kind |-> "Permission", delivery |-> delivery]

\* transport_failure: what the end of a carrier means to a request.
transport_failure(end, delivery) ==
    IF end = "denied" THEN Permission(delivery) ELSE Transport(delivery)

Answer(kind) == [kind |-> kind, delivery |-> "Accepted"]

retryable_transport_failure(failure) == failure.kind = "Transport"

\* Tasks with a request under way.
Busy == {t \in Task : task[t].pc \in {"begin", "wait"}}

SetTask(t, r) == task' = [task EXCEPT ![t] = r]

\* A task makes a request with a fresh id; cursors matter to an attach only.
Ask(t, op, cursors) ==
    [Idle EXCEPT !.pc = "begin", !.op = op, !.serial = task[t].serial + 1,
                 !.round = task[t].round, !.cursors = cursors]

End(t, pc, result) == SetTask(t, [Idle EXCEPT !.pc = pc, !.serial = task[t].serial, !.result = result])

Opened(c) ==
    /\ generation' = c /\ slot' = c
    /\ wire' = [wire EXCEPT ![c] = "up"]
    /\ loop' = [loop EXCEPT ![c] = "receiving"]

\* begin_request on the connection there is, or on a new one.
begin_request(t) ==
    /\ task[t].pc = "begin"
    /\ \E c \in Carrier :
         /\ \/ slot = c /\ wire[c] = "up" /\ UNCHANGED <<slot, generation, wire, loop>>
            \/ slot = 0 /\ c = generation + 1 /\ c <= load.connections /\ Opened(c)
         /\ upward' = [upward EXCEPT ![c] =
                Append(@, [id |-> Id(t), op |-> task[t].op, cursors |-> task[t].cursors])]
         /\ SetTask(t, [task[t] EXCEPT !.pc = "wait", !.via = c])
    /\ pending' = pending \cup {Id(t)}
    /\ UNCHANGED <<downward, routed, turnVars, hostVars, historyVars, timeouts>>

(***************************************************************************)
(* begin_request fails: no connection is made, or the one there is does    *)
(* not take the frame and is invalidated.                                  *)
(***************************************************************************)
BeginFailures(t) ==
    IF task[t].pc # "begin" THEN {}
    ELSE IF slot = 0 THEN {transport_failure(end, "NotSent") : end \in load.ends}
    ELSE {transport_failure(end, "PossiblySent") : end \in {wire[slot]} \ {"up"}}

\* Nothing that answers the request can still arrive.
Hopeless(t) == wire[task[t].via] # "up" /\ loop[task[t].via] = "ended"

\* REQUEST_TIMEOUT.  The second attempt of an attach leaves its entry in the map.
TimesOut(t) ==
    /\ IF Hopeless(t) THEN UNCHANGED timeouts ELSE timeouts < load.timeouts /\ timeouts' = timeouts + 1
    /\ pending' = IF task[t].op = "Attach" /\ task[t].attempt = 1 THEN pending ELSE pending \ {Id(t)}

Message(t, messages) == task[t].pc = "wait" /\ task[t].mail # <<>> /\ Head(task[t].mail) \in messages

\* The carrier ended, or no answer came in time.
NoAnswer(t) ==
    IF Message(t, {"lost", "denied"}) THEN {transport_failure(Head(task[t].mail), "PossiblySent")}
    ELSE IF task[t].pc = "wait" /\ task[t].mail = <<>> THEN {Transport("PossiblySent")} ELSE {}

\* A request that is over, or about to be repeated, leaves the map of registered ones.
Unregister(t) ==
    \/ task[t].pc = "begin" /\ UNCHANGED requestVars
    \/ task[t].mail # <<>> /\ pending' = pending \ {Id(t)} /\ UNCHANGED timeouts
    \/ task[t].pc = "wait" /\ task[t].mail = <<>> /\ TimesOut(t)

\* RuntimeReady lets an attach go on to its ReplayComplete, which is unexpected without it.
AttachReady(t) ==
    /\ Message(t, {"Ready"})
    /\ SetTask(t, [task[t] EXCEPT !.ready = TRUE, !.mail = Tail(@)])
    /\ UNCHANGED <<carrierVars, turnVars, hostVars, historyVars, requestVars>>

\* ReplayComplete answers an attach; a response or a failure any other request.
Answered(t) ==
    IF Message(t, {"Response", "Failure"}) \/ (Message(t, {"Complete", "Truncated"}) /\ task[t].ready)
    THEN {Answer(Head(task[t].mail))}
    ELSE IF Message(t, {"Complete", "Truncated"}) THEN {Answer("Indeterminate")} ELSE {}

\* The failures after which a first attempt is repeated.
Retried(t) ==
    IF task[t].attempt # 0 THEN {}
    ELSE {f \in BeginFailures(t) : retryable_transport_failure(f)} \cup NoAnswer(t)

\* Mutant: the second attempt is a new request.
RetryFresh(t) ==
    /\ Retried(t) # {} /\ Unregister(t)
    /\ slot' = 0
    /\ SetTask(t, [Ask(t, task[t].op, task[t].cursors) EXCEPT !.attempt = 1])
    /\ UNCHANGED <<generation, wire, upward, downward, loop, routed, turnVars, hostVars, historyVars>>

\* The first attempt is repeated under the same id, with the connection invalidated.
Retry(t) ==
    /\ Retried(t) # {} /\ Unregister(t)
    /\ slot' = 0
    /\ SetTask(t, [task[t] EXCEPT !.pc = "begin", !.attempt = 1, !.via = 0, !.mail = <<>>, !.ready = FALSE])
    /\ UNCHANGED <<generation, wire, upward, downward, loop, routed, turnVars, hostVars, historyVars>>

\* What the request of a task may end with now.
Result(t) == (BeginFailures(t) \cup NoAnswer(t) \cup Answered(t)) \ Retried(t)

\* The request ends; what the task does then is up to it.
Returns(t) ==
    /\ slot' = IF task[t].pc = "begin" THEN 0 ELSE slot
    /\ Unregister(t)
    /\ UNCHANGED <<generation, wire, upward, downward, loop, routed, hostVars, historyVars>>

-----------------------------------------------------------------------------
(***************************************************************************)
(* The tasks of the application.                                           *)
(***************************************************************************)
replay_cursors == [i \in invocations |-> last_sequence[i]]

\* attach_runtime asks for another page after a truncated one, if a cursor has moved.
MorePages(t, result) == result.kind = "Truncated" /\ replay_cursors # task[t].cursors

next_page(t) ==
    /\ task[t].op = "Attach"
    /\ \E r \in Result(t) : Returns(t) /\ MorePages(t, r)
    /\ SetTask(t, Ask(t, "Attach", replay_cursors))
    /\ UNCHANGED turnVars

\* The attach of a task is over.
AttachReturns(t, result) == task[t].op = "Attach" /\ ~MorePages(t, result) /\ Returns(t)

clientRest == <<carrierVars, hostVars, historyVars, requestVars>>

\* RemoteInvocation::complete: only the first result counts.
Complete(S, result) ==
    completed' = [i \in Invocation |-> IF i \in S /\ completed[i] = "no" THEN result ELSE completed[i]]

\* start_turn registers the invocation before it asks.
start_turn(i) ==
    /\ task[starter(i)].pc = "idle"
    /\ invocations' = invocations \cup {i}
    /\ SetTask(starter(i), Ask(starter(i), "StartTurn", <<>>))
    /\ UNCHANGED <<clientRest, last_sequence, queued, consumer, completed, delivered>>

\* A start that fails drops the invocation and the receiver of its events.
Forget(i) ==
    /\ invocations' = invocations \ {i}
    /\ consumer' = [consumer EXCEPT ![i] = "closed"]

(***************************************************************************)
(* The answer to a start: accepted; possibly sent, so that the journal is  *)
(* consulted; or failed.                                                   *)
(***************************************************************************)
StartReturns(i) ==
    LET t == starter(i) IN
    /\ task[t].op = "StartTurn"
    /\ \E r \in Result(t) :
         /\ Returns(t)
         /\ CASE r.kind = "Response" -> End(t, "done", NoResult) /\ UNCHANGED <<invocations, consumer>>
              [] r = Transport("PossiblySent") ->
                   SetTask(t, Ask(t, "Attach", replay_cursors)) /\ UNCHANGED <<invocations, consumer>>
              [] OTHER -> End(t, "failed", r) /\ Forget(i)
    /\ UNCHANGED <<last_sequence, queued, completed, delivered>>

\* The journal knows the turn if an event arrived; else the first failure is returned.
StartLookedUp(i) ==
    LET t == starter(i) IN
    /\ task[t].op = "Attach"
    /\ \E r \in Result(t) :
         /\ AttachReturns(t, r)
         /\ IF r.kind = "Complete" /\ last_sequence[i] > 0
            THEN End(t, "done", NoResult) /\ UNCHANGED <<invocations, consumer>>
            ELSE End(t, "failed", Transport("PossiblySent")) /\ Forget(i)
    /\ UNCHANGED <<last_sequence, queued, completed, delivered>>

\* health, interrupt, dispose or recover.
call(op) ==
    /\ task[caller].pc = "idle"
    /\ SetTask(caller, Ask(caller, op, IF op = "Attach" THEN replay_cursors ELSE <<>>))
    /\ UNCHANGED <<clientRest, turnVars>>

\* A call of the application, or the interruption of a turn without consumer.
CallReturns(t) ==
    /\ t = caller \/ t[1] = "stop"
    /\ \E r \in Result(t) :
         (IF task[t].op = "Attach" THEN AttachReturns(t, r) ELSE Returns(t)) /\ End(t, "done", NoResult)
    /\ UNCHANGED turnVars

-----------------------------------------------------------------------------
(***************************************************************************)
(* Recovery of active turns.  recovery_running is set while the task is    *)
(* not idle: scheduling it again then does nothing.                        *)
(***************************************************************************)
Scheduled(tasks) ==
    IF tasks[recovery].pc = "idle" THEN [tasks EXCEPT ![recovery].pc = "spawned"] ELSE tasks

GoTo(t, pc) == SetTask(t, [task[t] EXCEPT !.pc = pc])

recover_begin ==
    /\ task[recovery].pc = "spawned"
    /\ GoTo(recovery, IF invocations = {} THEN "ending" ELSE "sleep")
    /\ UNCHANGED <<clientRest, turnVars>>

recover_attempt ==
    /\ task[recovery].pc = "sleep"
    /\ IF invocations = {} THEN GoTo(recovery, "ending")
       ELSE SetTask(recovery, Ask(recovery, "Attach", replay_cursors))
    /\ UNCHANGED <<clientRest, turnVars>>

LastAttempt(t) == task[t].round + 1 = load.max_attempts

NextRound(t) == SetTask(t, [Idle EXCEPT !.pc = "sleep", !.serial = task[t].serial, !.round = task[t].round + 1])

\* Mutant: exhausted recovery ends without failing the turns it could not recover.
RecoveryGivesUpQuietly ==
    /\ recovery \in Busy
    /\ \E r \in Result(recovery) :
         /\ AttachReturns(recovery, r)
         /\ IF r.kind # "Complete" /\ ~LastAttempt(recovery) THEN NextRound(recovery)
            ELSE End(recovery, "ending", NoResult)
    /\ UNCHANGED turnVars

(***************************************************************************)
(* recover_active_invocations after an attach: done, another round, or     *)
(* fail_active_recovery.                                                   *)
(***************************************************************************)
recover_attached ==
    /\ recovery \in Busy
    /\ \E r \in Result(recovery) :
         /\ AttachReturns(recovery, r)
         /\ LET settled == r.kind = "Complete" \/ invocations = {} IN
              \/ settled /\ End(recovery, "ending", NoResult) /\ UNCHANGED <<completed, invocations>>
              \/ /\ ~settled /\ ~LastAttempt(recovery)
                 /\ NextRound(recovery)
                 /\ UNCHANGED <<completed, invocations>>
              \/ /\ ~settled /\ LastAttempt(recovery)
                 /\ End(recovery, "ending", NoResult)
                 /\ Complete(invocations, "failed")
                 /\ invocations' = {}
    /\ UNCHANGED <<last_sequence, queued, consumer, delivered>>

\* recovery_running becomes false.
recover_end ==
    /\ task[recovery].pc = "ending"
    /\ End(recovery, "idle", NoResult)
    /\ UNCHANGED <<clientRest, turnVars>>

(***************************************************************************)
(* deliver_interaction: the application has decided; the answer is sent    *)
(* under one request id while the turn is registered and rounds remain.    *)
(***************************************************************************)
deliver_attempt(i) ==
    LET t == deliverer(i) IN
    /\ task[t].pc \in {"deciding", "sleep"}
    /\ IF i \notin invocations THEN End(t, "done", NoResult)
       ELSE SetTask(t, [task[t] EXCEPT !.pc = "begin", !.op = "Resolve"])
    /\ UNCHANGED <<clientRest, turnVars>>

DeliverReturns(i) ==
    LET t == deliverer(i) IN
    /\ t \in Busy
    /\ \E r \in Result(t) :
         /\ Returns(t)
         /\ LET again == retryable_transport_failure(r) /\ ~LastAttempt(t) IN
              \/ r.kind = "Response" /\ End(t, "done", NoResult) /\ UNCHANGED <<completed, invocations>>
              \/ again /\ NextRound(t) /\ UNCHANGED <<completed, invocations>>
              \/ /\ r.kind # "Response" /\ ~again                \* fail_interaction_delivery
                 /\ End(t, "done", NoResult)
                 /\ Complete(invocations \cap {i}, "failed")
                 /\ invocations' = invocations \ {i}
    /\ UNCHANGED <<last_sequence, queued, consumer, delivered>>

-----------------------------------------------------------------------------
(***************************************************************************)
(* The receive loop of a carrier.                                          *)
(***************************************************************************)
loopRest == <<slot, generation, wire, upward, hostVars, requestVars>>

Incoming(c, kind) == loop[c] = "receiving" /\ downward[c] # <<>> /\ Head(downward[c]).kind = kind

Received(c) == downward' = [downward EXCEPT ![c] = Tail(@)]

\* A task that waits under the id it registered.
Waits(t, id) == id \in pending /\ id = Id(t) /\ task[t].pc = "wait"

\* route_frame: an answer goes to the channel registered under its id, if one is.
route_frame(c) ==
    /\ Incoming(c, "answer")
    /\ LET frame == Head(downward[c])
           t == frame.id[1]
       IN  task' = IF Waits(t, frame.id) THEN [task EXCEPT ![t].mail = Append(@, frame.message)] ELSE task
    /\ Received(c)
    /\ UNCHANGED <<loopRest, loop, routed, turnVars, historyVars>>

\* The channel takes the event, and a consumer that keeps up takes it at once; a
\* terminal event completes the turn.
Accept(i, n) ==
    /\ queued' = IF load.slow THEN [queued EXCEPT ![i] = @ + 1] ELSE queued
    /\ last_sequence' = [last_sequence EXCEPT ![i] = n]
    /\ delivered' = [delivered EXCEPT ![i] = Append(@, n)]
    /\ task' = IF n = load.ask /\ task[deliverer(i)].pc = "idle"
               THEN [task EXCEPT ![deliverer(i)].pc = "deciding"] ELSE task
    /\ IF n = final[i] THEN Complete({i}, "ok") /\ invocations' = invocations \ {i}
       ELSE UNCHANGED <<completed, invocations>>
    /\ UNCHANGED <<consumer, missed>>

\* The channel is full or closed: the turn fails, and the host is asked to stop it.
GiveUp(i) ==
    /\ Complete({i}, "failed")
    /\ invocations' = invocations \ {i}
    /\ task' = IF task[stopper(i)].pc = "idle"
               THEN [task EXCEPT ![stopper(i)] = Ask(stopper(i), "Interrupt", <<>>)] ELSE task
    /\ UNCHANGED <<last_sequence, queued, consumer, delivered, missed>>

\* schedule_active_recovery: nothing happens if a recovery is still running.
schedule_active_recovery(tasks) ==
    /\ task' = Scheduled(tasks)
    /\ missed' = (missed \/ tasks[recovery].pc # "idle")

Full(i) == queued[i] = EVENT_CHANNEL_CAPACITY \/ consumer[i] = "closed"

\* Mutant: a gap is taken for progress.
RouteOverGap(i, n, previous) ==
    \/ n <= previous /\ UNCHANGED <<task, turnVars, missed>>
    \/ n > previous /\ Full(i) /\ GiveUp(i)
    \/ n > previous /\ ~Full(i) /\ Accept(i, n)

\* route_event once it has read the last sequence: a duplicate, a gap, or the next event.
route_event(i, n, previous) ==
    \/ n <= previous /\ UNCHANGED <<task, turnVars, missed>>
    \/ n > previous + 1 /\ schedule_active_recovery(task) /\ UNCHANGED turnVars
    \/ n = previous + 1 /\ Full(i) /\ GiveUp(i)
    \/ n = previous + 1 /\ ~Full(i) /\ Accept(i, n)

OtherLoops(c) == {d \in Carrier \ {c} : loop[d] \in {"receiving", "routing"}}

\* An event of an unknown invocation is ignored; a loop alone routes one in one step.
RouteAlone(c) ==
    /\ Incoming(c, "event")
    /\ LET e == Head(downward[c]) IN
         \/ e.invocation \notin invocations /\ UNCHANGED <<task, turnVars, missed>>
         \/ /\ e.invocation \in invocations /\ OtherLoops(c) = {}
            /\ route_event(e.invocation, e.sequence, last_sequence[e.invocation])
    /\ Received(c)
    /\ UNCHANGED <<loopRest, loop, routed, raced>>

\* With another loop beside it, it reads the last sequence in one step
RouteLoad(c) ==
    /\ Incoming(c, "event") /\ OtherLoops(c) # {}
    /\ LET e == Head(downward[c]) IN
         /\ e.invocation \in invocations
         /\ loop' = [loop EXCEPT ![c] = "routing"]
         /\ routed' = [routed EXCEPT ![c] = <<e.invocation, e.sequence, last_sequence[e.invocation]>>]
         /\ raced' = IF \E d \in OtherLoops(c) : loop[d] = "routing" /\ routed[d][1] = e.invocation
                     THEN raced \cup {e.invocation} ELSE raced
    /\ Received(c)
    /\ UNCHANGED <<loopRest, task, turnVars, missed>>

\* and goes on in another.
RouteLoaded(c) ==
    /\ loop[c] = "routing"
    /\ route_event(routed[c][1], routed[c][2], routed[c][3])
    /\ loop' = [loop EXCEPT ![c] = "receiving"]
    /\ routed' = [routed EXCEPT ![c] = <<>>]
    /\ UNCHANGED <<loopRest, downward, raced>>

\* The carrier has ended; disconnect_generation ignores all but the newest one.
receive_loop_ends(c) ==
    /\ loop[c] = "receiving" /\ downward[c] = <<>> /\ wire[c] # "up"
    /\ loop' = [loop EXCEPT ![c] = IF generation = c THEN "closing" ELSE "ended"]
    /\ missed' = (missed \/ generation # c)
    /\ UNCHANGED <<loopRest, downward, routed, task, turnVars, raced>>

\* Tells every registered request, then recovers the active turns or fails them.
disconnect_generation(c) ==
    LET told == [t \in Task |-> IF Waits(t, Id(t)) THEN [task[t] EXCEPT !.mail = Append(@, wire[c])] ELSE task[t]]
    IN
    /\ loop[c] = "closing"
    /\ loop' = [loop EXCEPT ![c] = "ended"]
    /\ slot' = 0
    /\ \/ /\ wire[c] = "denied"
          /\ task' = told
          /\ Complete(invocations, "failed")
          /\ invocations' = {}
          /\ UNCHANGED missed
       \/ /\ wire[c] = "lost"
          /\ schedule_active_recovery(told)
          /\ UNCHANGED <<completed, invocations>>
    /\ UNCHANGED <<generation, wire, upward, downward, routed, hostVars, requestVars,
                   last_sequence, queued, consumer, delivered, raced>>

\* The application takes an event, or drops the channel.
drain(i) ==
    /\ queued[i] > 0 /\ consumer[i] = "open" /\ task[starter(i)].pc = "done"
    /\ queued' = [queued EXCEPT ![i] = @ - 1]
    /\ UNCHANGED <<clientRest, task, invocations, last_sequence, consumer, completed, delivered>>

drop_events(i) ==
    /\ load.slow /\ consumer[i] = "open" /\ task[starter(i)].pc = "done"
    /\ consumer' = [consumer EXCEPT ![i] = "closed"]
    /\ UNCHANGED <<clientRest, task, invocations, last_sequence, queued, completed, delivered>>

-----------------------------------------------------------------------------
(***************************************************************************)
(* Carriers, and the host.                                                 *)
(***************************************************************************)
break(c) ==
    /\ wire[c] = "up"
    /\ Cardinality({d \in Carrier : wire[d] \in {"lost", "denied"}}) < load.breaks
    /\ \E end \in load.ends : wire' = [wire EXCEPT ![c] = end]
    /\ \E s \in Prefixes(upward[c]) : upward' = [upward EXCEPT ![c] = s]
    /\ \E s \in Prefixes(downward[c]) : downward' = [downward EXCEPT ![c] = s]
    /\ UNCHANGED <<slot, generation, loop, routed, turnVars, hostVars, historyVars, requestVars, task>>

hostRest == <<slot, generation, wire, loop, routed, turnVars, raced, requestVars, task>>

Event(i, n) == [kind |-> "event", invocation |-> i, sequence |-> n]

AnswerFrame(id, message) == [kind |-> "answer", id |-> id, message |-> message]

Active(i) == turn[i] = "active"

\* What the journal holds beyond the cursors.
Missing(cursors) ==
    SetToSortSeq({<<i, n>> \in (DOMAIN cursors) \X (1..load.events) : cursors[i] < n /\ n <= journal[i]},
                 LAMBDA x, y : x[1] < y[1] \/ (x[1] = y[1] /\ x[2] < y[2]))

\* Takes the next request of a carrier and answers on it, if it still works.
Take(c, frames) ==
    /\ upward' = [upward EXCEPT ![c] = Tail(@)]
    /\ downward' = IF wire[c] = "up" THEN [downward EXCEPT ![c] = @ \o frames] ELSE downward

Request(c, ops) == upward[c] # <<>> /\ Head(upward[c]).op \in ops

Unserved(c) == Head(upward[c]).id \notin DOMAIN served

\* The request is executed, its answer cached and sent.
Serve(c, message) ==
    LET id == Head(upward[c]).id IN
    /\ served' = served @@ (id :> message)
    /\ Take(c, <<AnswerFrame(id, message)>>)

\* A request that was executed before is answered from the cache.
ServeCached(c) ==
    /\ upward[c] # <<>> /\ ~Unserved(c)
    /\ LET id == Head(upward[c]).id IN Take(c, <<AnswerFrame(id, served[id])>>)
    /\ UNCHANGED <<hostRest, hostVars, missed>>

\* StartTurn: the turn begins, and its carrier gets the live events.
ServeStart(c) ==
    /\ Request(c, {"StartTurn"}) /\ Unserved(c)
    /\ LET i == Head(upward[c]).id[1][2] IN
         \/ /\ runtime = "present" /\ turn[i] = "none" /\ \A j \in Invocation : ~Active(j)
            /\ turn' = [turn EXCEPT ![i] = "active"]
            /\ live_sink' = c
            /\ Serve(c, "Response")
         \/ /\ runtime = "absent" \/ turn[i] # "none" \/ \E j \in Invocation : Active(j)
            /\ Serve(c, "Failure")
            /\ UNCHANGED <<turn, live_sink>>
    /\ missed' = (missed \/ wire[c] # "up")
    /\ UNCHANGED <<hostRest, runtime, journal, pumped, final, answered>>

(***************************************************************************)
(* Attach: under the delivery gate the carrier becomes the one for live    *)
(* events and gets the descriptor, a page of missing events, and the end.  *)
(***************************************************************************)
ServeAttach(c) ==
    /\ Request(c, {"Attach"})
    /\ LET frame == Head(upward[c])
           missing == Missing(frame.cursors)
           page == SubSeq(missing, 1, IF Len(missing) < ReplayLimit THEN Len(missing) ELSE ReplayLimit)
       IN  \/ /\ runtime = "present"
              /\ live_sink' = c
              /\ Take(c, <<AnswerFrame(frame.id, "Ready")>> \o [k \in DOMAIN page |-> Event(page[k][1], page[k][2])]
                        \o <<AnswerFrame(frame.id, IF page = missing THEN "Complete" ELSE "Truncated")>>)
           \/ /\ runtime = "absent"
              /\ Take(c, <<AnswerFrame(frame.id, "Failure")>>)
              /\ UNCHANGED live_sink
    /\ UNCHANGED <<hostRest, runtime, served, turn, journal, pumped, final, answered, missed>>

ServeHealth(c) ==
    /\ Request(c, {"Health"})
    /\ Take(c, <<AnswerFrame(Head(upward[c]).id, IF runtime = "present" THEN "Response" ELSE "Failure")>>)
    /\ UNCHANGED <<hostRest, hostVars, missed>>

\* Interrupt: a turn that runs ends with the next event it emits.
ServeInterrupt(c) ==
    /\ Request(c, {"Interrupt"}) /\ Unserved(c)
    /\ LET i == Head(upward[c]).id[1][2] IN
         \/ /\ Active(i)
            /\ final' = IF final[i] = 0 THEN [final EXCEPT ![i] = journal[i] + 1] ELSE final
            /\ Serve(c, "Response")
         \/ ~Active(i) /\ Serve(c, "Failure") /\ UNCHANGED final
    /\ UNCHANGED <<hostRest, runtime, turn, journal, pumped, answered, live_sink, missed>>

\* ResolveApproval: the broker takes the first answer while the turn waits for it.
ServeResolve(c) ==
    /\ Request(c, {"Resolve"}) /\ Unserved(c)
    /\ LET i == Head(upward[c]).id[1][2] IN
         \/ /\ Active(i) /\ journal[i] = load.ask /\ i \notin answered
            /\ answered' = answered \cup {i}
            /\ Serve(c, "Response")
         \/ /\ ~Active(i) \/ journal[i] # load.ask \/ i \in answered
            /\ Serve(c, "Failure")
            /\ UNCHANGED answered
    /\ UNCHANGED <<hostRest, runtime, turn, journal, pumped, final, live_sink, missed>>

\* Dispose: turns and pumps are stopped, the journal and the live carrier are forgotten.
ServeDispose(c) ==
    /\ Request(c, {"Dispose"}) /\ Unserved(c)
    /\ runtime' = "absent"
    /\ turn' = [i \in Invocation |-> IF Active(i) THEN "stopped" ELSE turn[i]]
    /\ live_sink' = 0
    /\ Serve(c, "Response")
    /\ missed' = (missed \/ \E i \in Invocation : Active(i))
    /\ UNCHANGED <<hostRest, journal, pumped, final, answered>>

\* The pump appends an event to the journal; the last one is terminal.
PumpAppends(i) ==
    /\ Active(i) /\ pumped[i] = journal[i] /\ (final[i] = 0 \/ journal[i] < final[i])
    /\ journal' = [journal EXCEPT ![i] = @ + 1]
    /\ final' = IF journal[i] + 1 = load.events THEN [final EXCEPT ![i] = load.events] ELSE final
    /\ UNCHANGED <<hostRest, upward, downward, runtime, served, turn, pumped, answered, live_sink, missed>>

\* send_live: to the carrier of the runtime, which is forgotten when it fails.
send_live(i) ==
    /\ Active(i) /\ pumped[i] < journal[i]
    /\ pumped' = [pumped EXCEPT ![i] = journal[i]]
    /\ turn' = IF journal[i] = final[i] THEN [turn EXCEPT ![i] = "over"] ELSE turn
    /\ \/ live_sink = 0 /\ UNCHANGED <<downward, live_sink>>
       \/ /\ live_sink # 0 /\ wire[live_sink] = "up"
          /\ downward' = [downward EXCEPT ![live_sink] = Append(@, Event(i, journal[i]))]
          /\ UNCHANGED live_sink
       \/ /\ live_sink # 0 /\ wire[live_sink] # "up"
          /\ live_sink' = 0
          /\ UNCHANGED downward
    /\ UNCHANGED <<hostRest, upward, runtime, served, journal, final, answered, missed>>

-----------------------------------------------------------------------------
TaskStep(t) == begin_request(t) \/ AttachReady(t) \/ Retry(t) \/ next_page(t) \/ CallReturns(t)

TurnStep(i) == StartReturns(i) \/ StartLookedUp(i) \/ DeliverReturns(i)

RecoveryStep == recover_begin \/ recover_attempt \/ recover_attached \/ recover_end

LoopStep(c) ==
    \/ route_frame(c) \/ RouteAlone(c) \/ RouteLoad(c) \/ RouteLoaded(c)
    \/ receive_loop_ends(c) \/ disconnect_generation(c)

HostStep(c) ==
    \/ ServeCached(c) \/ ServeStart(c) \/ ServeAttach(c) \/ ServeHealth(c)
    \/ ServeInterrupt(c) \/ ServeResolve(c) \/ ServeDispose(c)

\* What goes on by itself: tasks, loops, the host and the turns it runs.
SystemStep ==
    \/ \E t \in Busy : TaskStep(t)
    \/ \E i \in Invocation : TurnStep(i) \/ PumpAppends(i) \/ send_live(i)
    \/ \E i \in Invocation : task[deliverer(i)].pc = "sleep" /\ deliver_attempt(i)
    \/ RecoveryStep
    \/ \E c \in Carrier : LoopStep(c) \/ HostStep(c)

\* What nobody has to do.
ApplicationStep ==
    \/ \E i \in Invocation : start_turn(i) \/ drain(i) \/ drop_events(i)
    \/ \E i \in Invocation : task[deliverer(i)].pc = "deciding" /\ deliver_attempt(i)
    \/ \E op \in load.ops : call(op)

Next == (SystemStep \/ ApplicationStep \/ \E c \in Carrier : break(c)) /\ UNCHANGED load

Spec == Init /\ [][Next]_vars

-----------------------------------------------------------------------------
(***************************************************************************)
(* The consumer's channel is given every event once and in order, and a    *)
(* turn that completes well has given it all of them: route_event accepts  *)
(* no gap and no duplicate.  It reads the last sequence and stores it in   *)
(* two steps, so this is claimed of turns whose events no two carriers     *)
(* bring at the same moment.                                               *)
(***************************************************************************)
EventsInOrder ==
    \A i \in Invocation \ raced :
      /\ delivered[i] = [n \in 1..last_sequence[i] |-> n]
      /\ completed[i] = "ok" => last_sequence[i] = final[i]

(***************************************************************************)
(* An answer is never dropped while its turn goes on: when its delivery is *)
(* over, the host has it or the turn is no longer registered.              *)
(***************************************************************************)
AnswerIsKept ==
    \A i \in Invocation :
      task[deliverer(i)].pc = "done" /\ i \in invocations => i \in answered

(***************************************************************************)
(* A turn the host accepted is never reported as refused by it: a repeated *)
(* start keeps its request id and gets the first answer again.             *)
(***************************************************************************)
AcceptedIsNotRefused ==
    \A i \in Invocation :
      task[starter(i)].pc = "failed" /\ task[starter(i)].result.kind = "Failure" => turn[i] = "none"

(***************************************************************************)
(* What client and host say to each other stands: an accepted start is not *)
(* reported as refused, and an answer reaches the host while its turn runs.*)
(***************************************************************************)
AnswersStand == AcceptedIsNotRefused /\ AnswerIsKept

(***************************************************************************)
(* A start that fails as NotSent did not reach the host, which is what the *)
(* documentation of DeliveryState::NotSent says.                           *)
(***************************************************************************)
NotSentIsHonest ==
    \A i \in Invocation :
      task[starter(i)].pc = "failed" /\ task[starter(i)].result.delivery = "NotSent" => turn[i] = "none"

(***************************************************************************)
(* Every step of the system uses something up: an attempt, a round, a      *)
(* frame, an event.  So the system comes to rest between the steps of the  *)
(* application and the failures of carriers, and what must have happened   *)
(* in the end has happened when it rests.                                  *)
(***************************************************************************)
AtRest == ~ENABLED SystemStep

(***************************************************************************)
(* Nothing waits for ever: at rest every call of the application, every    *)
(* delivery, interruption and recovery has ended, and every turn has       *)
(* completed, unless `missed' names one of four reasons: the end of a      *)
(* carrier was passed over because a newer connection or a running         *)
(* recovery was there, a start was served after its carrier broke and made *)
(* that carrier the live one, or a disposal left the client's turn         *)
(* registered.                                                             *)
(***************************************************************************)
NothingHangs ==
    AtRest => /\ \A t \in Task \ {recovery} : task[t].pc \in {"idle", "deciding", "done", "failed"}
              /\ task[recovery].pc = "idle"
              /\ missed \/ invocations = {}
=============================================================================
