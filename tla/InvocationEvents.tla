-------------------------- MODULE InvocationEvents --------------------------
(***************************************************************************)
(* The events of the invocations of one retained runtime                   *)
(* (src/src/retained.rs): what start_turn refuses and what it asks of the  *)
(* executor, the ChannelEventSink that numbers each event before it waits  *)
(* for room in a bounded channel, and the task that records the session,   *)
(* closes an open compaction, emits the terminal event and completes.      *)
(*                                                                         *)
(* Turns are started one after the other; RetainedRuntime models those     *)
(* that compete.  The executor is external: it follows the script of its   *)
(* turn (writes the request, reports events) and returns the scripted end, *)
(* unless the turn is cancelled or its timeout drops it, in which case an  *)
(* emission that waits for room is dropped with it.                        *)
(***************************************************************************)
EXTENDS Integers, Sequences, FiniteSets, SequencesExt

CONSTANTS
    Workload,       \* the settings of a runtime, and the turns asked of it
    EVENT_CHANNEL_CAPACITY

VARIABLES
    load,           \* the member of Workload of this behaviour, fixed at the start
    entry,          \* EntryState: status, provider_session_id, active
    inv,            \* each invocation: its request, sink, task and result
    reader,         \* each invocation's event receiver: what it got, and whether it is open
    hist            \* cut: invocations whose timeout dropped a waiting emission

vars == <<load, entry, inv, reader, hist>>

None == "None"

Turns == DOMAIN load.turns

Keys == {"model", "permission_mode"}    \* settings a turn may override

-----------------------------------------------------------------------------
(* What start_turn refuses, before anything of the turn is sent. *)

First(checks) ==
    LET failed == SelectSeq(checks, LAMBDA check : check[1])
    IN  IF failed = <<>> THEN None ELSE Head(failed)[2]

Failure(kind, retry, delivery) ==
    [ok |-> FALSE, kind |-> kind, retry |-> retry, delivery |-> delivery, session |-> None]

\* RuntimeHandle::compact, before it turns the request into an invocation.
compact(input, driver) ==
    First(<< <<~driver.manual_compaction, "CapabilityUnavailable">>,
             <<input.prompt # "" /\ ~driver.compaction_instructions, "CapabilityUnavailable">> >>)

validate_auto_compaction_policy(policy) == policy \in {None, "Disabled", "InRange"}

validate_input(input, driver) ==
    First(<<
      <<input.kind = "Continuation" /\ (input.prompt # "" \/ input.attachments # {}),
        "InvalidRequest">>,
      <<input.kind = "ManualCompaction"
          /\ (input.attachments # {} \/ input.prompt \in {"long", "nul"}), "InvalidRequest">>,
      <<input.auto # None /\ ~driver.configurable_auto_compaction, "InvalidRequest">>,
      <<~validate_auto_compaction_policy(input.auto), "InvalidRequest">>,
      <<Cardinality(input.attachments) > load.max_attachments, "InvalidRequest">>,
      <<input.requires_handler /\ ~input.has_handler, "InvalidRequest">>,
      <<\E a \in input.attachments : a.path \in {"", "newline", "not_utf8"} \/ a.name = "bad",
        "InvalidRequest">> >>)

is_image(a) == a.media = "image/png"

\* The attachments the prompt describes; the others the provider reads natively.
render_prompt(input, native_images) ==
    {a \in input.attachments : ~(native_images /\ is_image(a))}

Settings(input) ==
    [k \in Keys |-> IF input.settings[k] = None THEN load.spec[k] ELSE input.settings[k]]

build_request(input, session) ==
    [settings |-> Settings(input), session |-> session,
     described |-> render_prompt(input, load.driver.native_image_attachments),
     attachments |-> input.attachments, continuation |-> input.kind = "Continuation"]

-----------------------------------------------------------------------------
(* What a failure tells the caller: its kind, what to do, how far the request got. *)

transport_failure_contract(kind, retryable) ==
    CASE kind \in {"AuthenticationFailed", "HostKeyVerificationFailed"} ->
            Failure("Authentication", "RequiresUserAction", "NotSent")
      [] kind = "PermissionDenied" -> Failure("Permission", "RequiresUserAction", "NotSent")
      [] kind \in {"InvalidConfiguration", "ExecutableNotFound", "WorkingDirectoryNotFound",
                   "Unsupported"} ->
            Failure("CapabilityUnavailable", "RequiresUserAction", "NotSent")
      [] kind = "SpawnFailed" -> 
            Failure("ProviderProcess", IF retryable THEN "Immediate" ELSE "RequiresUserAction",
                    "NotSent")
      [] kind \in {"NameResolutionFailed", "ConnectionRefused", "ConnectionTimedOut",
                   "RemoteUnavailable"} -> Failure("Network", "ReconnectAndAttach", "PossiblySent")
      [] kind \in {"StreamFailed", "ProcessControlFailed"} ->
            Failure("Transport", "ReconnectAndAttach", "PossiblySent")
      [] kind = "Protocol" -> Failure("ProviderProtocol", "Never", "PossiblySent")

process_failure_contract(kind, delivery) ==
    CASE kind = "AuthenticationFailed" -> Failure("Authentication", "RequiresUserAction", delivery)
      [] kind = "PermissionDenied" -> Failure("Permission", "RequiresUserAction", delivery)
      [] kind = "ModelUnavailable" -> Failure("CapabilityUnavailable", "RequiresUserAction", delivery)
      [] kind = "RateLimited" -> Failure("RateLimited", "After", delivery)
      [] kind = "Network" -> Failure("Network", "ReconnectAndAttach", delivery)
      [] kind = "Unknown" -> Failure("ProviderProcess", "RequiresUserAction", delivery)

PipeFailed(e) == Failure("Transport", "Immediate", "PossiblySent")

\* An error is a record with its variant, and for some variants a kind and a delivery.
runtime_error_to_failure(e) ==
    CASE e.error \in {"InvalidRequest", "NothingToContinue"} ->
            Failure("InvalidRequest", "Never", "NotSent")
      [] e.error \in {"AdapterUnavailable", "ExecutableNotFound",
                      "TransportCapabilityUnavailable"} ->
            Failure("CapabilityUnavailable", "RequiresUserAction", "NotSent")
      [] e.error = "Spawn" -> Failure("ProviderProcess", "Immediate", "NotSent")
      [] e.error = "ProcessIo" -> PipeFailed(e)
      [] e.error = "Transport" -> transport_failure_contract(e.kind, e.retryable)
      [] e.error = "Protocol" -> Failure("ProviderProtocol", "Never", "Accepted")
      [] e.error = "EventSink" -> Failure("Indeterminate", "RequiresUserAction", "Accepted")
      [] e.error \in {"Timeout", "StartupTimeout"} ->
            Failure("Timeout", "RequiresUserAction", "Accepted")
      [] e.error = "Cancelled" -> Failure("Cancelled", "Never", "Accepted")
      [] e.error = "ProcessFailed" -> process_failure_contract(e.kind, e.delivery)
      [] e.error = "Sandbox" -> Failure("Permission", "RequiresUserAction", "PossiblySent")
      [] e.error = "RestartWouldStopBackgroundWork" ->
            Failure("RuntimeBusy", "RequiresUserAction", "NotSent")

Plain(error) == [error |-> error, kind |-> None, delivery |-> None, retryable |-> FALSE]

-----------------------------------------------------------------------------
Idle == [step |-> "idle", request |-> <<>>, number |-> 0, pending |-> <<>>, chan |-> <<>>,
         open |-> None, announced |-> None, at |-> 1, wrote |-> FALSE, result |-> <<>>,
         cancelled |-> FALSE]

Init ==
    /\ load \in Workload
    /\ entry = [status |-> "Ready", session |-> None, active |-> 0]
    /\ inv = [t \in Turns |-> Idle]
    /\ reader = [t \in Turns |-> [got |-> <<>>, open |-> TRUE, result |-> <<>>]]
    /\ hist = [cut |-> {}]

\* The number is taken; the envelope then waits for room in the channel.
emit_runtime(v, event, of) ==
    [v EXCEPT !.number = @ + 1,
              !.pending = <<[n |-> v.number + 1, event |-> event, of |-> of]>>]

\* Mutant: a repeated start is passed on.
EmitRepeats(v, event, of) ==
    emit_runtime(IF event = "compact" THEN [v EXCEPT !.open = of] ELSE v, event, of)

\* ChannelEventSink::emit: `of' is the session, or the trigger of the compaction.
emit(v, event, of) ==
    CASE event = "session" -> emit_runtime([v EXCEPT !.announced = of], event, of)
      [] event = "compact" ->
            IF v.open # None THEN v ELSE emit_runtime([v EXCEPT !.open = of], event, of)
      [] event \in {"compacted", "compact_failed"} ->
            emit_runtime([v EXCEPT !.open = None], event, of)
      [] OTHER -> emit_runtime(v, event, of)

\* The task is at `step', and no emission of it waits for room.
At(t, step) == inv[t].step = step /\ inv[t].pending = <<>>

Step(t, v) == inv' = [inv EXCEPT ![t] = v]

Previous(t) == {u \in Turns : u < t}

\* The turn is checked, and admitted with the session the entry remembers.
start_turn(t) ==
    LET input == load.turns[t].input
        compacts == input.kind = "ManualCompaction"
        refusal == First(<<
            <<compacts /\ compact(input, load.driver) # None, compact(input, load.driver)>>,
            <<validate_input(input, load.driver) # None, validate_input(input, load.driver)>>,
            <<compacts /\ entry.session = None, "InvalidRequest">> >>)
    IN  /\ inv[t].step = "idle"
        /\ entry.active = 0
        /\ \A u \in Previous(t) : inv[u].step \in {"ended", "refused"}
        /\ IF refusal # None
           THEN /\ Step(t, [inv[t] EXCEPT !.step = "refused",
                                          !.result = <<Failure(refusal, "Never", "NotSent")>>])
                /\ UNCHANGED entry
           ELSE /\ Step(t, emit_runtime(
                        [inv[t] EXCEPT !.step = "started",
                                       !.request = <<build_request(input, entry.session)>>],
                        "started", None))
                /\ entry' = [entry EXCEPT !.status = "Busy", !.active = t]
        /\ UNCHANGED <<reader, hist>>

\* A manual compaction is announced before the provider runs.
Announce(t) ==
    /\ \/ /\ At(t, "started")
          /\ load.turns[t].input.kind = "ManualCompaction"
          /\ Step(t, emit([inv[t] EXCEPT !.step = "announcing"], "compact", "Manual"))
       \/ /\ \/ At(t, "announcing")
             \/ At(t, "started") /\ load.turns[t].input.kind # "ManualCompaction"
          /\ Step(t, [inv[t] EXCEPT !.step = "running"])
    /\ UNCHANGED <<entry, reader, hist>>

Returned(v, result) == [v EXCEPT !.step = "returned", !.result = <<result>>, !.pending = <<>>]

Failed(v, e) == Returned(v, runtime_error_to_failure(e))

\* The channel has room, or its receiver is gone.
Sent(t) ==
    LET v == inv[t] IN
    /\ v.pending # <<>>
    /\ IF ~reader[t].open
       THEN Step(t, CASE v.step \in {"started", "announcing", "running"} -> Failed(v, Plain("EventSink"))
                      [] v.step = "finishing" /\ v.result[1].ok ->
                            [v EXCEPT !.pending = <<>>,
                                      !.result = <<runtime_error_to_failure(Plain("EventSink"))>>]
                      [] OTHER -> [v EXCEPT !.pending = <<>>])
       ELSE /\ Len(v.chan) < EVENT_CHANNEL_CAPACITY
            /\ Step(t, [v EXCEPT !.chan = @ \o v.pending, !.pending = <<>>])
    /\ UNCHANGED <<entry, reader, hist>>

-----------------------------------------------------------------------------
(* The executor. *)

\* It writes the request or reports an event, following its script.
Execute(t) ==
    /\ At(t, "running")
    /\ inv[t].at <= Len(load.turns[t].script)
    /\ LET item == load.turns[t].script[inv[t].at]
           v == [inv[t] EXCEPT !.at = @ + 1]
       IN  Step(t, IF item[1] = "write" THEN [v EXCEPT !.wrote = TRUE]
                   ELSE emit(v, item[1], item[2]))
    /\ UNCHANGED <<entry, reader, hist>>

Success(session) == [ok |-> TRUE, kind |-> None, retry |-> None, delivery |-> None,
                     session |-> session]

\* It returns.
ExecutorEnds(t) ==
    /\ At(t, "running")
    /\ inv[t].at > Len(load.turns[t].script)
    /\ LET end == load.turns[t].end
       IN  Step(t, IF end.error = "ok" THEN Returned(inv[t], Success(end.session))
                   ELSE Failed(inv[t], end))
    /\ UNCHANGED <<entry, reader, hist>>

\* It observes the cancellation between two events.
ExecutorCancelled(t) ==
    /\ At(t, "running")
    /\ inv[t].cancelled
    /\ Step(t, Failed(inv[t], Plain("Cancelled")))
    /\ UNCHANGED <<entry, reader, hist>>

\* Its timeout drops it wherever it waits.
ExecutorTimesOut(t) ==
    /\ load.turns[t].times_out
    /\ inv[t].step = "running"
    /\ Step(t, Failed(inv[t], Plain("Timeout")))
    /\ hist' = [hist EXCEPT !.cut = IF inv[t].pending # <<>> THEN @ \cup {t} ELSE @]
    /\ UNCHANGED <<entry, reader>>

-----------------------------------------------------------------------------
(* The rest of the task. *)

\* Mutant: only a turn that succeeded leaves its session.
RecordSuccess(t) ==
    /\ At(t, "returned")
    /\ entry' = [entry EXCEPT !.session =
                    IF inv[t].result[1].session # None THEN inv[t].result[1].session ELSE @]
    /\ Step(t, [inv[t] EXCEPT !.step = "recorded"])
    /\ UNCHANGED <<reader, hist>>

\* The session of the result, or else the one announced, is remembered.
Record(t) ==
    LET v == inv[t]
        session == IF v.result[1].session # None THEN v.result[1].session ELSE v.announced
    IN  /\ At(t, "returned")
        /\ entry' = [entry EXCEPT !.session = IF session # None THEN session ELSE @]
        /\ Step(t, [v EXCEPT !.step = "recorded"])
        /\ UNCHANGED <<reader, hist>>

\* A compaction still open is reported as failed.
close_open_compaction(t) ==
    LET v == [inv[t] EXCEPT !.step = "closed"] IN
    /\ At(t, "recorded")
    /\ Step(t, IF v.open = None THEN v
               ELSE emit_runtime([v EXCEPT !.open = None], "compact_failed", v.open))
    /\ UNCHANGED <<entry, reader, hist>>

EmitTerminal(t) ==
    /\ At(t, "closed")
    /\ Step(t, emit_runtime([inv[t] EXCEPT !.step = "finishing"],
                            IF inv[t].result[1].ok THEN "completed" ELSE "failed", None))
    /\ UNCHANGED <<entry, reader, hist>>

StatusAfter(result) ==
    IF ~result.ok /\ result.kind \in {"Network", "Transport", "ProviderProcess", "Indeterminate"}
    THEN "Degraded" ELSE "Ready"

\* The runtime is free again, and the result is sent to the completion.
Settle(t) ==
    /\ At(t, "finishing")
    /\ entry' = [entry EXCEPT !.active = 0, !.status = StatusAfter(inv[t].result[1])]
    /\ Step(t, [inv[t] EXCEPT !.step = "ended"])
    /\ UNCHANGED <<reader, hist>>

-----------------------------------------------------------------------------
(* The caller: it reads the events and then the completion, as TurnHandle::wait *)
(* does, interrupts, or drops the receiver. *)

next_event(t) ==
    /\ reader[t].open
    /\ inv[t].chan # <<>>
    /\ reader' = [reader EXCEPT ![t].got = Append(@, Head(inv[t].chan))]
    /\ Step(t, [inv[t] EXCEPT !.chan = Tail(@)])
    /\ UNCHANGED <<entry, hist>>

wait(t) ==
    /\ inv[t].step = "ended"
    /\ inv[t].chan = <<>>
    /\ reader[t].result = <<>>
    /\ reader' = [reader EXCEPT ![t].result = inv[t].result]
    /\ UNCHANGED <<entry, inv, hist>>

DropReceiver(t) ==
    /\ load.turns[t].drops
    /\ reader[t].open
    /\ inv[t].step \notin {"idle", "refused"}
    /\ reader' = [reader EXCEPT ![t].open = FALSE]
    /\ Step(t, [inv[t] EXCEPT !.chan = <<>>])
    /\ UNCHANGED <<entry, hist>>

Cancel(t) ==
    /\ load.turns[t].cancels
    /\ inv[t].step \notin {"idle", "refused", "ended"}
    /\ ~inv[t].cancelled
    /\ Step(t, [inv[t] EXCEPT !.cancelled = TRUE])
    /\ UNCHANGED <<entry, reader, hist>>

TaskStep(t) ==
    \/ Announce(t) \/ Sent(t) \/ Record(t) \/ close_open_compaction(t) \/ EmitTerminal(t)
    \/ Settle(t)

ExecutorStep(t) ==
    Execute(t) \/ ExecutorEnds(t) \/ ExecutorCancelled(t) \/ ExecutorTimesOut(t)

CallerStep(t) == start_turn(t) \/ next_event(t) \/ wait(t) \/ DropReceiver(t) \/ Cancel(t)

Next ==
    /\ \E t \in Turns : TaskStep(t) \/ ExecutorStep(t) \/ CallerStep(t)
    /\ UNCHANGED load

Spec == Init /\ [][Next]_vars

-----------------------------------------------------------------------------
TypeOK ==
    /\ entry.active \in Turns \cup {0}
    /\ \A t \in Turns :
        /\ Len(inv[t].chan) <= EVENT_CHANNEL_CAPACITY
        /\ Len(inv[t].pending) <= 1
        /\ inv[t].step \in {"idle", "refused", "started", "announcing", "running", "returned",
                            "recorded", "closed", "finishing", "ended"}

\* What the receiver of a turn was sent, read or not.
Stream(t) == reader[t].got \o inv[t].chan

Terminals == {"completed", "failed"}

Compactions(s) == SelectSeq(s, LAMBDA m : m.event \in {"compact", "compacted", "compact_failed"})

\* The event stream of a turn whose receiver is kept tells the whole turn:
\* numbers follow each other without a gap from the start of the invocation,
\* exactly one terminal event ends it and says what the completion says, and
\* every compaction has one start and then one end, of the same trigger,
\* before the terminal event.  (ChannelEventSink takes the number and notes
\* the compaction before it waits for room; a turn whose timeout dropped a
\* waiting emission has a gap there, and is held to increasing numbers and to
\* the terminal event only.)
StreamTellsTurn ==
    \A t \in Turns :
      LET s == Stream(t)
          c == Compactions(s)
          over == inv[t].step = "ended"
      IN  inv[t].step # "refused" /\ reader[t].open =>
            /\ \A i \in DOMAIN s :
                /\ i = 1 => s[i].event = "started" /\ s[i].n = 1
                /\ i > 1 => s[i].n > s[i - 1].n
                /\ s[i].event \in Terminals => i = Len(s)
            /\ over => /\ Last(s).event = IF inv[t].result[1].ok THEN "completed" ELSE "failed"
                       /\ reader[t].result # <<>> => reader[t].result = inv[t].result
            /\ t \notin hist.cut =>
                /\ \A i \in DOMAIN s : s[i].n = i
                /\ \A i \in DOMAIN c : (c[i].event = "compact") = (i % 2 = 1)
                /\ \A i \in DOMAIN c : i % 2 = 0 => c[i].of = c[i - 1].of
                /\ over => Len(c) % 2 = 0

\* A failure that says NotSent is of a turn nothing of which was written to
\* the provider, so that sending it again cannot run it twice.
RetryIsSafe ==
    \A t \in Turns :
      LET r == inv[t].result IN
      r # <<>> /\ ~r[1].ok /\ r[1].delivery = "NotSent" => ~inv[t].wrote

\* A turn asks of the provider what its own input asks and, for the rest, the
\* runtime's settings, whatever earlier turns overrode; it resumes the session
\* last opened by an earlier turn, one that failed, timed out or was cancelled
\* included; and every attachment reaches the provider by exactly one way.
TurnContinues ==
    \A t \in Turns : inv[t].request # <<>> =>
      LET r == inv[t].request[1]
          in == load.turns[t].input
          opened == {u \in Previous(t) :
                        {inv[u].announced, inv[u].result[1].session} # {None}}
          last == CHOOSE u \in opened : \A w \in opened : w <= u
      IN  /\ \A k \in Keys : r.settings[k] \in {in.settings[k], load.spec[k]} \ {None}
          /\ \A k \in Keys : in.settings[k] # None => r.settings[k] = in.settings[k]
          /\ IF opened = {} THEN r.session = None
             ELSE r.session \in {inv[last].announced, inv[last].result[1].session} \ {None}
          /\ \A a \in in.attachments :
                a \in r.described <=> ~(load.driver.native_image_attachments /\ is_image(a))

=============================================================================
