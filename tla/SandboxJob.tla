----------------------------- MODULE SandboxJob -----------------------------
(***************************************************************************)
(* A process run as a job of a Temps sandbox over its HTTP API             *)
(* (src/src/temps_sandbox.rs): the staged standard input, the detached     *)
(* start, the monitor task that polls the job and feeds two bounded pipes, *)
(* and the control object that waits, terminates, is disarmed or dropped.  *)
(*                                                                         *)
(* A request may be refused, or be carried out while its answer is lost.   *)
(* Output is counted, since a poll returns all of it from the start.       *)
(***************************************************************************)
EXTENDS Integers, Sequences

CONSTANTS
    Workload,   \* what the job prints, what the caller does, what may fail
    Capacity    \* of a duplex pipe, in units of output

VARIABLES
    load,       \* the member of Workload of this behaviour, fixed at the start
    job,        \* the remote job and its output so far
    staged,     \* the staged input: "none", "there", "gone"
    call,       \* the caller of spawn or attach, then the owner of the control
    control,    \* TempsProcessControl
    terminal,   \* the watch channel: <<>> or the last terminal status sent
    monitor,    \* monitor_job
    pipe,       \* for each stream, what was written to it and what was read
    kills,      \* kill requests of dropped controls, not yet answered
    hist        \* what the properties remember

vars == <<load, job, staged, call, control, terminal, monitor, pipe, kills, hist>>

Streams == {"out", "err"}

Killed == [ok |-> TRUE, code |-> <<>>]
Failed == [ok |-> FALSE, code |-> <<>>]
Exit(code) == [ok |-> TRUE, code |-> <<code>>]

NoJob == [status |-> "none", code |-> 0, out |-> 0, err |-> 0]

Init ==
    /\ load \in Workload
    /\ job = IF load.attach THEN [NoJob EXCEPT !.status = "running", !.out = load.cursor] ELSE NoJob
    /\ staged = "none"
    /\ call = [pc |-> IF load.attach THEN "attach" ELSE "prepare", wait |-> <<>>]
    /\ control = [finished |-> FALSE, terminated |-> FALSE]
    /\ terminal = <<>>
    /\ monitor = [pc |-> "none", snap |-> NoJob, out |-> 0, err |-> 0]
    /\ pipe = [s \in Streams |-> [from |-> 0, written |-> 0, read |-> 0, closed |-> FALSE]]
    /\ kills = 0
    /\ hist = [lost |-> FALSE, gone |-> FALSE, cut |-> FALSE]

-----------------------------------------------------------------------------
(* spawn and attach *)

\* A transport without interactive input refuses it; the input is staged first.
prepare_command ==
    /\ call.pc = "prepare"
    /\ \/ load.interactive /\ call' = [call EXCEPT !.pc = "over"] /\ UNCHANGED staged
       \/ ~load.interactive /\ ~load.stdin /\ call' = [call EXCEPT !.pc = "start"] /\ UNCHANGED staged
       \/ /\ ~load.interactive /\ load.stdin
          /\ \/ staged' = "there" /\ call' = [call EXCEPT !.pc = "start"]
             \/ /\ load.lossy
                /\ staged' \in {"none", "there"}
                /\ call' = [call EXCEPT !.pc = "over"]
    /\ UNCHANGED <<load, job, control, terminal, monitor, pipe, kills, hist>>

Running == [NoJob EXCEPT !.status = "running"]

\* process_for_job: two pipes, a monitor and a control.
process_for_job(cursor) ==
    /\ call' = [call EXCEPT !.pc = "owned"]
    /\ monitor' = [pc |-> "poll", snap |-> NoJob, out |-> cursor, err |-> cursor]
    /\ pipe' = [s \in Streams |-> [pipe[s] EXCEPT !.from = cursor]]

start_process ==
    /\ call.pc = "start"
    /\ \/ job' = Running /\ process_for_job(0) /\ UNCHANGED hist
       \/ /\ load.lossy
          /\ job' \in {job, Running}
          /\ call' = [call EXCEPT !.pc = "over"]
          /\ hist' = [hist EXCEPT !.lost = TRUE]
          /\ UNCHANGED <<monitor, pipe>>
    /\ UNCHANGED <<load, staged, control, terminal, kills>>

attach ==
    /\ call.pc = "attach"
    /\ process_for_job(load.cursor)
    /\ UNCHANGED <<load, job, staged, control, terminal, kills, hist>>

-----------------------------------------------------------------------------
(* monitor_job *)

Poll ==
    /\ monitor.pc = "poll"
    /\ \/ /\ monitor' = [monitor EXCEPT !.pc = "out", !.snap = job]
          /\ UNCHANGED <<terminal, hist>>
       \/ /\ load.lossy
          /\ terminal' = <<IF control.terminated THEN Killed ELSE Failed>>
          /\ monitor' = [monitor EXCEPT !.pc = "ended"]
          /\ hist' = [hist EXCEPT !.gone = @ \/ job.status = "running"]
    /\ UNCHANGED <<load, job, staged, call, control, pipe, kills>>

\* What is past the cursor is written as far as the pipe has room; a shorter
\* output than the cursor is taken for a new one; a closed pipe ends the monitor.
write_delta(s) ==
    LET total == monitor.snap[s]
        cursor == IF monitor[s] > total THEN 0 ELSE monitor[s]
        room == pipe[s].written - pipe[s].read < Capacity
        over == [monitor EXCEPT ![s] = total, !.pc = IF s = "out" THEN "err" ELSE "status"]
    IN  /\ monitor.pc = s
        /\ \/ cursor = total /\ monitor' = over /\ UNCHANGED <<pipe, terminal, hist>>
           \/ /\ cursor < total /\ pipe[s].closed
              /\ terminal' = <<Failed>>
              /\ monitor' = [monitor EXCEPT !.pc = "ended"]
              /\ hist' = [hist EXCEPT !.gone = @ \/ job.status = "running"]
              /\ UNCHANGED pipe
           \/ /\ cursor < total /\ ~pipe[s].closed /\ room
              /\ pipe' = [pipe EXCEPT ![s].written = @ + 1]
              /\ monitor' = IF cursor + 1 = total THEN over ELSE [monitor EXCEPT ![s] = cursor + 1]
              /\ UNCHANGED <<terminal, hist>>

Deliver(s) == /\ write_delta(s)
              /\ UNCHANGED <<load, job, staged, call, control, kills>>

Status ==
    /\ monitor.pc = "status"
    /\ \/ /\ monitor.snap.status = "running"
          /\ monitor' = [monitor EXCEPT !.pc = "poll"]      \* after the poll interval
          /\ UNCHANGED terminal
       \/ /\ monitor.snap.status = "exited"
          /\ monitor' = [monitor EXCEPT !.pc = "ended"]
          /\ terminal' = <<Exit(monitor.snap.code)>>
       \/ /\ monitor.snap.status \in {"failed", "unknown"}
          /\ monitor' = [monitor EXCEPT !.pc = "ended"]
          /\ terminal' = <<Failed>>

Decide == /\ Status
          /\ UNCHANGED <<load, job, staged, call, control, pipe, kills, hist>>

-----------------------------------------------------------------------------
(* TempsProcessControl *)

\* A terminal status is the end of the process for its owner, whatever it says.
wait ==
    /\ call.pc = "owned"
    /\ terminal # <<>>
    /\ call' = [pc |-> "waited", wait |-> terminal]
    /\ control' = [control EXCEPT !.finished = TRUE]
    /\ UNCHANGED <<load, job, staged, terminal, monitor, pipe, kills, hist>>

Kill == IF job.status = "running" THEN [job EXCEPT !.status = "exited", !.code = 143] ELSE job

\* terminate: the flag, the request, and only after its success the status.
terminate ==
    /\ load.then = "terminate"
    /\ \/ /\ call.pc = "owned"
          /\ control' = [control EXCEPT !.terminated = TRUE]
          /\ call' = [call EXCEPT !.pc = "killing"]
          /\ UNCHANGED <<job, terminal, hist>>
       \/ /\ call.pc = "killing"
          /\ \/ /\ job' = Kill
                /\ terminal' = <<Killed>>
                /\ control' = [control EXCEPT !.finished = TRUE]
                /\ call' = [pc |-> "waited", wait |-> <<Killed>>]
                /\ UNCHANGED hist
             \/ /\ load.lossy
                /\ job' \in {job, Kill}
                /\ call' = [call EXCEPT !.pc = "dropping"]
                /\ UNCHANGED <<terminal, control, hist>>
    /\ UNCHANGED <<load, staged, monitor, pipe, kills>>

disarm ==
    /\ load.then = "disarm"
    /\ call.pc = "owned"
    /\ control' = [control EXCEPT !.finished = TRUE]
    /\ call' = [call EXCEPT !.pc = "dropping"]
    /\ UNCHANGED <<load, job, staged, terminal, monitor, pipe, kills, hist>>

\* Dropping an unfinished control sends a kill from a task of its own.
drop ==
    /\ call.pc \in {"waited", "dropping"} \/ (call.pc = "owned" /\ load.then = "drop")
    /\ call' = [call EXCEPT !.pc = "over"]
    /\ control' = [control EXCEPT !.finished = TRUE,
                                  !.terminated = @ \/ ~control.finished]
    /\ kills' = IF control.finished THEN kills ELSE kills + 1

Drop == /\ drop
        /\ UNCHANGED <<load, job, staged, terminal, monitor, pipe, hist>>

kill_job ==
    /\ kills > 0
    /\ kills' = kills - 1
    /\ \/ job' = Kill /\ UNCHANGED hist
       \/ load.lossy /\ UNCHANGED job /\ hist' = [hist EXCEPT !.lost = TRUE]
    /\ UNCHANGED <<load, staged, call, control, terminal, monitor, pipe>>

-----------------------------------------------------------------------------
(* The sandbox and the reader of the pipes *)

JobRuns ==
    /\ job.status = "running"
    /\ \/ staged = "there" /\ staged' = "gone" /\ UNCHANGED <<job, hist>>
       \/ /\ staged # "there"
          /\ \/ /\ \E s \in Streams : job[s] < load[s] /\ job' = [job EXCEPT ![s] = @ + 1]
                /\ UNCHANGED hist
             \/ /\ load.truncates /\ ~hist.cut /\ hist' = [hist EXCEPT !.cut = TRUE]
                /\ \E s \in Streams : job[s] > 1 /\ job' = [job EXCEPT ![s] = 1]
             \/ /\ job.out = load.out /\ job.err = load.err
                /\ \E end \in load.ends : job' = [job EXCEPT !.status = end.status, !.code = end.code]
                /\ UNCHANGED hist
          /\ UNCHANGED staged
    /\ UNCHANGED <<load, call, control, terminal, monitor, pipe, kills>>

Reader(s) ==
    /\ monitor.pc # "none"
    /\ ~pipe[s].closed
    /\ \/ pipe[s].read < pipe[s].written /\ pipe' = [pipe EXCEPT ![s].read = @ + 1]
       \/ (load.closes \/ call.pc = "over") /\ pipe' = [pipe EXCEPT ![s].closed = TRUE]
    /\ UNCHANGED <<load, job, staged, call, control, terminal, monitor, kills, hist>>

Next ==
    \/ prepare_command \/ start_process \/ attach
    \/ Poll \/ Decide
    \/ \E s \in Streams : Deliver(s) \/ Reader(s)
    \/ wait \/ terminate \/ disarm \/ Drop \/ kill_job
    \/ JobRuns

Spec == Init /\ [][Next]_vars

-----------------------------------------------------------------------------
\* What wait says is what happened: a success or an exit code is the job's own,
\* and by then all it printed was written to the pipes, each unit once and in
\* order from the cursor (a job whose output was cut back prints anew).
ExitIsOwn ==
    /\ call.wait # <<>> /\ call.wait[1].code # <<>> =>
        /\ job.status = "exited" /\ job.code = call.wait[1].code[1]
        /\ ~load.truncates => pipe["out"].from + pipe["out"].written = job.out
    /\ ~load.truncates => pipe["out"].from + pipe["out"].written <= job.out

\* Nothing is left behind: once the owner is done and its kill was answered, a
\* job still runs only if it was disarmed, its start or its kill was lost, or its
\* monitor gave up on it while it ran; and the owner's call always returns.
NothingLeftRunning ==
    /\ call.pc = "over" /\ kills = 0 /\ job.status = "running" =>
        load.then = "disarm" \/ hist.lost \/ hist.gone
    /\ ~ENABLED Next => call.pc = "over"

\* A control that is dropped while its job runs starts the job's cleanup, unless
\* the job is meant to survive.
DropCleansUp ==
    call.pc = "over" /\ monitor.pc # "none" /\ job.status = "running" /\ load.then # "disarm" =>
        control.terminated

=============================================================================
