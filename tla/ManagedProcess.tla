--------------------------- MODULE ManagedProcess ---------------------------
(***************************************************************************)
(* One record of the ManagedProcessSupervisor (src/src/services.rs):       *)
(* concurrent calls of start, stop, restart and delete, the supervise task *)
(* that each start_entry spawns, and the drop of the last owner.           *)
(*                                                                         *)
(* A supervise task, the process it runs and its control channel are named *)
(* by the call that spawned it.  The channel has one sender, which is in   *)
(* the entry (control) until a call takes it (taken); a task whose sender  *)
(* is gone receives the end of the channel, which it treats as a stop.     *)
(***************************************************************************)
EXTENDS Naturals

CONSTANTS
    MaxCalls,       \* bound: calls made on the record
    restart_policy

\* Calls are numbered in the order in which they begin.
Caller == 1..MaxCalls

Nobody == 0

VARIABLES
    registered,     \* the record is in SupervisorInner::entries
    control,        \* ProcessEntry::control: the task whose sender is there
    status,         \* ProcessState::status
    alive,          \* tasks that hold a process
    stray,          \* tasks that gave one up after an error: it may go on
    op, pc, taken,  \* each call: what it does, where it is, the task whose sender it holds
    acked,          \* calls whose done channel was answered
    task,           \* each supervise task
    mail,           \* its control channel: Stop of a call, or of Nobody, or nothing
    ready,          \* its ready channel
    asked,          \* history: tasks some owner asked to stop
    plain,          \* history: calls came one after the other, and no restart
    owned           \* an owner of the supervisor exists

recordVars == <<registered, control, status>>

callVars == <<op, pc, taken, acked>>

taskVars == <<alive, stray, task, mail, ready>>

vars == <<recordVars, callVars, taskVars, asked, plain, owned>>

Over == {"done", "error", "timedout"}

Step(c, next) == pc' = [pc EXCEPT ![c] = next]

\* What a call does once the process has stopped.
AfterStop(o) ==
    CASE o = "stop"    -> "done"
      [] o = "restart" -> "starting"
      [] o = "delete"  -> "removing"

\* A failed start removes its record; a failed restart keeps it.
Abandon(c) == registered' = (registered /\ op[c] # "start")

\* The caller asks for o.
Begin(c, o) ==
    /\ pc[c] = "idle" /\ owned
    /\ \A d \in 1..(c - 1) : pc[d] # "idle"
    /\ op' = [op EXCEPT ![c] = o]
    /\ plain' = (plain /\ o # "restart" /\ \A d \in Caller : pc[d] \in Over \cup {"idle"})

-----------------------------------------------------------------------------
Init ==
    /\ registered = FALSE
    /\ control = Nobody
    /\ status = "Queued"
    /\ alive = {}
    /\ stray = {}
    /\ op = [c \in Caller |-> "none"]
    /\ pc = [c \in Caller |-> "idle"]
    /\ taken = [c \in Caller |-> Nobody]
    /\ acked = {}
    /\ task = [c \in Caller |-> "none"]
    /\ mail = [c \in Caller |-> {}]
    /\ ready = [c \in Caller |-> "pending"]
    /\ asked = {}
    /\ plain = TRUE
    /\ owned = TRUE

\* The call that makes the record; the limit on records concerns other ones.
start(c) ==
    /\ Begin(c, "start")
    /\ \A d \in Caller : op[d] # "start"
    /\ registered' = TRUE
    /\ Step(c, "starting")
    /\ UNCHANGED <<control, status, taken, acked, taskVars, asked, owned>>

\* The owner knows the record by what start returned.
Known == \E d \in Caller : op[d] = "start" /\ pc[d] \in Over

(***************************************************************************)
(* stop, also as the first half of restart and delete: take the sender; an *)
(* entry without one counts as stopped.                                    *)
(***************************************************************************)
stop(c, o) ==
    /\ Begin(c, o) /\ Known
    /\ \/ ~registered /\ Step(c, "error") /\ UNCHANGED <<control, taken, asked>>
       \/ /\ registered /\ control = Nobody
          /\ Step(c, AfterStop(o))
          /\ UNCHANGED <<control, taken, asked>>
       \/ /\ registered /\ control # Nobody
          /\ taken' = [taken EXCEPT ![c] = control]
          /\ asked' = asked \cup {control}
          /\ control' = Nobody
          /\ Step(c, "sending")
    /\ UNCHANGED <<registered, status, acked, taskVars, owned>>

\* The channel refuses the message once the task has returned.
stop_send(c) ==
    /\ pc[c] = "sending"
    /\ IF task[taken[c]] = "ended"
       THEN /\ Step(c, "error")
            /\ taken' = [taken EXCEPT ![c] = Nobody]
            /\ UNCHANGED mail
       ELSE /\ mail' = [mail EXCEPT ![taken[c]] = {c}]
            /\ Step(c, "waiting")
            /\ UNCHANGED taken
    /\ UNCHANGED <<op, recordVars, acked, alive, stray, task, ready, asked, plain, owned>>

\* The answer, a task that returned without one, or the timeout.
stop_wait(c) ==
    /\ pc[c] = "waiting"
    /\ \/ c \in acked /\ Step(c, AfterStop(op[c]))
       \/ c \notin acked /\ task[taken[c]] = "ended" /\ Step(c, "error")
       \/ Step(c, "timedout")
    /\ taken' = [taken EXCEPT ![c] = Nobody]
    /\ UNCHANGED <<op, recordVars, acked, taskVars, asked, plain, owned>>

delete(c) ==
    /\ pc[c] = "removing"
    /\ registered' = FALSE
    /\ Step(c, "done")
    /\ UNCHANGED <<op, control, status, taken, acked, taskVars, asked, plain, owned>>

\* start_entry looks whether a sender is there ...
start_entry(c) ==
    /\ pc[c] = "starting"
    /\ \/ control # Nobody /\ Step(c, "error") /\ Abandon(c)
       \/ control = Nobody /\ Step(c, "installing") /\ UNCHANGED registered
    /\ UNCHANGED <<op, control, status, taken, acked, taskVars, asked, plain, owned>>

\* ... and, under another acquisition of the lock, puts its own there and spawns the task.
start_install(c) ==
    /\ pc[c] = "installing"
    /\ control' = c
    /\ task' = [task EXCEPT ![c] = "queued"]
    /\ Step(c, "awaiting")
    /\ UNCHANGED <<op, registered, status, taken, acked, alive, stray, mail, ready, asked, plain, owned>>

(***************************************************************************)
(* It waits for the first spawn.  After the timeout it takes the sender it *)
(* finds, sends Stop(None) if there is room, and drops it.                 *)
(***************************************************************************)
start_wait(c) ==
    /\ pc[c] = "awaiting"
    /\ \/ ready[c] = "ok" /\ Step(c, "done") /\ UNCHANGED <<registered, control, mail, asked>>
       \/ ready[c] = "failed" /\ Step(c, "error") /\ Abandon(c) /\ UNCHANGED <<control, mail, asked>>
       \/ /\ Step(c, "timedout") /\ Abandon(c)
          /\ control' = Nobody
          /\ asked' = asked \cup ({control} \ {Nobody})
          /\ mail' = [t \in Caller |->
                       IF t = control /\ mail[t] = {} THEN {Nobody} ELSE mail[t]]
    /\ UNCHANGED <<op, status, taken, acked, alive, stray, task, ready, plain, owned>>

-----------------------------------------------------------------------------
SenderGone(t) == control # t /\ \A c \in Caller : taken[c] # t

Told(t) == mail[t] # {} \/ SenderGone(t)

Answered(t) == acked' = acked \cup (mail[t] \cap Caller)

TaskStep(t, next) == task' = [task EXCEPT ![t] = next]

\* The transport spawns the process, or cannot (external).
supervise_spawn(t) ==
    /\ task[t] = "queued"
    /\ \/ /\ alive' = alive \cup {t}
          /\ status' = "Queued"
          /\ TaskStep(t, "spawned")
          /\ UNCHANGED ready
       \/ /\ status' = "Failed"
          /\ ready' = [ready EXCEPT ![t] = IF @ = "pending" THEN "failed" ELSE @]
          /\ TaskStep(t, "clearing")
          /\ UNCHANGED alive
    /\ UNCHANGED <<registered, control, callVars, stray, mail, asked, plain, owned>>

supervise_ready(t) ==
    /\ task[t] = "spawned"
    /\ status' = "Running"
    /\ ready' = [ready EXCEPT ![t] = "ok"]
    /\ TaskStep(t, "running")
    /\ UNCHANGED <<registered, control, callVars, alive, stray, mail, asked, plain, owned>>

AnswerEarly(t) ==
    /\ task[t] = "running" /\ Told(t)
    /\ status' = "Queued"
    /\ Answered(t)
    /\ TaskStep(t, "stopping")
    /\ UNCHANGED <<op, registered, control, pc, taken, alive, stray, mail, ready, asked, plain, owned>>

\* The select of a running process takes the control branch.
supervise_stop(t) ==
    /\ task[t] = "running" /\ Told(t)
    /\ status' = "Queued"
    /\ TaskStep(t, "stopping")
    /\ UNCHANGED <<registered, control, callVars, alive, stray, mail, ready, asked, plain, owned>>

(***************************************************************************)
(* The process ends, or an error of the transport (external: a kill that   *)
(* was refused, a job that cannot be polled) ends the task's hold on it    *)
(* while it goes on.  A task that restarts may leave one behind each time. *)
(***************************************************************************)
Ends(t) == alive' = alive \ {t} /\ UNCHANGED stray

GivenUp(t) == alive' = alive \ {t} /\ stray' = stray \cup {t}

Exists(t) == t \in alive \cup stray

\* terminate and wait, whatever they return, then Cancelled and the answer.
supervise_terminate(t) ==
    /\ task[t] = "stopping"
    /\ Ends(t) \/ GivenUp(t)
    /\ status' = "Cancelled"
    /\ Answered(t)
    /\ TaskStep(t, "clearing")
    /\ UNCHANGED <<op, registered, control, pc, taken, mail, ready, asked, plain, owned>>

\* The process exits on its own, successfully or not, and the policy decides;
\* an error of wait counts as a failed exit.
supervise_exit(t) ==
    /\ task[t] = "running"
    /\ \E failed \in BOOLEAN :
         /\ Ends(t) \/ (failed /\ GivenUp(t))
         /\ IF restart_policy = "Always" \/ (restart_policy = "OnFailure" /\ failed)
            THEN status' = "Queued" /\ TaskStep(t, "sleeping")
            ELSE status' = (IF failed THEN "Failed" ELSE "Succeeded") /\ TaskStep(t, "clearing")
    /\ UNCHANGED <<registered, control, callVars, mail, ready, asked, plain, owned>>

\* The restart delay ends by itself or by the control channel.
supervise_sleep(t) ==
    /\ task[t] = "sleeping"
    /\ \/ TaskStep(t, "queued") /\ UNCHANGED <<status, acked>>
       \/ Told(t) /\ status' = "Cancelled" /\ Answered(t) /\ TaskStep(t, "clearing")
    /\ UNCHANGED <<op, registered, control, pc, taken, alive, stray, mail, ready, asked, plain, owned>>

\* clear_control empties the entry's control, whoever's sender is there; the task returns.
clear_control(t) ==
    /\ task[t] = "clearing"
    /\ control' = Nobody
    /\ TaskStep(t, "ended")
    /\ UNCHANGED <<registered, status, callVars, alive, stray, mail, ready, asked, plain, owned>>

\* Drop of SupervisorInner, when no call is in progress.
drop_owner ==
    /\ owned
    /\ \A c \in Caller : pc[c] \in Over \cup {"idle"}
    /\ \E c \in Caller : pc[c] # "idle"
    /\ owned' = FALSE
    /\ registered' = FALSE
    /\ mail' = [t \in Caller |->
                 IF registered /\ t = control /\ mail[t] = {} THEN {Nobody} ELSE mail[t]]
    /\ asked' = IF registered THEN asked \cup ({control} \ {Nobody}) ELSE asked
    /\ UNCHANGED <<control, status, callVars, alive, stray, task, ready, plain>>

-----------------------------------------------------------------------------
CallStep(c) ==
    \/ stop_send(c) \/ stop_wait(c) \/ delete(c)
    \/ start_entry(c) \/ start_install(c) \/ start_wait(c)

SuperviseStep(t) ==
    \/ supervise_spawn(t) \/ supervise_ready(t) \/ supervise_stop(t)
    \/ supervise_terminate(t) \/ supervise_sleep(t) \/ clear_control(t)

Next ==
    \/ \E c \in Caller : start(c) \/ \E o \in {"stop", "restart", "delete"} : stop(c, o)
    \/ \E c \in Caller : CallStep(c) \/ SuperviseStep(c) \/ supervise_exit(c)
    \/ drop_owner

Spec == Init /\ [][Next]_vars

-----------------------------------------------------------------------------
(***************************************************************************)
(* stop answers its caller only after terminate and wait: whoever got the  *)
(* answer of a task finds no process of that task, however calls overlap.  *)
(* The exception is a process on which terminate or wait failed: supervise *)
(* drops the error, answers all the same, and the process may go on.       *)
(***************************************************************************)
AnswerMeansStopped ==
    \A t \in Caller : mail[t] \cap acked # {} /\ Exists(t) => t \in stray \ alive

\* A call ran into one of its timeouts.
SomeTimeout == \E c \in Caller : pc[c] = "timedout"

(***************************************************************************)
(* delete stops the process before it removes the record: when it has      *)
(* returned and no call timed out, no process of the record exists but one *)
(* the transport failed on.  Calls must not overlap, nor follow a restart. *)
(***************************************************************************)
DeletedIsStopped ==
    \A c \in Caller :
        plain /\ op[c] = "delete" /\ pc[c] = "done" /\ ~SomeTimeout =>
            \A t \in Caller : Exists(t) => t \in stray \ alive

(***************************************************************************)
(* A task turns to stopping its process only when an owner asked for it by *)
(* stop, restart, delete, by the timeout of a start or by letting go.      *)
(***************************************************************************)
StoppedIsAsked ==
    \A t \in Caller : task[t] = "stopping" => t \in asked

(***************************************************************************)
(* No process stays out of control.  When no call and no supervise task    *)
(* can go on by itself, a task whose sender left the entry and every call  *)
(* (an overlapping start, a dropped stop, clear_control of an older task)  *)
(* has ended; and once the last owner is dropped no process exists but one *)
(* the transport failed on, if calls neither overlapped nor followed a     *)
(* restart.                                                                *)
(***************************************************************************)
NothingUncontrolled ==
    ~ENABLED (\E c \in Caller : CallStep(c) \/ SuperviseStep(c)) =>
        /\ \A t \in Caller : task[t] # "none" /\ SenderGone(t) => task[t] = "ended"
        /\ plain /\ ~owned => \A t \in Caller :
             task[t] \in {"none", "ended"} /\ (Exists(t) => t \in stray \ alive)
=============================================================================
