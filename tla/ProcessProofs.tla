--------------------------- MODULE ProcessProofs ----------------------------
(***************************************************************************)
(* Managed processes.  One record of the supervisor: stop means stopped,   *)
(* for any number of calls and every restart policy.  The log of a         *)
(* process: a consumer that subscribes and then reads the tail misses no   *)
(* line in silence, for any number of streams and any limits.              *)
(***************************************************************************)
EXTENDS ManagedProcess, ProcessLog, TLAPS

-----------------------------------------------------------------------------
(* The record *)

ManagedAssumption == MaxCalls \in Nat

CallSteps ==
    {"idle", "starting", "installing", "awaiting", "sending", "waiting", "removing"} \cup Over

\* A task in one of these starts no process any more.
Finished == {"clearing", "ended"}

Types ==
    /\ control \in Caller \cup {Nobody}
    /\ alive \subseteq Caller /\ acked \subseteq Caller
    /\ op \in [Caller -> {"none", "start", "stop", "restart", "delete"}]
    /\ pc \in [Caller -> CallSteps]
    /\ taken \in [Caller -> Caller \cup {Nobody}]
    /\ task \in [Caller -> {"none", "queued", "spawned", "running", "stopping", "sleeping"}
                           \cup Finished]
    /\ mail \in [Caller -> SUBSET (Caller \cup {Nobody})]

\* A process belongs to a task that has not finished.
AliveIsRun == \A t \in Caller : t \in alive => task[t] \in {"spawned", "running", "stopping"}

\* A call that has not yet sent its message is in no channel and not answered.
UnsentIsFresh ==
    \A c \in Caller : pc[c] \in {"idle", "sending"} =>
        c \notin acked /\ \A t \in Caller : c \notin mail[t]

\* A call writes to one task, and an answer comes from a task that has finished.
AnswerIsLast ==
    \A c, t \in Caller : c \in mail[t] =>
        /\ \A u \in Caller : c \in mail[u] => t = u
        /\ c \in acked => task[t] \in Finished

\* The sender of a task is in one place: the entry or the call that took it.
OneSender ==
    /\ \A c \in Caller : taken[c] # Nobody <=> pc[c] \in {"sending", "waiting"}
    /\ \A c, d \in Caller : taken[c] = taken[d] /\ taken[c] # Nobody => c = d
    /\ control # Nobody => \A c \in Caller : taken[c] # control
    /\ \A c \in Caller : pc[c] = "waiting" => mail[taken[c]] = {c}

\* Only a start or a restart spawns a task, once, and nobody knows of it before;
\* the other calls ask one to stop.
TaskIsSpawned ==
    /\ \A t \in Caller : task[t] # "none" =>
        pc[t] \in Over \cup {"awaiting"} /\ op[t] \in {"start", "restart"}
    /\ \A t \in Caller : task[t] = "none" =>
        mail[t] = {} /\ control # t /\ \A c \in Caller : taken[c] # t
    /\ \A c \in Caller : pc[c] \in {"starting", "installing", "awaiting"} =>
        op[c] \in {"start", "restart"}
    /\ \A c \in Caller : pc[c] \in {"sending", "waiting"} =>
        op[c] \in {"stop", "restart", "delete"}

\* One call makes the record, and the others come after it has returned.
StartIsFirst ==
    /\ \A c, d \in Caller : op[c] = "start" /\ op[d] = "start" => c = d
    /\ \A c \in Caller : op[c] \in {"stop", "restart", "delete"} => Known
    /\ \A c \in Caller : plain => op[c] # "restart"

\* With calls one after the other and no timeout, a task that can still run a
\* process has its sender, and there is none after a delete.
PlainIsControlled ==
    plain /\ ~SomeTimeout =>
        /\ \A t \in Caller : task[t] \notin Finished \cup {"none"} =>
            control = t \/ \E c \in Caller : taken[c] = t
        /\ \A c \in Caller : op[c] = "delete" /\ pc[c] \in {"removing", "done"} =>
            \A t \in Caller : task[t] \in Finished \cup {"none"}

ManagedInv ==
    /\ Types /\ AliveIsRun /\ UnsentIsFresh /\ AnswerIsLast
    /\ OneSender /\ TaskIsSpawned /\ StartIsFirst /\ PlainIsControlled

-----------------------------------------------------------------------------
\* A supervisor without the record satisfies the invariant.
LEMMA InitManagedInv == ASSUME ManagedAssumption PROVE Init => ManagedInv
<1> SUFFICES ASSUME Init PROVE ManagedInv
  BY Zenon
<1> Nobody \notin Caller
  BY DEF ManagedAssumption, Nobody, Caller
<1>1. Types
  BY Zenon DEF Init, Types, CallSteps
<1>2. AliveIsRun /\ UnsentIsFresh /\ AnswerIsLast /\ OneSender
  BY Zenon DEF Init, AliveIsRun, UnsentIsFresh, AnswerIsLast, OneSender
<1>3. TaskIsSpawned /\ StartIsFirst /\ PlainIsControlled
  BY Zenon DEF Init, TaskIsSpawned, StartIsFirst, PlainIsControlled, Over
<1> QED
  BY <1>1, <1>2, <1>3, Zenon DEF ManagedInv

\* Without a restart there is one task.
LEMMA PlainHasOneTask ==
    ASSUME TaskIsSpawned, StartIsFirst, plain
    PROVE  \A t, u \in Caller : task[t] # "none" /\ task[u] # "none" => t = u
  BY DEF TaskIsSpawned, StartIsFirst

\* A step of a supervise task: it answers only when it finishes, and only then
\* may empty the entry.
LEMMA TaskInv ==
    ASSUME ManagedAssumption, ManagedInv, NEW t \in Caller,
           NEW next \in {"queued", "spawned", "running", "stopping", "sleeping"} \cup Finished,
           task[t] # "none", TaskStep(t, next), UNCHANGED <<op, pc, taken, mail, plain>>,
           task[t] \in Finished => next \in Finished,
           alive' \subseteq Caller, AliveIsRun',
           \/ control' = control
           \/ control' = Nobody /\ next \in Finished,
           \/ acked' = acked
           \/ acked' = acked \cup (mail[t] \cap Caller) /\ next \in Finished
    PROVE  ManagedInv'
<1> Nobody \notin Caller
  BY DEF ManagedAssumption, Nobody, Caller
<1>1. /\ Types /\ UnsentIsFresh /\ AnswerIsLast
      /\ OneSender /\ TaskIsSpawned /\ StartIsFirst /\ PlainIsControlled
  BY Zenon DEF ManagedInv
<1>2. /\ op' = op /\ pc' = pc /\ taken' = taken /\ mail' = mail /\ plain' = plain
      /\ \A u \in Caller : task'[u] = IF u = t THEN next ELSE task[u]
      /\ SomeTimeout' <=> SomeTimeout
      /\ Known' <=> Known
  BY <1>1, Zenon DEF Types, TaskStep, SomeTimeout, Known
<1>3. Types'
  BY <1>1, <1>2, Zenon DEF Types, TaskStep
<1>4. UnsentIsFresh'
  BY <1>1, <1>2, Zenon DEF UnsentIsFresh
<1>5. AnswerIsLast'
  BY <1>1, <1>2, Zenon DEF AnswerIsLast
<1>6. OneSender' /\ TaskIsSpawned'
  BY <1>1, <1>2 DEF OneSender, TaskIsSpawned, Finished
<1>7. StartIsFirst'
  BY <1>1, <1>2 DEF StartIsFirst
<1>8. PlainIsControlled'
  <2> SUFFICES ASSUME plain, ~SomeTimeout PROVE PlainIsControlled'
    BY <1>2 DEF PlainIsControlled
  <2>1. \A u \in Caller : task[u] # "none" => u = t
    BY <1>1, PlainHasOneTask, Zenon
  <2>2. \A u \in Caller : task[u] \in Finished \cup {"none"} => task'[u] \in Finished \cup {"none"}
    BY <1>2, Zenon
  <2>3. ASSUME NEW u \in Caller, task'[u] \notin Finished \cup {"none"}
        PROVE  control' = u \/ \E c \in Caller : taken'[c] = u
    <3>1. task[u] \notin Finished \cup {"none"} /\ u = t /\ next \notin Finished
      BY <1>2, <2>1, <2>2, <2>3, Zenon
    <3> QED
      BY <1>1, <1>2, <3>1, Zenon DEF PlainIsControlled
  <2> QED
    BY <1>1, <1>2, <2>2, <2>3, Zenon DEF PlainIsControlled
<1> QED
  BY <1>3, <1>4, <1>5, <1>6, <1>7, <1>8, Zenon DEF ManagedInv

\* The steps of `supervise`: an answer comes after terminate, and the entry is emptied last.
LEMMA SuperviseInv ==
    ASSUME ManagedAssumption, ManagedInv, NEW t \in Caller,
           SuperviseStep(t) \/ supervise_exit(t)
    PROVE  ManagedInv'
<1> USE DEF callVars, Answered
<1>1. Types /\ AliveIsRun
  BY Zenon DEF ManagedInv
<1>2. CASE supervise_spawn(t)
  <2>1. PICK next \in {"spawned", "clearing"} :
            TaskStep(t, next) /\ alive' = IF next = "spawned" THEN alive \cup {t} ELSE alive
    BY <1>2, Zenon DEF supervise_spawn
  <2>2. AliveIsRun' /\ alive' \subseteq Caller
    BY <1>1, <1>2, <2>1, Zenon DEF AliveIsRun, Types, TaskStep, supervise_spawn
  <2> QED
    BY <1>2, <2>1, <2>2, TaskInv, Zenon DEF supervise_spawn, Finished
<1>3. CASE supervise_ready(t)
  <2>1. AliveIsRun'
    BY <1>1, <1>3, Zenon DEF AliveIsRun, Types, TaskStep, supervise_ready
  <2> QED
    BY <1>1, <1>3, <2>1, TaskInv, Zenon DEF supervise_ready, Types, Finished
<1>4. CASE supervise_stop(t)
  <2>1. AliveIsRun'
    BY <1>1, <1>4, Zenon DEF AliveIsRun, Types, TaskStep, supervise_stop
  <2> QED
    BY <1>1, <1>4, <2>1, TaskInv, Zenon DEF supervise_stop, Types, Finished
<1>5. CASE supervise_terminate(t)
  <2>1. AliveIsRun'
    BY <1>1, <1>5, Zenon DEF AliveIsRun, Types, TaskStep, supervise_terminate, Ends, GivenUp
  <2> QED
    BY <1>1, <1>5, <2>1, TaskInv, Zenon DEF supervise_terminate, Ends, GivenUp, Types, Finished
<1>6. CASE supervise_exit(t)
  <2>1. PICK next \in {"sleeping", "clearing"} : TaskStep(t, next)
    BY <1>6, Zenon DEF supervise_exit
  <2>2. AliveIsRun'
    BY <1>1, <1>6, <2>1, Zenon DEF AliveIsRun, Types, TaskStep, supervise_exit, Ends, GivenUp
  <2> QED
    BY <1>1, <1>6, <2>1, <2>2, TaskInv, Zenon DEF supervise_exit, Ends, GivenUp, Types, Finished
<1>7. CASE supervise_sleep(t)
  <2>1. PICK next \in {"queued", "clearing"} :
            /\ TaskStep(t, next)
            /\ acked' = acked \/ (acked' = acked \cup (mail[t] \cap Caller) /\ next = "clearing")
    BY <1>7, Zenon DEF supervise_sleep
  <2>2. AliveIsRun'
    BY <1>1, <1>7, <2>1, Zenon DEF AliveIsRun, Types, TaskStep, supervise_sleep
  <2> QED
    BY <1>1, <1>7, <2>1, <2>2, TaskInv, Zenon DEF supervise_sleep, Types, Finished
<1>8. CASE clear_control(t)
  <2>1. AliveIsRun'
    BY <1>1, <1>8, Zenon DEF AliveIsRun, Types, TaskStep, clear_control
  <2> QED
    BY <1>1, <1>8, <2>1, TaskInv, Zenon DEF clear_control, Types, Finished
<1> QED
  BY <1>2, <1>3, <1>4, <1>5, <1>6, <1>7, <1>8, Zenon DEF SuperviseStep

-----------------------------------------------------------------------------
\* A step of a call that neither sends, takes or gives back a sender nor spawns.
LEMMA MoveInv ==
    ASSUME ManagedInv, NEW c \in Caller, NEW next \in CallSteps \ {"idle", "sending", "waiting"},
           Step(c, next), pc[c] \notin {"idle", "sending", "waiting"} \cup Over,
           UNCHANGED <<op, plain, task, alive, acked, taken, mail, control>>,
           task[c] # "none" => next \in Over \cup {"awaiting"},
           next \in {"starting", "installing", "awaiting"} => op[c] \in {"start", "restart"},
           op[c] = "delete" /\ next \in {"removing", "done"} => pc[c] = "removing"
    PROVE  ManagedInv'
<1>1. /\ Types /\ AliveIsRun /\ UnsentIsFresh /\ AnswerIsLast
      /\ OneSender /\ TaskIsSpawned /\ StartIsFirst /\ PlainIsControlled
  BY Zenon DEF ManagedInv
<1>2. /\ op' = op /\ plain' = plain /\ task' = task /\ alive' = alive /\ acked' = acked
      /\ taken' = taken /\ mail' = mail /\ control' = control
      /\ \A d \in Caller : pc'[d] = IF d = c THEN next ELSE pc[d]
  BY <1>1, Zenon DEF Types, Step
<1>3. Known => Known'
  BY <1>2, Zenon DEF Known
<1>4. SomeTimeout => SomeTimeout'
  BY <1>2, Zenon DEF SomeTimeout, Over
<1>5. Types' /\ AliveIsRun' /\ AnswerIsLast'
  BY <1>1, <1>2, Zenon DEF Types, AliveIsRun, AnswerIsLast, Step
<1>6. UnsentIsFresh' /\ OneSender'
  BY <1>1, <1>2 DEF UnsentIsFresh, OneSender
<1>7. TaskIsSpawned'
  BY <1>1, <1>2 DEF TaskIsSpawned
<1>8. StartIsFirst'
  BY <1>1, <1>2, <1>3 DEF StartIsFirst
<1>9. PlainIsControlled'
  BY <1>1, <1>2, <1>4 DEF PlainIsControlled
<1> QED
  BY <1>5, <1>6, <1>7, <1>8, <1>9, Zenon DEF ManagedInv

\* The removal of a record, and the look of start_entry at the sender.
LEMMA DeleteInv ==
    ASSUME ManagedInv, NEW c \in Caller, delete(c) \/ start_entry(c)
    PROVE  ManagedInv'
<1>1. Types /\ TaskIsSpawned
  BY Zenon DEF ManagedInv
<1>2. CASE delete(c)
  <2>1. task[c] = "none"
    BY <1>1, <1>2, Zenon DEF TaskIsSpawned, delete, Over
  <2> QED
    BY <1>2, <2>1, MoveInv, Zenon DEF delete, taskVars, CallSteps, Over
<1>3. CASE start_entry(c)
  <2>1. task[c] = "none" /\ op[c] \in {"start", "restart"}
    BY <1>1, <1>3, Zenon DEF TaskIsSpawned, start_entry, Over
  <2>2. PICK next \in {"error", "installing"} : Step(c, next)
    BY <1>3, Zenon DEF start_entry
  <2> QED
    BY <1>3, <2>1, <2>2, MoveInv, Zenon DEF start_entry, taskVars, CallSteps, Over
<1> QED
  BY <1>2, <1>3, Zenon

\* Both kinds of message that are sent without a caller: the channel must be empty.
LEMMA NobodyTells ==
    ASSUME ManagedAssumption, ManagedInv, control \in Caller,
           mail' = [t \in Caller |-> IF t = control /\ mail[t] = {} THEN {Nobody} ELSE mail[t]]
    PROVE  /\ mail' \in [Caller -> SUBSET (Caller \cup {Nobody})]
           /\ \A c, t \in Caller : c \in mail'[t] <=> c \in mail[t]
           /\ \A t \in Caller : t # control => mail'[t] = mail[t]
<1> Nobody \notin Caller
  BY DEF ManagedAssumption, Nobody, Caller
<1> QED
  BY Zenon DEF ManagedInv, Types

\* A start that returns, or times out and takes whatever sender it finds.
LEMMA StartWaitInv ==
    ASSUME ManagedAssumption, ManagedInv, NEW c \in Caller, start_wait(c)
    PROVE  ManagedInv'
<1> Nobody \notin Caller
  BY DEF ManagedAssumption, Nobody, Caller
<1>1. /\ Types /\ AliveIsRun /\ UnsentIsFresh /\ AnswerIsLast
      /\ OneSender /\ TaskIsSpawned /\ StartIsFirst /\ PlainIsControlled
  BY Zenon DEF ManagedInv
<1>2. pc[c] = "awaiting" /\ op[c] \in {"start", "restart"}
  BY <1>1, Zenon DEF start_wait, TaskIsSpawned
<1>3. /\ op' = op /\ plain' = plain /\ task' = task /\ alive' = alive
      /\ acked' = acked /\ taken' = taken
  BY Zenon DEF start_wait
<1>4. CASE (Step(c, "done") \/ Step(c, "error")) /\ UNCHANGED <<control, mail>>
  <2>1. PICK next \in {"done", "error"} : Step(c, next)
    BY <1>4, Zenon
  <2> QED
    BY <1>2, <1>3, <1>4, <2>1, MoveInv, Zenon DEF CallSteps, Over
<1>5. CASE /\ Step(c, "timedout") /\ control' = Nobody
           /\ mail' = [t \in Caller |->
                         IF t = control /\ mail[t] = {} THEN {Nobody} ELSE mail[t]]
  <2>1. /\ mail' \in [Caller -> SUBSET (Caller \cup {Nobody})]
        /\ \A d, t \in Caller : d \in mail'[t] <=> d \in mail[t]
        /\ \A t \in Caller : t # control => mail'[t] = mail[t]
    BY <1>1, <1>5, NobodyTells, Zenon DEF Types
  <2>2. /\ \A d \in Caller : pc'[d] = IF d = c THEN "timedout" ELSE pc[d]
        /\ SomeTimeout' /\ (Known => Known')
    BY <1>1, <1>2, <1>3, <1>5, Zenon DEF Types, Step, SomeTimeout, Known, Over
  <2>3. Types' /\ AliveIsRun' /\ AnswerIsLast'
    BY <1>1, <1>3, <1>5, <2>1 DEF Types, AliveIsRun, AnswerIsLast, Step, CallSteps, Over
  <2>4. UnsentIsFresh'
    BY <1>1, <1>3, <2>1, <2>2, Zenon DEF UnsentIsFresh
  <2>5. OneSender'
    <3>1. \A d \in Caller : pc'[d] = "waiting" =>
              pc[d] = "waiting" /\ taken[d] \in Caller /\ taken[d] # control
      BY <1>1, <2>2 DEF OneSender, Types
    <3> QED
      BY <1>1, <1>2, <1>3, <1>5, <2>1, <2>2, <3>1, Zenon DEF OneSender
  <2>6. TaskIsSpawned'
    <3>1. \A t \in Caller : task[t] = "none" => mail'[t] = {}
      BY <1>1, <2>1, Zenon DEF TaskIsSpawned
    <3> QED
      BY <1>1, <1>3, <1>5, <2>2, <3>1 DEF TaskIsSpawned, Over
  <2>7. StartIsFirst' /\ PlainIsControlled'
    BY <1>1, <1>3, <2>2, Zenon DEF StartIsFirst, PlainIsControlled
  <2> QED
    BY <2>3, <2>4, <2>5, <2>6, <2>7, Zenon DEF ManagedInv
<1> QED
  BY <1>4, <1>5, Zenon DEF start_wait

\* The last owner lets go.
LEMMA DropInv ==
    ASSUME ManagedAssumption, ManagedInv, drop_owner
    PROVE  ManagedInv'
<1> Nobody \notin Caller
  BY DEF ManagedAssumption, Nobody, Caller
<1>1. /\ Types /\ AliveIsRun /\ UnsentIsFresh /\ AnswerIsLast
      /\ OneSender /\ TaskIsSpawned /\ StartIsFirst /\ PlainIsControlled
  BY Zenon DEF ManagedInv
<1>2. /\ op' = op /\ pc' = pc /\ plain' = plain /\ task' = task /\ alive' = alive
      /\ acked' = acked /\ taken' = taken /\ control' = control
  BY Zenon DEF drop_owner, callVars
<1>3. /\ mail' \in [Caller -> SUBSET (Caller \cup {Nobody})]
      /\ \A d, t \in Caller : d \in mail'[t] <=> d \in mail[t]
      /\ \A t \in Caller : t # control => mail'[t] = mail[t]
  BY <1>1, Zenon DEF drop_owner, Types
<1>4. (Known' <=> Known) /\ (SomeTimeout' <=> SomeTimeout)
  BY <1>2, Zenon DEF Known, SomeTimeout
<1>5. Types' /\ AliveIsRun' /\ AnswerIsLast' /\ UnsentIsFresh'
  BY <1>1, <1>2, <1>3 DEF Types, AliveIsRun, AnswerIsLast, UnsentIsFresh
<1>6. OneSender'
  <2>1. \A d \in Caller : pc[d] = "waiting" => taken[d] \in Caller /\ taken[d] # control
    BY <1>1, Zenon DEF OneSender, Types
  <2> QED
    BY <1>1, <1>2, <1>3, <2>1, Zenon DEF OneSender
<1>7. TaskIsSpawned'
  BY <1>1, <1>2, <1>3 DEF TaskIsSpawned
<1>8. StartIsFirst' /\ PlainIsControlled'
  BY <1>1, <1>2, <1>4, Zenon DEF StartIsFirst, PlainIsControlled
<1> QED
  BY <1>5, <1>6, <1>7, <1>8, Zenon DEF ManagedInv

-----------------------------------------------------------------------------
\* A new task has an empty channel, and in sequential use it is the only one.
LEMMA InstallInv ==
    ASSUME ManagedAssumption, ManagedInv, NEW c \in Caller, start_install(c)
    PROVE  ManagedInv'
<1> Nobody \notin Caller
  BY DEF ManagedAssumption, Nobody, Caller
<1>1. /\ Types /\ AliveIsRun /\ UnsentIsFresh /\ AnswerIsLast
      /\ OneSender /\ TaskIsSpawned /\ StartIsFirst /\ PlainIsControlled
  BY Zenon DEF ManagedInv
<1>2. /\ op' = op /\ plain' = plain /\ alive' = alive /\ acked' = acked
      /\ taken' = taken /\ mail' = mail /\ control' = c
      /\ \A d \in Caller : pc'[d] = IF d = c THEN "awaiting" ELSE pc[d]
      /\ \A t \in Caller : task'[t] = IF t = c THEN "queued" ELSE task[t]
  BY <1>1, Zenon DEF start_install, Types, Step
<1>3. pc[c] = "installing" /\ op[c] \in {"start", "restart"} /\ task[c] = "none"
  BY <1>1, Zenon DEF start_install, TaskIsSpawned, Over
<1>4. mail[c] = {} /\ \A d \in Caller : taken[d] # c
  BY <1>1, <1>3, Zenon DEF TaskIsSpawned
<1>5. (Known => Known') /\ (SomeTimeout => SomeTimeout')
  BY <1>2, <1>3, Zenon DEF Known, SomeTimeout, Over
<1>6. Types'
  BY <1>1, <1>2 DEF Types, start_install, Step, CallSteps
<1>7. AliveIsRun'
  BY <1>1, <1>2, <1>3, Zenon DEF AliveIsRun
<1>8. UnsentIsFresh' /\ AnswerIsLast'
  BY <1>1, <1>2, <1>4, Zenon DEF UnsentIsFresh, AnswerIsLast
<1>9. OneSender'
  BY <1>1, <1>2, <1>3, <1>4, Zenon DEF OneSender
<1>10. TaskIsSpawned'
  BY <1>1, <1>2, <1>3 DEF TaskIsSpawned
<1>11. StartIsFirst'
  BY <1>1, <1>2, <1>5, Zenon DEF StartIsFirst
<1>12. PlainIsControlled'
  <2> SUFFICES ASSUME plain', ~SomeTimeout' PROVE PlainIsControlled'
    BY Zenon DEF PlainIsControlled
  <2>1. op[c] = "start" /\ ~Known
    BY <1>1, <1>2, <1>3, Zenon DEF StartIsFirst, Known, Over
  <2>2. \A t \in Caller : t # c => task'[t] = "none"
    BY <1>2, <1>10, <1>11, PlainHasOneTask DEF TaskIsSpawned, StartIsFirst
  <2>3. \A d \in Caller : op'[d] # "delete"
    BY <1>1, <1>2, <2>1, Zenon DEF StartIsFirst
  <2> QED
    BY <1>2, <2>2, <2>3, Zenon DEF PlainIsControlled
<1> QED
  BY <1>6, <1>7, <1>8, <1>9, <1>10, <1>11, <1>12, Zenon DEF ManagedInv

\* The message of a stop is its first, and goes to the task whose sender it took.
LEMMA SendInv ==
    ASSUME ManagedAssumption, ManagedInv, NEW c \in Caller, stop_send(c)
    PROVE  ManagedInv'
<1> Nobody \notin Caller
  BY DEF ManagedAssumption, Nobody, Caller
<1>1. /\ Types /\ AliveIsRun /\ UnsentIsFresh /\ AnswerIsLast
      /\ OneSender /\ TaskIsSpawned /\ StartIsFirst /\ PlainIsControlled
  BY Zenon DEF ManagedInv
<1>2. /\ op' = op /\ plain' = plain /\ alive' = alive /\ acked' = acked
      /\ task' = task /\ control' = control
  BY Zenon DEF stop_send, recordVars
<1>3. /\ pc[c] = "sending" /\ taken[c] \in Caller /\ task[taken[c]] # "none"
      /\ task[c] = "none"
  BY <1>1 DEF stop_send, OneSender, Types, TaskIsSpawned, Over
<1>4. CASE /\ task[taken[c]] = "ended" /\ Step(c, "error")
           /\ taken' = [taken EXCEPT ![c] = Nobody] /\ mail' = mail
  <2>1. /\ \A d \in Caller : pc'[d] = IF d = c THEN "error" ELSE pc[d]
        /\ \A d \in Caller : taken'[d] = IF d = c THEN Nobody ELSE taken[d]
    BY <1>1, <1>4, Zenon DEF Types, Step
  <2>2. (Known => Known') /\ (SomeTimeout => SomeTimeout')
    BY <1>2, <1>3, <2>1, Zenon DEF Known, SomeTimeout, Over
  <2>3. Types' /\ AliveIsRun' /\ AnswerIsLast'
    BY <1>1, <1>2, <1>4, Zenon DEF Types, Step, CallSteps, Over, AliveIsRun, AnswerIsLast
  <2>4. UnsentIsFresh' /\ OneSender'
    BY <1>1, <1>2, <1>4, <2>1 DEF UnsentIsFresh, OneSender
  <2>5. TaskIsSpawned'
    BY <1>1, <1>2, <1>3, <1>4, <2>1 DEF TaskIsSpawned
  <2>6. StartIsFirst'
    BY <1>1, <1>2, <2>2, Zenon DEF StartIsFirst
  <2>7. PlainIsControlled'
    BY <1>1, <1>2, <1>4, <2>1, <2>2 DEF PlainIsControlled, Finished
  <2> QED
    BY <2>3, <2>4, <2>5, <2>6, <2>7, Zenon DEF ManagedInv
<1>5. CASE /\ mail' = [mail EXCEPT ![taken[c]] = {c}] /\ Step(c, "waiting") /\ taken' = taken
  <2>1. /\ \A d \in Caller : pc'[d] = IF d = c THEN "waiting" ELSE pc[d]
        /\ \A t \in Caller : mail'[t] = IF t = taken[c] THEN {c} ELSE mail[t]
    BY <1>1, <1>5, Zenon DEF Types, Step
  <2>2. (Known => Known') /\ (SomeTimeout => SomeTimeout')
    BY <1>2, <1>3, <2>1, Zenon DEF Known, SomeTimeout, Over
  <2>3. Types' /\ AliveIsRun'
    BY <1>1, <1>2, <1>3, <1>5, Zenon DEF Types, Step, CallSteps, AliveIsRun
  <2>4. c \notin acked /\ \A t \in Caller : c \notin mail[t]
    BY <1>1, <1>3, Zenon DEF UnsentIsFresh
  <2>5. UnsentIsFresh'
    BY <1>1, <1>2, <2>1 DEF UnsentIsFresh
  <2>6. AnswerIsLast'
    BY <1>1, <1>2, <2>1, <2>4 DEF AnswerIsLast
  <2>7. OneSender'
    <3>1. \A d \in Caller : pc'[d] = "waiting" => mail'[taken'[d]] = {d}
      <4>1. \A d \in Caller : d # c /\ pc[d] = "waiting" => taken[d] \in Caller /\ taken[d] # taken[c]
        BY <1>1, <1>3 DEF OneSender, Types
      <4> QED
        BY <1>1, <1>3, <1>5, <2>1, <4>1 DEF OneSender
    <3> QED
      BY <1>1, <1>2, <1>3, <1>5, <2>1, <3>1, Zenon DEF OneSender
  <2>8. TaskIsSpawned'
    BY <1>1, <1>2, <1>3, <1>5, <2>1 DEF TaskIsSpawned
  <2>9. StartIsFirst'
    BY <1>1, <1>2, <2>2, Zenon DEF StartIsFirst
  <2>10. PlainIsControlled'
    BY <1>1, <1>2, <1>5, <2>1, <2>2, Zenon DEF PlainIsControlled
  <2> QED
    BY <2>3, <2>5, <2>6, <2>7, <2>8, <2>9, <2>10, Zenon DEF ManagedInv
<1> QED
  BY <1>4, <1>5, Zenon DEF stop_send

\* A stop that was answered, refused or given up: its task has finished unless it timed out.
LEMMA WaitInv ==
    ASSUME ManagedAssumption, ManagedInv, NEW c \in Caller, stop_wait(c)
    PROVE  ManagedInv'
<1> Nobody \notin Caller
  BY DEF ManagedAssumption, Nobody, Caller
<1>1. /\ Types /\ AliveIsRun /\ UnsentIsFresh /\ AnswerIsLast
      /\ OneSender /\ TaskIsSpawned /\ StartIsFirst /\ PlainIsControlled
  BY Zenon DEF ManagedInv
<1>2. /\ op' = op /\ plain' = plain /\ alive' = alive /\ acked' = acked
      /\ task' = task /\ mail' = mail /\ control' = control
      /\ \A d \in Caller : taken'[d] = IF d = c THEN Nobody ELSE taken[d]
  BY <1>1, Zenon DEF stop_wait, recordVars, taskVars, Types
<1>3. /\ pc[c] = "waiting" /\ taken[c] \in Caller /\ task[taken[c]] # "none"
      /\ task[c] = "none" /\ op[c] \in {"stop", "restart", "delete"} /\ c \in mail[taken[c]]
  BY <1>1 DEF stop_wait, OneSender, Types, TaskIsSpawned, Over
<1>4. PICK next \in {"done", "starting", "removing", "error", "timedout"} :
        /\ Step(c, next)
        /\ next = "starting" => op[c] = "restart"
        /\ next \in {"done", "starting", "removing"} => c \in acked
        /\ next \notin {"done", "starting", "removing", "timedout"} => task[taken[c]] = "ended"
        /\ op[c] = "delete" => next # "done"
  BY <1>3, Zenon DEF stop_wait, AfterStop
<1>5. \A d \in Caller : pc'[d] = IF d = c THEN next ELSE pc[d]
  BY <1>1, <1>4, Zenon DEF Types, Step
<1>6. (Known => Known') /\ (SomeTimeout => SomeTimeout')
  BY <1>2, <1>3, <1>5, Zenon DEF Known, SomeTimeout, Over
<1>7. next = "timedout" \/ task[taken[c]] \in Finished
  BY <1>1, <1>3, <1>4, Zenon DEF AnswerIsLast, Finished
<1>8. Types'
  BY <1>1, <1>2, <1>4, Zenon DEF Types, Step, CallSteps, Over, stop_wait
<1>9. AliveIsRun' /\ AnswerIsLast'
  BY <1>1, <1>2, Zenon DEF AliveIsRun, AnswerIsLast
<1>10. UnsentIsFresh' /\ OneSender'
  BY <1>1, <1>2, <1>4, <1>5 DEF UnsentIsFresh, OneSender
<1>11. TaskIsSpawned'
  BY <1>1, <1>2, <1>3, <1>4, <1>5 DEF TaskIsSpawned, Over
<1>12. StartIsFirst'
  BY <1>1, <1>2, <1>6, Zenon DEF StartIsFirst
<1>13. PlainIsControlled'
  <2> SUFFICES ASSUME plain, ~SomeTimeout' PROVE PlainIsControlled'
    BY <1>2, Zenon DEF PlainIsControlled
  <2>1. next # "timedout"
    BY <1>5, Zenon DEF SomeTimeout
  <2>2. \A t \in Caller : task[t] # "none" => t = taken[c]
    BY <1>1, <1>3, PlainHasOneTask, Zenon
  <2>3. \A t \in Caller : task[t] \in Finished \cup {"none"}
    BY <1>7, <2>1, <2>2, Zenon
  <2> QED
    BY <1>2, <2>3, Zenon DEF PlainIsControlled
<1> QED
  BY <1>8, <1>9, <1>10, <1>11, <1>12, <1>13, Zenon DEF ManagedInv

\* The call that makes the record.
LEMMA StartInv ==
    ASSUME ManagedAssumption, ManagedInv, NEW c \in Caller, start(c)
    PROVE  ManagedInv'
<1>1. /\ Types /\ AliveIsRun /\ UnsentIsFresh /\ AnswerIsLast
      /\ OneSender /\ TaskIsSpawned /\ StartIsFirst /\ PlainIsControlled
  BY Zenon DEF ManagedInv
<1>2. /\ alive' = alive /\ acked' = acked /\ task' = task /\ mail' = mail
      /\ taken' = taken /\ control' = control
      /\ \A d \in Caller : pc'[d] = IF d = c THEN "starting" ELSE pc[d]
      /\ \A d \in Caller : op'[d] = IF d = c THEN "start" ELSE op[d]
      /\ pc[c] = "idle" /\ \A d \in Caller : op[d] # "start"
  BY <1>1, Zenon DEF start, Begin, taskVars, Types, Step
<1>3. plain' => plain
  BY Zenon DEF start, Begin
<1>4. ~Known /\ task[c] = "none" /\ (SomeTimeout => SomeTimeout')
  BY <1>1, <1>2, Zenon DEF Known, TaskIsSpawned, SomeTimeout, Over
<1>5. Types'
  BY <1>1, <1>2, Zenon DEF Types, start, Begin, Step, CallSteps
<1>6. AliveIsRun' /\ AnswerIsLast' /\ UnsentIsFresh' /\ OneSender'
  BY <1>1, <1>2 DEF AliveIsRun, AnswerIsLast, UnsentIsFresh, OneSender
<1>7. TaskIsSpawned'
  BY <1>1, <1>2, <1>4 DEF TaskIsSpawned
<1>8. StartIsFirst'
  BY <1>1, <1>2, <1>3, <1>4 DEF StartIsFirst
<1>9. PlainIsControlled'
  BY <1>1, <1>2, <1>3, <1>4 DEF PlainIsControlled
<1> QED
  BY <1>5, <1>6, <1>7, <1>8, <1>9, Zenon DEF ManagedInv

\* Taking the sender; an entry without one has, in sequential use, no running task.
LEMMA StopInv ==
    ASSUME ManagedAssumption, ManagedInv, NEW c \in Caller,
           NEW o \in {"stop", "restart", "delete"}, stop(c, o)
    PROVE  ManagedInv'
<1> Nobody \notin Caller
  BY DEF ManagedAssumption, Nobody, Caller
<1>1. /\ Types /\ AliveIsRun /\ UnsentIsFresh /\ AnswerIsLast
      /\ OneSender /\ TaskIsSpawned /\ StartIsFirst /\ PlainIsControlled
  BY Zenon DEF ManagedInv
<1>2. /\ alive' = alive /\ acked' = acked /\ task' = task /\ mail' = mail
      /\ \A d \in Caller : op'[d] = IF d = c THEN o ELSE op[d]
      /\ pc[c] = "idle" /\ Known
  BY <1>1, Zenon DEF stop, Begin, taskVars, Types
<1>3. plain' => plain /\ o # "restart" /\ \A d \in Caller : pc[d] \in Over \cup {"idle"}
  BY Zenon DEF stop, Begin
<1>4. task[c] = "none" /\ taken[c] = Nobody
  BY <1>1, <1>2, Zenon DEF TaskIsSpawned, OneSender, Over
<1>5. PICK next \in {"error", "done", "starting", "removing", "sending"} :
        /\ Step(c, next)
        /\ next = "starting" => o = "restart"
        /\ o = "delete" => next # "done"
        /\ next = "sending" =>
            control # Nobody /\ taken' = [taken EXCEPT ![c] = control] /\ control' = Nobody
        /\ next # "sending" => taken' = taken /\ control' = control
        /\ next = "removing" => control = Nobody
  BY Zenon DEF stop, AfterStop
<1>6. /\ \A d \in Caller : pc'[d] = IF d = c THEN next ELSE pc[d]
      /\ SomeTimeout => SomeTimeout'
  BY <1>1, <1>2, <1>5, Zenon DEF Types, Step, SomeTimeout, Over
<1>7. Known'
  BY <1>2, <1>6, Zenon DEF Known, Over
<1>8. \A d \in Caller : taken'[d] = IF d = c /\ next = "sending" THEN control ELSE taken[d]
  BY <1>1, <1>5, Zenon DEF Types
<1>9. Types'
  BY <1>1, <1>2, <1>5 DEF Types, stop, Begin, Step, CallSteps, Over
<1>10. AliveIsRun' /\ AnswerIsLast' /\ UnsentIsFresh'
  BY <1>1, <1>2, <1>6 DEF AliveIsRun, AnswerIsLast, UnsentIsFresh
<1>11. OneSender'
  BY <1>1, <1>2, <1>4, <1>5, <1>6, <1>8 DEF OneSender
<1>12. TaskIsSpawned'
  BY <1>1, <1>2, <1>4, <1>5, <1>6, <1>8 DEF TaskIsSpawned, Over
<1>13. StartIsFirst'
  BY <1>1, <1>2, <1>3, <1>7 DEF StartIsFirst
<1>14. PlainIsControlled'
  <2> SUFFICES ASSUME plain', ~SomeTimeout' PROVE PlainIsControlled'
    BY Zenon DEF PlainIsControlled
  <2>1. plain /\ ~SomeTimeout
    BY <1>3, <1>6, Zenon
  <2>2. \A d \in Caller : taken[d] = Nobody
    BY <1>1, <1>3, Zenon DEF OneSender, Over
  <2>3. \A t \in Caller : task[t] \notin Finished \cup {"none"} => control = t
    BY <1>1, <2>1, <2>2, Zenon DEF PlainIsControlled
  <2>4. \A t \in Caller : task'[t] \notin Finished \cup {"none"} =>
            control' = t \/ \E d \in Caller : taken'[d] = t
    BY <1>2, <1>5, <1>8, <2>3, Zenon
  <2>5. \A d \in Caller : op'[d] = "delete" /\ pc'[d] \in {"removing", "done"} =>
            \A t \in Caller : task'[t] \in Finished \cup {"none"}
    BY <1>1, <1>2, <1>5, <1>6, <2>1, <2>3 DEF PlainIsControlled
  <2> QED
    BY <2>4, <2>5, Zenon DEF PlainIsControlled
<1> QED
  BY <1>9, <1>10, <1>11, <1>12, <1>13, <1>14, Zenon DEF ManagedInv

-----------------------------------------------------------------------------
\* Every step keeps the invariant.
LEMMA NextManagedInv ==
    ASSUME ManagedAssumption, ManagedInv, [Next]_vars
    PROVE  ManagedInv'
<1>1. ASSUME NEW c \in Caller, start(c) PROVE ManagedInv'
  BY <1>1, StartInv, Zenon
<1>2. ASSUME NEW c \in Caller, NEW o \in {"stop", "restart", "delete"}, stop(c, o)
      PROVE  ManagedInv'
  BY <1>2, StopInv, Zenon
<1>3. ASSUME NEW c \in Caller, CallStep(c) PROVE ManagedInv'
  BY <1>3, SendInv, WaitInv, DeleteInv, InstallInv, StartWaitInv, Zenon DEF CallStep
<1>4. ASSUME NEW c \in Caller, SuperviseStep(c) \/ supervise_exit(c) PROVE ManagedInv'
  BY <1>4, SuperviseInv, Zenon
<1>5. CASE drop_owner
  BY <1>5, DropInv, Zenon
<1>6. CASE UNCHANGED vars
  BY <1>6
  DEF vars, recordVars, callVars, taskVars, ManagedInv, Types, AliveIsRun, UnsentIsFresh,
      AnswerIsLast, OneSender, TaskIsSpawned, StartIsFirst, PlainIsControlled, Known, SomeTimeout
<1> QED
  BY <1>1, <1>2, <1>3, <1>4, <1>5, <1>6, Zenon DEF Next

(***************************************************************************)
(* Whoever the supervisor told that a process is stopped finds none of     *)
(* that task, however calls overlap; and when calls do not overlap, follow *)
(* no restart and run into no timeout, none is left after a delete         *)
(* (services.rs, stop, delete and supervise).  Only a process on which     *)
(* terminate or wait returned an error, which supervise ignores, may still *)
(* exist; a task that then goes on to hold another one still answers only  *)
(* after that one's end.                                                   *)
(***************************************************************************)
THEOREM StoppedIsStopped ==
    ASSUME ManagedAssumption
    PROVE  Spec => [](AnswerMeansStopped /\ DeletedIsStopped)
<1>1. Init => ManagedInv
  BY InitManagedInv, Zenon
<1>2. ManagedInv /\ [Next]_vars => ManagedInv'
  BY NextManagedInv, Zenon
<1>3. ASSUME ManagedInv PROVE AnswerMeansStopped /\ DeletedIsStopped
  <2>1. AnswerMeansStopped
    BY <1>3 DEF ManagedInv, Types, AliveIsRun, AnswerIsLast, AnswerMeansStopped, Exists, Finished
  <2>2. DeletedIsStopped
    BY <1>3 DEF ManagedInv, Types, AliveIsRun, PlainIsControlled, DeletedIsStopped, Exists, Finished
  <2> QED
    BY <2>1, <2>2, Zenon
<1> QED
  BY <1>1, <1>2, <1>3, PTL DEF Spec

-----------------------------------------------------------------------------
(* The log *)

\* What the variables hold.
LogTypes ==
    /\ next_log_sequence \in Nat
    /\ logs \in Seq(Nat) /\ channel \in Seq(Nat)
    /\ capture \in [Stream -> {"reading", "numbered", "pushed"}]
    /\ line \in [Stream -> Nat]
    /\ skipped \in Nat

\* Until the tail is read, a line is in it, or has left it, before it is published.
TailComesFirst ==
    ~hydrated =>
        /\ published \subseteq Range(logs) \cup evicted
        /\ \A s \in Stream : capture[s] = "pushed" => line[s] \in Range(logs) \cup evicted

GapInv ==
    /\ LogTypes
    /\ hydrated => subscribed
    /\ TailComesFirst
    /\ HydrationClosesGap

\* What Append and Tail keep of the members of a sequence.
LEMMA AppendRange ==
    ASSUME NEW q \in Seq(Nat), NEW n \in Nat
    PROVE  Append(q, n) \in Seq(Nat) /\ Range(Append(q, n)) = Range(q) \cup {n}
<1> DEFINE a == Append(q, n)
<1>1. /\ a \in Seq(Nat) /\ Len(a) = Len(q) + 1
      /\ a[Len(q) + 1] = n /\ \A i \in 1..Len(q) : a[i] = q[i]
  OBVIOUS
<1>2. DOMAIN a = 1..Len(a) /\ DOMAIN q = 1..Len(q) /\ Len(q) \in Nat
  BY <1>1
<1> QED
  BY <1>1, <1>2 DEF Range

\* A sequence has the members of its tail, and its head.
LEMMA TailRange ==
    ASSUME NEW q \in Seq(Nat), q # << >>
    PROVE  /\ Head(q) \in Nat /\ Tail(q) \in Seq(Nat)
           /\ Range(q) = {Head(q)} \cup Range(Tail(q))
<1> DEFINE t == Tail(q)
<1>1. /\ t \in Seq(Nat) /\ Len(t) = Len(q) - 1 /\ Len(q) \in Nat \ {0}
      /\ Head(q) = q[1] /\ Head(q) \in Nat
      /\ \A i \in 1..Len(t) : t[i] = q[i + 1]
  OBVIOUS
<1>2. DOMAIN t = 1..Len(t) /\ DOMAIN q = 1..Len(q)
  BY <1>1
<1>3. \A i \in 1..Len(q) : i = 1 \/ (i - 1 \in 1..Len(t) /\ q[i] = t[i - 1])
  BY <1>1
<1>4. \A i \in 1..Len(t) : i + 1 \in 1..Len(q)
  BY <1>1
<1>5. ASSUME NEW n \in Range(q) PROVE n \in {Head(q)} \cup Range(t)
  <2>1. PICK i \in 1..Len(q) : n = q[i]
    BY <1>2, Zenon DEF Range
  <2>2. i = 1 \/ (i - 1 \in DOMAIN t /\ n = t[i - 1])
    BY <1>2, <1>3, <2>1, Zenon
  <2> QED
    BY <1>1, <2>1, <2>2, Zenon DEF Range
<1>6. Head(q) \in Range(q)
  BY <1>1, <1>2 DEF Range
<1>7. ASSUME NEW n \in Range(t) PROVE n \in Range(q)
  <2>1. PICK i \in 1..Len(t) : n = t[i]
    BY <1>2, Zenon DEF Range
  <2>2. n = q[i + 1] /\ i + 1 \in DOMAIN q
    BY <1>1, <1>2, <1>4, <2>1, Zenon
  <2> QED
    BY <2>2, Zenon DEF Range
<1> QED
  BY <1>1, <1>5, <1>6, <1>7, Zenon

\* A push keeps the older lines in the tail or counts them as evicted.
LEMMA PushKeeps ==
    ASSUME GapInv, NEW s \in Stream, Push(s)
    PROVE  /\ logs' \in Seq(Nat) /\ line[s] \in Range(logs')
           /\ evicted \subseteq evicted'
           /\ ~hydrated => Range(logs) \subseteq Range(logs') \cup evicted'
<1>1. logs \in Seq(Nat) /\ line[s] \in Nat
  BY Zenon DEF GapInv, LogTypes
<1>2. CASE Len(logs) = max_log_lines
  <2>1. logs # << >> /\ logs' = Append(Tail(logs), line[s])
    BY <1>1, <1>2, LogAssumption, Zenon DEF Push, Kept
  <2>2. Tail(logs) \in Seq(Nat)
    BY <1>1, <2>1, TailRange, Zenon
  <2> QED
    BY <1>1, <2>1, <2>2, AppendRange, Zenon DEF Push
<1>3. CASE Len(logs) # max_log_lines
  <2>1. logs' = Append(logs, line[s])
    BY <1>3, Zenon DEF Push, Kept
  <2> QED
    BY <1>1, <2>1, AppendRange, Zenon DEF Push
<1> QED
  BY <1>2, <1>3, Zenon

\* A subscribed consumer gets what is published, or is owed a warning.
LEMMA PublishKeeps ==
    ASSUME GapInv, NEW s \in Stream, Publish(s)
    PROVE  /\ channel' \in Seq(Nat) /\ skipped' \in Nat
           /\ ~subscribed => channel' = channel /\ skipped' = skipped
           /\ subscribed /\ skipped' = 0 =>
                /\ skipped = 0
                /\ Range(channel') = Range(channel) \cup {line[s]}
<1>1. channel \in Seq(Nat) /\ skipped \in Nat /\ line[s] \in Nat
  BY Zenon DEF GapInv, LogTypes
<1>2. CASE ~subscribed
  BY <1>1, <1>2, Zenon DEF Publish
<1>3. CASE subscribed /\ Len(channel) = event_capacity
  <2>1. channel # << >> /\ channel' = Append(Tail(channel), line[s]) /\ skipped' = skipped + 1
    BY <1>1, <1>3, LogAssumption, Zenon DEF Publish
  <2>2. Tail(channel) \in Seq(Nat)
    BY <1>1, <2>1, TailRange, Zenon
  <2>3. channel' \in Seq(Nat)
    BY <1>1, <2>1, <2>2, AppendRange, Zenon
  <2> QED
    BY <1>1, <1>3, <2>1, <2>3
<1>4. CASE subscribed /\ Len(channel) # event_capacity
  <2>1. channel' = Append(channel, line[s]) /\ skipped' = skipped
    BY <1>4, Zenon DEF Publish
  <2>2. channel' \in Seq(Nat) /\ Range(channel') = Range(channel) \cup {line[s]}
    BY <1>1, <2>1, AppendRange, Zenon
  <2> QED
    BY <1>1, <1>4, <2>1, <2>2, Zenon
<1> QED
  BY <1>2, <1>3, <1>4, Zenon

\* Both halves of capture_store keep the invariant: the push comes first.
LEMMA StoreKeeps ==
    ASSUME GapInv, NEW s \in Stream, capture_store(s)
    PROVE  GapInv'
<1> USE DEF readerVars
<1>1. LogTypes /\ (hydrated => subscribed) /\ TailComesFirst /\ HydrationClosesGap
  BY Zenon DEF GapInv
<1>2. CASE /\ capture[s] = "numbered" /\ capture' = [capture EXCEPT ![s] = "pushed"]
           /\ Push(s)
           /\ UNCHANGED <<next_log_sequence, line, channel, skipped, readerVars, published>>
  <2>1. /\ logs' \in Seq(Nat) /\ line[s] \in Range(logs')
        /\ evicted \subseteq evicted'
        /\ ~hydrated => Range(logs) \subseteq Range(logs') \cup evicted'
    BY <1>2, PushKeeps, Zenon
  <2>2. LogTypes'
    BY <1>1, <1>2, <2>1, Zenon DEF LogTypes
  <2>3. TailComesFirst'
    BY <1>1, <1>2, <2>1, Zenon DEF TailComesFirst, LogTypes
  <2>4. HydrationClosesGap'
    BY <1>1, <1>2, <2>1, Zenon DEF HydrationClosesGap
  <2> QED
    BY <1>1, <1>2, <2>2, <2>3, <2>4, Zenon DEF GapInv
<1>3. CASE /\ capture[s] = "pushed" /\ capture' = [capture EXCEPT ![s] = "reading"]
           /\ Publish(s)
           /\ UNCHANGED <<next_log_sequence, line, logs, readerVars, evicted>>
  <2>1. /\ channel' \in Seq(Nat) /\ skipped' \in Nat
        /\ subscribed /\ skipped' = 0 =>
                /\ skipped = 0
                /\ Range(channel') = Range(channel) \cup {line[s]}
    BY <1>3, PublishKeeps, Zenon
  <2>2. published' = published \cup {line[s]}
    BY <1>3, Zenon DEF Publish
  <2>3. LogTypes'
    BY <1>1, <1>3, <2>1, Zenon DEF LogTypes
  <2>4. TailComesFirst'
    BY <1>1, <1>3, <2>2, Zenon DEF TailComesFirst, LogTypes
  <2>5. HydrationClosesGap'
    BY <1>1, <1>3, <2>1, <2>2, Zenon DEF HydrationClosesGap
  <2> QED
    BY <1>1, <1>3, <2>3, <2>4, <2>5, Zenon DEF GapInv
<1> QED
  BY <1>2, <1>3, Zenon DEF capture_store

\* What the consumer receives moves from the channel to what it has seen; a
\* warning makes up for what it missed.
LEMMA RecvKeeps ==
    ASSUME GapInv, recv
    PROVE  GapInv'
<1>1. LogTypes /\ subscribed /\ hydrated /\ HydrationClosesGap
  BY Zenon DEF GapInv, recv
<1>2. /\ subscribed' = subscribed /\ hydrated' = hydrated
      /\ published' = published /\ evicted' = evicted
  BY Zenon DEF recv
<1>3. CASE skipped > 0 /\ skipped' = 0 /\ warned' = TRUE /\ UNCHANGED <<channel, seen>>
  BY <1>1, <1>2, <1>3 DEF recv, GapInv, LogTypes, TailComesFirst, HydrationClosesGap
<1>4. CASE /\ skipped = 0 /\ channel # << >>
           /\ seen' = seen \cup {Head(channel)} /\ channel' = Tail(channel)
           /\ UNCHANGED <<skipped, warned>>
  <2>1. channel' \in Seq(Nat) /\ Range(channel) = {Head(channel)} \cup Range(channel')
    BY <1>1, <1>4, TailRange, Zenon DEF LogTypes
  <2>2. HydrationClosesGap'
    BY <1>1, <1>2, <1>4, <2>1, Zenon DEF HydrationClosesGap
  <2> QED
    BY <1>1, <1>2, <1>4, <2>1, <2>2 DEF recv, GapInv, LogTypes, TailComesFirst
<1> QED
  BY <1>3, <1>4, Zenon DEF recv

(***************************************************************************)
(* For any number of streams and any bounds of the tail and the channel: a *)
(* consumer that subscribes and then reads the tail misses no published    *)
(* line in silence (services.rs, capture_logs, subscribe and logs).        *)
(***************************************************************************)
THEOREM GapIsClosed == LogSpec => []HydrationClosesGap
<1>1. LogInit => GapInv
  BY DEF LogInit, GapInv, LogTypes, TailComesFirst, HydrationClosesGap
<1>2. ASSUME GapInv, [LogNext]_logVars PROVE GapInv'
  <2>1. ASSUME NEW s \in Stream, capture_number(s) PROVE GapInv'
    BY <1>2, <2>1
    DEF capture_number, readerVars, GapInv, LogTypes, TailComesFirst, HydrationClosesGap
  <2>2. ASSUME NEW s \in Stream, capture_store(s) PROVE GapInv'
    BY <1>2, <2>2, StoreKeeps, Zenon
  <2>3. CASE subscribe
    BY <1>2, <2>3, Zenon DEF subscribe, GapInv, LogTypes, TailComesFirst, HydrationClosesGap
  <2>4. CASE read_logs
    BY <1>2, <2>4, Zenon DEF read_logs, GapInv, LogTypes, TailComesFirst, HydrationClosesGap
  <2>5. CASE recv
    BY <1>2, <2>5, RecvKeeps, Zenon
  <2>6. CASE UNCHANGED logVars
    BY <1>2, <2>6, Zenon DEF logVars, readerVars, GapInv, LogTypes, TailComesFirst, HydrationClosesGap
  <2> QED
    BY <1>2, <2>1, <2>2, <2>3, <2>4, <2>5, <2>6, Zenon DEF LogNext
<1>3. GapInv => HydrationClosesGap
  BY Zenon DEF GapInv
<1> QED
  BY <1>1, <1>2, <1>3, PTL DEF LogSpec

=============================================================================
