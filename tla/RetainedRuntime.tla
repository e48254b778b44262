-------------------------- MODULE RetainedRuntime ---------------------------
(***************************************************************************)
(* One retained runtime of the in-process client (RuntimeEntry in          *)
(* src/src/retained.rs): concurrent calls of start_turn, the task each     *)
(* admitted call spawns, messages into the running invocation,             *)
(* interruptions and disposals.                                            *)
(*                                                                         *)
(* Each section under the entry's state lock is one action, except the     *)
(* delivery of a message, which awaits the executor while it holds the     *)
(* lock.  The executor is external: it runs a turn, announces the provider *)
(* session, may agree to hand its process over, and ends.  A timeout is a  *)
(* step that may happen at any time.                                       *)
(***************************************************************************)
EXTENDS Integers, FiniteSets, Sequences, OrderDeque

CONSTANTS
    Call,           \* calls of start_turn
    InvocationId,
    Sender,         \* calls of TurnMessageHandle::send or read_now
    Interrupter,    \* calls of TurnInterruptHandle::interrupt
    Disposer,       \* calls of RuntimeEntry::dispose
    Nobody,
    invocation,     \* the invocation id of each call
    Kinds,          \* the kinds the calls may have: a RuntimeInvocationKind for each,
                    \* "None" for a call that is not made
    addressee,      \* the call whose TurnHandle a sender or an interrupter uses
    RECENT_INVOCATION_CAPACITY

ASSUME RuntimeAssumption ==
    /\ invocation \in [Call -> InvocationId]
    /\ Kinds \subseteq [Call -> {"None", "Turn", "Continuation", "ManualCompaction"}]
    /\ addressee \in [Sender \cup Interrupter -> Call]
    /\ RECENT_INVOCATION_CAPACITY \in Nat \ {0}
    /\ Nobody \notin Call \cup Sender
    /\ Sender \cap Interrupter = {}

VARIABLES
    kind,           \* the RuntimeInvocationKind of each call, fixed at the start
    disposed,       \* RuntimeEntry::disposed
    status,         \* EntryState::status
    session,        \* EntryState::provider_session_id: the call that opened it
    active,         \* EntryState::active
    recent,         \* EntryState::recent_invocations
    recent_order,   \* EntryState::recent_invocation_order
    holder,         \* the sender that holds the state lock across an await
    pc,             \* where each call, and then its task, is
    attempted,      \* calls with handoff_attempted
    accepted,       \* calls with handoff_accepted
    yielding,       \* calls whose executor agreed to hand over
    cancelled,      \* calls whose CancellationToken was cancelled
    resumed,        \* the session a call was admitted with
    announced,      \* the session its provider announced
    result,         \* the result of its executor
    istep,          \* each interrupter
    mstep, took,    \* each sender, and the call that took its message
    dstep, target   \* each disposer, and the call whose end it awaits

entryVars == <<disposed, status, session, active, recent, recent_order>>

callVars == <<pc, attempted, accepted, resumed, announced, result>>

vars == <<entryVars, holder, callVars, yielding, cancelled, istep, mstep, took, dstep, target>>

\* The task of an admitted call up to released.complete, and after it.
HoldingSteps == {"launching", "executing", "executed", "recorded"}

ReleasedSteps == {"delivering", "delivered", "settled", "ended"}

Holding(c) == pc[c] \in HoldingSteps

Released(c) == pc[c] \in ReleasedSteps

Admitted(c) == Holding(c) \/ Released(c)

Owns(c) == active # Nobody /\ invocation[active] = invocation[c]

-----------------------------------------------------------------------------
Init ==
    /\ kind \in Kinds
    /\ disposed = FALSE
    /\ status = "Ready"
    /\ session = Nobody
    /\ active = Nobody
    /\ recent = {}
    /\ recent_order = <<>>
    /\ holder = Nobody
    /\ pc = [c \in Call |-> "starting"]
    /\ attempted = {} /\ accepted = {} /\ yielding = {} /\ cancelled = {}
    /\ resumed = [c \in Call |-> Nobody]
    /\ announced = [c \in Call |-> Nobody]
    /\ result = [c \in Call |-> "None"]
    /\ istep = [i \in Interrupter |-> "idle"]
    /\ mstep = [s \in Sender |-> "idle"]
    /\ took = [s \in Sender |-> Nobody]
    /\ dstep = [d \in Disposer |-> "idle"]
    /\ target = [d \in Disposer |-> Nobody]

Goto(c, step) == pc' = [pc EXCEPT ![c] = step]

\* validate_input and the check of `disposed` before the lock.
Validate(c) ==
    /\ pc[c] = "starting" /\ kind[c] # "None"
    /\ \/ Goto(c, "rejected")
       \/ ~disposed /\ Goto(c, "admitting")
    /\ UNCHANGED <<entryVars, holder, attempted, accepted, resumed, announced, result, yielding,
                   cancelled, istep, mstep, took, dstep, target>>

HandedOff(c) == c \in accepted /\ active # Nobody /\ Released(active)

Occupied(c) == active # Nobody /\ ~HandedOff(c)

\* The state lock is free and the admission loop of a call may enter.
Entering(c) == pc[c] = "admitting" /\ holder = Nobody

\* RuntimeDisposed, InvocationAlreadyExists, RuntimeBusy, or a manual
\* compaction without a session.
Refuse(c) ==
    /\ Entering(c)
    /\ \/ disposed
       \/ invocation[c] \in recent
       \/ Occupied(c) /\ (c \in attempted \/ kind[c] # "Turn")
       \/ ~Occupied(c) /\ kind[c] = "ManualCompaction" /\ session = Nobody
    /\ Goto(c, "rejected")
    /\ UNCHANGED <<entryVars, holder, attempted, accepted, resumed, announced, result, yielding,
                   cancelled, istep, mstep, took, dstep, target>>

RequestHandoff(c) ==
    /\ Entering(c)
    /\ ~disposed
    /\ invocation[c] \notin recent
    /\ Occupied(c) /\ c \notin attempted /\ kind[c] = "Turn"
    /\ attempted' = attempted \cup {c}
    /\ Goto(c, "requesting")
    /\ UNCHANGED <<entryVars, holder, accepted, resumed, announced, result, yielding,
                   cancelled, istep, mstep, took, dstep, target>>

\* RuntimeTurnExecutor::request_retained_handoff: an executing turn commits to
\* completing, once, or the request is turned down.
HandoffDecision(c) ==
    /\ pc[c] = "requesting"
    /\ \/ /\ Goto(c, "admitting")
          /\ UNCHANGED <<accepted, yielding>>
       \/ \E v \in Call \ yielding :
            /\ pc[v] = "executing"
            /\ yielding' = yielding \cup {v}
            /\ accepted' = accepted \cup {c}
            /\ Goto(c, "awaiting")
    /\ UNCHANGED <<entryVars, holder, attempted, resumed, announced, result, cancelled, istep,
                   mstep, took, dstep, target>>

\* The previous turn was released, or INTERRUPT_CONFIRMATION_TIMEOUT elapsed.
AwaitReleased(c) ==
    /\ pc[c] = "awaiting"
    /\ Goto(c, "admitting")
    /\ UNCHANGED <<entryVars, holder, attempted, accepted, resumed, announced, result, yielding,
                   cancelled, istep, mstep, took, dstep, target>>

\* Mutant: `disposed` is not checked again under the lock.
AdmitDisposed(c) ==
    LET pushed == Append(recent_order, invocation[c])
    IN  /\ Entering(c)
        /\ invocation[c] \notin recent
        /\ ~Occupied(c)
        /\ kind[c] = "ManualCompaction" => session # Nobody
        /\ status' = "Busy"
        /\ active' = c
        /\ recent' = (recent \cup {invocation[c]}) \ Popped(pushed, RECENT_INVOCATION_CAPACITY)
        /\ recent_order' = Trimmed(pushed, RECENT_INVOCATION_CAPACITY)
        /\ resumed' = [resumed EXCEPT ![c] = session]
        /\ Goto(c, "launching")
        /\ UNCHANGED <<disposed, session, holder, attempted, accepted, announced, result, yielding,
                       cancelled, istep, mstep, took, dstep, target>>

Admit(c) ==
    LET pushed == Append(recent_order, invocation[c])
    IN  /\ Entering(c)
        /\ ~disposed
        /\ invocation[c] \notin recent
        /\ ~Occupied(c)
        /\ kind[c] = "ManualCompaction" => session # Nobody
        /\ status' = "Busy"
        /\ active' = c
        /\ recent' = (recent \cup {invocation[c]}) \ Popped(pushed, RECENT_INVOCATION_CAPACITY)
        /\ recent_order' = Trimmed(pushed, RECENT_INVOCATION_CAPACITY)
        /\ resumed' = [resumed EXCEPT ![c] = session]
        /\ Goto(c, "launching")
        /\ UNCHANGED <<disposed, session, holder, attempted, accepted, announced, result, yielding,
                       cancelled, istep, mstep, took, dstep, target>>

start_turn(c) ==
    Validate(c) \/ Refuse(c) \/ RequestHandoff(c) \/ HandoffDecision(c) \/ AwaitReleased(c) \/ Admit(c)

-----------------------------------------------------------------------------
(* The task of an admitted call.                                           *)

\* InvocationStarted (and CompactionStarted) is emitted and the executor runs,
\* or the event receiver is gone and the executor never does.
Launch(c) ==
    /\ pc[c] = "launching"
    /\ \/ Goto(c, "executing") /\ UNCHANGED result
       \/ Goto(c, "executed") /\ result' = [result EXCEPT ![c] = "Broken"]
    /\ UNCHANGED <<entryVars, holder, attempted, accepted, resumed, announced, yielding, cancelled,
                   istep, mstep, took, dstep, target>>

\* The provider announces the session it resumed, or the one it opened.
Announce(c) ==
    /\ pc[c] = "executing"
    /\ announced[c] = Nobody
    /\ announced' = [announced EXCEPT ![c] = IF resumed[c] = Nobody THEN c ELSE resumed[c]]
    /\ UNCHANGED <<entryVars, holder, pc, attempted, accepted, resumed, result, yielding, cancelled,
                   istep, mstep, took, dstep, target>>

\* The executor returns: "Broken" stands for the failure kinds that degrade the
\* runtime, "Finished" for a success and every other failure.
Execute(c) ==
    /\ pc[c] = "executing"
    /\ \E r \in {"Finished", "Broken"} \cup (IF c \in cancelled THEN {"Cancelled"} ELSE {}) :
          result' = [result EXCEPT ![c] = r]
    /\ Goto(c, "executed")
    /\ UNCHANGED <<entryVars, holder, attempted, accepted, resumed, announced, yielding, cancelled,
                   istep, mstep, took, dstep, target>>

\* Mutant: the session is only recorded when the turn succeeded.
RecordOnSuccess(c) ==
    /\ pc[c] = "executed"
    /\ holder = Nobody
    /\ session' = IF Owns(c) /\ announced[c] # Nobody /\ result[c] = "Finished"
                THEN announced[c] ELSE session
    /\ Goto(c, "recorded")
    /\ UNCHANGED <<disposed, status, active, recent, recent_order, holder, attempted, accepted,
                   resumed, announced, result, yielding, cancelled, istep, mstep, took, dstep, target>>

Record(c) ==
    /\ pc[c] = "executed"
    /\ holder = Nobody
    /\ session' = IF Owns(c) /\ announced[c] # Nobody THEN announced[c] ELSE session
    /\ Goto(c, "recorded")
    /\ UNCHANGED <<disposed, status, active, recent, recent_order, holder, attempted, accepted,
                   resumed, announced, result, yielding, cancelled, istep, mstep, took, dstep, target>>

Release(c) ==
    /\ pc[c] = "recorded"
    /\ Goto(c, "delivering")
    /\ UNCHANGED <<entryVars, holder, attempted, accepted, resumed, announced, result, yielding,
                   cancelled, istep, mstep, took, dstep, target>>

\* The open compaction is closed and the terminal event sent, however long the
\* application takes to read it; a dropped event receiver turns a success into
\* an indeterminate failure.
Deliver(c) ==
    /\ pc[c] = "delivering"
    /\ \/ UNCHANGED result
       \/ result[c] = "Finished" /\ result' = [result EXCEPT ![c] = "Broken"]
    /\ Goto(c, "delivered")
    /\ UNCHANGED <<entryVars, holder, attempted, accepted, resumed, announced, yielding, cancelled,
                   istep, mstep, took, dstep, target>>

\* The status of a runtime whose active turn has ended.
StatusAfter(c) ==
    IF disposed THEN "Stopped" ELSE IF result[c] = "Broken" THEN "Degraded" ELSE "Ready"

Settle(c) ==
    /\ pc[c] = "delivered"
    /\ holder = Nobody
    /\ IF Owns(c)
       THEN active' = Nobody /\ status' = StatusAfter(c)
       ELSE UNCHANGED <<active, status>>
    /\ Goto(c, "settled")
    /\ UNCHANGED <<disposed, session, recent, recent_order, holder, attempted, accepted, resumed,
                   announced, result, yielding, cancelled, istep, mstep, took, dstep, target>>

Complete(c) ==
    /\ pc[c] = "settled"
    /\ Goto(c, "ended")
    /\ UNCHANGED <<entryVars, holder, attempted, accepted, resumed, announced, result, yielding,
                   cancelled, istep, mstep, took, dstep, target>>

TaskStep(c) ==
    Launch(c) \/ Execute(c) \/ Record(c) \/ Release(c) \/ Deliver(c) \/ Settle(c) \/ Complete(c)

-----------------------------------------------------------------------------
(* TurnInterruptHandle::interrupt.                                         *)

Interrupt(i) ==
    LET c == addressee[i]
    IN  /\ istep[i] = "idle" /\ Admitted(c)
        /\ IF disposed \/ pc[c] = "ended"
           THEN /\ istep' = [istep EXCEPT ![i] = IF disposed THEN "RuntimeDisposed" ELSE "AlreadyFinished"]
                /\ UNCHANGED cancelled
           ELSE /\ istep' = [istep EXCEPT ![i] = "confirming"]
                /\ cancelled' = cancelled \cup {c}
        /\ UNCHANGED <<entryVars, holder, callVars, yielding, mstep, took, dstep, target>>

\* The terminal signal, or INTERRUPT_CONFIRMATION_TIMEOUT.
ConfirmInterrupt(i) ==
    LET c == addressee[i]
    IN  /\ istep[i] = "confirming"
        /\ istep' = [istep EXCEPT ![i] = IF pc[c] # "ended" THEN "Unconfirmed"
                                         ELSE IF result[c] = "Cancelled" THEN "Interrupted"
                                         ELSE "AlreadyFinished"]
        /\ UNCHANGED <<entryVars, holder, callVars, yielding, cancelled, mstep, took, dstep, target>>

(* InProcessTurnMessages: the lock is held until the executor has taken    *)
(* the message or not.                                                     *)

Send(s) ==
    LET c == addressee[s]
    IN  /\ mstep[s] = "idle" /\ Admitted(c)
        /\ holder = Nobody
        /\ IF ~disposed /\ Owns(c) /\ ~Released(active)
           THEN mstep' = [mstep EXCEPT ![s] = "sending"] /\ holder' = s
           ELSE mstep' = [mstep EXCEPT ![s] = "refused"] /\ UNCHANGED holder
        /\ UNCHANGED <<entryVars, callVars, yielding, cancelled, istep, took, dstep, target>>

\* Mutant: a message that was not taken leaves the lock held.
SendEndKeepsLock(s) ==
    /\ mstep[s] = "sending"
    /\ \/ \E v \in Call :
            /\ pc[v] = "executing"
            /\ took' = [took EXCEPT ![s] = v]
            /\ mstep' = [mstep EXCEPT ![s] = "delivered"]
       \/ mstep' = [mstep EXCEPT ![s] = "refused"] /\ UNCHANGED took
    /\ holder' = IF mstep'[s] = "delivered" THEN Nobody ELSE holder
    /\ UNCHANGED <<entryVars, callVars, yielding, cancelled, istep, dstep, target>>

\* The executor writes the message into the turn that drives the process, or
\* reports NotAccepting, Withdrawn or an error.
SendEnd(s) ==
    /\ mstep[s] = "sending"
    /\ \/ \E v \in Call :
            /\ pc[v] = "executing"
            /\ took' = [took EXCEPT ![s] = v]
            /\ mstep' = [mstep EXCEPT ![s] = "delivered"]
       \/ mstep' = [mstep EXCEPT ![s] = "refused"] /\ UNCHANGED took
    /\ holder' = IF holder = s THEN Nobody ELSE holder
    /\ UNCHANGED <<entryVars, callVars, yielding, cancelled, istep, dstep, target>>

-----------------------------------------------------------------------------
(* RuntimeEntry::dispose.                                                  *)

MarkDisposed(d) ==
    /\ dstep[d] = "idle"
    /\ disposed' = TRUE
    /\ dstep' = [dstep EXCEPT ![d] = "marked"]
    /\ UNCHANGED <<status, session, active, recent, recent_order, holder, callVars, yielding,
                   cancelled, istep, mstep, took, target>>

CancelActive(d) ==
    /\ dstep[d] = "marked"
    /\ holder = Nobody
    /\ target' = [target EXCEPT ![d] = active]
    /\ IF active # Nobody
       THEN /\ cancelled' = cancelled \cup {active}
            /\ status' = "Stopping"
            /\ dstep' = [dstep EXCEPT ![d] = "confirming"]
       ELSE /\ status' = "Stopped"
            /\ dstep' = [dstep EXCEPT ![d] = "confirmed"]
            /\ UNCHANGED cancelled
    /\ UNCHANGED <<disposed, session, active, recent, recent_order, holder, callVars, yielding,
                   istep, mstep, took>>

\* The active turn's terminal signal, or INTERRUPT_CONFIRMATION_TIMEOUT.
ConfirmEnd(d) ==
    /\ dstep[d] = "confirming"
    /\ dstep' = [dstep EXCEPT ![d] = IF pc[target[d]] = "ended" THEN "confirmed" ELSE "unconfirmed"]
    /\ UNCHANGED <<entryVars, holder, callVars, yielding, cancelled, istep, mstep, took, target>>

\* dispose_retained of the executor, which may fail.
Cleanup(d) ==
    /\ dstep[d] \in {"confirmed", "unconfirmed"}
    /\ \/ dstep[d] = "confirmed" /\ dstep' = [dstep EXCEPT ![d] = "disposed"]
       \/ dstep' = [dstep EXCEPT ![d] = "failed"]
    /\ UNCHANGED <<entryVars, holder, callVars, yielding, cancelled, istep, mstep, took, target>>

dispose(d) == MarkDisposed(d) \/ CancelActive(d) \/ ConfirmEnd(d) \/ Cleanup(d)

Next ==
    /\ \/ \E c \in Call : start_turn(c) \/ TaskStep(c) \/ Announce(c)
       \/ \E i \in Interrupter : Interrupt(i) \/ ConfirmInterrupt(i)
       \/ \E s \in Sender : Send(s) \/ SendEnd(s)
       \/ \E d \in Disposer : dispose(d)
    /\ UNCHANGED kind

Spec == Init /\ [][Next]_<<vars, kind>>

-----------------------------------------------------------------------------
TypeOK ==
    /\ disposed \in BOOLEAN
    /\ status \in {"Ready", "Busy", "Degraded", "Stopping", "Stopped"}
    /\ session \in Call \cup {Nobody}
    /\ active \in Call \cup {Nobody}
    /\ recent \in SUBSET InvocationId
    /\ recent_order \in Seq(InvocationId)
    /\ holder \in Sender \cup {Nobody}
    /\ pc \in [Call -> {"starting", "admitting", "requesting", "awaiting", "rejected"}
                       \cup HoldingSteps \cup ReleasedSteps]
    /\ attempted \in SUBSET Call
    /\ accepted \in SUBSET Call
    /\ yielding \in SUBSET Call
    /\ cancelled \in SUBSET Call
    /\ resumed \in [Call -> Call \cup {Nobody}]
    /\ announced \in [Call -> Call \cup {Nobody}]
    /\ result \in [Call -> {"None", "Finished", "Broken", "Cancelled"}]
    /\ istep \in [Interrupter -> {"idle", "confirming", "Interrupted", "AlreadyFinished", "Unconfirmed",
                                  "RuntimeDisposed"}]
    /\ mstep \in [Sender -> {"idle", "sending", "delivered", "refused"}]
    /\ took \in [Sender -> Call \cup {Nobody}]
    /\ dstep \in [Disposer -> {"idle", "marked", "confirming", "confirmed", "unconfirmed",
                               "disposed", "failed"}]
    /\ target \in [Disposer -> Call \cup {Nobody}]

\* At most one call holds the provider process, and it is the active one: a
\* hand-off admits the next turn only after the executor of the previous one
\* returned, though its completion may come much later.
OneOwner == \A c \in Call : Holding(c) => active = c

\* The health report follows the active turn: a late completion of a turn that
\* was handed off does not report the runtime idle under its successor, and a
\* stopped runtime does not come back.
StatusFollowsOwner ==
    /\ TypeOK
    /\ active = Nobody <=> status \in {"Ready", "Degraded", "Stopped"}
    /\ (\E c \in Call : Holding(c)) => status \in {"Busy", "Stopping"}
    /\ (\E d \in Disposer : dstep[d] \notin {"idle", "marked"}) => status \in {"Stopping", "Stopped"}

\* When a disposal reports success, no executor of the runtime runs any more,
\* whichever turns were admitted or handed off while it began.
DisposedIsQuiet ==
    \A d \in Disposer : dstep[d] = "disposed" => \A c \in Call : ~Holding(c)

\* All turns of a runtime continue one provider session: whatever a turn
\* announced is recorded before the next one is admitted, also after a failure,
\* an interruption or a hand-off.
OneConversation ==
    \A c, e \in Call : announced[c] # Nobody /\ announced[e] # Nobody => announced[c] = announced[e]

\* A message is written into the invocation it was addressed to, or into none.
MessageReachesAddressee ==
    \A s \in Sender : took[s] # Nobody => took[s] = addressee[s]

\* All turns of a runtime continue one provider session, at most one call holds
\* the process, a disposal that reports success leaves no executor running, the
\* health report is of the active turn, and a message is written into the turn it
\* was addressed to or into none.
ConversationIsKept ==
    /\ OneConversation /\ OneOwner /\ DisposedIsQuiet /\ StatusFollowsOwner
    /\ MessageReachesAddressee

\* The state of the abstract ownership of the process (TurnOwnership); the
\* abstract stop is the moment a disposal has passed the state lock.
ProcessOwner == IF \E c \in Call : Holding(c) THEN CHOOSE c \in Call : Holding(c) ELSE Nobody

PastOwners == {c \in Call : Released(c)}

OwnershipStopped == \E d \in Disposer : dstep[d] \notin {"idle", "marked"}

Ownership == INSTANCE TurnOwnership WITH
    owner <- ProcessOwner, past <- PastOwners, stopped <- OwnershipStopped

\* The runtime implements the abstract ownership of its process: one call at a
\* time, never again after it gave the process up, and nobody after the stop.
ImplementsOwnership == Ownership!Spec

Steps ==
    \/ \E c \in Call : start_turn(c) \/ TaskStep(c)
    \/ \E i \in Interrupter : ConfirmInterrupt(i)
    \/ \E s \in Sender : SendEnd(s)
    \/ \E d \in Disposer : CancelActive(d) \/ ConfirmEnd(d) \/ Cleanup(d)

\* Neither a hand-off, nor a message that holds the lock, nor a disposal leaves
\* another waiting: when no step of the runtime itself is possible, every call of
\* start_turn was refused or its turn has ended, and every disposal that began
\* has returned.
NobodyWaits ==
    ~ENABLED Steps =>
        /\ \A c \in Call : kind[c] # "None" => pc[c] \in {"rejected", "ended"}
        /\ \A d \in Disposer : dstep[d] \in {"idle", "disposed", "failed"}

=============================================================================
