--------------------------- MODULE HostLifecycle ----------------------------
(***************************************************************************)
(* The life of runtimes in the registry of InProcessRuntimeClient          *)
(* (src/src/retained.rs: acquire, attach, dispose) and in the remote host  *)
(* above it (src/src/protocol_host.rs: the Acquire, Attach, StartTurn,     *)
(* Health and Dispose requests, the handles it keeps, the pump that copies *)
(* the events of a turn into the journal).                                 *)
(*                                                                         *)
(* A runtime is named by the acquire request that made it, a turn by the   *)
(* request that started it.  What happens inside one runtime is            *)
(* RetainedRuntime, what the journal keeps is EventJournal: here a journal *)
(* is the set of turns with events in it.  The host's lifecycle gate is a  *)
(* lock per runtime id: lifecycle_gate upgrades or replaces the weak       *)
(* reference under one write lock, so all who wait for or hold the gate of *)
(* an id share it.                                                         *)
(***************************************************************************)
EXTENDS Integers, FiniteSets

CONSTANTS
    Request,
    RuntimeId,
    Absent,
    Workload,       \* what the callers may ask for: an operation, an id and a way per request
    MaxDrops,       \* bound: futures the callers drop before they end
    max_runtimes

Operation == {"Acquire", "Attach", "StartTurn", "Health", "Dispose"}

\* `Absent` is no request, the limit is a usize, and the callers ask for operations
\* of the interface.  An id is used through the host or on the client, not both
\* ways, and a turn is started through the host.
ASSUME HostAssumption ==
    /\ Absent \notin Request /\ max_runtimes \in Nat
    /\ \A w \in Workload : \A r \in Request :
         /\ w[r][1] \in Operation /\ w[r][2] \in RuntimeId
         /\ w[r][3] = "client" => w[r][1] \in {"Acquire", "Dispose"}
         /\ \A q \in Request : w[r][2] = w[q][2] => (w[r][3] = "client" <=> w[q][3] = "client")

VARIABLES
    op,             \* what each request asks for,
    subject,        \* for which runtime id
    Direct,         \* and which of them are made on the client itself
    runtimes,       \* InProcessRuntimeClient::runtimes
    handles,        \* RemoteRuntimeHost::runtimes
    gate,           \* who holds the lifecycle gate of each id
    disposed,       \* runtimes with RuntimeEntry::disposed
    journal,        \* turns with events in the journal of each id
    pump,           \* the pump task of each turn
    ended,          \* turns whose provider has finished
    pc, held        \* each request, and the runtime it has in hand

hostLoad == <<op, subject, Direct>>

hostState == <<runtimes, handles, gate, disposed, journal, pump, ended, pc, held>>

hostVars == <<hostLoad, hostState>>

turnVars == <<journal, pump, ended>>

Over == {"done", "refused", "failed", "dropped"}

Registered == {i \in RuntimeId : runtimes[i] # Absent}

Live(e) == e \in Request /\ e \notin disposed

TurnsOf(e) == {s \in Request : held[s] = e /\ pump[s] # "none"}

\* RemoteRuntimeHost::active: the pumps that can be let go and aborted.
active == {s \in Request : pump[s] \in {"waiting", "pumping"} /\ pc[s] # "listing"}

Busy(e) == ~(TurnsOf(e) \subseteq ended)

Released(r) == [i \in RuntimeId |-> IF gate[i] = r THEN Absent ELSE gate[i]]

GoTo(r, next) == pc' = [pc EXCEPT ![r] = next]

\* The request answers, and its lifecycle guard is dropped.
Finish(r, answer) == GoTo(r, answer) /\ gate' = Released(r)

-----------------------------------------------------------------------------
HostInit ==
    /\ \E w \in Workload :
         /\ op = [r \in Request |-> w[r][1]]
         /\ subject = [r \in Request |-> w[r][2]]
         /\ Direct = {r \in Request : w[r][3] = "client"}
    /\ runtimes = [i \in RuntimeId |-> Absent]
    /\ handles = [i \in RuntimeId |-> Absent]
    /\ gate = [i \in RuntimeId |-> Absent]
    /\ disposed = {}
    /\ journal = [i \in RuntimeId |-> {}]
    /\ pump = [r \in Request |-> "none"]
    /\ ended = {}
    /\ pc = [r \in Request |-> "idle"]
    /\ held = [r \in Request |-> Absent]

(***************************************************************************)
(* Everything but Health, which reads without the gate, first takes it; a  *)
(* call on the client itself knows no gate.                                *)
(***************************************************************************)
Ungated(r) == r \in Direct \/ op[r] = "Health"

lifecycle_gate(r) ==
    /\ pc[r] = "idle"
    /\ \/ Ungated(r) /\ UNCHANGED gate
       \/ /\ ~Ungated(r)
          /\ gate[subject[r]] = Absent
          /\ gate' = [gate EXCEPT ![subject[r]] = r]
    /\ GoTo(r, "begun")
    /\ UNCHANGED <<runtimes, handles, disposed, turnVars, held>>

\* InProcessRuntimeClient::acquire: the check and the insertion share the write lock.
acquire(r) ==
    /\ pc[r] = "begun" /\ op[r] = "Acquire"
    /\ IF runtimes[subject[r]] # Absent \/ Cardinality(Registered) >= max_runtimes
       THEN Finish(r, "refused") /\ UNCHANGED <<runtimes, held>>
       ELSE /\ runtimes' = [runtimes EXCEPT ![subject[r]] = r]
            /\ held' = [held EXCEPT ![r] = r]
            /\ GoTo(r, IF r \in Direct THEN "done" ELSE "keeping")
            /\ UNCHANGED gate
    /\ UNCHANGED <<handles, disposed, turnVars>>

(***************************************************************************)
(* runtime_handle: the handle the host keeps, or one attached now and kept *)
(* in a later step.  The Attach request always attaches.                   *)
(***************************************************************************)
runtime_handle(r) ==
    /\ pc[r] = "begun" /\ op[r] \in {"Attach", "StartTurn", "Health"}
    /\ LET i == subject[r]
           kept == op[r] # "Attach" /\ handles[i] # Absent
       IN  \/ /\ kept
              /\ held' = [held EXCEPT ![r] = handles[i]]
              /\ IF op[r] = "Health" THEN Finish(r, "done") ELSE GoTo(r, "starting") /\ UNCHANGED gate
           \/ /\ ~kept /\ runtimes[i] # Absent
              /\ held' = [held EXCEPT ![r] = runtimes[i]]
              /\ GoTo(r, "keeping")
              /\ UNCHANGED gate
           \/ /\ ~kept /\ runtimes[i] = Absent
              /\ Finish(r, "refused")
              /\ UNCHANGED held
    /\ UNCHANGED <<runtimes, handles, disposed, turnVars>>

\* The handle goes into the host's map, over any other.
KeepHandle(r) ==
    /\ pc[r] = "keeping"
    /\ handles' = [handles EXCEPT ![subject[r]] = held[r]]
    /\ IF op[r] = "StartTurn" THEN GoTo(r, "starting") /\ UNCHANGED gate ELSE Finish(r, "done")
    /\ UNCHANGED <<runtimes, disposed, turnVars, held>>

(***************************************************************************)
(* start_turn on the runtime in hand: it may refuse (RetainedRuntime has   *)
(* the reasons), it must when the runtime is disposed of, and a turn still *)
(* running has handed over when it does not.  An accepted turn gets a      *)
(* spawned pump that waits until the acceptance has been sent.             *)
(***************************************************************************)
StartTurn(r) ==
    /\ pc[r] = "starting"
    /\ \/ Finish(r, "refused") /\ UNCHANGED <<pump, ended>>
       \/ /\ Live(held[r])
          /\ ended' = ended \cup TurnsOf(held[r])
          /\ pump' = [pump EXCEPT ![r] = "waiting"]
          /\ GoTo(r, "listing") /\ UNCHANGED gate
    /\ UNCHANGED <<runtimes, handles, disposed, journal, held>>

ListPumpLocked(r) ==
    /\ pc[r] = "listing"
    /\ GoTo(r, "answering")
    /\ UNCHANGED <<runtimes, handles, gate, disposed, turnVars, held>>

\* Once the lock of RemoteRuntimeHost::active is there, the pump is entered in it.
ListPump(r) ==
    /\ pc[r] = "listing"
    /\ Finish(r, "answering")
    /\ UNCHANGED <<runtimes, handles, disposed, turnVars, held>>

\* The acceptance was sent, or could not be; the pump may go.
release_turn_pump(r) ==
    /\ pc[r] = "answering"
    /\ pump' = [pump EXCEPT ![r] = IF @ = "waiting" THEN "pumping" ELSE @]
    /\ GoTo(r, "done")
    /\ UNCHANGED <<runtimes, handles, gate, disposed, journal, ended, held>>

-----------------------------------------------------------------------------
\* The pump appends an event of its turn to the journal of the runtime id.
PumpAppend(s) ==
    /\ pump[s] \in {"pumping", "loose"}
    /\ s \notin journal[subject[s]]
    /\ journal' = [journal EXCEPT ![subject[s]] = @ \cup {s}]
    /\ UNCHANGED <<runtimes, handles, gate, disposed, pump, ended, pc, held>>

\* The provider finishes the turn (external).
TurnEnds(s) ==
    /\ pump[s] \in {"waiting", "pumping", "loose"}
    /\ s \notin ended
    /\ ended' = ended \cup {s}
    /\ UNCHANGED <<runtimes, handles, gate, disposed, journal, pump, pc, held>>

\* The stream, which ends in a terminal event, is drained and the completion awaited.
PumpEnds(s) ==
    /\ pump[s] \in {"pumping", "loose"}
    /\ s \in ended /\ s \in journal[subject[s]]
    /\ pump' = [pump EXCEPT ![s] = IF @ = "loose" THEN "gone" ELSE "stopped"]
    /\ UNCHANGED <<runtimes, handles, gate, disposed, journal, ended, pc, held>>

-----------------------------------------------------------------------------
\* InProcessRuntimeClient::dispose looks the runtime up under the read lock.
DisposeLookup(r) ==
    /\ pc[r] = "begun" /\ op[r] = "Dispose"
    /\ held' = [held EXCEPT ![r] = runtimes[subject[r]]]
    /\ \/ /\ runtimes[subject[r]] # Absent
          /\ GoTo(r, "found")
       \/ /\ runtimes[subject[r]] = Absent
          /\ GoTo(r, IF r \in Direct THEN "done" ELSE "sweeping")
    /\ UNCHANGED <<runtimes, handles, gate, disposed, turnVars>>

\* RuntimeEntry::dispose marks the runtime and cancels its turn ...
DisposeMark(r) ==
    /\ pc[r] = "found"
    /\ disposed' = disposed \cup {held[r]}
    /\ GoTo(r, "cancelling")
    /\ UNCHANGED <<runtimes, handles, gate, turnVars, held>>

\* ... and waits for its end, which may not be confirmed in time.
DisposeConfirm(r) ==
    /\ pc[r] = "cancelling"
    /\ \/ ~Busy(held[r]) /\ GoTo(r, "confirmed")
       \/ GoTo(r, "unconfirmed")
    /\ UNCHANGED <<runtimes, handles, gate, disposed, turnVars, held>>

(***************************************************************************)
(* Whatever became of it, and whatever is registered by now, the id leaves *)
(* the registry.  A failure ends the host's request here.                  *)
(***************************************************************************)
DisposeRemove(r) ==
    /\ pc[r] \in {"confirmed", "unconfirmed"}
    /\ runtimes' = [runtimes EXCEPT ![subject[r]] = Absent]
    /\ IF pc[r] = "unconfirmed" THEN Finish(r, "failed")
       ELSE GoTo(r, IF r \in Direct THEN "done" ELSE "sweeping") /\ UNCHANGED gate
    /\ UNCHANGED <<handles, disposed, turnVars, held>>

SweepNothing(r) ==
    /\ pc[r] = "sweeping"
    /\ GoTo(r, "clearing")
    /\ UNCHANGED <<runtimes, handles, gate, disposed, turnVars, held>>

\* The host's dispose_runtime aborts the active pumps of the id and waits for them.
DisposeSweep(r) ==
    /\ pc[r] = "sweeping"
    /\ pump' = [s \in Request |->
                 IF subject[s] = subject[r] /\ s \in active THEN "stopped" ELSE pump[s]]
    /\ GoTo(r, "clearing")
    /\ UNCHANGED <<runtimes, handles, gate, disposed, journal, ended, held>>

\* Then it forgets the handle and the journal.
DisposeClear(r) ==
    /\ pc[r] = "clearing"
    /\ handles' = [handles EXCEPT ![subject[r]] = Absent]
    /\ journal' = [journal EXCEPT ![subject[r]] = {}]
    /\ Finish(r, "done")
    /\ UNCHANGED <<runtimes, disposed, pump, ended, held>>

(***************************************************************************)
(* The caller drops the future of its request between two of these steps.  *)
(* While the pump is not in `active` yet, this lets go of the only handle  *)
(* to its task and of the sender it waits for: it runs, and nobody can     *)
(* stop it.                                                                *)
(***************************************************************************)
DropRequest(r) ==
    /\ Cardinality({q \in Request : pc[q] = "dropped"}) < MaxDrops
    /\ pc[r] \notin Over \cup {"idle"}
    /\ Finish(r, "dropped")
    /\ pump' = [pump EXCEPT ![r] = IF pc[r] = "listing" THEN "loose" ELSE @]
    /\ UNCHANGED <<runtimes, handles, disposed, journal, ended, held>>

-----------------------------------------------------------------------------
RequestStep(r) ==
    \/ lifecycle_gate(r)
    \/ acquire(r) \/ runtime_handle(r) \/ KeepHandle(r)
    \/ StartTurn(r) \/ ListPump(r) \/ release_turn_pump(r)
    \/ DisposeLookup(r) \/ DisposeMark(r) \/ DisposeConfirm(r)
    \/ DisposeRemove(r) \/ DisposeSweep(r) \/ DisposeClear(r)

TurnStep(s) == PumpAppend(s) \/ TurnEnds(s) \/ PumpEnds(s)

HostNext ==
    /\ \E r \in Request : RequestStep(r) \/ DropRequest(r) \/ TurnStep(r)
    /\ UNCHANGED hostLoad

HostSpec == HostInit /\ [][HostNext]_hostVars

-----------------------------------------------------------------------------
(***************************************************************************)
(* RetainedRuntimeLimits::max_runtimes: runtimes that were acquired and    *)
(* not yet disposed of are never more than the limit, whatever requests    *)
(* are dropped or fail.  On the client itself, where no gate orders them,  *)
(* it takes that no two disposals have looked up the same runtime.         *)
(***************************************************************************)
CapacityHeld ==
    (\A r, q \in Direct : op[r] = "Dispose" /\ op[q] = "Dispose" /\ held[r] = held[q] => r = q \/ held[r] = Absent)
      => Cardinality({e \in Request : op[e] = "Acquire" /\ held[e] = e /\ Live(e)}) <= max_runtimes

\* No dispose request for the id was dropped or failed.
Undisturbed(i) ==
    \A r \in Request : op[r] = "Dispose" /\ subject[r] = i => pc[r] \notin {"failed", "dropped"}

(***************************************************************************)
(* dispose_runtime stops the pump before it removes the journal: events of *)
(* a turn of one runtime are never in the journal of the runtime that      *)
(* reuses its id.  It takes a dispose that neither fails nor is dropped,   *)
(* and a turn whose StartTurn request was not dropped between the spawn of *)
(* the pump and its entry in `active`.                                     *)
(***************************************************************************)
OldEventsStayOut ==
    \A i \in RuntimeId :
      Undisturbed(i) /\ Live(runtimes[i]) =>
        \A s \in journal[i] : held[s] = runtimes[i] \/ pump[s] \in {"loose", "gone"}

\* No Health request, which has no gate, went on to keep a handle for the id.
HealthKeptNothing(i) ==
    \A r \in Request : op[r] = "Health" /\ subject[r] = i => pc[r] \in {"idle", "begun", "refused"}

(***************************************************************************)
(* A StartTurn request that has its handle (runtime_handle) is about to    *)
(* use the runtime that is registered for the id, never a predecessor of   *)
(* it, as long as the disposals of the id ran to their end and no Health   *)
(* request stored a handle beside them.                                    *)
(***************************************************************************)
StartReachesCurrent ==
    \A r \in Request :
      LET i == subject[r]
      IN  pc[r] = "starting" /\ Undisturbed(i) /\ HealthKeptNothing(i) /\ Live(runtimes[i])
            => held[r] = runtimes[i]

\* Every request is answered or dropped: no two of them wait for each other's gate.
EveryRequestEnds ==
    \A r \in Request : <>(pc[r] \in Over)

(***************************************************************************)
(* release_turn_pump: the pump of a turn that was started is let go, or    *)
(* stopped by a disposal, by the end of its request, whether the answer    *)
(* could be sent or not, unless the request's future is dropped.           *)
(***************************************************************************)
PumpsAreReleased == \A s \in Request : pc[s] \in Over \ {"dropped"} => pump[s] # "waiting"

\* A runtime never meets the turns or the events of the one that had its id before,
\* there are no more of them than the limit, and the events of a turn that was
\* started are let into the journal.
RuntimesAreSound == OldEventsStayOut /\ StartReachesCurrent /\ CapacityHeld /\ PumpsAreReleased

=============================================================================
