------------------------ MODULE HostLifecycleProofs -------------------------
(***************************************************************************)
(* The runtimes of a protocol host are sound for any requests on any       *)
(* number of ids, any of them dropped or failing, and any limit.           *)
(***************************************************************************)
EXTENDS HostLifecycle, FiniteSetTheorems, TLAPS

-----------------------------------------------------------------------------
\* What HostAssumption makes of the workload that was chosen.
LoadFits ==
    /\ op \in [Request -> Operation] /\ subject \in [Request -> RuntimeId] /\ Direct \subseteq Request
    /\ \A r \in Direct : op[r] \in {"Acquire", "Dispose"}
    /\ \A r, q \in Request : subject[r] = subject[q] /\ r \in Direct => q \in Direct

\* The steps of a disposal before and after the runtime leaves the registry.
Disposing == {"found", "cancelling", "confirmed", "unconfirmed"}

Cleaning == {"sweeping", "clearing"}

Place == {"idle", "begun", "keeping", "starting", "listing", "answering"} \cup Disposing \cup Cleaning \cup Over

Pump == {"none", "waiting", "pumping", "stopped", "loose", "gone"}

Types ==
    /\ runtimes \in [RuntimeId -> Request \cup {Absent}]
    /\ handles \in [RuntimeId -> Request \cup {Absent}]
    /\ gate \in [RuntimeId -> Request \cup {Absent}]
    /\ journal \in [RuntimeId -> SUBSET Request]
    /\ pump \in [Request -> Pump]
    /\ held \in [Request -> Request \cup {Absent}]
    /\ pc \in [Request -> Place]

\* Each operation goes through its own steps.
Fits(r, p) ==
    /\ op[r] \in {"Acquire", "Attach", "Health"} => p \in {"idle", "begun", "keeping"} \cup Over
    /\ op[r] = "StartTurn" => p \in {"idle", "begun", "keeping", "starting", "listing", "answering"} \cup Over
    /\ op[r] = "Dispose" => p \in {"idle", "begun"} \cup Disposing \cup Cleaning \cup Over
    /\ r \in Direct => p \notin {"keeping"} \cup Cleaning

Places == \A r \in Request : Fits(r, pc[r])

\* From its first step to its answer a request of the host holds the gate of its id.
InGate == {"begun", "keeping", "starting", "listing"} \cup Disposing \cup Cleaning

GateHeld == \A r \in Request : pc[r] \in InGate /\ ~Ungated(r) => gate[subject[r]] = r

\* e is a runtime that was acquired under the id i.
Made(e, i) == e \in Request /\ op[e] = "Acquire" /\ subject[e] = i /\ held[e] = e

\* What requests, the registry and the host have in hand are runtimes of the id.
HeldFits ==
    /\ \A r \in Request : /\ pc[r] \in {"idle", "begun"} => held[r] = Absent
                          /\ pc[r] \in {"keeping", "starting", "listing", "answering"} \cup Disposing => held[r] # Absent
                          /\ held[r] # Absent => Made(held[r], subject[r])
                          /\ op[r] = "Acquire" => held[r] \in {Absent, r}
    /\ \A i \in RuntimeId : /\ runtimes[i] # Absent => Made(runtimes[i], i)
                            /\ handles[i] # Absent => Made(handles[i], i) /\ handles[i] \notin Direct

\* Pumps belong to turns that were started, and hold the events of their own id.
PumpFits ==
    \A s \in Request :
        /\ pump[s] # "none" => op[s] = "StartTurn" /\ held[s] # Absent /\ pc[s] \in {"listing", "answering"} \cup Over
        /\ pump[s] = "waiting" => pc[s] \in {"listing", "answering", "dropped"}
        /\ \A i \in RuntimeId : s \in journal[i] => subject[s] = i /\ pump[s] # "none"

BasicInv == Types /\ LoadFits /\ Places /\ GateHeld /\ HeldFits /\ PumpFits

-----------------------------------------------------------------------------
\* No two disposals on the client itself found the same runtime of the id.
Sole(i) ==
    \A r, q \in Direct :
        op[r] = "Dispose" /\ op[q] = "Dispose" /\ subject[r] = i /\ held[r] = held[q] /\ held[r] # Absent => r = q

\* A disposal removes the runtime it found and marked, so a live one is registered.
RegistryFits ==
    /\ IsFiniteSet(Registered) /\ Cardinality(Registered) <= max_runtimes
    /\ \A r \in Request : /\ pc[r] \in Disposing /\ Sole(subject[r]) => runtimes[subject[r]] = held[r]
                          /\ pc[r] \in Disposing \ {"found"} => held[r] \in disposed
                          /\ pc[r] \in Cleaning => runtimes[subject[r]] = Absent
                          /\ Made(r, subject[r]) /\ r \notin disposed /\ Sole(subject[r]) => runtimes[subject[r]] = r

BeingCleaned(i) == \E r \in Request : subject[r] = i /\ pc[r] \in Cleaning

\* A turn that has events in the journal, or a pump that may put some there, unless
\* its request was dropped before the host listed the pump.
Present(s) ==
    \/ pump[s] \in {"waiting", "pumping"}
    \/ s \in journal[subject[s]] /\ pump[s] \notin {"loose", "gone"}

\* Turns of a runtime that is gone are present only while the host cleans up after it.
TurnsFit ==
    /\ \A s \in Request : Undisturbed(subject[s]) /\ Present(s) =>
           held[s] = runtimes[subject[s]] \/ BeingCleaned(subject[s])
    /\ \A r, s \in Request : pc[r] = "clearing" /\ subject[s] = subject[r] => pump[s] \notin {"waiting", "pumping"}

\* So are handles, unless a Health request kept one.
HandlesFit ==
    /\ \A i \in RuntimeId : Undisturbed(i) /\ HealthKeptNothing(i) =>
           handles[i] \in {Absent, runtimes[i]} \/ BeingCleaned(i)
    /\ \A r \in Request :
           pc[r] \in {"keeping", "starting"} /\ Undisturbed(subject[r]) /\ HealthKeptNothing(subject[r]) =>
               held[r] = runtimes[subject[r]]

HostInv == BasicInv /\ RegistryFits /\ TurnsFit /\ HandlesFit

-----------------------------------------------------------------------------
\* A host without runtimes satisfies the invariant.
LEMMA InitHostInv ==
    ASSUME HostInit
    PROVE  HostInv
<1>1. PICK w \in Workload :
        /\ op = [r \in Request |-> w[r][1]]
        /\ subject = [r \in Request |-> w[r][2]]
        /\ Direct = {r \in Request : w[r][3] = "client"}
  BY Zenon DEF HostInit
<1>2. LoadFits
  BY <1>1, HostAssumption, Zenon DEF LoadFits
<1>3. /\ runtimes = [i \in RuntimeId |-> Absent] /\ handles = [i \in RuntimeId |-> Absent]
      /\ gate = [i \in RuntimeId |-> Absent] /\ journal = [i \in RuntimeId |-> {}]
      /\ pump = [r \in Request |-> "none"] /\ pc = [r \in Request |-> "idle"]
      /\ held = [r \in Request |-> Absent]
  BY Zenon DEF HostInit
<1>4. Types
  BY <1>3, Zenon DEF Types, Pump, Place
<1>5. Places /\ GateHeld
  BY <1>2, <1>3, Zenon DEF Places, Fits, Cleaning, GateHeld, InGate, Disposing, Over, LoadFits
<1>6. HeldFits /\ PumpFits
  BY <1>2, <1>3, HostAssumption, Zenon DEF HeldFits, PumpFits, Made, LoadFits, Disposing
<1>7. RegistryFits
  <2>1. Registered = {}
    BY <1>3, Zenon DEF Registered
  <2>2. IsFiniteSet(Registered) /\ Cardinality(Registered) = 0
    BY <2>1, FS_EmptySet, Zenon
  <2> QED
    BY <1>3, <2>2, HostAssumption DEF RegistryFits, Made, Disposing, Cleaning
<1>8. TurnsFit /\ HandlesFit
  BY <1>2, <1>3, Zenon DEF TurnsFit, HandlesFit, Present, LoadFits
<1> QED
  BY <1>2, <1>4, <1>5, <1>6, <1>7, <1>8, Zenon DEF HostInv, BasicInv

-----------------------------------------------------------------------------
\* A step of a request takes it from one of its places to a later one.
Advance(r, to) ==
    /\ to \in Place \ {"idle"} /\ Fits(r, to) /\ pc[r] \notin Over
    /\ pc' = [pc EXCEPT ![r] = to]
    /\ op[r] = "Health" /\ to \in {"begun", "refused"} => pc[r] \in {"idle", "begun"}
    /\ UNCHANGED hostLoad

\* Each step of a request, and its drop, is such an advance.
LEMMA StepAdvances ==
    ASSUME BasicInv, NEW r \in Request, RequestStep(r) \/ DropRequest(r), UNCHANGED hostLoad
    PROVE  \E to : Advance(r, to)
<1>1. op[r] \in Operation /\ Fits(r, pc[r]) /\ (r \in Direct => op[r] \in {"Acquire", "Dispose"})
  BY Zenon DEF BasicInv, LoadFits, Places
<1>2. CASE lifecycle_gate(r)
  BY <1>1, <1>2, Zenon DEF lifecycle_gate, GoTo, Advance, Place, Fits, Over, Cleaning, Disposing, Operation
<1>3. CASE acquire(r)
  BY <1>1, <1>3, Zenon DEF acquire, GoTo, Finish, Advance, Place, Fits, Over, Cleaning, Disposing
<1>4. CASE runtime_handle(r)
  BY <1>1, <1>4, Zenon DEF runtime_handle, GoTo, Finish, Advance, Place, Fits, Over, Cleaning, Disposing
<1>5. CASE KeepHandle(r)
  BY <1>1, <1>5, Zenon DEF KeepHandle, GoTo, Finish, Advance, Place, Fits, Over, Cleaning, Disposing, Operation
<1>6. CASE StartTurn(r) \/ ListPump(r) \/ release_turn_pump(r)
  BY <1>1, <1>6, Zenon DEF StartTurn, ListPump, release_turn_pump, GoTo, Finish, Advance, Place, Fits, Over, Cleaning,
                    Disposing, Operation
<1>7. CASE DisposeLookup(r) \/ DisposeMark(r) \/ DisposeConfirm(r)
  BY <1>1, <1>7, Zenon DEF DisposeLookup, DisposeMark, DisposeConfirm, GoTo, Advance, Place, Fits, Over, Cleaning,
                    Disposing, Operation
<1>8. CASE DisposeRemove(r) \/ DisposeSweep(r) \/ DisposeClear(r)
  BY <1>1, <1>8, Zenon DEF DisposeRemove, DisposeSweep, DisposeClear, GoTo, Finish, Advance, Place, Fits, Over,
                    Cleaning, Disposing, Operation
<1>9. CASE DropRequest(r)
  BY <1>1, <1>9, Zenon DEF DropRequest, Finish, GoTo, Advance, Place, Fits, Over, Cleaning, Disposing, Operation
<1> QED
  BY <1>2, <1>3, <1>4, <1>5, <1>6, <1>7, <1>8, <1>9, Zenon DEF RequestStep

\* Disturbances and kept Health handles are never taken back.
LEMMA AdvanceKeeps ==
    ASSUME BasicInv, NEW r \in Request, NEW to, Advance(r, to)
    PROVE  /\ pc' \in [Request -> Place] /\ Places' /\ LoadFits'
           /\ \A q \in Request : pc'[q] = IF q = r THEN to ELSE pc[q]
           /\ op' = op /\ subject' = subject /\ Direct' = Direct
           /\ \A i \in RuntimeId : Undisturbed(i)' => Undisturbed(i)
           /\ \A i \in RuntimeId : HealthKeptNothing(i)' => HealthKeptNothing(i)
<1>1. pc \in [Request -> Place] /\ Places /\ LoadFits
  BY Zenon DEF BasicInv, Types
<1>2. op' = op /\ subject' = subject /\ Direct' = Direct
  BY Zenon DEF Advance, hostLoad
<1>3. pc' \in [Request -> Place] /\ \A q \in Request : pc'[q] = IF q = r THEN to ELSE pc[q]
  BY <1>1, Zenon DEF Advance
<1>4. LoadFits' /\ Places'
  BY <1>1, <1>2, <1>3 DEF Advance, LoadFits, Places, Fits
<1>5. \A i \in RuntimeId : Undisturbed(i)' => Undisturbed(i)
  BY <1>2, <1>3, Zenon DEF Advance, Undisturbed, Over
<1>6. \A i \in RuntimeId : HealthKeptNothing(i)' => HealthKeptNothing(i)
  BY <1>2, <1>3, Zenon DEF Advance, HealthKeptNothing
<1> QED
  BY <1>2, <1>3, <1>4, <1>5, <1>6, Zenon

\* Nobody takes or gives back the gate of another request.
LEMMA GateStep ==
    ASSUME BasicInv, NEW r \in Request, RequestStep(r) \/ DropRequest(r), UNCHANGED hostLoad
    PROVE  gate' \in [RuntimeId -> Request \cup {Absent}] /\ GateHeld'
<1>1. PICK to : Advance(r, to)
  BY StepAdvances, Zenon
<1>2. /\ \A q \in Request : pc'[q] = IF q = r THEN to ELSE pc[q]
      /\ op' = op /\ subject' = subject /\ Direct' = Direct
  BY <1>1, AdvanceKeeps, Zenon
<1>3. /\ gate \in [RuntimeId -> Request \cup {Absent}] /\ GateHeld
      /\ \A q \in Request : subject[q] \in RuntimeId /\ q # Absent
  BY HostAssumption, Zenon DEF BasicInv, Types, LoadFits
<1>4. \A q \in Request : Ungated(q)' = Ungated(q)
  BY <1>2, Zenon DEF Ungated
<1>5. CASE gate' = gate /\ (to \in InGate => pc[r] \in InGate \/ Ungated(r))
  BY <1>2, <1>3, <1>4, <1>5, Zenon DEF GateHeld
<1>6. CASE gate' = Released(r) /\ to \notin InGate
  BY <1>2, <1>3, <1>4, <1>6, Zenon DEF GateHeld, Released
<1>7. CASE gate[subject[r]] = Absent /\ gate' = [gate EXCEPT ![subject[r]] = r]
  BY <1>2, <1>3, <1>4, <1>7, Zenon DEF GateHeld
<1>8. CASE lifecycle_gate(r)
  <2>1. \/ Ungated(r) /\ gate' = gate
        \/ gate[subject[r]] = Absent /\ gate' = [gate EXCEPT ![subject[r]] = r]
    BY <1>8, Zenon DEF lifecycle_gate
  <2> QED
    BY <1>5, <1>7, <2>1, Zenon
<1>9. to = pc'[r]
  BY <1>2, Zenon
<1>10. CASE acquire(r) \/ runtime_handle(r) \/ KeepHandle(r)
  <2>1. pc[r] \in {"begun", "keeping"}
    BY <1>10, Zenon DEF acquire, runtime_handle, KeepHandle
  <2>2. gate' = gate \/ (gate' = Released(r) /\ to \in {"refused", "done"})
    BY <1>9, <1>10, Zenon DEF acquire, runtime_handle, KeepHandle, Finish, GoTo, BasicInv, Types
  <2> QED
    BY <1>5, <1>6, <2>1, <2>2, Zenon DEF InGate, Disposing, Cleaning
<1>11. CASE StartTurn(r) \/ ListPump(r) \/ release_turn_pump(r)
  <2>1. \/ to = "listing" /\ gate' = gate /\ pc[r] = "starting"
        \/ to \in {"refused", "answering", "done"} /\ (gate' = gate \/ gate' = Released(r))
    BY <1>9, <1>11, Zenon DEF StartTurn, ListPump, release_turn_pump, Finish, GoTo, BasicInv, Types
  <2> QED
    BY <1>5, <1>6, <2>1, Zenon DEF InGate, Disposing, Cleaning
<1>12. CASE DisposeLookup(r) \/ DisposeMark(r) \/ DisposeConfirm(r) \/ DisposeRemove(r) \/ DisposeSweep(r) \/ DisposeClear(r)
  <2>1. pc[r] \in {"begun"} \cup Disposing \cup Cleaning
    BY <1>12, Zenon DEF DisposeLookup, DisposeMark, DisposeConfirm, DisposeRemove, DisposeSweep, DisposeClear,
                 Disposing, Cleaning
  <2>2. gate' = gate \/ (gate' = Released(r) /\ to \in {"failed", "done"})
    BY <1>9, <1>12, Zenon DEF DisposeLookup, DisposeMark, DisposeConfirm, DisposeRemove, DisposeSweep, DisposeClear,
                       Finish, GoTo, BasicInv, Types
  <2> QED
    BY <1>5, <1>6, <2>1, <2>2, Zenon DEF InGate, Disposing, Cleaning
<1>13. CASE DropRequest(r)
  <2>1. gate' = Released(r) /\ to = "dropped"
    BY <1>9, <1>13, Zenon DEF DropRequest, Finish, GoTo, BasicInv, Types
  <2> QED
    BY <1>6, <2>1, Zenon DEF InGate, Disposing, Cleaning
<1> QED
  BY <1>8, <1>10, <1>11, <1>12, <1>13, Zenon DEF RequestStep

-----------------------------------------------------------------------------
\* A request gets its runtime from the registry or from the host, once.
LEMMA HeldStep ==
    ASSUME BasicInv, NEW r \in Request, RequestStep(r) \/ DropRequest(r), UNCHANGED hostLoad
    PROVE  /\ held' \in [Request -> Request \cup {Absent}]
           /\ runtimes' \in [RuntimeId -> Request \cup {Absent}]
           /\ handles' \in [RuntimeId -> Request \cup {Absent}]
           /\ \A q \in Request : held'[q] = held[q] \/ (q = r /\ held[q] = Absent)
           /\ HeldFits'
<1>1. PICK to : Advance(r, to)
  BY StepAdvances, Zenon
<1>2. /\ \A q \in Request : pc'[q] = IF q = r THEN to ELSE pc[q]
      /\ op' = op /\ subject' = subject /\ Direct' = Direct
  BY <1>1, AdvanceKeeps, Zenon
<1>3. /\ held \in [Request -> Request \cup {Absent}] /\ runtimes \in [RuntimeId -> Request \cup {Absent}]
      /\ handles \in [RuntimeId -> Request \cup {Absent}] /\ HeldFits /\ Absent \notin Request
      /\ subject \in [Request -> RuntimeId] /\ to # "idle"
  BY <1>1, HostAssumption, Zenon DEF BasicInv, Types, LoadFits, Advance
<1>4. /\ to = pc'[r] /\ pc \in [Request -> Place] /\ Fits(r, pc[r])
      /\ (r \in Direct => op[r] \in {"Acquire", "Dispose"}) /\ op[r] \in Operation
      /\ \A q \in Request : subject[q] = subject[r] /\ q \in Direct => r \in Direct
  BY <1>2, Zenon DEF BasicInv, Types, Places, LoadFits
<1>5. ASSUME held' = held, handles' = handles, to # "begun" \/ held[r] = Absent,
             to \in {"keeping", "starting", "listing", "answering"} \cup Disposing => held[r] # Absent,
             \A i \in RuntimeId : runtimes'[i] \in {runtimes[i], Absent}
      PROVE  HeldFits'
  BY <1>2, <1>3, <1>5 DEF HeldFits, Made
<1>6. CASE lifecycle_gate(r)
  BY <1>3, <1>4, <1>5, <1>6, Zenon DEF lifecycle_gate, GoTo, HeldFits, Disposing
<1>7. CASE acquire(r)
  <2>1. CASE runtimes' = runtimes /\ held' = held
    BY <1>3, <1>4, <1>5, <1>7, <2>1, Zenon DEF acquire, Finish, GoTo, Disposing
  <2>2. CASE runtimes' = [runtimes EXCEPT ![subject[r]] = r] /\ held' = [held EXCEPT ![r] = r]
    <3>1. held[r] = Absent /\ op[r] = "Acquire" /\ to \in {"done", "keeping"} /\ handles' = handles
      BY <1>3, <1>4, <1>7, <2>2, Zenon DEF acquire, Finish, GoTo, HeldFits
    <3> QED
      BY <1>2, <1>3, <2>2, <3>1 DEF HeldFits, Made, Disposing
  <2> QED
    BY <1>7, <2>1, <2>2, Zenon DEF acquire
<1>8. CASE runtime_handle(r)
  <2>1. CASE held' = held
    BY <1>3, <1>4, <1>5, <1>8, <2>1, Zenon DEF runtime_handle, Finish, GoTo, Disposing, HeldFits
  <2>2. CASE held' # held
    <3>1. PICK e : held' = [held EXCEPT ![r] = e] /\ e # Absent /\ e \in {handles[subject[r]], runtimes[subject[r]]}
      BY <1>8, <2>2, Zenon DEF runtime_handle
    <3>2. held[r] = Absent /\ op[r] # "Acquire" /\ runtimes' = runtimes /\ handles' = handles /\ to # "begun"
      BY <1>3, <1>4, <1>8, Zenon DEF runtime_handle, Finish, GoTo, HeldFits
    <3>3. Made(e, subject[r]) /\ e \in Request
      BY <1>3, <3>1 DEF HeldFits, Made
    <3> QED
      BY <1>2, <1>3, <3>1, <3>2, <3>3 DEF HeldFits, Made
  <2> QED
    BY <2>1, <2>2, Zenon
<1>9. CASE KeepHandle(r)
  <2>1. /\ held' = held /\ runtimes' = runtimes /\ handles' = [handles EXCEPT ![subject[r]] = held[r]]
        /\ pc[r] = "keeping" /\ to \in {"starting", "done"}
    BY <1>4, <1>9, Zenon DEF KeepHandle, Finish, GoTo
  <2>2. held[r] # Absent /\ Made(held[r], subject[r]) /\ r \notin Direct
    BY <1>3, <1>4, <2>1, Zenon DEF HeldFits, Fits
  <2>3. held[r] \notin Direct
    BY <1>4, <2>2, Zenon DEF Made
  <2> QED
    BY <1>2, <1>3, <2>1, <2>2, <2>3 DEF HeldFits, Made
<1>10. CASE StartTurn(r) \/ ListPump(r) \/ release_turn_pump(r) \/ DropRequest(r)
  BY <1>3, <1>4, <1>5, <1>10, Zenon DEF StartTurn, ListPump, release_turn_pump, DropRequest, Finish, GoTo, HeldFits, Disposing
<1>11. CASE DisposeLookup(r)
  <2>1. /\ held' = [held EXCEPT ![r] = runtimes[subject[r]]] /\ runtimes' = runtimes /\ handles' = handles
        /\ held[r] = Absent /\ op[r] = "Dispose"
        /\ to \in Disposing => runtimes[subject[r]] # Absent
        /\ to \notin {"begun", "keeping", "starting", "listing", "answering"}
    BY <1>3, <1>4, <1>11, Zenon DEF DisposeLookup, GoTo, HeldFits, Disposing
  <2> QED
    BY <1>2, <1>3, <2>1 DEF HeldFits, Made
<1>12. CASE DisposeMark(r) \/ DisposeConfirm(r) \/ DisposeSweep(r)
  BY <1>3, <1>4, <1>5, <1>12, Zenon DEF DisposeMark, DisposeConfirm, DisposeSweep, GoTo, HeldFits, Disposing
<1>13. CASE DisposeRemove(r)
  BY <1>3, <1>4, <1>5, <1>13, Zenon DEF DisposeRemove, Finish, GoTo, HeldFits, Disposing
<1>14. CASE DisposeClear(r)
  <2>1. /\ held' = held /\ runtimes' = runtimes /\ handles' = [handles EXCEPT ![subject[r]] = Absent]
        /\ to = "done"
    BY <1>4, <1>14, Zenon DEF DisposeClear, Finish, GoTo
  <2> QED
    BY <1>2, <1>3, <2>1 DEF HeldFits, Made, Disposing
<1> QED
  BY <1>6, <1>7, <1>8, <1>9, <1>10, <1>11, <1>12, <1>13, <1>14, Zenon DEF RequestStep

\* The pump of a turn exists from its acceptance on, and waits for its request only.
LEMMA PumpStep ==
    ASSUME BasicInv, NEW r \in Request, RequestStep(r) \/ DropRequest(r), UNCHANGED hostLoad
    PROVE  /\ journal' \in [RuntimeId -> SUBSET Request]
           /\ pump' \in [Request -> Pump]
           /\ PumpFits'
<1>1. PICK to : Advance(r, to)
  BY StepAdvances, Zenon
<1>2. /\ \A q \in Request : pc'[q] = IF q = r THEN to ELSE pc[q]
      /\ op' = op /\ subject' = subject
  BY <1>1, AdvanceKeeps, Zenon
<1>3. /\ journal \in [RuntimeId -> SUBSET Request] /\ PumpFits
      /\ pump \in [Request -> Pump]
      /\ subject \in [Request -> RuntimeId] /\ pc[r] \notin Over
      /\ to = pc'[r] /\ pc \in [Request -> Place] /\ Fits(r, pc[r]) /\ op[r] \in Operation
  BY <1>1, <1>2, Zenon DEF BasicInv, Types, LoadFits, Advance, Places
<1>4. \A q \in Request : held[q] # Absent => held'[q] = held[q]
  BY HeldStep, Zenon
<1>5. ASSUME pump' = pump, journal' = journal, pc[r] \notin {"listing", "answering"} \/ to = "answering"
      PROVE  PumpFits'
  BY <1>2, <1>3, <1>4, <1>5 DEF PumpFits, Over
<1>6. CASE lifecycle_gate(r) \/ acquire(r) \/ runtime_handle(r) \/ KeepHandle(r) \/ ListPump(r)
  BY <1>3, <1>5, <1>6, Zenon DEF lifecycle_gate, acquire, runtime_handle, KeepHandle, ListPump, Finish, GoTo, turnVars
<1>7. CASE DisposeLookup(r) \/ DisposeMark(r) \/ DisposeConfirm(r) \/ DisposeRemove(r)
  BY <1>3, <1>5, <1>7, Zenon DEF DisposeLookup, DisposeMark, DisposeConfirm, DisposeRemove, turnVars
<1>8. CASE DropRequest(r)
  <2>1. /\ pump' = [pump EXCEPT ![r] = IF pc[r] = "listing" THEN "loose" ELSE @]
        /\ journal' = journal /\ to = "dropped"
    BY <1>3, <1>8, Zenon DEF DropRequest, Finish, GoTo
  <2>2. pc[r] = "listing" => op[r] = "StartTurn" /\ held[r] # Absent
    BY <1>3, Zenon DEF Fits, Operation, BasicInv, HeldFits, Disposing, Cleaning, Over
  <2> QED
    BY <1>2, <1>3, <1>4, <2>1, <2>2 DEF PumpFits, Pump, Over
<1>9. CASE StartTurn(r)
  <2>1. CASE pump' = pump /\ journal' = journal
    BY <1>3, <1>5, <1>9, <2>1, Zenon DEF StartTurn
  <2>2. CASE pump' = [pump EXCEPT ![r] = "waiting"] /\ to = "listing" /\ journal' = journal
    <3>1. op[r] = "StartTurn" /\ held[r] # Absent
      BY <1>3, <1>9, Zenon DEF StartTurn, Fits, Operation, BasicInv, HeldFits, Disposing, Cleaning, Over
    <3> QED
      BY <1>2, <1>3, <1>4, <2>2, <3>1 DEF PumpFits, Pump
  <2> QED
    BY <1>3, <1>9, <2>1, <2>2, Zenon DEF StartTurn, GoTo
<1>10. CASE release_turn_pump(r)
  <2>1. /\ pump' = [pump EXCEPT ![r] = IF @ = "waiting" THEN "pumping" ELSE @] /\ journal' = journal
        /\ to = "done"
    BY <1>3, <1>10, Zenon DEF release_turn_pump, GoTo
  <2> QED
    BY <1>2, <1>3, <1>4, <2>1 DEF PumpFits, Pump, Over
<1>11. CASE DisposeSweep(r)
  <2>1. /\ pump' = [s \in Request |-> IF subject[s] = subject[r] /\ s \in active THEN "stopped" ELSE pump[s]]
        /\ journal' = journal /\ pc[r] = "sweeping"
    BY <1>11, Zenon DEF DisposeSweep
  <2> QED
    BY <1>2, <1>3, <1>4, <2>1 DEF PumpFits, Pump, active, Over
<1>12. CASE DisposeClear(r)
  <2>1. pump' = pump /\ journal' = [journal EXCEPT ![subject[r]] = {}] /\ pc[r] = "clearing"
    BY <1>12, Zenon DEF DisposeClear
  <2> QED
    BY <1>2, <1>3, <1>4, <2>1 DEF PumpFits, Over
<1> QED
  BY <1>6, <1>7, <1>8, <1>9, <1>10, <1>11, <1>12, Zenon DEF RequestStep

\* Types, gates, what is held and pumps survive every step of a request.
LEMMA BasicStep ==
    ASSUME BasicInv, NEW r \in Request, RequestStep(r) \/ DropRequest(r), UNCHANGED hostLoad
    PROVE  BasicInv'
<1>1. PICK to : Advance(r, to)
  BY StepAdvances, Zenon
<1> QED
  BY <1>1, AdvanceKeeps, GateStep, HeldStep, PumpStep, Zenon DEF BasicInv, Types

-----------------------------------------------------------------------------
\* Two requests inside the same gate are the same, and nobody is beside a cleanup.
LEMMA OneInGate ==
    ASSUME BasicInv, NEW r \in Request, NEW q \in Request, subject[q] = subject[r],
           pc[r] \in InGate, pc[q] \in InGate, op[r] # "Health", op[q] # "Health",
           r \notin Direct \/ q \notin Direct
    PROVE  q = r
BY Zenon DEF BasicInv, LoadFits, GateHeld, Ungated

\* While a request is in the gate, no other cleans up under it.
LEMMA CleanedAlone ==
    ASSUME BasicInv, NEW r \in Request, pc[r] \in InGate \ Cleaning, op[r] # "Health"
    PROVE  ~BeingCleaned(subject[r])
<1> SUFFICES ASSUME NEW q \in Request, subject[q] = subject[r], pc[q] \in Cleaning
             PROVE  FALSE
  BY Zenon DEF BeingCleaned
<1>1. q \notin Direct /\ op[q] = "Dispose"
  BY Zenon DEF BasicInv, Places, Fits, LoadFits, Operation, Cleaning, Over
<1>2. pc[q] \in InGate
  BY Zenon DEF InGate
<1> QED
  BY <1>1, <1>2, OneInGate, Zenon

-----------------------------------------------------------------------------
\* The registry stays within its limit and loses only runtimes that were marked.
LEMMA RegistryStep ==
    ASSUME BasicInv, RegistryFits,
           NEW r \in Request, RequestStep(r) \/ DropRequest(r), UNCHANGED hostLoad
    PROVE  RegistryFits'
<1> DEFINE i == subject[r]
<1>1. PICK to : Advance(r, to)
  BY StepAdvances, Zenon
<1>2. /\ \A q \in Request : pc'[q] = IF q = r THEN to ELSE pc[q]
      /\ op' = op /\ subject' = subject /\ Direct' = Direct
  BY <1>1, AdvanceKeeps, Zenon
<1>3. /\ \A q \in Request : held'[q] = held[q] \/ (q = r /\ held[q] = Absent)
      /\ HeldFits'
  BY HeldStep, Zenon
<1>4. /\ HeldFits /\ Absent \notin Request /\ subject \in [Request -> RuntimeId]
      /\ runtimes \in [RuntimeId -> Request \cup {Absent}] /\ held \in [Request -> Request \cup {Absent}]
      /\ to = pc'[r] /\ pc \in [Request -> Place] /\ Fits(r, pc[r]) /\ op[r] \in Operation
      /\ Direct \subseteq Request /\ max_runtimes \in Nat
  BY <1>2, HostAssumption, Zenon DEF BasicInv, Types, LoadFits, Places
<1>5. \A j \in RuntimeId : Sole(j)' => Sole(j)
  BY <1>2, <1>3, <1>4, Zenon DEF Sole
<1>6. /\ IsFiniteSet(Registered) /\ Cardinality(Registered) <= max_runtimes
      /\ \A q \in Request : /\ pc[q] \in Disposing /\ Sole(subject[q]) => runtimes[subject[q]] = held[q]
                            /\ pc[q] \in Disposing \ {"found"} => held[q] \in disposed
                            /\ pc[q] \in Cleaning => runtimes[subject[q]] = Absent
                            /\ Made(q, subject[q]) /\ q \notin disposed /\ Sole(subject[q]) => runtimes[subject[q]] = q
  BY Zenon DEF RegistryFits
<1>7. ASSUME runtimes' = runtimes, disposed \subseteq disposed', held' = held \/ op[r] # "Acquire",
             to \in Disposing => runtimes[i] = held'[r] \/ (pc[r] \in Disposing /\ held' = held),
             to \in Disposing \ {"found"} => held'[r] \in disposed',
             to \in Cleaning => runtimes[i] = Absent
      PROVE  RegistryFits'
  <2>1. Registered' = Registered
    BY <1>7, Zenon DEF Registered
  <2>2. \A q \in Request : Made(q, subject[q])' => Made(q, subject[q])
    BY <1>2, <1>3, <1>4, <1>7, Zenon DEF Made
  <2>3. \A q \in Request : q # r => held'[q] = held[q] \/ pc[q] \notin Disposing
    BY <1>3, Zenon
  <2> QED
    BY <1>2, <1>4, <1>5, <1>6, <1>7, <2>1, <2>2, <2>3, Zenon DEF RegistryFits
<1>8. CASE \/ lifecycle_gate(r) \/ KeepHandle(r) \/ StartTurn(r) \/ ListPump(r) \/ release_turn_pump(r)
           \/ DropRequest(r) \/ DisposeClear(r)
  BY <1>4, <1>7, <1>8 DEF lifecycle_gate, KeepHandle, StartTurn, ListPump, release_turn_pump, DropRequest, DisposeClear,
                          Finish, GoTo, Disposing, Cleaning
<1>9. CASE runtime_handle(r)
  BY <1>4, <1>7, <1>9 DEF runtime_handle, Finish, GoTo, Disposing, Cleaning
<1>10. CASE acquire(r) /\ held' = held
  <2>1. held[r] # r
    BY <1>4, <1>10, Zenon DEF acquire, HeldFits
  <2>2. runtimes' = runtimes /\ disposed' = disposed /\ to = "refused"
    BY <1>4, <1>10, <2>1, Zenon DEF acquire, Finish, GoTo
  <2> QED
    BY <1>7, <1>10, <2>2, Zenon DEF Disposing, Cleaning
<1>11. CASE DisposeLookup(r)
  BY <1>4, <1>7, <1>11, Zenon DEF DisposeLookup, GoTo, Disposing, Cleaning
<1>12. CASE DisposeMark(r) \/ DisposeConfirm(r) \/ DisposeSweep(r)
  <2>1. CASE DisposeMark(r)
    BY <1>4, <1>7, <2>1, Zenon DEF DisposeMark, GoTo, Disposing, Cleaning
  <2>2. CASE DisposeConfirm(r)
    <3>1. /\ pc[r] = "cancelling" /\ to \in {"confirmed", "unconfirmed"}
          /\ runtimes' = runtimes /\ disposed' = disposed /\ held' = held
      BY <1>4, <2>2, Zenon DEF DisposeConfirm, GoTo
    <3>2. pc[r] \in Disposing \ {"found"} /\ to \notin Cleaning
      BY <3>1, Zenon DEF Disposing, Cleaning
    <3> QED
      BY <1>6, <1>7, <3>1, <3>2, Zenon
  <2>3. CASE DisposeSweep(r)
    BY <1>4, <1>6, <1>7, <2>3, Zenon DEF DisposeSweep, GoTo, Disposing, Cleaning
  <2> QED
    BY <1>12, <2>1, <2>2, <2>3, Zenon
<1>13. CASE acquire(r) /\ held' # held
  <2>1. /\ runtimes[i] = Absent /\ Cardinality(Registered) < max_runtimes /\ pc[r] = "begun"
        /\ runtimes' = [runtimes EXCEPT ![i] = r] /\ held' = [held EXCEPT ![r] = r]
        /\ disposed' = disposed /\ op[r] = "Acquire" /\ to \in {"done", "keeping"}
    <3>1. Cardinality(Registered) \in Nat
      BY <1>6, FS_CardinalityType, Zenon
    <3> QED
      BY <1>4, <1>13, <3>1 DEF acquire, GoTo
  <2>2. Registered' = Registered \cup {i} /\ i \notin Registered
    BY <1>4, <2>1 DEF Registered
  <2>3. IsFiniteSet(Registered') /\ Cardinality(Registered') = Cardinality(Registered) + 1
    BY <1>6, <2>2, FS_AddElement, Zenon
  <2>4. Cardinality(Registered') <= max_runtimes
    <3>1. Cardinality(Registered) \in Nat
      BY <1>6, FS_CardinalityType, Zenon
    <3> QED
      BY <1>4, <2>1, <2>3, <3>1
  <2>5. \A q \in Request : pc[q] \in Cleaning => subject[q] # i
    BY <2>1, CleanedAlone, Zenon DEF BeingCleaned, InGate, Cleaning, Disposing
  <2>6. \A q \in Request : pc[q] \in Disposing => held[q] # Absent
    BY <1>4, Zenon DEF HeldFits
  <2>7. \A q \in Request : /\ held'[q] = IF q = r THEN r ELSE held[q]
                           /\ q # Absent
    BY <1>4, <2>1, Zenon
  <2>8. \A j \in RuntimeId : runtimes'[j] = IF j = i THEN r ELSE runtimes[j]
    BY <1>4, <2>1, Zenon
  <2>9. to \notin Disposing \cup Cleaning
    BY <2>1, Zenon DEF Disposing, Cleaning
  <2> HIDE DEF i
  <2>10. \A q \in Request : Made(q, subject[q])' => q = r \/ Made(q, subject[q])
    BY <1>2, <2>7, Zenon DEF Made
  <2> QED
    BY <1>2, <1>4, <1>5, <1>6, <2>1, <2>3, <2>4, <2>5, <2>6, <2>7, <2>8, <2>9, <2>10 DEF RegistryFits, i
<1>14. CASE DisposeRemove(r)
  <2>1. /\ pc[r] \in Disposing \ {"found"} /\ runtimes' = [runtimes EXCEPT ![i] = Absent]
        /\ held' = held /\ disposed' = disposed /\ to \in {"failed", "done", "sweeping"}
    BY <1>4, <1>14, Zenon DEF DisposeRemove, Finish, GoTo, Disposing
  <2>2. \A j \in RuntimeId : runtimes'[j] = IF j = i THEN Absent ELSE runtimes[j]
    BY <1>4, <2>1, Zenon
  <2>3. IsFiniteSet(Registered') /\ Cardinality(Registered') <= max_runtimes
    <3>1. Registered' \in SUBSET Registered
      BY <2>2, Zenon DEF Registered
    <3>2. IsFiniteSet(Registered') /\ Cardinality(Registered') <= Cardinality(Registered)
      BY <1>6, <3>1, FS_Subset, Zenon
    <3>3. Cardinality(Registered') \in Nat /\ Cardinality(Registered) \in Nat
      BY <1>6, <3>2, FS_CardinalityType, Zenon
    <3> QED
      BY <1>4, <1>6, <3>2, <3>3
  <2>4. ASSUME NEW q \in Request, q # r, pc[q] \in Disposing, subject[q] = i
        PROVE  ~Sole(i)
    <3>1. op[r] = "Dispose" /\ op[q] = "Dispose"
      BY <2>1, <2>4, Zenon DEF BasicInv, LoadFits, Places, Fits, Operation, Disposing, Over
    <3>2. r \in Direct /\ q \in Direct
      BY <2>1, <2>4, <3>1, OneInGate, Zenon DEF InGate
    <3>3. Sole(i) => held[r] = held[q] /\ held[r] # Absent
      BY <1>4, <1>6, <2>1, <2>4, Zenon DEF HeldFits
    <3> QED
      BY <2>4, <3>1, <3>2, <3>3, Zenon DEF Sole
  <2>5. Sole(i) => runtimes[i] \in disposed
    BY <1>6, <2>1, Zenon
  <2>6. to \notin Disposing /\ i \in RuntimeId /\ \A q \in Request : q # Absent
    BY <1>4, <2>1, Zenon DEF Disposing
  <2>7. \A q \in Request : Made(q, subject[q])' => Made(q, subject[q])
    BY <1>2, <2>1, Zenon DEF Made
  <2> HIDE DEF i
  <2> QED
    BY <1>2, <1>4, <1>5, <1>6, <2>1, <2>2, <2>3, <2>4, <2>5, <2>6, <2>7 DEF RegistryFits, i
<1> QED
  BY <1>8, <1>9, <1>10, <1>11, <1>12, <1>13, <1>14, Zenon DEF RequestStep

-----------------------------------------------------------------------------
\* Turns outlive their runtime only until the host has cleaned up.
LEMMA TurnsStep ==
    ASSUME BasicInv, RegistryFits, TurnsFit,
           NEW r \in Request, RequestStep(r) \/ DropRequest(r), UNCHANGED hostLoad
    PROVE  TurnsFit'
<1> DEFINE i == subject[r]
<1>1. PICK to : Advance(r, to)
  BY StepAdvances, Zenon
<1>2. /\ \A q \in Request : pc'[q] = IF q = r THEN to ELSE pc[q]
      /\ op' = op /\ subject' = subject /\ Direct' = Direct
      /\ \A j \in RuntimeId : Undisturbed(j)' => Undisturbed(j)
  BY <1>1, AdvanceKeeps, Zenon
<1>3. /\ PumpFits /\ Absent \notin Request /\ subject \in [Request -> RuntimeId]
      /\ runtimes \in [RuntimeId -> Request \cup {Absent}] /\ pump \in [Request -> Pump]
      /\ journal \in [RuntimeId -> SUBSET Request]
      /\ to = pc'[r] /\ pc \in [Request -> Place] /\ Fits(r, pc[r]) /\ op[r] \in Operation
  BY <1>2, HostAssumption, Zenon DEF BasicInv, Types, LoadFits, Places
<1>4. \A s \in Request : Present(s) => held[s] # Absent /\ held'[s] = held[s] /\ s \notin Direct
  <2>1. \A s \in Request : Present(s) => op[s] = "StartTurn" /\ held[s] # Absent
    BY <1>3, Zenon DEF Present, PumpFits
  <2> QED
    BY <2>1, HeldStep, Zenon DEF BasicInv, LoadFits
<1>5. /\ \A s \in Request : Undisturbed(subject[s]) /\ Present(s) =>
             held[s] = runtimes[subject[s]] \/ BeingCleaned(subject[s])
      /\ \A q, s \in Request : pc[q] = "clearing" /\ subject[s] = subject[q] => pump[s] \notin {"waiting", "pumping"}
  BY Zenon DEF TurnsFit
<1>6. \A j \in RuntimeId : BeingCleaned(j) => BeingCleaned(j)' \/ (j = i /\ pc[r] \in Cleaning /\ to \notin Cleaning)
  BY <1>2, Zenon DEF BeingCleaned
<1>7. ASSUME \A s \in Request : Present(s)' => Present(s),
             \A s \in Request : pump'[s] \in {"waiting", "pumping"} => pump[s] \in {"waiting", "pumping"},
             to = "clearing" => \A s \in Request : subject[s] = i => pump'[s] \notin {"waiting", "pumping"},
             \A s \in Request : Present(s)' /\ Undisturbed(subject[s])' /\ held[s] = runtimes[subject[s]] =>
                 runtimes'[subject[s]] = runtimes[subject[s]] \/ BeingCleaned(subject[s])',
             pc[r] \in Cleaning => to \in Cleaning \/ ~Undisturbed(i)' \/ \A s \in Request : subject[s] = i => ~Present(s)'
      PROVE  TurnsFit'
  <2>1. \A s \in Request : subject[s] \in RuntimeId
    BY <1>3, Zenon
  <2>2. ASSUME NEW s \in Request, Undisturbed(subject[s])', Present(s)'
        PROVE  held'[s] = runtimes'[subject[s]] \/ BeingCleaned(subject[s])'
    <3>1. Undisturbed(subject[s]) /\ Present(s) /\ held'[s] = held[s]
      BY <1>2, <1>4, <1>7, <2>1, <2>2, Zenon
    <3>2. CASE held[s] = runtimes[subject[s]]
      <4>1. runtimes'[subject[s]] = runtimes[subject[s]] \/ BeingCleaned(subject[s])'
        BY <1>7, <2>2, <3>2, Zenon
      <4> QED
        BY <3>1, <3>2, <4>1, Zenon
    <3>3. CASE BeingCleaned(subject[s])
      BY <1>2, <1>6, <1>7, <2>1, <2>2, <3>3, Zenon
    <3> QED
      BY <1>5, <3>1, <3>2, <3>3, Zenon
  <2> QED
    BY <1>2, <1>5, <1>7, <2>2, Zenon DEF TurnsFit
<1>8. CASE \/ lifecycle_gate(r) \/ runtime_handle(r) \/ KeepHandle(r) \/ ListPump(r)
           \/ DisposeLookup(r) \/ DisposeMark(r) \/ DisposeConfirm(r)
  <2>1. /\ pc[r] \notin Cleaning /\ to # "clearing"
        /\ runtimes' = runtimes /\ pump' = pump /\ journal' = journal
    BY <1>3, <1>8, Zenon DEF lifecycle_gate, runtime_handle, KeepHandle, ListPump, DisposeLookup, DisposeMark, DisposeConfirm,
                      turnVars, Finish, GoTo, Cleaning
  <2>2. \A s \in Request : Present(s)' => Present(s)
    BY <1>2, <2>1, Zenon DEF Present
  <2> QED
    BY <1>7, <2>1, <2>2, Zenon
<1>9. CASE DropRequest(r)
  <2>1. /\ pump' = [pump EXCEPT ![r] = IF pc[r] = "listing" THEN "loose" ELSE @]
        /\ runtimes' = runtimes /\ journal' = journal /\ to = "dropped"
    BY <1>3, <1>9, Zenon DEF DropRequest, Finish, GoTo
  <2>2. \A s \in Request : pump'[s] = pump[s] \/ pump'[s] = "loose"
    BY <1>3, <2>1, Zenon
  <2>3. \A s \in Request : /\ Present(s)' => Present(s)
                           /\ pump'[s] \in {"waiting", "pumping"} => pump[s] \in {"waiting", "pumping"}
    BY <1>2, <2>1, <2>2, Zenon DEF Present
  <2>4. pc[r] \in Cleaning => ~Undisturbed(i)'
    BY <1>2, <1>3, <2>1, Zenon DEF Undisturbed, Fits, Operation, Cleaning, Over
  <2> QED
    BY <1>7, <2>1, <2>4, <2>3, Zenon
<1>10. CASE release_turn_pump(r)
  <2>1. /\ pump' = [pump EXCEPT ![r] = IF @ = "waiting" THEN "pumping" ELSE @] /\ journal' = journal
        /\ runtimes' = runtimes /\ to = "done" /\ pc[r] = "answering"
    BY <1>3, <1>10, Zenon DEF release_turn_pump, GoTo
  <2>2. \A s \in Request : /\ pump'[s] \in {"waiting", "pumping"} => pump[s] \in {"waiting", "pumping"}
                           /\ pump[s] \in {"loose", "gone"} => pump'[s] = pump[s]
    BY <1>3, <2>1, Zenon
  <2>3. \A s \in Request : Present(s)' => Present(s)
    BY <1>2, <2>1, <2>2, Zenon DEF Present
  <2> QED
    BY <1>7, <2>1, <2>2, <2>3, Zenon DEF Cleaning
<1>11. CASE acquire(r)
  <2>1. /\ runtimes' = runtimes \/ (runtimes[i] = Absent /\ runtimes' = [runtimes EXCEPT ![i] = r])
        /\ pump' = pump /\ journal' = journal /\ pc[r] \notin Cleaning /\ to # "clearing"
    BY <1>3, <1>11, Zenon DEF acquire, turnVars, Finish, GoTo, Cleaning
  <2>2. \A s \in Request : Present(s)' => Present(s)
    BY <1>2, <2>1, Zenon DEF Present
  <2>3. \A s \in Request : Present(s)' /\ held[s] = runtimes[subject[s]] => runtimes'[subject[s]] = runtimes[subject[s]]
    BY <1>3, <1>4, <2>1, <2>2, Zenon
  <2> QED
    BY <1>7, <2>1, <2>2, <2>3, Zenon
<1>12. CASE StartTurn(r)
  <2>1. /\ runtimes' = runtimes /\ journal' = journal /\ pc[r] = "starting" /\ to \in {"refused", "listing"}
        /\ pump' = pump \/ (pump' = [pump EXCEPT ![r] = "waiting"] /\ Live(held[r]))
    BY <1>3, <1>12 DEF StartTurn, Finish, GoTo
  <2>2. op[r] = "StartTurn" /\ r \notin Direct /\ pc[r] \in InGate \ Cleaning
    BY <1>3, <2>1, Zenon DEF BasicInv, LoadFits, Fits, Operation, Disposing, Cleaning, Over, InGate
  <2>3. CASE pump' = pump
    <3>1. \A s \in Request : Present(s)' => Present(s)
      BY <1>2, <2>1, <2>3, Zenon DEF Present
    <3> QED
      BY <1>7, <2>1, <2>3, <3>1, Zenon DEF Cleaning
  <2>4. CASE pump' = [pump EXCEPT ![r] = "waiting"] /\ Live(held[r])
    <3>1. held[r] = runtimes[i] /\ held'[r] = held[r]
      <4>1. Made(held[r], i) /\ held[r] \notin disposed /\ held[r] # Absent
        BY <1>3, <2>4, Zenon DEF Live, BasicInv, HeldFits
      <4>2. Sole(i)
        BY <2>2, Zenon DEF Sole, BasicInv, LoadFits
      <4> QED
        BY <4>1, <4>2, HeldStep, Zenon DEF RegistryFits, Made
    <3>2. \A s \in Request : s # r => (Present(s)' => Present(s)) /\ pump'[s] = pump[s]
      BY <1>2, <1>3, <2>1, <2>4, Zenon DEF Present
    <3>3. \A q \in Request : pc[q] = "clearing" => subject[q] # i
      BY <2>2, CleanedAlone, Zenon DEF BeingCleaned, Cleaning
    <3>4. \A s \in Request : subject[s] \in RuntimeId /\ (BeingCleaned(subject[s]) => BeingCleaned(subject[s])')
      BY <1>2, <1>3, <1>6, <2>2, Zenon
    <3>5. ASSUME NEW s \in Request, Undisturbed(subject[s])', Present(s)'
          PROVE  held'[s] = runtimes'[subject[s]] \/ BeingCleaned(subject[s])'
      <4>1. CASE s = r
        BY <2>1, <3>1, <4>1, Zenon
      <4>2. CASE s # r
        BY <1>2, <1>4, <1>5, <2>1, <3>2, <3>4, <3>5, <4>2, Zenon
      <4> QED
        BY <4>1, <4>2, Zenon
    <3> QED
      BY <1>2, <1>5, <2>1, <3>2, <3>3, <3>5 DEF TurnsFit
  <2> QED
    BY <2>1, <2>3, <2>4, Zenon
<1>13. CASE DisposeRemove(r)
  <2>1. /\ runtimes' = [runtimes EXCEPT ![i] = Absent] /\ pump' = pump /\ journal' = journal
        /\ pc[r] \in {"confirmed", "unconfirmed"}
        /\ r \in Direct \/ to \in {"sweeping", "failed"}
    BY <1>3, <1>13, Zenon DEF DisposeRemove, turnVars, Finish, GoTo
  <2>2. \A s \in Request : Present(s)' => Present(s)
    BY <1>2, <2>1, Zenon DEF Present
  <2>3. op[r] = "Dispose" /\ pc[r] \notin Cleaning /\ to # "clearing"
    BY <1>3, <1>13, <2>1, Zenon DEF DisposeRemove, Finish, GoTo, Fits, Operation, Over, Cleaning
  <2>4. ASSUME NEW s \in Request, Present(s)', Undisturbed(subject[s])', subject[s] = i
        PROVE  BeingCleaned(subject[s])'
    <3>1. r \notin Direct
      BY <1>4, <2>2, <2>4, Zenon DEF BasicInv, LoadFits
    <3>2. to # "failed"
      BY <1>2, <2>3, <2>4, Zenon DEF Undisturbed
    <3> QED
      BY <1>2, <2>1, <2>4, <3>1, <3>2, Zenon DEF BeingCleaned, Cleaning
  <2>5. \A s \in Request : Present(s)' /\ Undisturbed(subject[s])' =>
            runtimes'[subject[s]] = runtimes[subject[s]] \/ BeingCleaned(subject[s])'
    BY <1>3, <2>1, <2>4, Zenon
  <2> QED
    BY <1>7, <2>1, <2>2, <2>3, <2>5, Zenon
<1>14. CASE DisposeSweep(r)
  <2>1. /\ pump' = [s \in Request |-> IF subject[s] = i /\ s \in active THEN "stopped" ELSE pump[s]]
        /\ journal' = journal /\ runtimes' = runtimes /\ to = "clearing" /\ pc[r] = "sweeping"
    BY <1>3, <1>14, Zenon DEF DisposeSweep, GoTo
  <2>2. ASSUME NEW s \in Request, subject[s] = i, pc[s] = "listing"
        PROVE  FALSE
    <3>1. op[s] = "StartTurn" /\ pc[s] \in InGate \ Cleaning
      BY <2>2, Zenon DEF BasicInv, Places, LoadFits, Fits, Operation, InGate, Disposing, Cleaning, Over
    <3>2. BeingCleaned(subject[s])
      BY <2>1, <2>2, Zenon DEF BeingCleaned, Cleaning
    <3> QED
      BY <3>1, <3>2, CleanedAlone, Zenon
  <2>3. \A s \in Request : /\ pump'[s] \in {"waiting", "pumping"} => pump[s] \in {"waiting", "pumping"}
                           /\ pump[s] \in {"loose", "gone"} => pump'[s] = pump[s]
                           /\ subject[s] = i => pump'[s] \notin {"waiting", "pumping"}
    BY <2>1, <2>2, Zenon DEF active
  <2>4. \A s \in Request : Present(s)' => Present(s)
    BY <1>2, <2>1, <2>3, Zenon DEF Present
  <2> QED
    BY <1>7, <2>1, <2>3, <2>4, Zenon DEF Cleaning
<1>15. CASE DisposeClear(r)
  <2>1. /\ pump' = pump /\ journal' = [journal EXCEPT ![i] = {}] /\ runtimes' = runtimes
        /\ to = "done" /\ pc[r] = "clearing"
    BY <1>3, <1>15, Zenon DEF DisposeClear, Finish, GoTo
  <2>2. \A s \in Request : Present(s)' => Present(s) /\ subject[s] # i
    BY <1>2, <1>3, <1>5, <2>1, Zenon DEF Present
  <2> QED
    BY <1>7, <2>1, <2>2, Zenon
<1> QED
  BY <1>8, <1>9, <1>10, <1>11, <1>12, <1>13, <1>14, <1>15, Zenon DEF RequestStep

-----------------------------------------------------------------------------
\* A handle the host keeps, or a request has in hand, is that of the registered runtime.
LEMMA HandlesStep ==
    ASSUME BasicInv, RegistryFits, HandlesFit,
           NEW r \in Request, RequestStep(r) \/ DropRequest(r), UNCHANGED hostLoad
    PROVE  HandlesFit'
<1> DEFINE i == subject[r]
<1>1. PICK to : Advance(r, to)
  BY StepAdvances, Zenon
<1>2. /\ \A q \in Request : pc'[q] = IF q = r THEN to ELSE pc[q]
      /\ op' = op /\ subject' = subject /\ Direct' = Direct
      /\ \A j \in RuntimeId : Undisturbed(j)' => Undisturbed(j)
      /\ \A j \in RuntimeId : HealthKeptNothing(j)' => HealthKeptNothing(j)
  BY <1>1, AdvanceKeeps, Zenon
<1>3. /\ HeldFits /\ Absent \notin Request /\ subject \in [Request -> RuntimeId]
      /\ runtimes \in [RuntimeId -> Request \cup {Absent}] /\ handles \in [RuntimeId -> Request \cup {Absent}]
      /\ held \in [Request -> Request \cup {Absent}]
      /\ to = pc'[r] /\ pc \in [Request -> Place] /\ Fits(r, pc[r]) /\ op[r] \in Operation
  BY <1>2, HostAssumption, Zenon DEF BasicInv, Types, LoadFits, Places
<1>4. \A q \in Request : pc[q] \in {"keeping", "starting"} => held'[q] = held[q] /\ q \notin Direct
  <2>1. \A q \in Request : pc[q] \in {"keeping", "starting"} => held[q] # Absent
    BY <1>3, Zenon DEF HeldFits
  <2>2. \A q \in Request : pc[q] \in {"keeping", "starting"} => q \notin Direct
    BY Zenon DEF BasicInv, Places, Fits, LoadFits, Over, Disposing, Cleaning
  <2> QED
    BY <2>1, <2>2, HeldStep, Zenon
<1>5. /\ \A j \in RuntimeId : Undisturbed(j) /\ HealthKeptNothing(j) => handles[j] \in {Absent, runtimes[j]} \/ BeingCleaned(j)
      /\ \A q \in Request : pc[q] \in {"keeping", "starting"} /\ Undisturbed(subject[q]) /\ HealthKeptNothing(subject[q]) =>
             held[q] = runtimes[subject[q]]
  BY Zenon DEF HandlesFit
<1>6. \A j \in RuntimeId : BeingCleaned(j) => BeingCleaned(j)' \/ (j = i /\ pc[r] \in Cleaning /\ to \notin Cleaning)
  BY <1>2, Zenon DEF BeingCleaned
\* What a step leaves to be shown when it touches the registry, the handles or its own hands.
<1>7. ASSUME \A j \in RuntimeId : Undisturbed(j)' /\ HealthKeptNothing(j)' =>
                 handles'[j] \in {Absent, runtimes'[j]} \/ BeingCleaned(j)' \/ (handles'[j] = handles[j] /\ runtimes'[j] = runtimes[j]),
             pc[r] \in Cleaning => to \in Cleaning \/ ~Undisturbed(i)' \/ handles'[i] = Absent,
             to \in {"keeping", "starting"} /\ Undisturbed(i)' /\ HealthKeptNothing(i)' => held'[r] = runtimes'[i],
             \A q \in Request : q # r /\ pc[q] \in {"keeping", "starting"} /\ HealthKeptNothing(subject[q]) =>
                 runtimes'[subject[q]] = runtimes[subject[q]]
      PROVE  HandlesFit'
  <2>1. ASSUME NEW j \in RuntimeId, Undisturbed(j)', HealthKeptNothing(j)'
        PROVE  handles'[j] \in {Absent, runtimes'[j]} \/ BeingCleaned(j)'
    BY <1>2, <1>5, <1>6, <1>7, <2>1, Zenon
  <2>2. ASSUME NEW q \in Request, pc'[q] \in {"keeping", "starting"}, Undisturbed(subject[q])', HealthKeptNothing(subject[q])'
        PROVE  held'[q] = runtimes'[subject[q]]
    <3>1. CASE q = r
      BY <1>2, <1>7, <2>2, <3>1, Zenon
    <3>2. CASE q # r
      <4>1. subject[q] \in RuntimeId /\ pc[q] \in {"keeping", "starting"}
        BY <1>2, <1>3, <2>2, <3>2, Zenon
      <4>2. Undisturbed(subject[q]) /\ HealthKeptNothing(subject[q])
        BY <1>2, <2>2, <4>1, Zenon
      <4> QED
        BY <1>4, <1>5, <1>7, <3>2, <4>1, <4>2, Zenon
    <3> QED
      BY <3>1, <3>2, Zenon
  <2> QED
    BY <1>2, <2>1, <2>2, Zenon DEF HandlesFit
\* Nobody who has a runtime in hand for the host is beside a request inside the gate.
<1>8. ASSUME pc[r] \in InGate, op[r] # "Health",
             NEW q \in Request, q # r, pc[q] \in {"keeping", "starting"}, HealthKeptNothing(subject[q])
      PROVE  subject[q] # i
  <2>1. op[q] # "Health" /\ q \notin Direct /\ pc[q] \in InGate
    BY <1>4, <1>8, Zenon DEF HealthKeptNothing, InGate
  <2> QED
    BY <1>8, <2>1, OneInGate, Zenon
<1>9. CASE \/ lifecycle_gate(r) \/ StartTurn(r) \/ ListPump(r) \/ release_turn_pump(r)
           \/ DisposeLookup(r) \/ DisposeMark(r) \/ DisposeConfirm(r) \/ DisposeSweep(r)
  <2>1. /\ pc[r] \in Cleaning => to \in Cleaning
        /\ to \notin {"keeping", "starting"} /\ runtimes' = runtimes /\ handles' = handles
    BY <1>3, <1>9, Zenon DEF lifecycle_gate, StartTurn, ListPump, release_turn_pump, DisposeLookup, DisposeMark, DisposeConfirm,
                      DisposeSweep, Finish, GoTo, Cleaning
  <2> QED
    BY <1>7, <2>1, Zenon
<1>10. CASE DropRequest(r)
  <2>1. runtimes' = runtimes /\ handles' = handles /\ to = "dropped"
    BY <1>3, <1>10, Zenon DEF DropRequest, Finish, GoTo
  <2>2. pc[r] \in Cleaning => ~Undisturbed(i)'
    BY <1>2, <1>3, <2>1, Zenon DEF Undisturbed, Fits, Operation, Cleaning, Over
  <2> QED
    BY <1>7, <2>1, <2>2, Zenon
<1>11. CASE acquire(r)
  <2>1. CASE runtimes' = runtimes /\ held' = held
    <3>1. held[r] # r /\ pc[r] = "begun"
      BY <1>3, <1>11, Zenon DEF acquire, HeldFits
    <3>2. handles' = handles /\ to = "refused"
      BY <1>3, <1>11, <2>1, <3>1, Zenon DEF acquire, Finish, GoTo
    <3> QED
      BY <1>7, <2>1, <3>1, <3>2, Zenon DEF Cleaning
  <2>2. CASE runtimes' # runtimes \/ held' # held
    <3>1. /\ runtimes[i] = Absent /\ runtimes' = [runtimes EXCEPT ![i] = r] /\ held' = [held EXCEPT ![r] = r]
          /\ handles' = handles /\ pc[r] = "begun" /\ op[r] = "Acquire"
      BY <1>11, <2>2, Zenon DEF acquire, Finish
    <3>2. pc[r] \in InGate \ Cleaning /\ ~BeingCleaned(i)
      BY <3>1, CleanedAlone, Zenon DEF InGate, Cleaning, Disposing
    <3>3. held'[r] = runtimes'[i] /\ \A j \in RuntimeId : j # i => runtimes'[j] = runtimes[j]
      BY <1>3, <3>1, Zenon
    <3>4. Undisturbed(i)' /\ HealthKeptNothing(i)' => handles[i] = Absent
      BY <1>2, <1>3, <1>5, <3>1, <3>2, Zenon
    <3>5. \A q \in Request : q # r /\ pc[q] \in {"keeping", "starting"} /\ HealthKeptNothing(subject[q]) =>
              runtimes'[subject[q]] = runtimes[subject[q]]
      BY <1>3, <1>8, <3>1, <3>2, <3>3, Zenon
    <3>6. \A j \in RuntimeId : Undisturbed(j)' /\ HealthKeptNothing(j)' =>
              handles'[j] = Absent \/ (handles'[j] = handles[j] /\ runtimes'[j] = runtimes[j])
      <4>1. \A j \in RuntimeId : j = i \/ (handles'[j] = handles[j] /\ runtimes'[j] = runtimes[j])
        BY <3>1, <3>3, Zenon
      <4>2. handles' = handles
        BY <3>1, Zenon
      <4> QED
        BY <1>2, <3>4, <4>1, <4>2, Zenon
    <3> QED
      BY <1>7, <3>2, <3>3, <3>5, <3>6, Zenon
  <2> QED
    BY <2>1, <2>2, Zenon
<1>12. CASE runtime_handle(r)
  <2>1. runtimes' = runtimes /\ handles' = handles /\ pc[r] = "begun"
    BY <1>12, Zenon DEF runtime_handle
  <2>2. ASSUME to \in {"keeping", "starting"}, Undisturbed(i)', HealthKeptNothing(i)'
        PROVE  held'[r] = runtimes'[i]
    <3>1. op[r] # "Health"
      BY <1>2, <2>2, Zenon DEF HealthKeptNothing
    <3>2. ~BeingCleaned(i) /\ Undisturbed(i) /\ HealthKeptNothing(i) /\ i \in RuntimeId
      BY <1>2, <1>3, <2>1, <2>2, <3>1, CleanedAlone, Zenon DEF InGate, Cleaning, Disposing
    <3>3. handles[i] \in {Absent, runtimes[i]}
      BY <1>5, <3>2, Zenon
    <3>4. held'[r] \in {handles[i], runtimes[i]} /\ held'[r] # Absent
      BY <1>3, <1>12, <2>2, Zenon DEF runtime_handle, Finish, GoTo
    <3> QED
      BY <2>1, <3>3, <3>4, Zenon
  <2> QED
    BY <1>7, <2>1, <2>2, Zenon DEF Cleaning
<1>13. CASE KeepHandle(r)
  <2>1. /\ runtimes' = runtimes /\ handles' = [handles EXCEPT ![i] = held[r]] /\ held' = held /\ pc[r] = "keeping"
    BY <1>13, Zenon DEF KeepHandle
  <2>2. Undisturbed(i)' /\ HealthKeptNothing(i)' => held[r] = runtimes[i]
    BY <1>2, <1>3, <1>5, <2>1, Zenon
  <2>3. \A j \in RuntimeId : Undisturbed(j)' /\ HealthKeptNothing(j)' => handles'[j] = runtimes'[j] \/ handles'[j] = handles[j]
    <3>1. \A j \in RuntimeId : IF j = i THEN handles'[j] = held[r] ELSE handles'[j] = handles[j]
      BY <1>3, <2>1, Zenon
    <3> QED
      BY <1>2, <2>1, <2>2, <3>1, Zenon
  <2> QED
    BY <1>7, <2>1, <2>2, <2>3, Zenon DEF Cleaning
<1>14. CASE DisposeRemove(r)
  <2>1. /\ runtimes' = [runtimes EXCEPT ![i] = Absent] /\ handles' = handles /\ pc[r] \in {"confirmed", "unconfirmed"}
        /\ r \in Direct \/ to \in {"sweeping", "failed"}
        /\ to \notin {"keeping", "starting"}
    BY <1>3, <1>14, Zenon DEF DisposeRemove, Finish, GoTo
  <2>2. op[r] = "Dispose" /\ pc[r] \notin Cleaning /\ pc[r] \in InGate
    BY <1>3, <2>1, Zenon DEF Fits, Operation, Over, Cleaning, InGate, Disposing
  <2>3. ASSUME Undisturbed(i)', handles[i] # Absent
        PROVE  BeingCleaned(i)'
    <3>1. r \notin Direct
      BY <1>3, <2>3 DEF HeldFits, Made, BasicInv, LoadFits
    <3>2. to # "failed"
      BY <1>2, <2>2, <2>3, Zenon DEF Undisturbed
    <3> QED
      BY <1>2, <2>1, <3>1, <3>2, Zenon DEF BeingCleaned, Cleaning
  <2>4. i \in RuntimeId /\ \A j \in RuntimeId : j # i => runtimes'[j] = runtimes[j]
    BY <1>3, <2>1, Zenon
  <2>5. \A j \in RuntimeId : Undisturbed(j)' => handles[j] = Absent \/ BeingCleaned(j)' \/ runtimes'[j] = runtimes[j]
    BY <1>2, <2>3, <2>4, Zenon
  <2>6. \A q \in Request : q # r /\ pc[q] \in {"keeping", "starting"} /\ HealthKeptNothing(subject[q]) =>
            runtimes'[subject[q]] = runtimes[subject[q]]
    BY <1>3, <1>8, <2>2, <2>4, Zenon
  <2> QED
    BY <1>7, <2>1, <2>2, <2>5, <2>6, Zenon
<1>15. CASE DisposeClear(r)
  <2>1. runtimes' = runtimes /\ handles' = [handles EXCEPT ![i] = Absent] /\ to = "done"
    BY <1>3, <1>15, Zenon DEF DisposeClear, Finish, GoTo
  <2>2. \A j \in RuntimeId : handles'[j] = IF j = i THEN Absent ELSE handles[j]
    BY <1>3, <2>1, Zenon
  <2> QED
    BY <1>3, <1>7, <2>1, <2>2, Zenon
<1> QED
  BY <1>9, <1>10, <1>11, <1>12, <1>13, <1>14, <1>15, Zenon DEF RequestStep

-----------------------------------------------------------------------------
\* Pumps only bring events of turns that are present.
LEMMA PumpsInv ==
    ASSUME HostInv, NEW s \in Request, TurnStep(s), UNCHANGED hostLoad
    PROVE  HostInv'
<1>1. /\ op' = op /\ subject' = subject /\ Direct' = Direct /\ runtimes' = runtimes /\ handles' = handles
      /\ gate' = gate /\ disposed' = disposed /\ pc' = pc /\ held' = held
  BY Zenon DEF TurnStep, PumpAppend, TurnEnds, PumpEnds, hostLoad
<1>2. /\ Types /\ LoadFits /\ Places /\ GateHeld /\ HeldFits /\ PumpFits
      /\ RegistryFits /\ TurnsFit /\ HandlesFit
  BY Zenon DEF HostInv, BasicInv
<1>3. /\ subject[s] \in RuntimeId
      /\ journal \in [RuntimeId -> SUBSET Request] /\ pump \in [Request -> Pump]
  BY <1>2, Zenon DEF LoadFits, Types
<1>4. /\ journal' \in [RuntimeId -> SUBSET Request] /\ pump' \in [Request -> Pump]
      /\ \A q \in Request : Present(q)' => Present(q)
      /\ \A q \in Request : pump'[q] = pump[q] \/ (pump[q] \in {"pumping", "loose"} /\ pump'[q] \in {"stopped", "gone"})
      /\ \A q \in Request, i \in RuntimeId : q \in journal'[i] => q \in journal[i] \/ (i = subject[q] /\ pump[q] \in {"pumping", "loose"})
  <2>1. CASE PumpAppend(s)
    <3>1. pump[s] \in {"pumping", "loose"} /\ journal' = [journal EXCEPT ![subject[s]] = @ \cup {s}] /\ pump' = pump
      BY <2>1, Zenon DEF PumpAppend
    <3>2. \A i \in RuntimeId : journal'[i] = IF i = subject[s] THEN journal[i] \cup {s} ELSE journal[i]
      BY <1>3, <3>1, Zenon
    <3>3. \A q \in Request : subject[q] \in RuntimeId
      BY <1>2, Zenon DEF LoadFits
    <3> QED
      BY <1>1, <1>3, <3>1, <3>2, <3>3 DEF Present
  <2>2. CASE TurnEnds(s)
    BY <1>1, <1>3, <2>2, Zenon DEF TurnEnds, Present
  <2>3. CASE PumpEnds(s)
    <3>1. /\ pump' = [pump EXCEPT ![s] = IF @ = "loose" THEN "gone" ELSE "stopped"] /\ journal' = journal
          /\ pump[s] \in {"pumping", "loose"}
      BY <2>3, Zenon DEF PumpEnds
    <3> QED
      BY <1>1, <1>3, <3>1 DEF Present, Pump
  <2> QED
    BY <2>1, <2>2, <2>3, Zenon DEF TurnStep
<1>5. Types' /\ LoadFits' /\ Places'
  BY <1>1, <1>2, <1>4, Zenon DEF Types, LoadFits, Places, Fits
<1>6. GateHeld' /\ HeldFits'
  BY <1>1, <1>2 DEF GateHeld, Ungated, HeldFits, Made
<1>7. PumpFits'
  BY <1>1, <1>2, <1>4 DEF PumpFits
<1>8. RegistryFits'
  BY <1>1, <1>2 DEF RegistryFits, Registered, Made, Sole
<1>9. \A i \in RuntimeId : /\ BeingCleaned(i)' <=> BeingCleaned(i)
                           /\ Undisturbed(i)' <=> Undisturbed(i)
                           /\ HealthKeptNothing(i)' <=> HealthKeptNothing(i)
  BY <1>1, Zenon DEF BeingCleaned, Undisturbed, HealthKeptNothing
<1>10. \A q \in Request : subject[q] \in RuntimeId
  BY <1>2, Zenon DEF LoadFits
<1>11. TurnsFit'
  BY <1>1, <1>2, <1>4, <1>9, <1>10, Zenon DEF TurnsFit
<1>12. HandlesFit'
  BY <1>1, <1>2, <1>9, <1>10, Zenon DEF HandlesFit
<1> QED
  BY <1>5, <1>6, <1>7, <1>8, <1>11, <1>12, Zenon DEF HostInv, BasicInv

\* Every step of a request, a pump or a dropped future keeps the invariant.
LEMMA NextHostInv ==
    ASSUME HostInv, [HostNext]_hostVars
    PROVE  HostInv'
<1>1. CASE UNCHANGED hostVars
  <2>1. UNCHANGED <<op, subject, Direct, runtimes, handles, gate, disposed, journal, pump, ended, pc, held>>
    BY <1>1, Zenon DEF hostVars, hostLoad, hostState
  <2>2. Types' /\ LoadFits' /\ Places' /\ GateHeld' /\ HeldFits' /\ PumpFits'
    BY <2>1 DEF HostInv, BasicInv, Types, LoadFits, Places, Fits, GateHeld, Ungated, HeldFits, Made, PumpFits
  <2>3. RegistryFits'
    BY <2>1 DEF HostInv, RegistryFits, Registered, Made, Sole
  <2>4. TurnsFit'
    BY <2>1, Zenon DEF HostInv, TurnsFit, Present, BeingCleaned, Undisturbed
  <2>5. HandlesFit'
    BY <2>1, Zenon DEF HostInv, HandlesFit, BeingCleaned, Undisturbed, HealthKeptNothing
  <2> QED
    BY <2>2, <2>3, <2>4, <2>5, Zenon DEF HostInv, BasicInv
<1>2. ASSUME NEW r \in Request, RequestStep(r) \/ DropRequest(r), UNCHANGED hostLoad
      PROVE  HostInv'
  <2>1. BasicInv /\ RegistryFits /\ TurnsFit /\ HandlesFit
    BY Zenon DEF HostInv
  <2> QED
    BY <1>2, <2>1, BasicStep, RegistryStep, TurnsStep, HandlesStep, Zenon DEF HostInv
<1> QED
  BY <1>1, <1>2, PumpsInv, Zenon DEF HostNext

\* The invariant gives the four properties.
LEMMA HostInvIsSound ==
    ASSUME HostInv
    PROVE  RuntimesAreSound
<1>1. /\ LoadFits /\ Types /\ HeldFits /\ PumpFits /\ RegistryFits /\ TurnsFit /\ HandlesFit
      /\ Absent \notin Request /\ max_runtimes \in Nat
  BY HostAssumption, Zenon DEF HostInv, BasicInv
<1>2. OldEventsStayOut
  <2> SUFFICES ASSUME NEW i \in RuntimeId, Undisturbed(i), Live(runtimes[i]), NEW s \in journal[i],
                      pump[s] \notin {"loose", "gone"}
               PROVE  held[s] = runtimes[i]
    BY Zenon DEF OldEventsStayOut
  <2>1. s \in Request /\ subject[s] = i /\ Present(s)
    BY <1>1, Zenon DEF Types, PumpFits, Present
  <2>2. ~BeingCleaned(i)
    BY <1>1 DEF BeingCleaned, RegistryFits, Live
  <2> QED
    BY <1>1, <2>1, <2>2, Zenon DEF TurnsFit
<1>3. StartReachesCurrent
  BY <1>1, Zenon DEF StartReachesCurrent, HandlesFit
<1>4. CapacityHeld
  <2> DEFINE made == {e \in Request : op[e] = "Acquire" /\ held[e] = e /\ Live(e)}
             place == [e \in made |-> subject[e]]
  <2> SUFFICES ASSUME \A r, q \in Direct :
                          op[r] = "Dispose" /\ op[q] = "Dispose" /\ held[r] = held[q] => r = q \/ held[r] = Absent
               PROVE  Cardinality(made) <= max_runtimes
    BY Zenon DEF CapacityHeld
  <2>1. \A i \in RuntimeId : Sole(i)
    BY Zenon DEF Sole
  <2>2. \A e \in made : /\ runtimes[subject[e]] = e /\ subject[e] \in Registered
    <3> SUFFICES ASSUME NEW e \in made
                 PROVE  runtimes[subject[e]] = e /\ subject[e] \in Registered
      BY Zenon
    <3>1. e \in Request /\ Made(e, subject[e]) /\ e \notin disposed /\ subject[e] \in RuntimeId
      BY <1>1, Zenon DEF Made, Live, LoadFits
    <3>2. runtimes[subject[e]] = e
      BY <1>1, <2>1, <3>1, Zenon DEF RegistryFits
    <3> QED
      BY <1>1, <3>1, <3>2, Zenon DEF Registered
  <2>3. IsFiniteSet(Registered) /\ Cardinality(Registered) <= max_runtimes
    BY <1>1, Zenon DEF RegistryFits
  <2> HIDE DEF made
  <2>4. place \in Injection(made, Registered)
    BY <2>2, Zenon DEF Injection, IsInjective
  <2> HIDE DEF place
  <2>5. IsFiniteSet(made) /\ Cardinality(made) <= Cardinality(Registered)
    BY <2>3, <2>4, FS_Injection, Zenon
  <2>6. Cardinality(made) \in Nat /\ Cardinality(Registered) \in Nat
    BY <2>3, <2>5, FS_CardinalityType, Zenon
  <2> QED
    BY <1>1, <2>3, <2>5, <2>6
<1>5. PumpsAreReleased
  BY <1>1, Zenon DEF PumpsAreReleased, PumpFits, Over
<1> QED
  BY <1>2, <1>3, <1>4, <1>5, Zenon DEF RuntimesAreSound

\* For all requests, dropped or failing at any step: no events of a predecessor in
\* the journal of a live runtime, no turn started on a predecessor, no more live
\* runtimes than max_runtimes, and no pump left waiting, each with the exceptions
\* its definition names (acquire, attach and dispose in retained.rs,
\* dispose_runtime and the StartTurn request in protocol_host.rs).
THEOREM HostCorrect ==
    HostSpec => []RuntimesAreSound
<1>1. HostInit => HostInv
  BY InitHostInv, Zenon
<1>2. HostInv /\ [HostNext]_hostVars => HostInv'
  BY NextHostInv, Zenon
<1>3. HostInv => RuntimesAreSound
  BY HostInvIsSound, Zenon
<1> QED
  BY <1>1, <1>2, <1>3, PTL DEF HostSpec

=============================================================================
