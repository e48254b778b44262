------------------------- MODULE InteractionBroker --------------------------
(***************************************************************************)
(* One registry of the interaction broker (src/src/interactions.rs): the   *)
(* calls of `approve` or `answer` that wait for a response to a provider   *)
(* interaction, and the calls of `resolve_*` that bring one.  Approvals    *)
(* and questions use two independent registries of this form.              *)
(*                                                                         *)
(* Every access holds the registry's mutex and is one action.  A waiting   *)
(* future is dropped in two steps: its oneshot receiver first, then its    *)
(* guard, which locks the registry again; other calls fit between them.    *)
(* A response is represented by the call that brought it.                  *)
(***************************************************************************)
EXTENDS Integers, FiniteSets, Sequences, OrderDeque

CONSTANTS
    Waiter,         \* calls of `approve` or `answer`
    Resolver,       \* calls of `resolve_approval`, `resolve_question`, `decline_question`
    Id,             \* provider interaction ids
    NoOne,          \* neither a waiter nor a response
    configured      \* the argument of InteractionBroker::new, a usize

ASSUME BrokerAssumption == NoOne \notin Waiter \cup Resolver /\ configured \in Nat

\* Registry::new: maximum.max(1).
retained_maximum == IF configured = 0 THEN 1 ELSE configured

VARIABLES
    slot,               \* Registry::slots: "None", "Waiting" or "Staged"
    generation,         \* the generation of a Waiting slot
    sender,             \* the waiter at the other end of its oneshot channel
    staged,             \* the response of a Staged slot
    resolved,           \* Registry::resolved
    resolved_order,     \* Registry::resolved_order
    next_generation,    \* Registry::next_generation; 2^64 of them are not reached
    waits_on,           \* the interaction id of each waiter
    wstep,              \* where each waiter is
    ticket,             \* the generation its guard holds
    channel,            \* the response in its channel, or the one it returned
    about,              \* the interaction id of each response
    outcome,            \* what each `resolve` returned
    forgotten           \* history: ids that have left Registry::resolved

slotVars == <<slot, generation, sender, staged>>

windowVars == <<resolved, resolved_order, forgotten>>

brokerVars == <<slotVars, windowVars, next_generation, waits_on, wstep, ticket, channel,
          about, outcome>>

WaiterStep == {"idle", "waiting", "received", "closed", "returned", "defaulted", "dropped"}

Resolution == {"calling", "Delivered", "Staged", "AlreadyResolved", "CapacityExceeded", "Expired"}

-----------------------------------------------------------------------------
BrokerInit ==
    /\ slot = [i \in Id |-> "None"]
    /\ generation = [i \in Id |-> 0]
    /\ sender = [i \in Id |-> NoOne]
    /\ staged = [i \in Id |-> NoOne]
    /\ resolved = {}
    /\ resolved_order = <<>>
    /\ forgotten = {}
    /\ next_generation = 1
    /\ waits_on \in [Waiter -> Id]
    /\ wstep = [w \in Waiter |-> "idle"]
    /\ ticket = [w \in Waiter |-> 0]
    /\ channel = [w \in Waiter |-> NoOne]
    /\ about \in [Resolver -> Id]
    /\ outcome = [r \in Resolver |-> "calling"]

mark_resolved(i) ==
    LET pushed == IF i \in resolved THEN resolved_order ELSE Append(resolved_order, i)
    IN  /\ resolved' = (resolved \cup {i}) \ Popped(pushed, retained_maximum)
        /\ resolved_order' = Trimmed(pushed, retained_maximum)
        /\ forgotten' = forgotten \cup Popped(pushed, retained_maximum)

\* A waiter whose interaction was resolved, or is waited for by another call,
\* returns the default: a denial, or no answer.
RegisterDuplicate(w) ==
    /\ wstep[w] = "idle"
    /\ waits_on[w] \in resolved \/ slot[waits_on[w]] = "Waiting"
    /\ wstep' = [wstep EXCEPT ![w] = "defaulted"]
    /\ UNCHANGED <<slotVars, windowVars, next_generation, waits_on, ticket, channel, about, outcome>>

RegisterReady(w) ==
    LET i == waits_on[w]
    IN  /\ wstep[w] = "idle"
        /\ i \notin resolved
        /\ slot[i] = "Staged"
        /\ slot' = [slot EXCEPT ![i] = "None"]
        /\ mark_resolved(i)
        /\ channel' = [channel EXCEPT ![w] = staged[i]]
        /\ wstep' = [wstep EXCEPT ![w] = "returned"]
        /\ UNCHANGED <<generation, sender, staged, next_generation, waits_on, ticket, about, outcome>>

RegisterWaiting(w) ==
    LET i == waits_on[w]
    IN  /\ wstep[w] = "idle"
        /\ i \notin resolved
        /\ slot[i] = "None"
        /\ slot' = [slot EXCEPT ![i] = "Waiting"]
        /\ generation' = [generation EXCEPT ![i] = next_generation]
        /\ sender' = [sender EXCEPT ![i] = w]
        /\ next_generation' = next_generation + 1
        /\ ticket' = [ticket EXCEPT ![w] = next_generation]
        /\ wstep' = [wstep EXCEPT ![w] = "waiting"]
        /\ UNCHANGED <<staged, windowVars, waits_on, channel, about, outcome>>

register(w) == RegisterDuplicate(w) \/ RegisterReady(w) \/ RegisterWaiting(w)

\* The slot that holds the sender of a waiter's channel.
OwnsSlot(w) == slot[waits_on[w]] = "Waiting" /\ sender[waits_on[w]] = w

\* receiver.await.ok(): the response, or nothing once the sender is gone.
receive(w) ==
    /\ wstep[w] = "waiting"
    /\ OwnsSlot(w) => channel[w] # NoOne
    /\ wstep' = [wstep EXCEPT ![w] = "received"]
    /\ UNCHANGED <<slotVars, windowVars, next_generation, waits_on, ticket, channel, about, outcome>>

\* A timeout or a cancellation drops the future, its receiver first.
abandon(w) ==
    /\ wstep[w] = "waiting"
    /\ wstep' = [wstep EXCEPT ![w] = "closed"]
    /\ UNCHANGED <<slotVars, windowVars, next_generation, waits_on, ticket, channel, about, outcome>>

\* Mutant: the guard removes whatever waits under its id.
DropAnyGeneration(w) ==
    LET i == waits_on[w]
    IN  /\ wstep[w] \in {"received", "closed"}
        /\ slot' = IF slot[i] = "Waiting" THEN [slot EXCEPT ![i] = "None"] ELSE slot
        /\ wstep' = [wstep EXCEPT ![w] = IF wstep[w] = "received" THEN "returned" ELSE "dropped"]
        /\ UNCHANGED <<generation, sender, staged, windowVars, next_generation, waits_on, ticket,
                       channel, about, outcome>>

\* WaitingGuard::drop.
drop_guard(w) ==
    LET i == waits_on[w]
    IN  /\ wstep[w] \in {"received", "closed"}
        /\ slot' = IF slot[i] = "Waiting" /\ generation[i] = ticket[w]
                   THEN [slot EXCEPT ![i] = "None"] ELSE slot
        /\ wstep' = [wstep EXCEPT ![w] = IF wstep[w] = "received" THEN "returned" ELSE "dropped"]
        /\ UNCHANGED <<generation, sender, staged, windowVars, next_generation, waits_on, ticket,
                       channel, about, outcome>>

Returns(r, result) == outcome' = [outcome EXCEPT ![r] = result]

ResolveDuplicate(r) ==
    /\ outcome[r] = "calling"
    /\ about[r] \in resolved \/ slot[about[r]] = "Staged"
    /\ Returns(r, "AlreadyResolved")
    /\ UNCHANGED <<slotVars, windowVars, next_generation, waits_on, wstep, ticket, channel, about>>

ResolveDeliver(r) ==
    LET i == about[r]
        w == sender[i]
    IN  /\ outcome[r] = "calling"
        /\ i \notin resolved
        /\ slot[i] = "Waiting"
        /\ slot' = [slot EXCEPT ![i] = "None"]
        /\ IF wstep[w] = "waiting"
           THEN /\ channel' = [channel EXCEPT ![w] = r]
                /\ mark_resolved(i)
                /\ Returns(r, "Delivered")
           ELSE /\ Returns(r, "Expired")
                /\ UNCHANGED <<channel, windowVars>>
        /\ UNCHANGED <<generation, sender, staged, next_generation, waits_on, wstep, ticket, about>>

OccupiedIds == {i \in Id : slot[i] # "None"}

ResolveCapacity(r) ==
    /\ outcome[r] = "calling"
    /\ about[r] \notin resolved
    /\ slot[about[r]] = "None"
    /\ Cardinality(OccupiedIds) >= retained_maximum
    /\ Returns(r, "CapacityExceeded")
    /\ UNCHANGED <<slotVars, windowVars, next_generation, waits_on, wstep, ticket, channel, about>>

ResolveStage(r) ==
    /\ outcome[r] = "calling"
    /\ about[r] \notin resolved
    /\ slot[about[r]] = "None"
    /\ Cardinality(OccupiedIds) < retained_maximum
    /\ slot' = [slot EXCEPT ![about[r]] = "Staged"]
    /\ staged' = [staged EXCEPT ![about[r]] = r]
    /\ Returns(r, "Staged")
    /\ UNCHANGED <<generation, sender, windowVars, next_generation, waits_on, wstep, ticket, channel, about>>

resolve(r) == ResolveDuplicate(r) \/ ResolveDeliver(r) \/ ResolveCapacity(r) \/ ResolveStage(r)

WaiterNext(w) == register(w) \/ receive(w) \/ abandon(w) \/ drop_guard(w)

BrokerNext == (\E w \in Waiter : WaiterNext(w)) \/ (\E r \in Resolver : resolve(r))

BrokerSpec == BrokerInit /\ [][BrokerNext]_brokerVars

-----------------------------------------------------------------------------
BrokerTypeOK ==
    /\ slot \in [Id -> {"None", "Waiting", "Staged"}]
    /\ generation \in [Id -> Nat]
    /\ sender \in [Id -> Waiter \cup {NoOne}]
    /\ staged \in [Id -> Resolver \cup {NoOne}]
    /\ resolved \in SUBSET Id
    /\ resolved_order \in Seq(Id)
    /\ forgotten \in SUBSET Id
    /\ next_generation \in Nat
    /\ waits_on \in [Waiter -> Id]
    /\ wstep \in [Waiter -> WaiterStep]
    /\ ticket \in [Waiter -> Nat]
    /\ channel \in [Waiter -> Resolver \cup {NoOne}]
    /\ about \in [Resolver -> Id]
    /\ outcome \in [Resolver -> Resolution]

StagedIds == {i \in Id : slot[i] = "Staged"}

\* The set and the deque of resolved ids agree within the limit, a resolved
\* interaction has no slot, and at most `maximum` early responses are retained.
WindowConsistent ==
    /\ BrokerTypeOK
    /\ Lists(resolved_order, resolved, retained_maximum)
    /\ \A i \in resolved : slot[i] = "None"
    /\ Cardinality(StagedIds) <= retained_maximum

\* A waiter that still waits either has a response in its channel or can be
\* reached through its slot: no guard of an earlier waiter, no second waiter
\* and no late response takes the slot away, so the runtime never mistakes a
\* lost sender for a denial.
WaiterReachable ==
    \A w \in Waiter : wstep[w] = "waiting" => OwnsSlot(w) \/ channel[w] # NoOne

Accepted(r) == outcome[r] \in {"Delivered", "Staged"}

\* A response reaches at most one waiter, one that asked for its interaction,
\* and only when `resolve` reported it as accepted.
ResponseReachesItsWaiter ==
    \A w \in Waiter : channel[w] # NoOne =>
        /\ about[channel[w]] = waits_on[w]
        /\ Accepted(channel[w])
        /\ \A v \in Waiter : channel[v] = channel[w] => v = w

\* Until an interaction has left the window of resolved ids, `resolve` accepts
\* one response for it, however waiters, responses and timeouts interleave.
AcceptedOnce ==
    \A r, q \in Resolver :
        Accepted(r) /\ Accepted(q) /\ about[r] = about[q] /\ about[r] \notin forgotten => r = q

\* One response is accepted for an interaction, and it reaches one waiter of that
\* interaction, however waits, responses and timeouts interleave; what is
\* remembered of resolved and early ones stays within its limits.
OneResponseEach ==
    AcceptedOnce /\ ResponseReachesItsWaiter /\ WaiterReachable /\ WindowConsistent

=============================================================================
