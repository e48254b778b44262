---------------------------- MODULE RequestCache ----------------------------
(***************************************************************************)
(* The idempotency cache of the remote host (src/src/protocol_host.rs):    *)
(* concurrent dispatches of frames that carry a request id and a           *)
(* fingerprint, of which one owns the execution, equal ones wait for it or *)
(* are answered from the cache, and different ones are refused.            *)
(*                                                                         *)
(* Every access to the cache holds its mutex, so a claim, a completion and *)
(* the drop of a guard are one action each; what a dispatch awaits lies    *)
(* between them.  The frames an execution produced are represented by the  *)
(* dispatch that executed.  Attach and health requests bypass the cache.   *)
(***************************************************************************)
EXTENDS Integers, FiniteSets, Sequences, OrderDeque

CONSTANTS
    Dispatch,           \* calls of `dispatch`
    RequestId,
    Fingerprint,
    Nobody,             \* stands for an absent dispatch or fingerprint
    maximum,            \* completed_request_capacity
    pending_maximum     \* pending_request_capacity

ASSUME CacheLimitsAssumption ==
    /\ maximum \in Nat \ {0}
    /\ pending_maximum \in Nat \ {0}

ASSUME CacheSetsAssumption ==
    /\ Nobody \notin Dispatch
    /\ IsFiniteSet(RequestId)

VARIABLES
    entry,      \* RequestCache::entries: the variant stored under each id
    print,      \* the fingerprint stored with it
    holder,     \* the owner of a Pending entry, the producer of a Complete one
    order,      \* RequestCache::order
    pending,    \* RequestCache::pending
    frame,      \* the frame of each dispatch: its request id and fingerprint
    step,       \* where each dispatch is
    waits_for,  \* the owner whose watch channel a waiting dispatch observes
    answer,     \* the execution whose frames a dispatch sends
    since       \* history: completions since the id's own, or -1

cacheVars == <<entry, print, holder, order, pending>>

dispatchVars == <<frame, step, waits_for, answer>>

vars == <<cacheVars, dispatchVars, since>>

Frame == [request_id : RequestId, fingerprint : Fingerprint]

Step == {"claiming", "waiting", "executing", "answered", "rejected", "dropped"}

IdOf(d) == frame[d].request_id

PrintOf(d) == frame[d].fingerprint

-----------------------------------------------------------------------------
Init ==
    /\ entry = [id \in RequestId |-> "None"]
    /\ print = [id \in RequestId |-> Nobody]
    /\ holder = [id \in RequestId |-> Nobody]
    /\ order = <<>>
    /\ pending = 0
    /\ frame \in [Dispatch -> Frame]
    /\ step = [d \in Dispatch |-> "claiming"]
    /\ waits_for = [d \in Dispatch |-> Nobody]
    /\ answer = [d \in Dispatch |-> Nobody]
    /\ since = [id \in RequestId |-> -1]

Matches(d, kind) == entry[IdOf(d)] = kind /\ print[IdOf(d)] = PrintOf(d)

ClaimOwner(d) ==
    /\ step[d] = "claiming"
    /\ entry[IdOf(d)] = "None"
    /\ pending < pending_maximum
    /\ entry' = [entry EXCEPT ![IdOf(d)] = "Pending"]
    /\ print' = [print EXCEPT ![IdOf(d)] = PrintOf(d)]
    /\ holder' = [holder EXCEPT ![IdOf(d)] = d]
    /\ pending' = pending + 1
    /\ step' = [step EXCEPT ![d] = "executing"]
    /\ since' = [since EXCEPT ![IdOf(d)] = -1]
    /\ UNCHANGED <<order, frame, waits_for, answer>>

ClaimWait(d) ==
    /\ step[d] = "claiming"
    /\ Matches(d, "Pending")
    /\ step' = [step EXCEPT ![d] = "waiting"]
    /\ waits_for' = [waits_for EXCEPT ![d] = holder[IdOf(d)]]
    /\ UNCHANGED <<cacheVars, frame, answer, since>>

\* Mutant: the fingerprint of a cached response is not compared.
CachedWithoutFingerprint(d) ==
    /\ step[d] = "claiming"
    /\ entry[IdOf(d)] = "Complete"
    /\ step' = [step EXCEPT ![d] = "answered"]
    /\ answer' = [answer EXCEPT ![d] = holder[IdOf(d)]]
    /\ UNCHANGED <<cacheVars, frame, waits_for, since>>

ClaimCached(d) ==
    /\ step[d] = "claiming"
    /\ Matches(d, "Complete")
    /\ step' = [step EXCEPT ![d] = "answered"]
    /\ answer' = [answer EXCEPT ![d] = holder[IdOf(d)]]
    /\ UNCHANGED <<cacheVars, frame, waits_for, since>>

\* RequestIdConflict, or RequestCapacityExceeded.
ClaimRejected(d) ==
    /\ step[d] = "claiming"
    /\ \/ entry[IdOf(d)] # "None" /\ print[IdOf(d)] # PrintOf(d)
       \/ entry[IdOf(d)] = "None" /\ pending >= pending_maximum
    /\ step' = [step EXCEPT ![d] = "rejected"]
    /\ UNCHANGED <<cacheVars, frame, waits_for, answer, since>>

claim_request(d) == ClaimOwner(d) \/ ClaimWait(d) \/ ClaimCached(d) \/ ClaimRejected(d)

\* Mutant: only a completed claim wakes its waiters.
WakeOnComplete(d) ==
    /\ step[d] = "waiting"
    /\ step[waits_for[d]] = "answered"
    /\ step' = [step EXCEPT ![d] = "claiming"]
    /\ waits_for' = [waits_for EXCEPT ![d] = Nobody]
    /\ UNCHANGED <<cacheVars, frame, answer, since>>

\* The watch channel of a claim fires when the claim ends, whichever way; the
\* waiter then claims again.
Wake(d) ==
    /\ step[d] = "waiting"
    /\ step[waits_for[d]] # "executing"
    /\ step' = [step EXCEPT ![d] = "claiming"]
    /\ waits_for' = [waits_for EXCEPT ![d] = Nobody]
    /\ UNCHANGED <<cacheVars, frame, answer, since>>

\* evict_completed: an expired id only leaves the map when it is Complete.
Evicted(entries, s) ==
    [id \in RequestId |->
        IF id \in Popped(s, maximum) /\ entries[id] = "Complete" THEN "None" ELSE entries[id]]

\* PendingRequestGuard::complete; an entry that is no longer the guard's is put
\* back unchanged.
complete(d) ==
    LET completed == [entry EXCEPT ![IdOf(d)] = "Complete"]
        pushed    == Append(order, IdOf(d))
    IN  /\ step[d] = "executing"
        /\ IF Matches(d, "Pending")
           THEN /\ pending' = IF pending > 0 THEN pending - 1 ELSE 0
                /\ entry' = Evicted(completed, pushed)
                /\ order' = Trimmed(pushed, maximum)
                /\ since' = [id \in RequestId |->
                                IF id = IdOf(d) THEN 0
                                ELSE IF since[id] >= 0 THEN since[id] + 1 ELSE -1]
           ELSE UNCHANGED <<pending, entry, order, since>>
        /\ step' = [step EXCEPT ![d] = "answered"]
        /\ answer' = [answer EXCEPT ![d] = d]
        /\ UNCHANGED <<print, holder, frame, waits_for>>

\* The dispatch future is dropped; an armed guard gives its claim back.
drop(d) ==
    /\ step[d] \in {"claiming", "waiting", "executing"}
    /\ step' = [step EXCEPT ![d] = "dropped"]
    /\ waits_for' = [waits_for EXCEPT ![d] = Nobody]
    /\ IF step[d] = "executing" /\ Matches(d, "Pending")
       THEN /\ entry' = [entry EXCEPT ![IdOf(d)] = "None"]
            /\ pending' = IF pending > 0 THEN pending - 1 ELSE 0
            /\ UNCHANGED <<print, holder, order>>
       ELSE UNCHANGED cacheVars
    /\ UNCHANGED <<frame, answer, since>>

DispatchStep(d) == claim_request(d) \/ Wake(d) \/ complete(d)

Next == \E d \in Dispatch : DispatchStep(d) \/ drop(d)

Spec == Init /\ [][Next]_vars

-----------------------------------------------------------------------------
TypeOK ==
    /\ entry \in [RequestId -> {"None", "Pending", "Complete"}]
    /\ print \in [RequestId -> Fingerprint \cup {Nobody}]
    /\ holder \in [RequestId -> Dispatch \cup {Nobody}]
    /\ order \in Seq(RequestId)
    /\ pending \in Nat
    /\ frame \in [Dispatch -> Frame]
    /\ step \in [Dispatch -> Step]
    /\ waits_for \in [Dispatch -> Dispatch \cup {Nobody}]
    /\ answer \in [Dispatch -> Dispatch \cup {Nobody}]
    /\ since \in [RequestId -> Nat \cup {-1}]

PendingIds == {id \in RequestId : entry[id] = "Pending"}

CompleteIds == {id \in RequestId : entry[id] = "Complete"}

\* The pending counter, the order deque and the entries agree after every
\* claim, completion and drop, and neither limit is exceeded: a leak would make
\* the host refuse every request with RequestCapacityExceeded.
CacheConsistent ==
    /\ pending = Cardinality(PendingIds)
    /\ pending <= pending_maximum
    /\ Lists(order, CompleteIds, maximum)

\* Every guard finds its own Pending entry when it completes or is dropped,
\* though it only compares fingerprints, and every Pending entry has a live
\* guard; hence one request id is never executed by two dispatches at once.
GuardOwnsEntry ==
    /\ \A d \in Dispatch : step[d] = "executing" =>
          Matches(d, "Pending") /\ holder[IdOf(d)] = d
    /\ \A id \in PendingIds : holder[id] \in Dispatch /\ step[holder[id]] = "executing"

\* A dispatch is answered with the frames of an execution of its own frame,
\* never with those of another request that used its id.
AnswerIsOwn ==
    \A d \in Dispatch : answer[d] # Nobody => frame[answer[d]] = frame[d]

\* A frame repeated before `maximum` other requests completed is not executed
\* again: the entry of a completed request is evicted by later ones only.
WindowIsExact ==
    \A id \in RequestId : entry[id] = "Complete" <=> since[id] \in 0..(maximum - 1)

\* No dispatch is left waiting on a claim that has ended: each one is answered,
\* refused or dropped.
EveryDispatchEnds ==
    \A d \in Dispatch : <>(step[d] \in {"answered", "rejected", "dropped"})

=============================================================================
