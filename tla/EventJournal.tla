---------------------------- MODULE EventJournal ----------------------------
(***************************************************************************)
(* The bounded, process-local event journal of src/src/journal.rs.         *)
(*                                                                         *)
(* A HashMap is a set of keys next to a total function that holds the      *)
(* value of every key (and a fixed value for the others); a VecDeque is a  *)
(* sequence.  An envelope keeps what the journal tells apart: its ids, its *)
(* sequence, its time stamp, its schema and whether the rest of it equals  *)
(* another envelope ("payload").  `append` and `remove_runtime` run under  *)
(* one mutex, so each is one action; `replay` only reads and is an         *)
(* operator here, used by the consumer of module EventReplay.              *)
(***************************************************************************)
EXTENDS Integers, SequencesExt, OrderDeque

CONSTANTS
    RuntimeId,                    \* runtime identifiers
    InvocationId,                 \* invocation identifiers, ordered as Nat
    Payload,                      \* contents two envelopes can differ in
    Time,                         \* values of observed_at_unix_ms
    SchemaVersion,                \* schema versions an envelope may carry
    MaxSequence,                  \* bound: largest sequence ever appended
    max_runtimes,
    max_invocations_per_runtime,
    max_events_per_invocation,
    max_replay_events

ASSUME LimitsAssumption ==
    /\ max_runtimes \in Nat \ {0}
    /\ max_invocations_per_runtime \in Nat \ {0}
    /\ max_events_per_invocation \in Nat \ {0}
    /\ max_replay_events \in Nat \ {0}

ASSUME DomainAssumption ==
    /\ InvocationId \subseteq Nat
    /\ Time \subseteq Nat
    /\ MaxSequence \in Nat

VARIABLES
    runtimes,       \* keys of JournalState::runtimes
    journal,        \* their RuntimeJournal
    runtime_order,  \* JournalState::runtime_order
    outcome,        \* what the last call returned
    accepted        \* history: what append accepted for each retained invocation

journalVars == <<runtimes, journal, runtime_order, outcome, accepted>>

Event == [sequence : Nat, observed_at : Time, payload : Payload]

Envelope ==
    [runtime_id : RuntimeId, invocation_id : InvocationId,
     schema_version : SchemaVersion, sequence : 0..MaxSequence,
     observed_at : Time, payload : Payload]

RuntimeJournal ==
    [invocations : SUBSET InvocationId,
     events : [InvocationId -> Seq(Event)],
     evicted_through : [InvocationId -> Nat],
     invocation_order : Seq(InvocationId),
     evicted_invocations : SUBSET InvocationId,
     evicted_order : Seq(InvocationId)]

AppendError ==
    {"UnsupportedSchema", "SequenceConflict", "SequenceGap", "StateInvariant"}

Outcome == {"Appended", "AlreadyPresent", "Removed", "none"} \cup AppendError

------------------------------------------------------------------------

-----------------------------------------------------------------------------
(* InvocationJournal *)

expected(events, evicted_through) ==
    IF events = <<>> THEN evicted_through + 1 ELSE Last(events).sequence + 1

ToEvent(e) ==
    [sequence |-> e.sequence, observed_at |-> e.observed_at, payload |-> e.payload]

InvocationOutcome(events, evicted_through, e) ==
    LET next == expected(events, evicted_through)
    IN  IF e.sequence < next
        THEN IF ToEvent(e) \in ToSet(events) THEN "AlreadyPresent"
                                             ELSE "SequenceConflict"
        ELSE IF e.sequence > next THEN "SequenceGap" ELSE "Appended"

PushedEvents(events, e) ==
    Trimmed(Append(events, ToEvent(e)), max_events_per_invocation)

\* Mutant: the window is said to start after the newest event.
ThroughNewest(events, evicted_through, e) ==
    IF Len(events) + 1 > max_events_per_invocation THEN e.sequence ELSE evicted_through

PushedThrough(events, evicted_through, e) ==
    LET pushed == Append(events, ToEvent(e))
    IN  IF Len(pushed) > max_events_per_invocation
        THEN Head(pushed).sequence
        ELSE evicted_through

-----------------------------------------------------------------------------
(* RuntimeJournal *)

NewRuntimeJournal ==
    [invocations |-> {},
     events |-> [i \in InvocationId |-> <<>>],
     evicted_through |-> [i \in InvocationId |-> 0],
     invocation_order |-> <<>>,
     evicted_invocations |-> {},
     evicted_order |-> <<>>]

\* A first envelope creates its invocation, evicting the oldest ones; what is
\* evicted leaves a tombstone, and the tombstones are bounded as well.
InsertInvocation(rj, i) ==
    LET order   == Append(rj.invocation_order, i)
        expired == Popped(order, max_invocations_per_runtime)
        tombs   == IF expired \subseteq rj.evicted_invocations
                   THEN rj.evicted_order
                   ELSE Append(rj.evicted_order, Head(order))
    IN  [invocations |-> (rj.invocations \cup {i}) \ expired,
         events |-> [x \in InvocationId |->
                        IF x \in expired \cup {i} THEN <<>> ELSE rj.events[x]],
         evicted_through |-> [x \in InvocationId |->
                        IF x \in expired \cup {i} THEN 0 ELSE rj.evicted_through[x]],
         invocation_order |-> Trimmed(order, max_invocations_per_runtime),
         evicted_invocations |-> (rj.evicted_invocations \cup expired)
                                     \ Popped(tombs, max_invocations_per_runtime),
         evicted_order |-> Trimmed(tombs, max_invocations_per_runtime)]

\* The journal an append reaches `invocation.append` with.
WithInvocation(rj, e) ==
    IF /\ e.invocation_id \notin rj.evicted_invocations \cup rj.invocations
       /\ e.sequence = 1
    THEN InsertInvocation(rj, e.invocation_id)
    ELSE rj

RuntimeOutcome(rj, e) ==
    LET i  == e.invocation_id
        at == WithInvocation(rj, e)
    IN  IF i \in rj.evicted_invocations THEN "SequenceConflict"
        ELSE IF i \notin rj.invocations /\ e.sequence # 1 THEN "SequenceGap"
        ELSE IF i \notin at.invocations THEN "StateInvariant"
        ELSE InvocationOutcome(at.events[i], at.evicted_through[i], e)

RuntimeAppend(rj, e) ==
    LET i  == e.invocation_id
        at == WithInvocation(rj, e)
    IN  IF RuntimeOutcome(rj, e) # "Appended" THEN at
        ELSE [at EXCEPT !.events[i] = PushedEvents(at.events[i], e),
                        !.evicted_through[i] =
                            PushedThrough(at.events[i], at.evicted_through[i], e)]

-----------------------------------------------------------------------------
(* InMemoryEventJournal *)

\* `append` creates the runtime before anything else can fail.
RuntimeOrderWith(r) ==
    IF r \in runtimes THEN runtime_order
    ELSE Trimmed(Append(runtime_order, r), max_runtimes)

RuntimesWith(r) ==
    IF r \in runtimes THEN runtimes
    ELSE (runtimes \cup {r}) \ Popped(Append(runtime_order, r), max_runtimes)

JournalWith(r) ==
    [x \in RuntimeId |->
        IF x \in RuntimesWith(r) /\ x \in runtimes THEN journal[x]
                                                   ELSE NewRuntimeJournal]

Init ==
    /\ runtimes = {}
    /\ journal = [r \in RuntimeId |-> NewRuntimeJournal]
    /\ runtime_order = <<>>
    /\ outcome = "none"
    /\ accepted = [r \in RuntimeId |-> [i \in InvocationId |-> <<>>]]

\* The history follows the incarnation of an invocation: it grows with an
\* Appended envelope and ends when the invocation is evicted.
Recorded(e) ==
    [r \in RuntimeId |-> [i \in InvocationId |->
        IF r \notin runtimes' \/ i \notin journal'[r].invocations THEN <<>>
        ELSE IF outcome' = "Appended" /\ r = e.runtime_id /\ i = e.invocation_id
        THEN Append(accepted[r][i], ToEvent(e))
        ELSE accepted[r][i]]]

AppendUnsupported(e) ==
    /\ e.schema_version # 1
    /\ outcome' = "UnsupportedSchema"
    /\ UNCHANGED <<runtimes, journal, runtime_order, accepted>>

AppendEnvelope(e) ==
    LET r == e.runtime_id
        present == r \in RuntimesWith(r)
    IN  /\ e.schema_version = 1
        /\ runtimes' = RuntimesWith(r)
        /\ runtime_order' = RuntimeOrderWith(r)
        /\ journal' = IF present
                      THEN [JournalWith(r) EXCEPT ![r] = RuntimeAppend(@, e)]
                      ELSE JournalWith(r)
        /\ outcome' = IF present THEN RuntimeOutcome(JournalWith(r)[r], e)
                                 ELSE "StateInvariant"
        /\ accepted' = Recorded(e)

append(e) == AppendUnsupported(e) \/ AppendEnvelope(e)

remove_runtime(r) ==
    /\ runtimes' = runtimes \ {r}
    /\ runtime_order' = Without(runtime_order, r)
    /\ journal' = [journal EXCEPT ![r] = NewRuntimeJournal]
    /\ outcome' = "Removed"
    /\ accepted' = [accepted EXCEPT ![r] = [i \in InvocationId |-> <<>>]]

Next ==
    \/ \E e \in Envelope : append(e)
    \/ \E r \in RuntimeId : remove_runtime(r)

Spec == Init /\ [][Next]_journalVars

-----------------------------------------------------------------------------
TypeOK ==
    /\ runtimes \in SUBSET RuntimeId
    /\ journal \in [RuntimeId -> RuntimeJournal]
    /\ runtime_order \in Seq(RuntimeId)
    /\ outcome \in Outcome
    /\ accepted \in [RuntimeId -> [InvocationId -> Seq(Event)]]

RuntimeBounded(rj) ==
    /\ Lists(rj.invocation_order, rj.invocations, max_invocations_per_runtime)
    /\ Lists(rj.evicted_order, rj.evicted_invocations, max_invocations_per_runtime)
    /\ rj.invocations \cap rj.evicted_invocations = {}
    /\ \A i \in InvocationId : Len(rj.events[i]) <= max_events_per_invocation

\* Maps and order deques are updated by different statements and must agree
\* after every call: otherwise a runtime or an invocation is never evicted, or
\* is evicted while it is still being written.  No invocation is both retained
\* and a tombstone.
Bounded ==
    /\ Lists(runtime_order, runtimes, max_runtimes)
    /\ \A r \in RuntimeId : RuntimeBounded(journal[r])

RetainedTail(events, through, history) ==
    /\ Len(history) = through + Len(events)
    /\ \A k \in 1..Len(events) :
        /\ events[k] = history[through + k]
        /\ events[k].sequence = through + k

\* What an invocation retains is the newest part of what append accepted for
\* it: no hole, no reordering, no stale event of an earlier incarnation, and
\* evicted_through counts exactly the accepted events that are gone.
RetainedIsAcceptedTail ==
    \A r \in runtimes : \A i \in journal[r].invocations :
        RetainedTail(journal[r].events[i], journal[r].evicted_through[i], accepted[r][i])

\* The two `StateInvariant` returns of append are unreachable.
NeverStateInvariant == outcome # "StateInvariant"

=============================================================================
