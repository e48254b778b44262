----------------------------- MODULE EventReplay -----------------------------
(***************************************************************************)
(* The journal of module EventJournal between its two users: the host pump *)
(* that appends the envelopes a retained invocation emits (numbered and    *)
(* stamped in src/src/retained.rs) and one consumer that replays a runtime *)
(* page by page, advancing from `next` as `attach` does, until a page is   *)
(* not truncated.                                                          *)
(***************************************************************************)
EXTENDS EventJournal

CONSTANTS
    Watched,            \* the runtime the consumer replays
    ClockMayStepBack    \* SystemTime is a wall clock: TRUE lets it step back

ASSUME ConsumerAssumption ==
    /\ Watched \in RuntimeId
    /\ ClockMayStepBack \in BOOLEAN

VARIABLES
    cursors,    \* the consumer's `after`: a map from invocations to sequences
    delivered,  \* history: events the consumer received of what it follows
    emitted,    \* history: events the journal accepted, never evicted
    reply       \* the last replay's answer, until the journal changes

consumerVars == <<cursors, delivered, emitted, reply>>

vars == <<journalVars, consumerVars>>

NoReply == [result |-> "none", truncated |-> FALSE]

-----------------------------------------------------------------------------
(* RuntimeJournal::replay *)

\* Mutant: a tombstone is not looked up.
ExpiredWindows(rj, after) ==
    {i \in DOMAIN after \cap rj.invocations : after[i] < rj.evicted_through[i]}

\* The cursors that predate what is retained.
ExpiredCursors(rj, after) ==
    {i \in DOMAIN after :
        \/ i \in rj.evicted_invocations
        \/ i \in rj.invocations /\ after[i] < rj.evicted_through[i]}

CursorOf(after, i) == IF i \in DOMAIN after THEN after[i] ELSE 0

\* Mutant: the cursor itself is replayed again.
CandidatesFromCursor(rj, after, only) ==
    UNION {{[invocation_id |-> i, event |-> ev] :
               ev \in {x \in ToSet(rj.events[i]) : x.sequence >= CursorOf(after, i)}} :
           i \in rj.invocations \cap only}

Candidates(rj, after, only) ==
    UNION {{[invocation_id |-> i, event |-> ev] :
               ev \in {x \in ToSet(rj.events[i]) : x.sequence > CursorOf(after, i)}} :
           i \in rj.invocations \cap only}

Before(left, right) ==
    LET l == left.event
        r == right.event
    IN  \/ l.observed_at < r.observed_at
        \/ l.observed_at = r.observed_at /\ left.invocation_id < right.invocation_id
        \/ /\ l.observed_at = r.observed_at
           /\ left.invocation_id = right.invocation_id
           /\ l.sequence < r.sequence

EventsOf(batch, i) == SelectSeq(batch, LAMBDA c : c.invocation_id = i)

NextCursors(after, batch) ==
    [i \in DOMAIN after \cup {batch[k].invocation_id : k \in DOMAIN batch} |->
        IF EventsOf(batch, i) = <<>> THEN after[i]
                                     ELSE Last(EventsOf(batch, i)).event.sequence]

\* The batch of RuntimeJournal::replay when no cursor has expired.
Batch(rj, after, only, limit) ==
    LET sorted == SetToSortSeq(Candidates(rj, after, only), Before)
    IN  [events |-> SubSeq(sorted, 1, IF Len(sorted) > limit THEN limit ELSE Len(sorted)),
         truncated |-> Len(sorted) > limit]

\* An unknown runtime answers with an empty, complete batch.
BatchOf(r, after, only, limit) ==
    IF r \in runtimes THEN Batch(journal[r], after, only, limit)
                      ELSE [events |-> <<>>, truncated |-> FALSE]

-----------------------------------------------------------------------------
ConsumerInit ==
    /\ cursors = <<>>
    /\ delivered = [i \in InvocationId |-> <<>>]
    /\ emitted = [r \in RuntimeId |-> [i \in InvocationId |-> <<>>]]
    /\ reply = NoReply

ReplayInit == Init /\ ConsumerInit

\* ChannelEventSink::emit_runtime followed by the pump's append.
emit_runtime(r, i, t, p) ==
    LET e == [runtime_id |-> r, invocation_id |-> i, schema_version |-> 1,
              sequence |-> Len(emitted[r][i]) + 1, observed_at |-> t, payload |-> p]
    IN  /\ Len(emitted[r][i]) < MaxSequence
        /\ ~ClockMayStepBack /\ emitted[r][i] # <<>>
               => Last(emitted[r][i]).observed_at <= t
        /\ append(e)
        /\ emitted' = IF outcome' = "Appended"
                      THEN [emitted EXCEPT ![r][i] = Append(@, ToEvent(e))]
                      ELSE emitted
        /\ reply' = NoReply
        /\ UNCHANGED <<cursors, delivered>>

\* The consumer starts following an invocation it has seen nothing of, which
\* the client does before the turn's first event can exist.
Follow(i) ==
    /\ i \notin DOMAIN cursors
    /\ emitted[Watched][i] = <<>>
    /\ cursors' = [x \in DOMAIN cursors \cup {i} |-> CursorOf(cursors, x)]
    /\ UNCHANGED <<journalVars, delivered, emitted, reply>>

\* InvalidReplayLimit: an error that carries no page.
replay_rejected(limit) ==
    /\ limit = 0 \/ limit > max_replay_events
    /\ reply' = NoReply
    /\ UNCHANGED <<journalVars, cursors, delivered, emitted>>

\* ReplayWindowExpired: the consumer gives the named invocation up and
\* reconciles it from its own projection.
replay_expired(limit) ==
    /\ limit \in 1..max_replay_events
    /\ Watched \in runtimes
    /\ ExpiredCursors(journal[Watched], cursors) # {}
    /\ LET i == CHOOSE x \in ExpiredCursors(journal[Watched], cursors) :
                    \A y \in ExpiredCursors(journal[Watched], cursors) : x <= y
       IN  /\ cursors' = [x \in DOMAIN cursors \ {i} |-> cursors[x]]
           /\ delivered' = [delivered EXCEPT ![i] = <<>>]
    /\ reply' = [result |-> "ReplayWindowExpired", truncated |-> FALSE]
    /\ UNCHANGED <<journalVars, emitted>>

replay_ok(limit) ==
    LET batch == BatchOf(Watched, cursors, DOMAIN cursors, limit)
    IN  /\ limit \in 1..max_replay_events
        /\ Watched \notin runtimes \/ ExpiredCursors(journal[Watched], cursors) = {}
        /\ cursors' = NextCursors(cursors, batch.events)
        /\ delivered' = [i \in InvocationId |->
               delivered[i] \o [k \in DOMAIN EventsOf(batch.events, i) |->
                                    EventsOf(batch.events, i)[k].event]]
        /\ reply' = [result |-> "Ok", truncated |-> batch.truncated]
        /\ UNCHANGED <<journalVars, emitted>>

replay(limit) == replay_rejected(limit) \/ replay_expired(limit) \/ replay_ok(limit)

\* Disposal removes the journal of a runtime; whoever follows it stops.
dispose_runtime(r) ==
    /\ remove_runtime(r)
    /\ emitted' = [emitted EXCEPT ![r] = [i \in InvocationId |-> <<>>]]
    /\ cursors' = IF r = Watched THEN <<>> ELSE cursors
    /\ delivered' = IF r = Watched THEN [i \in InvocationId |-> <<>>] ELSE delivered
    /\ reply' = NoReply

ReplayNext ==
    \/ \E r \in RuntimeId, i \in InvocationId, t \in Time, p \in Payload :
            emit_runtime(r, i, t, p)
    \/ \E i \in InvocationId : Follow(i)
    \/ \E limit \in 0..(max_replay_events + 1) : replay(limit)
    \/ \E r \in RuntimeId : dispose_runtime(r)

ReplaySpec == ReplayInit /\ [][ReplayNext]_vars

-----------------------------------------------------------------------------
\* Paging through replay hands every followed invocation's events over in
\* order, none twice and none skipped, whatever is appended between the pages:
\* a cursor of n means the consumer has events 1..n.
DeliveredInOrder ==
    \A i \in DOMAIN cursors :
        delivered[i] = SubSeq(emitted[Watched][i], 1, cursors[i])

\* The journal still knows that the invocation had events.
Remembered(i) ==
    Watched \in runtimes
        /\ i \in journal[Watched].invocations \cup journal[Watched].evicted_invocations

\* A page that claims to be the last one has caught up: whatever retention
\* removed before the consumer saw it was answered by ReplayWindowExpired, for
\* every invocation the journal retains or has a tombstone of.
LossIsReported ==
    reply.result = "Ok" /\ ~reply.truncated
        => \A i \in DOMAIN cursors :
               Remembered(i) => cursors[i] = Len(emitted[Watched][i])

=============================================================================
