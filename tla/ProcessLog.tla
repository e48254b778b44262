----------------------------- MODULE ProcessLog -----------------------------
(***************************************************************************)
(* The log of a managed process (src/src/services.rs): two capture_logs    *)
(* tasks, one per stream, number their lines, push them to the bounded     *)
(* tail and publish them to the bounded live channel, while a consumer     *)
(* that reconnects subscribes, reads the tail (logs) and receives.         *)
(* The broadcast channel is external: a full one forgets its oldest event, *)
(* and the receiver is told how many it missed.  Lines are their sequence  *)
(* numbers; their text and its truncation are left out.                    *)
(***************************************************************************)
EXTENDS Integers, Sequences, Functions

CONSTANTS
    Stream,
    max_log_lines,
    event_capacity,
    MaxLine         \* bound: lines written by the process

\* The tail keeps at least one line, and the channel at least one event.
ASSUME LogAssumption == max_log_lines \in Nat \ {0} /\ event_capacity \in Nat \ {0}

VARIABLES
    next_log_sequence,
    logs,           \* ProcessEntry::logs
    capture, line,     \* each capture task and the line it has in hand
    channel,        \* events the consumer has not received
    skipped,        \* events it missed and was not told of
    subscribed,     \* the consumer has a receiver
    hydrated,       \* and has read the tail
    seen,           \* lines it has
    warned,         \* it was told Lagged
    published,      \* history: lines published
    evicted         \* history: lines that left the tail before it was read

readerVars == <<subscribed, hydrated, seen, warned>>

logVars == <<next_log_sequence, logs, capture, line, channel, skipped, readerVars, published, evicted>>

LogInit ==
    /\ next_log_sequence = 1
    /\ logs = << >>
    /\ capture = [s \in Stream |-> "reading"]
    /\ line = [s \in Stream |-> 0]
    /\ channel = << >> /\ skipped = 0
    /\ subscribed = FALSE /\ hydrated = FALSE /\ seen = {} /\ warned = FALSE
    /\ published = {} /\ evicted = {}

\* A line is read and numbered by fetch_add, outside the lock of the tail.
capture_number(s) ==
    /\ capture[s] = "reading"
    /\ next_log_sequence <= MaxLine
    /\ line' = [line EXCEPT ![s] = next_log_sequence]
    /\ next_log_sequence' = next_log_sequence + 1
    /\ capture' = [capture EXCEPT ![s] = "numbered"]
    /\ UNCHANGED <<logs, channel, skipped, readerVars, published, evicted>>

\* The tail after a push.
Kept(n) == Append(IF Len(logs) = max_log_lines THEN Tail(logs) ELSE logs, n)

Push(s) ==
    /\ logs' = Kept(line[s])
    /\ evicted' = IF hydrated THEN evicted
                  ELSE evicted \cup (Range(logs) \ Range(logs'))

\* The live event: only a subscribed consumer has a channel.
Publish(s) ==
    /\ published' = published \cup {line[s]}
    /\ IF ~subscribed THEN UNCHANGED <<channel, skipped>>
       ELSE LET full == Len(channel) = event_capacity
            IN  /\ channel' = Append(IF full THEN Tail(channel) ELSE channel, line[s])
                /\ skipped' = IF full THEN skipped + 1 ELSE skipped

PublishThenPush(s) ==
    \/ /\ capture[s] = "numbered" /\ capture' = [capture EXCEPT ![s] = "pushed"]
       /\ Publish(s)
       /\ UNCHANGED <<next_log_sequence, line, logs, readerVars, evicted>>
    \/ /\ capture[s] = "pushed" /\ capture' = [capture EXCEPT ![s] = "reading"]
       /\ Push(s)
       /\ UNCHANGED <<next_log_sequence, line, channel, skipped, readerVars, published>>

\* The tail first, under its lock; then, unlocked, the channel.
capture_store(s) ==
    \/ /\ capture[s] = "numbered" /\ capture' = [capture EXCEPT ![s] = "pushed"]
       /\ Push(s)
       /\ UNCHANGED <<next_log_sequence, line, channel, skipped, readerVars, published>>
    \/ /\ capture[s] = "pushed" /\ capture' = [capture EXCEPT ![s] = "reading"]
       /\ Publish(s)
       /\ UNCHANGED <<next_log_sequence, line, logs, readerVars, evicted>>

-----------------------------------------------------------------------------
subscribe ==
    /\ ~subscribed
    /\ subscribed' = TRUE
    /\ UNCHANGED <<next_log_sequence, logs, capture, line, channel, skipped, hydrated, seen, warned,
                   published, evicted>>

\* The guide's order, which closes the gap; reading first, as the comment of
\* subscribe has it, would leave one.
read_logs ==
    /\ ~hydrated /\ subscribed
    /\ hydrated' = TRUE
    /\ seen' = seen \cup Range(logs)
    /\ UNCHANGED <<next_log_sequence, logs, capture, line, channel, skipped, subscribed, warned,
                   published, evicted>>

\* An event, a duplicate of a line of the tail or not, or the error Lagged.
recv ==
    /\ subscribed /\ hydrated
    /\ \/ /\ skipped > 0
          /\ skipped' = 0 /\ warned' = TRUE
          /\ UNCHANGED <<channel, seen>>
       \/ /\ skipped = 0 /\ channel # << >>
          /\ seen' = seen \cup {Head(channel)}
          /\ channel' = Tail(channel)
          /\ UNCHANGED <<skipped, warned>>
    /\ UNCHANGED <<next_log_sequence, logs, capture, line, subscribed, hydrated, published,
                   evicted>>

LogNext ==
    \/ \E s \in Stream : capture_number(s) \/ capture_store(s)
    \/ subscribe \/ read_logs \/ recv

LogSpec == LogInit /\ [][LogNext]_logVars

-----------------------------------------------------------------------------
(***************************************************************************)
(* The tail and the live channel together are complete: every line that    *)
(* capture_logs published reaches a consumer that has read the one and     *)
(* subscribed to the other, unless it had left the tail before it was read *)
(* or the consumer is told that it lags.                                   *)
(***************************************************************************)
HydrationClosesGap ==
    subscribed /\ hydrated /\ ~warned /\ skipped = 0
      => published \subseteq seen \cup evicted \cup Range(channel)

=============================================================================
