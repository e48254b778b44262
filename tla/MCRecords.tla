----------------------------- MODULE MCRecords ------------------------------
(***************************************************************************)
(* What a host keeps for a consumer that comes back: the event journal     *)
(* under arbitrary envelopes, the journal replayed by a consumer, and the  *)
(* log of a managed process.  A behaviour is about one of the three; the   *)
(* variables of the others keep their initial values.                      *)
(***************************************************************************)
EXTENDS EventReplay, ProcessLog

VARIABLE part

\* More runtimes and invocations than the journal may keep, and envelopes of
\* every sequence, schema and content.
Arbitrary == INSTANCE EventJournal WITH
    RuntimeId <- {"r1", "r2"}, InvocationId <- 1..3, Payload <- {"p", "q"}, Time <- {0},
    SchemaVersion <- {1, 2}, MaxSequence <- 3, max_runtimes <- 1, max_invocations_per_runtime <- 1,
    max_events_per_invocation <- 2, max_replay_events <- 2

RecordsInit ==
    /\ part \in {"journal", "replay", "log"}
    /\ IF part = "journal" THEN Arbitrary!Init ELSE Init
    /\ ConsumerInit
    /\ LogInit

RecordsNext ==
    /\ UNCHANGED part
    /\ \/ part = "journal" /\ Arbitrary!Next /\ UNCHANGED <<consumerVars, logVars>>
       \/ part = "replay" /\ ReplayNext /\ UNCHANGED logVars
       \/ part = "log" /\ LogNext /\ UNCHANGED vars

RecordsSpec == RecordsInit /\ [][RecordsNext]_<<part, vars, logVars>>

=============================================================================
