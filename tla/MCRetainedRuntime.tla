------------------------- MODULE MCRetainedRuntime --------------------------
(***************************************************************************)
(* A retained runtime: two turns with a message, an interruption and a     *)
(* disposal, or three turns that hand over to each other and a disposal;   *)
(* and the events and settings of turns one after the other                *)
(* (InvocationEvents).  A behaviour is about the calls or the events.      *)
(***************************************************************************)
EXTENDS RetainedRuntime, TLC

CONSTANTS h1, h2, h3

VARIABLES part, load, entry, inv, reader, hist

MCDistinct == [c \in Call |-> c]
MCAddressee == [s \in Sender \cup Interrupter |-> "c1"]
MCCall == {"c1", "c2", h1, h2, h3}

\* The calls with a message and an interruption, the second of which may be a
\* manual compaction, or three interchangeable turns.
Addressed(k) == [c \in Call |-> CASE c = "c1" -> "Turn" [] c = "c2" -> k [] OTHER -> "None"]
Handoffs == [c \in Call |-> IF c \in {h1, h2, h3} THEN "Turn" ELSE "None"]
MCKinds == {Addressed("Turn"), Addressed("ManualCompaction"), Handoffs}
MCSymmetry == Permutations({h1, h2, h3})

-----------------------------------------------------------------------------
(* Turns of every kind, with each way to end, behind a channel of two.     *)

Turns == INSTANCE InvocationEvents WITH Workload <- {}, EVENT_CHANNEL_CAPACITY <- 2

Unset == [k \in Turns!Keys |-> Turns!None]

Input ==
    [kind |-> "Turn", prompt |-> "text", attachments |-> {}, auto |-> Turns!None,
     requires_handler |-> FALSE, has_handler |-> FALSE, settings |-> Unset]

Driver ==
    [manual_compaction |-> TRUE, compaction_instructions |-> TRUE,
     configurable_auto_compaction |-> TRUE, native_image_attachments |-> TRUE]

Ok(id) == [error |-> "ok", session |-> id, kind |-> Turns!None, delivery |-> Turns!None]

Turn(input, script, end) ==
    [input |-> input, script |-> script, end |-> end, times_out |-> FALSE, drops |-> FALSE,
     cancels |-> FALSE]

Load(driver, turns) ==
    [spec |-> [model |-> "m0", permission_mode |-> "p0"], driver |-> driver, turns |-> turns,
     max_attachments |-> 2]

Write == <<"write", Turns!None>>
Opens == <<"session", "s1">>
Text == <<"text", Turns!None>>
Compact == <<"compact", "Auto">>
Compacted == <<"compacted", "Auto">>

\* Every error the executor can return, with the part of the script it follows.
Early ==
    {Turns!Plain(e) : e \in {"InvalidRequest", "NothingToContinue", "AdapterUnavailable",
        "ExecutableNotFound", "TransportCapabilityUnavailable", "Spawn", "StartupTimeout",
        "Sandbox", "RestartWouldStopBackgroundWork"}}
    \cup {[Turns!Plain("Transport") EXCEPT !.kind = k, !.retryable = r] : r \in BOOLEAN, k \in
        {"AuthenticationFailed", "HostKeyVerificationFailed", "PermissionDenied",
         "InvalidConfiguration", "ExecutableNotFound", "WorkingDirectoryNotFound", "Unsupported",
         "SpawnFailed", "NameResolutionFailed", "ConnectionRefused", "ConnectionTimedOut",
         "RemoteUnavailable"}}

Running ==
    {Turns!Plain(e) : e \in {"ProcessIo", "Protocol", "Sandbox", "Timeout"}}
    \cup {[Turns!Plain("Transport") EXCEPT !.kind = k] : k \in
        {"StreamFailed", "ProcessControlFailed", "Protocol", "RemoteUnavailable"}}
    \cup {[Turns!Plain("ProcessFailed") EXCEPT !.kind = k, !.delivery = d] :
        k \in {"AuthenticationFailed", "PermissionDenied", "ModelUnavailable", "RateLimited",
               "Network", "Unknown"}, d \in {"Accepted", "PossiblySent"}}

Second == Turn(Input, <<Write, Text>>, Ok("s1"))

\* Each error, and the turn that follows it.
Failing ==
    {Load(Driver, <<Turn(Input, <<>>, e), Second>>) : e \in Early}
    \cup {Load(Driver, <<Turn(Input, <<Write, Opens>>, e), Second>>) : e \in Running}

\* Turns cut short in every way, the next one resuming.
CutAnyhow(t) == [t EXCEPT !.times_out = TRUE, !.cancels = TRUE, !.drops = TRUE]

Overriding == [Input EXCEPT !.settings = [Unset EXCEPT !["model"] = "m1"]]

Cutting ==
    {Load(Driver, <<CutAnyhow(Turn(Overriding, <<Write, Opens, Compact, Compact, Text, Compacted>>,
                             Ok("s1"))), Second>>)}

\* A session, then a manual compaction the provider confirms, declines or never mentions.
Manual == [Input EXCEPT !.kind = "ManualCompaction", !.prompt = ""]
By(trigger, s) == [i \in DOMAIN s |-> IF s[i][2] = "Auto" THEN <<s[i][1], trigger>> ELSE s[i]]

Compacting ==
    {Load(Driver, <<Turn(Input, <<Write, Opens>>, Ok("s1")),
                    CutAnyhow(Turn(Manual, script, end))>>) :
        end \in {Ok(Turns!None), Turns!Plain("ProcessIo")},
        script \in {<<Write, Text>>, By("Manual", <<Write, Compact, Compact, Compacted>>)}}

\* Inputs start_turn refuses, and the ones next to them it takes.
Image == [path |-> "ok", name |-> "ok", media |-> "image/png"]
File == [path |-> "ok", name |-> "ok", media |-> "text"]

Inputs ==
    {[Input EXCEPT !.kind = k, !.prompt = p, !.attachments = a] :
        k \in {"Turn", "Continuation", "ManualCompaction"}, p \in {"", "text", "long", "nul"},
        a \in {{}, {Image, File}, {Image, File, [File EXCEPT !.media = "none"]},
               {[File EXCEPT !.path = "newline"]}, {[File EXCEPT !.name = "bad"]}}}
    \cup {[Input EXCEPT !.auto = a, !.requires_handler = r, !.has_handler = h] :
        a \in {Turns!None, "Disabled", "InRange", "OutOfRange"}, r \in BOOLEAN, h \in BOOLEAN}

Drivers == {[k \in DOMAIN Driver |-> TRUE], [k \in DOMAIN Driver |-> FALSE],
            [Driver EXCEPT !.compaction_instructions = FALSE]}

Asking ==
    {Load(d, <<Turn(Input, <<Write, Opens>>, Ok("s1")), Turn(i, <<Write>>, Ok(Turns!None))>>) :
        d \in Drivers, i \in Inputs}

Loads == Failing \cup Cutting \cup Compacting \cup Asking

-----------------------------------------------------------------------------
Events == INSTANCE InvocationEvents WITH Workload <- Loads, EVENT_CHANNEL_CAPACITY <- 2

eventVars == <<load, entry, inv, reader, hist>>

RetainedInit ==
    \/ part = "calls" /\ Init /\ load = 0 /\ entry = 0 /\ inv = 0 /\ reader = 0 /\ hist = 0
    \/ part = "events" /\ Init /\ kind = Handoffs /\ Events!Init

RetainedNext ==
    /\ UNCHANGED part
    /\ \/ part = "calls" /\ Next /\ UNCHANGED eventVars
       \/ part = "events" /\ Events!Next /\ UNCHANGED <<vars, kind>>

RetainedSpec == RetainedInit /\ [][RetainedNext]_<<part, vars, kind, eventVars>>

-----------------------------------------------------------------------------
\* Nobody is left waiting: when no call, task or disposal can go on, each of them
\* has ended.
CallsEnd == part = "calls" => NobodyWaits

\* Of the events of a turn: they tell its whole story to a consumer that stays.
StreamTellsTurn == part = "events" => Events!StreamTellsTurn

\* Of the turns of a runtime: one continues where the last one stopped, and a
\* failure that says so has written nothing.
TurnContinues == part = "events" => Events!TurnContinues /\ Events!RetryIsSafe

=============================================================================
