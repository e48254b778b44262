---------------------------- MODULE ProcessPool -----------------------------
(***************************************************************************)
(* Retained provider processes (CodexProcessSupervisor and                 *)
(* RetainedCodexProcess in src/src/runtime.rs): the turns that look one    *)
(* up, switch, claim, replace or start it, the tasks that supervise it     *)
(* between turns, the clean-up of a turn that failed, and disposal.        *)
(*                                                                         *)
(* Every section between two awaits is one action.  An await of the I/O    *)
(* lock of a process is the guard IoFree.  A process is freed with its     *)
(* last Arc: its permit counts, and its program runs, only while some      *)
(* task, turn or the pool refers to it.  Frames of the provider, failures  *)
(* of the event sink and elapsed timeouts may happen whenever the code     *)
(* waits for them.                                                         *)
(***************************************************************************)
EXTENDS Integers, FiniteSets, SequencesExt

CONSTANTS
    Runtime,
    Process,                    \* process instances, numbered as they are spawned
    Task,                       \* background tasks a provider may start
    None,
    Workload,                   \* providers, requests and bounds: see MCProcesses
    MaxProcesses,               \* ProviderProcessRetention::max_processes
    MAX_PARKED_EVENTS,
    MAX_PARKED_INTERACTIONS

ASSUME PoolAssumption ==
    /\ Process \subseteq Nat
    /\ MaxProcesses \in Nat \ {0}
    /\ MAX_PARKED_EVENTS \in Nat \ {0}
    /\ MAX_PARKED_INTERACTIONS \in 0 .. MAX_PARKED_EVENTS

VARIABLES
    load,           \* the workload of this behaviour: never changes
    processes,      \* CodexProcessSupervisorInner::processes
    proc,           \* RetainedCodexProcess, by instance
    turn,           \* the turn of each runtime in run_retained_codex_process
    jobs,           \* spawned tasks: supervisors, clean-ups and disposals
    frames,         \* frames the providers may still write
    started,        \* tasks some provider has started
    turns,          \* turns each runtime may still start
    ends,           \* announcements of parked_ends, by task
    dropped,        \* tasks that died parked without an announcement
    unheard         \* processes whose claimant failed before it armed its clean-up

vars == <<load, processes, proc, turn, jobs, frames, started, turns, ends, dropped, unheard>>

-----------------------------------------------------------------------------
\* ClaudeLiveSettings, and the parser state a turn leaves behind.
LiveField == {"model", "effort", "fast_mode", "ultracode", "permission_mode"}

Idle == [tasks |-> {}, answering |-> FALSE]

NoOutput == [events |-> <<>>, dropped |-> 0, declined |-> 0, interactions |-> 0, follow_up |-> FALSE]

Unborn == [io |-> FALSE, lock |-> None, generation |-> 0, usable |-> FALSE, session |-> None,
           fixed |-> None, soft |-> None, launch |-> None, live |-> None, permit |-> FALSE,
           inherited |-> None, parked |-> NoOutput]

NoTurn == [pc |-> "idle", request |-> None, asked |-> None, initial |-> None, candidate |-> None,
           reserved |-> FALSE, claimed |-> 0, switch |-> {}, switched |-> FALSE,
           state |-> None, output |-> NoOutput, armed |-> FALSE, end |-> None, outer |-> {}]

\* retained_background_work and retained_background_task_ids.
Work(s) == s # None /\ (s.tasks # {} \/ s.answering)

TasksOf(s) == IF s = None THEN {} ELSE s.tasks

\* Arc::strong_count > 0: the pool, a turn, or a spawned task holds the process.
Referenced(p) ==
    \/ \E r \in Runtime :
          processes[r] = p \/ turn[r].initial = p \/ turn[r].candidate = p \/ p \in turn[r].outer
    \/ \E j \in jobs : j.proc = p

Running(p) == proc[p].io /\ Referenced(p)

\* Semaphore::available_permits of CodexProcessSupervisorInner::permits.
FreePermits ==
    MaxProcesses - Cardinality({p \in Process : proc[p].permit /\ Referenced(p)})
                 - Cardinality({r \in Runtime : turn[r].reserved})

IoFree(p) == proc[p].lock = None

\* The `current` closure of both supervisors.
Current(j) == proc[j.proc].generation = j.generation /\ proc[j.proc].usable

Job(kind, r, p, g) ==
    [kind |-> kind, runtime |-> r, proc |-> p, generation |-> g, at |-> "run",
     tasks |-> {}]

Init ==
    /\ load \in Workload
    /\ processes = [r \in Runtime |-> None]
    /\ proc = [p \in Process |-> Unborn]
    /\ turn = [r \in Runtime |-> NoTurn]
    /\ jobs = {}
    /\ frames = load.frames
    /\ started = {}
    /\ turns = load.turns
    /\ ends = [t \in Task |-> 0]
    /\ dropped = {}
    /\ unheard = {}

-----------------------------------------------------------------------------
(* Frames of a provider, and the output of a parked process.               *)

\* What a provider with parser state s may write: text, an approval or a
\* question, the start or the end of a background task, the end of the
\* answer it gives to finished work.
Frame(s) ==
    {<<"text", None>>, <<"ask", None>>}
        \cup {<<"start", t>> : t \in IF load.provider = "Claude" THEN Task \ started ELSE {}}
        \cup {<<"done", t>> : t \in s.tasks}
        \cup (IF s.answering THEN {<<"answered", None>>} ELSE {})

\* parse_line as far as the pool asks about its state (background task ids and a
\* pending follow-up).  The tasks are shells, which never hold a turn open: the
\* end of one makes the provider owe an answer, whose result ends that.
Parse(s, f) ==
    CASE f[1] = "start"    -> [s EXCEPT !.tasks = @ \cup {f[2]}]
      [] f[1] = "done"     -> [tasks |-> s.tasks \ {f[2]}, answering |-> TRUE]
      [] f[1] = "answered" -> [s EXCEPT !.answering = FALSE]
      [] OTHER             -> s

Reading(f) ==
    /\ frames > 0
    /\ frames' = frames - 1
    /\ started' = IF f[1] = "start" THEN started \cup {f[2]} ELSE started

\* Mutant: the oldest event goes, even when it shows a request still held.
BufferOldest(out, event, declined) ==
    LET events == IF Len(out.events) >= MAX_PARKED_EVENTS THEN Tail(out.events) ELSE out.events
    IN  [out EXCEPT !.declined = IF declined THEN @ + 1 ELSE @,
                    !.events = IF declined THEN @ ELSE Append(events, event),
                    !.dropped = IF ~declined /\ events # out.events THEN @ + 1 ELSE @]

\* ParkedOutput::buffer for the event of one frame: the oldest event that is
\* no request goes first, and a declined request is only counted.
Buffer(out, event, declined) ==
    LET oldest == SelectInSeq(out.events, LAMBDA e : e # "ask")
        full   == Len(out.events) >= MAX_PARKED_EVENTS /\ oldest # 0
        events == IF full THEN RemoveAt(out.events, oldest) ELSE out.events
    IN  [out EXCEPT !.declined = IF declined THEN @ + 1 ELSE @,
                    !.events = IF declined THEN @ ELSE Append(events, event),
                    !.dropped = IF ~declined /\ full THEN @ + 1 ELSE @]

\* park_frame on a frame that parses: the process with the state after it and
\* the output it adds.
ParkFrame(p, f) ==
    LET s        == Parse(proc[p].inherited, f)
        out      == proc[p].parked
        asks     == f[1] = "ask"
        declined == asks /\ out.interactions >= MAX_PARKED_INTERACTIONS
        held     == IF asks /\ ~declined THEN out.interactions + 1 ELSE out.interactions
    IN  [proc[p] EXCEPT
            !.inherited = s,
            !.parked = Buffer([out EXCEPT !.interactions = held, !.follow_up = @ \/ s.answering],
                              IF asks THEN "ask" ELSE "text", declined)]

-----------------------------------------------------------------------------
(* Shared sections.                                                        *)

Goto(r, step) == turn' = [turn EXCEPT ![r].pc = step]

\* The future of the turn returns before its clean-up is armed: everything it
\* refers to, and the permit it reserved, goes with it.
Return(r) == turn' = [turn EXCEPT ![r] = NoTurn]

\* Box::pin(self.run_retained_codex_process(..)): the frames outside keep
\* their initial process.
Rerun(r, request, asked) ==
    turn' = [turn EXCEPT ![r] = [NoTurn EXCEPT !.pc = "entry", !.request = request, !.asked = asked,
                                               !.outer = turn[r].outer \cup ({turn[r].initial} \ {None})]]

AsAsked(request) == [request EXCEPT !.keep = FALSE]

\* RetainedCodexProcess::terminate up to the I/O lock.
Marked(p) == [proc[p] EXCEPT !.usable = FALSE, !.generation = @ + 1]

\* The rest of it, under the lock.
Kill(p) == IoFree(p) /\ proc' = [proc EXCEPT ![p].io = FALSE]

\* remove_if_same
RemoveIfSame(r, p) == processes' = [processes EXCEPT ![r] = IF @ = p THEN None ELSE @]

\* A process leaves the pool for good: its permit goes to the turn that
\* replaces it, and it is marked before its I/O is awaited.
Evict(r, p, step) ==
    /\ dropped' = dropped \cup (IF step \notin {"expelling", "replaced"} /\ proc[p].usable
                               THEN TasksOf(proc[p].inherited) ELSE {})
    /\ turn' = [turn EXCEPT ![r].pc = step, ![r].candidate = p,
                            ![r].reserved = @ \/ proc[p].permit]
    /\ proc' = [proc EXCEPT ![p] = [Marked(p) EXCEPT !.permit = @ /\ turn[r].reserved]]

\* retained_background_tasks # None, parked_with_background_work and
\* continuation_ready.
BackgroundWork(p) == Work(proc[p].inherited)

ParkedWithWork(p) == p # None /\ proc[p].usable /\ BackgroundWork(p)

ContinuationReady(p) ==
    p # None /\ proc[p].inherited # None /\ (proc[p].parked.follow_up \/ proc[p].inherited.answering)

-----------------------------------------------------------------------------
(* A turn finds, switches, claims or starts its process.                   *)

Begin(r) ==
    /\ turn[r].pc = "idle" /\ turns[r] > 0
    /\ \E q \in load.requests :
          turn' = [turn EXCEPT ![r] = [NoTurn EXCEPT !.pc = "entry", !.request = q]]
    /\ turns' = [turns EXCEPT ![r] = @ - 1]
    /\ UNCHANGED <<processes, proc, jobs, frames, started, ends, dropped, unheard>>

\* Up to the reserved permit: a re-run whose background work is gone runs as
\* asked, a continuation without an answer has nothing to continue, and a full
\* pool falls back to a process of the turn's own (run_process).
Enter(r) ==
    LET initial == processes[r]
        q       == turn[r].request
    IN  /\ turn[r].pc = "entry"
        /\ CASE turn[r].asked # None /\ ~ParkedWithWork(initial) ->
                  turn' = [turn EXCEPT ![r] = [NoTurn EXCEPT
                               !.pc = "entry", !.request = AsAsked(turn[r].asked),
                               !.outer = turn[r].outer \cup ({initial} \ {None})]]
             [] OTHER ->
                  IF \/ q.continuation /\ ~ContinuationReady(initial)
                     \/ initial = None /\ FreePermits = 0
                  THEN Return(r)
                  ELSE turn' = [turn EXCEPT ![r].pc = "preparing", ![r].initial = initial,
                                            ![r].reserved = initial = None]
        /\ UNCHANGED <<processes, proc, jobs, frames, started, turns, ends, dropped, unheard>>

\* Preparation of the adapter, the command and the sandbox: it may fail.
Prepare(r) ==
    /\ turn[r].pc = "preparing"
    /\ Goto(r, "selecting") \/ Return(r)
    /\ UNCHANGED <<processes, proc, jobs, frames, started, turns, ends, dropped, unheard>>

\* ClaudeProcessSettings::switch_to: the settings that differ (all of them
\* when they are unknown), and those no request can switch in place.
Claude == load.provider = "Claude"

\* Mutant: settings a failed switch left unknown count as unchanged.
ChangedKnown(p, q) == {f \in LiveField : proc[p].live # None /\ proc[p].live[f] # q.live[f]}

Changed(p, q) == {f \in LiveField : proc[p].live = None \/ proc[p].live[f] # q.live[f]}

CannotSwitch(p, q) ==
    \/ \E f \in Changed(p, q) \cap {"model", "effort", "fast_mode"} :
          q.live[f] = None /\ proc[p].launch.live[f] # None
    \/ /\ "permission_mode" \in Changed(p, q)
       /\ \/ q.live.permission_mode = None
          \/ q.live.permission_mode = "bypassPermissions" /\ ~proc[p].launch.bypass

\* A continuation takes the process as it is; any other turn needs the
\* fingerprint of the process, and settings a Claude process can switch to.
Reusable(p, q) ==
    \/ q.continuation
    \/ /\ proc[p].fixed = q.fixed /\ proc[p].soft = q.soft
       /\ Claude => ~CannotSwitch(p, q)

\* with_retained_turn_settings: the request on the model, reasoning and
\* compaction policy the process runs, or None when something else differs.
Kept(p, q) ==
    LET fallback(f) == \/ q.live[f] = None /\ proc[p].launch.live[f] # None
                       \/ f = "effort" /\ proc[p].soft # q.soft
    IN  CASE proc[p].fixed # q.fixed       -> None
          [] Claude /\ proc[p].live = None -> None
          [] OTHER -> [q EXCEPT !.soft = proc[p].soft,
                                !.live = [f \in DOMAIN @ |->
                                            IF f \in {"model", "effort"} /\ fallback(f)
                                            THEN proc[p].live[f] ELSE @[f]]]

\* The section under the pool's lock that decides about the process found
\* there, and what follows it without another lock.
Select(r) ==
    LET p    == processes[r]
        q    == turn[r].request
        kept == IF q.keep /\ turn[r].asked = None /\ p # None THEN Kept(p, q) ELSE None
    IN  /\ turn[r].pc = "selecting"
        /\ UNCHANGED <<proc, jobs, frames, started, turns, ends, unheard>>
        /\ CASE turn[r].asked # None /\ ~ParkedWithWork(p) ->
                  Rerun(r, AsAsked(turn[r].asked), None) /\ UNCHANGED <<processes, dropped>>
             [] p = None -> Goto(r, "looking") /\ UNCHANGED <<processes, dropped>>
             [] OTHER ->
                  CASE proc[p].usable /\ Reusable(p, q) ->
                         /\ turn' = [turn EXCEPT ![r].pc = "looking",
                                         ![r].switch = IF Claude /\ ~q.continuation
                                                       THEN Changed(p, q) ELSE {}]
                         /\ UNCHANGED <<processes, dropped>>
                    [] proc[p].usable /\ ~Reusable(p, q) /\ BackgroundWork(p) ->
                         /\ IF kept = None THEN Return(r) ELSE Rerun(r, kept, q)
                         /\ UNCHANGED <<processes, dropped>>
                    [] OTHER ->
                         /\ processes' = [processes EXCEPT ![r] = None]
                         /\ dropped' = dropped \cup (IF proc[p].usable
                                                    THEN TasksOf(proc[p].inherited) ELSE {})
                         /\ turn' = [turn EXCEPT ![r].pc = "replacing", ![r].candidate = p]

\* The replaced process hands its slot over and is terminated.  Its parked
\* supervisor reads until then: a task the process begins after Select looked
\* goes with it, unannounced.
Replace(r) ==
    /\ turn[r].pc = "replacing"
    /\ Evict(r, turn[r].candidate, "replaced")
    /\ UNCHANGED <<processes, jobs, frames, started, turns, ends, unheard>>

\* The end of terminate in a turn that goes on at `step`; an error of the
\* transport, or of the sink told about it, ends the turn.
Terminated(r, step) ==
    /\ Kill(turn[r].candidate)
    /\ Return(r) \/ turn' = [turn EXCEPT ![r].pc = step, ![r].candidate = None, ![r].claimed = 0]
    /\ UNCHANGED <<processes, jobs, frames, started, turns, ends, dropped, unheard>>

Replaced(r) == turn[r].pc = "replaced" /\ Terminated(r, "looking")

\* The process the pool holds now: one of another session is expelled.
Look(r) ==
    LET p == processes[r]
    IN  /\ turn[r].pc = "looking"
        /\ UNCHANGED <<jobs, frames, started, turns, ends, unheard>>
        /\ CASE p = None ->
                  Goto(r, "spawning") /\ UNCHANGED <<processes, proc, dropped>>
             [] p # None /\ proc[p].session # turn[r].request.session ->
                  Evict(r, p, "expelling") /\ processes' = [processes EXCEPT ![r] = None]
             [] OTHER ->
                  /\ turn' = [turn EXCEPT ![r].pc = "claiming", ![r].candidate = p]
                  /\ UNCHANGED <<processes, proc, dropped>>

Announce(tasks) == ends' = [t \in Task |-> IF t \in tasks THEN ends[t] + 1 ELSE ends[t]]

\* Once terminate held the I/O, the tasks that are still parked are announced
\* as Replaced.
Expel(r) ==
    LET p == turn[r].candidate
    IN  /\ turn[r].pc = "expelling"
        /\ IoFree(p)
        /\ proc' = [proc EXCEPT ![p].io = FALSE, ![p].inherited = None]
        /\ Announce(TasksOf(proc[p].inherited))
        /\ Return(r) \/ turn' = [turn EXCEPT ![r].pc = "spawning", ![r].candidate = None]
        /\ UNCHANGED <<processes, jobs, frames, started, turns, dropped, unheard>>
-----------------------------------------------------------------------------
(* Claiming the process that was found.                                    *)

\* RetainedCodexProcess::claim
Claimable(p) == proc[p].io /\ proc[p].usable

SpawnJob(kind, r, p, g) == jobs' = jobs \cup {Job(kind, r, p, g)}

\* What a Claude turn does with its claim g (0: refused), at once: it takes
\* over parked work, and without any it checks the process, unless the process
\* has just answered a switch.  A claim that finds nothing to continue hands
\* the process to an idle supervisor.
TakeOver(r, p, g) ==
    LET q     == turn[r].request
        found == IF g = 0 THEN None ELSE proc[p].inherited
    IN  /\ CASE found # None ->
                  /\ proc' = [proc EXCEPT ![p].generation = g, ![p].inherited = None,
                                          ![p].parked = NoOutput]
                  /\ turn' = [turn EXCEPT ![r].pc = "arming", ![r].claimed = g,
                                          ![r].state = found, ![r].output = proc[p].parked]
                  /\ UNCHANGED <<jobs, unheard>>
             [] found = None /\ q.continuation ->
                  /\ IF g = 0 THEN UNCHANGED <<proc, jobs>>
                     ELSE /\ proc' = [proc EXCEPT ![p].generation = g]
                          /\ SpawnJob("idle", r, p, g)
                  /\ Return(r) /\ UNCHANGED unheard
             [] OTHER ->
                  /\ proc' = IF g = 0 THEN proc ELSE [proc EXCEPT ![p].generation = g]
                  /\ UNCHANGED jobs
                  /\ \/ /\ turn' = [turn EXCEPT ![r].claimed = g,
                                        ![r].pc = IF turn[r].switched THEN "arming" ELSE "checking"]
                        /\ UNCHANGED unheard
                     \/ /\ ~turn[r].switched
                        /\ Return(r)
                        /\ unheard' = IF g = 0 THEN unheard ELSE unheard \cup {p}
        /\ UNCHANGED <<processes, frames, started, turns, ends, dropped>>

\* A Claude turn claims, and goes on to switch the settings that differ.
ClaimClaude(r) ==
    LET p == turn[r].candidate
        g == IF Claimable(p) THEN proc[p].generation + 1 ELSE 0
    IN  /\ turn[r].pc = "claiming" /\ Claude
        /\ IoFree(p)
        /\ IF g = 0 \/ turn[r].switch = {} THEN TakeOver(r, p, g)
           ELSE /\ proc' = [proc EXCEPT ![p].generation = g]
                /\ \/ /\ turn' = [turn EXCEPT ![r].pc = "switching", ![r].claimed = g]
                      /\ UNCHANGED unheard
                   \/ Return(r) /\ unheard' = unheard \cup {p}
                /\ UNCHANGED <<processes, jobs, frames, started, turns, ends, dropped>>

\* switch_claude_settings holds the I/O; output of parked work that arrives
\* meanwhile is parked as before.
SwitchBegin(r) ==
    LET p == turn[r].candidate
    IN  /\ turn[r].pc = "switching" /\ IoFree(p) /\ proc[p].io
        /\ proc' = [proc EXCEPT ![p].lock = r]
        /\ UNCHANGED <<processes, turn, jobs, frames, started, turns, ends, dropped, unheard>>

SwitchFrame(r) ==
    LET p == turn[r].candidate
    IN  /\ turn[r].pc = "switching" /\ proc[p].lock = r /\ proc[p].inherited # None
        /\ \E f \in Frame(proc[p].inherited) :
              Reading(f) /\ proc' = [proc EXCEPT ![p] = ParkFrame(p, f)]
        /\ UNCHANGED <<processes, turn, jobs, turns, ends, dropped, unheard>>

\* Every request was answered.
SwitchDone(r) ==
    LET p == turn[r].candidate
    IN  /\ turn[r].pc = "switching" /\ proc[p].lock = r
        /\ proc' = [proc EXCEPT ![p].lock = None, ![p].live = turn[r].request.live]
        /\ turn' = [turn EXCEPT ![r].pc = "taking", ![r].switched = TRUE]
        /\ UNCHANGED <<processes, jobs, frames, started, turns, ends, dropped, unheard>>

\* A refusal, a timeout or a process that is gone: the settings are unknown,
\* and parked work gets its supervisor back.
SwitchFail(r) ==
    LET p == turn[r].candidate
    IN  /\ turn[r].pc = "switching"
        /\ proc[p].lock = r \/ (IoFree(p) /\ ~proc[p].io)
        /\ proc' = [proc EXCEPT ![p].lock = None, ![p].live = None]
        /\ IF BackgroundWork(p)
           THEN SpawnJob("parked", r, p, turn[r].claimed) /\ Return(r)
           ELSE Goto(r, "discarding") /\ UNCHANGED jobs
        /\ UNCHANGED <<processes, frames, started, turns, ends, dropped, unheard>>

Take(r) == turn[r].pc = "taking" /\ TakeOver(r, turn[r].candidate, turn[r].claimed)

\* The health probe: any answer but its own, or none in time, discards the
\* process.
Check(r) ==
    LET p == turn[r].candidate
    IN  /\ turn[r].pc = "checking"
        /\ IoFree(p)
        /\ \/ Goto(r, "discarding")
           \/ turn[r].claimed # 0 /\ proc[p].io /\ Goto(r, "arming")
        /\ UNCHANGED <<processes, proc, jobs, frames, started, turns, ends, dropped, unheard>>

\* The other providers claim without a switch.  OpenCode tells the sink first
\* and repeats its handshake after; ACP takes over the state it left.
ClaimOther(r) ==
    LET p == turn[r].candidate
        g == IF Claimable(p) THEN proc[p].generation + 1 ELSE 0
        found == IF load.provider = "Acp" THEN proc[p].inherited ELSE None
    IN  /\ turn[r].pc = "claiming" /\ ~Claude
        /\ IoFree(p)
        /\ UNCHANGED <<processes, jobs, frames, started, turns, ends, dropped, unheard>>
        /\ \/ /\ g # 0
              /\ proc' = [proc EXCEPT ![p].generation = g,
                                      ![p].inherited = IF found = None THEN @ ELSE None]
              /\ turn' = [turn EXCEPT ![r].claimed = g, ![r].state = found, ![r].pc = "arming"]
           \/ /\ g # 0 /\ load.provider = "OpenCode"
              /\ proc' = [proc EXCEPT ![p].generation = g]
              /\ Goto(r, "discarding")
           \/ g = 0 /\ Goto(r, "discarding") /\ UNCHANGED proc
           \/ load.provider = "OpenCode" /\ Return(r) /\ UNCHANGED proc

\* A process that was retired, or did not answer, makes room for a new one.
Discard(r) ==
    \/ /\ turn[r].pc = "discarding"
       /\ RemoveIfSame(r, turn[r].candidate)
       /\ Evict(r, turn[r].candidate, "discarded")
       /\ UNCHANGED <<jobs, frames, started, turns, ends, unheard>>
    \/ turn[r].pc = "discarded" /\ Terminated(r, "spawning")

-----------------------------------------------------------------------------
(* A new process.                                                          *)

\* A continuation starts nothing, a kept turn runs as asked, and a turn
\* without a permit takes the one of the process it found at its start.
Spawn(r) ==
    LET q       == turn[r].request
        initial == turn[r].initial
    IN  /\ turn[r].pc = "spawning"
        /\ CASE q.continuation -> Return(r) /\ UNCHANGED <<proc, dropped>>
             [] ~q.continuation /\ turn[r].asked # None ->
                  Rerun(r, AsAsked(turn[r].asked), None) /\ UNCHANGED <<proc, dropped>>
             [] ~q.continuation /\ turn[r].asked = None /\ ~turn[r].reserved /\ initial # None ->
                  Evict(r, initial, "swapping")
             [] OTHER -> Goto(r, "starting") /\ UNCHANGED <<proc, dropped>>
        /\ UNCHANGED <<processes, jobs, frames, started, turns, ends, unheard>>

Swapped(r) == turn[r].pc = "swapping" /\ Terminated(r, "starting")

\* transport.spawn, the set-up of its streams and its place in the pool.
Start(r) ==
    LET q   == turn[r].request
        new == {p \in Process : \A o \in Process : o < p => proc[o] # Unborn} \cap
               {p \in Process : proc[p] = Unborn}
    IN  /\ turn[r].pc = "starting"
        /\ UNCHANGED <<jobs, frames, started, turns, ends, dropped, unheard>>
        /\ \/ Return(r) /\ UNCHANGED <<processes, proc>>
           \/ /\ turn[r].reserved \/ FreePermits > 0
              /\ \E p \in new :
                    /\ proc' = [proc EXCEPT ![p] = [Unborn EXCEPT
                                   !.io = TRUE, !.usable = TRUE, !.session = q.session,
                                   !.fixed = q.fixed, !.soft = q.soft, !.live = q.live,
                                   !.launch = [live |-> q.live, bypass |-> q.bypass],
                                   !.permit = TRUE]]
                    /\ processes' = [processes EXCEPT ![r] = p]
                    /\ turn' = [turn EXCEPT ![r].pc = "arming", ![r].candidate = p,
                                            ![r].reserved = FALSE]


-----------------------------------------------------------------------------
(* The turn itself, seen from the pool.                                    *)

\* RetainedTurnCleanup::drop of an armed guard; the future lets go of the I/O
\* and of everything it refers to.
Fail(r) ==
    LET p == turn[r].candidate
    IN  /\ proc' = [proc EXCEPT ![p].usable = FALSE, ![p].lock = IF @ = r THEN None ELSE @]
        /\ SpawnJob("cleanup", r, p, 0)

\* The clean-up is armed before anything else can fail.
Arm(r) ==
    LET p == turn[r].candidate
        g == IF turn[r].claimed = 0 THEN proc[p].generation + 1 ELSE turn[r].claimed
    IN  /\ turn[r].pc = "arming"
        /\ proc' = [proc EXCEPT ![p].generation = IF turn[r].claimed = 0 THEN g ELSE @]
        /\ turn' = [turn EXCEPT ![r].pc = "locking", ![r].armed = TRUE, ![r].claimed = g,
                                ![r].state = IF @ = None THEN Idle ELSE @]
        /\ UNCHANGED <<processes, jobs, frames, started, turns, ends, dropped, unheard>>

\* inherit_retained_handoff: live tasks cross over, the provider's own answer
\* only into a continuation.
Inherited(q, s) == IF q.continuation THEN s ELSE [s EXCEPT !.answering = FALSE]

\* The I/O lock for the whole turn, and the start of the turn: SettingsDeferred,
\* inherited state, the prompt, and what was parked.
Lock(r) ==
    LET p == turn[r].candidate
    IN  /\ turn[r].pc = "locking"
        /\ IoFree(p)
        /\ UNCHANGED <<processes, frames, started, turns, ends, dropped, unheard>>
        /\ \/ /\ proc[p].io
              /\ proc' = [proc EXCEPT ![p].lock = r]
              /\ turn' = [turn EXCEPT ![r].pc = "driving", ![r].output = NoOutput,
                                      ![r].state = Inherited(turn[r].request, @)]
              /\ UNCHANGED jobs
           \/ Fail(r) /\ Return(r)

DriveFrame(r) ==
    /\ turn[r].pc = "driving"
    /\ \E f \in Frame(turn[r].state) :
          /\ f[1] \in {"start", "done", "answered"}
          /\ Reading(f)
          /\ turn' = [turn EXCEPT ![r].state = Parse(@, f)]
    /\ UNCHANGED <<processes, proc, jobs, turns, ends, dropped, unheard>>

\* RetainedTurnEnd, or an error: the I/O is let go before the outcome is acted on.
Outcome(s) ==
    {"Completed", "Failed"}
        \cup (IF Claude THEN {"Interrupted"} ELSE {})
        \cup (IF Claude /\ s.tasks # {} /\ ~s.answering THEN {"HandedOff"} ELSE {})
        \cup (IF load.provider = "Codex" THEN {"Retired"} ELSE {})

DriveEnd(r) ==
    LET p == turn[r].candidate
    IN  /\ turn[r].pc = "driving"
        /\ \E end \in Outcome(turn[r].state) :
              turn' = [turn EXCEPT ![r].pc = "releasing", ![r].end = end]
        /\ proc' = [proc EXCEPT ![p].lock = None]
        /\ UNCHANGED <<processes, jobs, frames, started, turns, ends, dropped, unheard>>

\* The process goes to a parked supervisor when it carries work, to an idle one
\* when it carries none; a retired or failed one is cleaned up.
Release(r) ==
    LET p      == turn[r].candidate
        end    == turn[r].end
        s      == turn[r].state
        parked == Claude /\ Work(s)
    IN  /\ turn[r].pc = "releasing"
        /\ IF end \in {"Failed", "Retired"} THEN Fail(r)
           ELSE /\ proc' = [proc EXCEPT
                       ![p].session = turn[r].request.next,
                       ![p].inherited = IF parked \/ load.provider = "Acp" THEN s ELSE @]
                /\ SpawnJob(IF parked THEN "parked" ELSE "idle", r, p, turn[r].claimed)
        /\ Return(r)
        /\ UNCHANGED <<processes, frames, started, turns, ends, dropped, unheard>>

\* The turn's timeout drops its future wherever it waits, and then disposes
\* the runtime's process.
Timeout(r) ==
    /\ load.timeouts
    /\ turn[r].pc \notin {"idle", "releasing", "timing_out", "timed_out"}
    /\ IF turn[r].armed THEN Fail(r)
       ELSE /\ proc' = [p \in Process |-> IF proc[p].lock = r THEN [proc[p] EXCEPT !.lock = None]
                                                             ELSE proc[p]]
            /\ UNCHANGED jobs
    /\ turn' = [turn EXCEPT ![r] = [NoTurn EXCEPT !.pc = "timing_out"]]
    /\ UNCHANGED <<processes, frames, started, turns, ends, dropped, unheard>>

TimeoutDispose(r) ==
    LET p == processes[r]
    IN  \/ /\ turn[r].pc = "timing_out"
           /\ processes' = [processes EXCEPT ![r] = None]
           /\ IF p = None THEN Return(r) /\ UNCHANGED proc
              ELSE /\ proc' = [proc EXCEPT ![p] = Marked(p)]
                   /\ turn' = [turn EXCEPT ![r].pc = "timed_out", ![r].candidate = p]
           /\ UNCHANGED <<jobs, frames, started, turns, ends, dropped, unheard>>
        \/ /\ turn[r].pc = "timed_out"
           /\ Kill(turn[r].candidate)
           /\ Return(r)
           /\ UNCHANGED <<processes, jobs, frames, started, turns, ends, dropped, unheard>>

-----------------------------------------------------------------------------
(* Spawned tasks.                                                          *)

Become(j, k) == jobs' = (jobs \ {j}) \cup {k}
Exit(j) == jobs' = jobs \ {j}

\* CodexProcessSupervisor::dispose, called for the runtime.
Dispose(r) ==
    LET p == processes[r]
    IN  /\ load.disposals /\ turns[r] > 0 /\ p # None
        /\ turns' = [turns EXCEPT ![r] = @ - 1]
        /\ processes' = [processes EXCEPT ![r] = None]
        /\ proc' = [proc EXCEPT ![p] = Marked(p)]
        /\ jobs' = jobs \cup {[Job("dispose", r, p, 0) EXCEPT !.at = "kill"]}
        /\ UNCHANGED <<turn, frames, started, ends, dropped, unheard>>

\* remove_if_same, then terminate up to the lock.
JobRemove(j) ==
    /\ j.at = "remove" \/ (j.kind = "cleanup" /\ j.at = "run")
    /\ RemoveIfSame(j.runtime, j.proc)
    /\ proc' = [proc EXCEPT ![j.proc] = Marked(j.proc)]
    /\ Become(j, [j EXCEPT !.at = "kill"])
    /\ UNCHANGED <<turn, frames, started, turns, ends, dropped, unheard>>

\* The rest of terminate, and the announcement of the tasks the job took.
JobKill(j) ==
    /\ j.at = "kill"
    /\ Kill(j.proc)
    /\ Announce(j.tasks)
    /\ Exit(j)
    /\ UNCHANGED <<processes, turn, frames, started, turns, dropped, unheard>>

\* supervise_idle_retained_process and the sleep of an OpenCode process: at
\* its deadline, or at a frame that belongs to no turn, it tries to retire.
IdleLeave(j) ==
    /\ j.kind = "idle" /\ j.at = "run"
    /\ IF Current(j) \/ load.provider = "OpenCode" THEN Become(j, [j EXCEPT !.at = "retire"])
       ELSE Exit(j)
    /\ UNCHANGED <<processes, proc, turn, frames, started, turns, ends, dropped, unheard>>

\* Mutant: the generation is not compared under the I/O lock.
RetireAnyway(j) ==
    /\ j.kind = "idle" /\ j.at = "retire"
    /\ IoFree(j.proc)
    /\ proc' = [proc EXCEPT ![j.proc].usable = FALSE]
    /\ Become(j, [j EXCEPT !.at = "remove"])
    /\ UNCHANGED <<processes, turn, frames, started, turns, ends, dropped, unheard>>

\* retire_if_unclaimed
Retire(j) ==
    LET unclaimed == proc[j.proc].io /\ proc[j.proc].generation = j.generation
    IN  /\ j.kind = "idle" /\ j.at = "retire"
        /\ IoFree(j.proc)
        /\ proc' = [proc EXCEPT ![j.proc].usable = @ /\ ~unclaimed]
        /\ IF unclaimed THEN Become(j, [j EXCEPT !.at = "remove"]) ELSE Exit(j)
        /\ UNCHANGED <<processes, turn, frames, started, turns, ends, dropped, unheard>>

\* supervise_parked_retained_process: the end of a claimed or disposed process.
ParkedLeave(j) ==
    /\ j.kind = "parked" /\ j.at = "run"
    /\ IoFree(j.proc)
    /\ ~Current(j) \/ ~proc[j.proc].io
    /\ Exit(j)
    /\ UNCHANGED <<processes, proc, turn, frames, started, turns, ends, dropped, unheard>>

Parked(j) == j.kind = "parked" /\ j.at = "run" /\ IoFree(j.proc) /\ Current(j) /\ proc[j.proc].io

ParkedFrame(j) ==
    /\ Parked(j)
    /\ \E f \in Frame(proc[j.proc].inherited) :
          Reading(f) /\ proc' = [proc EXCEPT ![j.proc] = ParkFrame(j.proc, f)]
    /\ UNCHANGED <<processes, turn, jobs, turns, ends, dropped, unheard>>

\* The provider exits or writes what cannot be read: retire_parked under the
\* lock that saw it, taking the tasks along.
ParkedFail(j) ==
    /\ Parked(j)
    /\ proc' = [proc EXCEPT ![j.proc].usable = FALSE, ![j.proc].inherited = None]
    /\ Become(j, [j EXCEPT !.at = "remove", !.tasks = TasksOf(proc[j.proc].inherited)])
    /\ UNCHANGED <<processes, turn, frames, started, turns, ends, dropped, unheard>>

\* parked_work_remains no longer holds: no task runs, and an answer that is
\* still due is out of its grace.
ParkedExpire(j) ==
    /\ Parked(j)
    /\ TasksOf(proc[j.proc].inherited) = {}
    /\ Become(j, [j EXCEPT !.at = "retire"])
    /\ UNCHANGED <<processes, proc, turn, frames, started, turns, ends, dropped, unheard>>

\* retire_parked_if_unclaimed; what it takes is announced by nobody.
RetireParked(j) ==
    LET p == j.proc
        unclaimed == proc[p].io /\ proc[p].generation = j.generation
    IN  /\ j.kind = "parked" /\ j.at = "retire"
        /\ IoFree(p)
        /\ IF unclaimed
           THEN /\ proc' = [proc EXCEPT ![p].usable = FALSE, ![p].inherited = None]
                /\ dropped' = dropped \cup TasksOf(proc[p].inherited)
                /\ Become(j, [j EXCEPT !.at = "remove"])
           ELSE Exit(j) /\ UNCHANGED <<proc, dropped>>
        /\ UNCHANGED <<processes, turn, frames, started, turns, ends, unheard>>

-----------------------------------------------------------------------------
TurnStep(r) ==
    \/ Begin(r) \/ Enter(r) \/ Prepare(r) \/ Select(r) \/ Replace(r) \/ Replaced(r)
    \/ Look(r) \/ Expel(r) \/ ClaimClaude(r) \/ ClaimOther(r)
    \/ SwitchBegin(r) \/ SwitchFrame(r) \/ SwitchDone(r) \/ SwitchFail(r)
    \/ Take(r) \/ Check(r) \/ Discard(r) \/ Spawn(r) \/ Swapped(r) \/ Start(r)
    \/ Arm(r) \/ Lock(r) \/ DriveFrame(r) \/ DriveEnd(r) \/ Release(r)
    \/ Timeout(r) \/ TimeoutDispose(r) \/ Dispose(r)

JobStep(j) ==
    \/ JobRemove(j) \/ JobKill(j) \/ IdleLeave(j) \/ Retire(j)
    \/ ParkedLeave(j) \/ ParkedFrame(j) \/ ParkedFail(j) \/ ParkedExpire(j) \/ RetireParked(j)

Next ==
    /\ \/ \E r \in Runtime : TurnStep(r)
       \/ \E j \in jobs : JobStep(j)
    /\ UNCHANGED load

Spec == Init /\ [][Next]_vars

-----------------------------------------------------------------------------
(* Properties.                                                             *)

\* However processes are replaced, retired, disposed and started, no more of
\* them run than max_processes: a slot travels from the old process to the new
\* one, and a process being torn down keeps its slot.  The exception is a
\* process that is already being killed when the turn that took its slot is
\* dropped by the turn's timeout.
Abandoned(p) == ~proc[p].usable /\ ~proc[p].permit /\ \A r \in Runtime : turn[r].candidate # p

CapacityKept ==
    /\ Cardinality({p \in Process : Running(p) /\ ~Abandoned(p)}) <= MaxProcesses
    /\ FreePermits >= 0

\* A process has one owner: while a turn drives it no supervisor reads or
\* retires it, and no two supervisors do (claim and retire_if_unclaimed decide
\* under the same I/O lock).
Supervisors(p) ==
    {j \in jobs : j.kind \in {"idle", "parked"} /\ j.proc = p /\ (Current(j) \/ j.at = "remove")}

OneOwner ==
    /\ \A p \in Process : Cardinality(Supervisors(p)) <= 1
    /\ \A r \in Runtime :
          turn[r].pc \in {"arming", "locking", "driving", "releasing"} =>
             Supervisors(turn[r].candidate) = {}

\* A usable process that stays in the pool without a turn is watched, so that
\* its output is read and it retires.  The exception is a claim whose turn
\* could not report to its event sink before the clean-up was armed.
PooledIsWatched ==
    \A r \in Runtime :
       LET p == processes[r]
       IN  turn[r].pc = "idle" /\ p # None /\ p \notin unheard /\ proc[p].usable =>
              \E j \in jobs : j.proc = p /\ j.kind \in {"idle", "parked"} /\ Current(j)

\* A background task is announced at most once, only when no process runs it
\* any more and no turn has it.  A process that fails its check or expires
\* never takes a running task with it, and one is replaced for its settings
\* only if it had none when that was decided.  What it begins between the
\* decision and its kill is not covered: such a task ends unannounced.
TasksAreAccounted ==
    /\ dropped = {}
    /\ \A t \in Task :
          /\ ends[t] <= 1
          /\ ends[t] = 1 =>
                /\ \A p \in Process : Running(p) => t \notin TasksOf(proc[p].inherited)
                /\ \A r \in Runtime : t \notin TasksOf(turn[r].state)

\* A prompt only goes to a process that runs what its turn asked for: the same
\* launch, the live settings of the turn, and the turn's session; and a
\* continuation drives only a process with parked work or an answer to resume.
RunsAsAsked ==
    /\ \A r \in Runtime :
       LET p == turn[r].candidate
           q == turn[r].request
       IN  turn[r].pc = "driving" /\ ~q.continuation =>
              /\ proc[p].fixed = q.fixed /\ proc[p].soft = q.soft
              /\ proc[p].session = q.session
              /\ Claude => proc[p].live = q.live
    /\ \A r \in Runtime :
          turn[r].pc = "arming" /\ turn[r].request.continuation => turn[r].state # None

\* The events of a parked process always still show every request that is
\* held for the next turn, however many events were dropped to bound them.
HeldRequestsShown ==
    \A p \in Process :
       Len(SelectSeq(proc[p].parked.events, LAMBDA e : e = "ask")) = proc[p].parked.interactions
=============================================================================
