# A TLA+ model of temps-agent-runtime

This directory specifies the `temps-agent-runtime` crate and its example chat
server: the runtime that starts and keeps provider processes, the provider
adapters, the retained runtimes on top of it, the remote host and client, the
network helpers, and the application that the guides build from them. TLC checks
the specifications on small instances; TLAPS proves the safety properties of the
event journal, the host's request cache and registry, the interaction broker, the
retained runtime and the managed processes for every value of their constants.
`PROJECT.json` maps the definitions to the source lines they model and lists the
hazards of the code with the properties that cover them.

## The system and its parts

An application talks to coding agents (Claude Code, Codex, OpenCode, ACP agents,
pi) through one crate. From the bottom up:

| part | source | state it keeps |
|---|---|---|
| transports, sandboxes, process supervision | `transport.rs`, `temps_sandbox.rs`, `nono.rs`, `process.rs`, `ssh.rs`, `docker.rs` | child processes and remote jobs |
| provider adapters | `providers/*.rs`, `adapter.rs` | the parse state of a provider's stream, and what the next turn inherits of it |
| agent runtime | `runtime.rs` | permits, running turns, the pool of kept provider processes, parked output, claims, hand-offs, sandbox retries |
| interaction broker | `interactions.rs` | questions that wait for an answer, early answers, a window of answered ones |
| retained runtimes | `retained.rs` | one entry per runtime: status, active turn, session, recent invocation ids; the registry of entries; a numbered event stream per turn |
| event journal | `journal.rs` | a bounded window of events per invocation, per runtime |
| remote host | `protocol_host.rs` | idempotency cache, handles, lifecycle and delivery gates, pumps |
| remote client | `protocol_client.rs` | connection generation, active invocations and their cursors |
| managed processes | `services.rs` | a record, a control channel, a supervise task and a log tail per background process |
| relay | `relay/` | grants, budgets, hop chains |
| tailnet daemon, split proxy | `tailnet/` | a daemon, its lock and its routes; connections under permits |
| example chat server | `examples/fullstack-chat` | chats, queue and approvals in SQLite; one record per running turn |

They interact as follows. A client frame reaches the host's `dispatch`, which
claims its request id in the cache and, as the owner, executes it: acquire,
attach and dispose change the registry under a per-id lifecycle gate; start
calls `RuntimeEntry::start_turn`, which admits the turn or asks the running one
to hand its process over. The invocation task calls the agent runtime. It takes a
permit, builds and wraps the provider's command, or claims the kept process of
the conversation from the pool, and drives it: each line of output goes through
the provider's adapter, which says what to show, what to write back, what to ask
and whether the turn is over. Events are numbered into a bounded channel; the
host's pump appends them to the journal and sends them live. A client that
reconnects replays the journal from its cursors. Between turns a supervisor reads
a kept process and parks what it says for the next turn.

## Modules

| module | models | actions or operators correspond to |
|---|---|---|
| `OrderDeque` | the "map plus VecDeque" idiom of the bounded collections | push with eviction, removal |
| `EventJournal` | `InMemoryEventJournal` | `append` (all errors and both levels of eviction), `remove_runtime`; one action per call, as each holds the mutex |
| `EventReplay` | `RuntimeJournal::replay`, its producer and a paging consumer | `emit_runtime` then append, `replay` with its three outcomes, disposal |
| `ProcessLog` | `capture_logs`, the log tail and the live channel | numbering, push, publish, subscribe, read, receive |
| `RequestCache` | `claim_request`, the request guard, `complete`, `drop` | claim as owner, as waiter, from the cache, conflict, capacity; completion with eviction; a dropped future |
| `InteractionBroker` | `register`, `resolve`, the waiter's guard | one action per section under the mutex; the channel between resolver and waiter is separate |
| `HostLifecycle` | the registry of `InProcessRuntimeClient` and acquire, attach, start, health and dispose of the host, with the pump | one action per await-free section; a caller may drop its future between any two |
| `TurnOwnership` | what a runtime promises about its process | grant, give up, stop (abstract) |
| `RetainedRuntime` | `RuntimeEntry`: `start_turn`, the invocation task, messages, interruption, `dispose` | one action per section under the state lock; a message holds the lock across an await, as in the code |
| `InvocationEvents` | what `start_turn` refuses and asks for, `ChannelEventSink`, the end of an invocation, the classification of failures | taking a number, waiting for room, receiving, a dropped emission, a closed compaction, the terminal event |
| `RemoteClient` | `RemoteRuntimeClient` with its carriers, and the host at their other end, for one runtime | requests with their second attempt, the receive loop of each carrier, `route_event`, `disconnect_generation`, recovery rounds, delivery of answers; one host action per request; pump and `send_live` |
| `AgentRuntime` | the entry points of `AgentRuntime`: turns, sandbox recovery, account usage, discovery, extension management | admission, permits, preparation, launch, wiring, cancellation, deadlines, the armed process guard, the compaction guard; one action per await |
| `LaunchPolicy` | validation of a request, the command line each adapter builds from it, and the Nono profiles it is wrapped in | permission modes, tools, servers, options, environment, per adapter; profile changes, the saved document, wrapping |
| `HarnessExtensions` | where skills and servers of each harness live | the operators `AgentRuntime`'s extension calls use |
| `ProcessPool` | the pool of kept processes | claim, eviction, settings switches, arming, supervision, parking, disposal |
| `RetainedTurn` | the loop of a turn on a kept process (`drive_retained_turn_frames`, `submit_retained_input`, `request_retained_handoff`) | reading a frame, quiet completion, cancellation and settling, messages, hand-off; the adapter is a set of operator constants |
| `ClaudeAdapter`, `ClaudeTurn` | the Claude Code parser; `RetainedTurn` with it and with a program that behaves as the parser expects | `parse_line` and its handlers; receipts, tasks, workflows, plan mode, compaction, inheritance |
| `CodexAdapter`, `OpenCodeAdapter`, `AcpAdapter`, `PiAdapter` | each parser (first half) and its environment (second half): `codex app-server`, the HTTP bridge with `opencode serve`, an ACP agent, a `pi` process | `parse_line` and its handlers; one action per step of the provider or bridge |
| `Providers` | the loop of a turn on its own process (`OneShot...`), and it and `RetainedTurn` with those four adapters | reading, answering, exit and its grace |
| `ManagedProcess` | one record of `ManagedProcessSupervisor` with all its supervise tasks | `start`, `stop`, `restart`, `delete` in their steps; the branches of the select in `supervise`; `clear_control`; `Drop` of the last owner |
| `SandboxJob` | a process run as a job of a Temps sandbox | staging, start, the monitor with its deltas, wait, terminate, disarm, drop; requests whose answers are lost |
| `TailnetDaemon` | the tailnet daemon | start, stop, restart, heal, login, logout, refresh under the lifecycle lock; crashes of the daemon |
| `SplitProxy` | the proxy in front of it | accept under permits, request head, routing, body framing, early replies, upgrades, tunnels |
| `RelayBridge` | messages between agents | grants, reservations, routing, inbound turns |
| `ChatStore`, `ChatServer` | the SQLite store; every handler of the chat server that changes a chat, the turn's task, the dispatcher, streams | one action per await; crashes, disconnecting clients, a store that fails |
| `MC*` | instances for TLC, with their workloads | |
| `*Proofs` | theorems: `OrderDequeProofs`, `EventJournalProofs`, `ProtocolHostProofs` (request cache and broker), `HostLifecycleProofs`, `RetainedRuntimeProofs`, `ProcessProofs` (managed processes and their log) | |

**Data** is abstracted to what the properties tell apart. An envelope is its ids,
its sequence, its stamp and a payload that is equal to another or not; a request
frame is its id and fingerprint; a line of a provider is a record of the fields
its parser branches on, with `of` naming the turn whose work it reports, which
only the properties read; a text is a name; a file tree is the set of paths a
rule tells apart; output of a sandbox job is a count; a body on the proxy is a
sequence of items, each a unit the code reads at once. A timeout is a step that
may happen at any time.

**External parts** are marked so in the map: the executor under `RetainedRuntime`
(which the lower modules model by themselves), the providers' programs, the
operating system's processes, tokio's channels, the sandbox service, SQLite
failures, the relay's router. An environment is written from what the code under
`src/` sends to it and accepts from it, and may misbehave where the code handles
that: exit, close a stream, stay silent, repeat old frames, answer late.

**Composition.** Parts that share state are composed in one module
(`ClaudeTurn`, `Providers`, `AgentRuntime`, `ChatServer`, `RemoteClient`). Parts
that do not are checked side by side: `MCRecords`, `MCProtocolHost`,
`MCRetainedRuntime` and `MCProcesses` have a variable `part`, chosen initially,
that says which of them a behaviour is about; the variables of the others keep
their values. A property `part = "x" => ...` is about that part only.

**Workloads.** Most instances have a variable `load`, chosen initially from a set
`Workload` and never changed: the calls that are made, what the environment may
do, and how often. Each member lets one part of the protocol vary; interleavings
within a member are unrestricted.

## Runs

Two workers check each run in at most about four minutes.

| run | instance | what it shows |
|---|---|---|
| `records` | a journal with one place for two runtimes and one for three invocations fed arbitrary envelopes; a consumer that pages by one or two through windows of two; five log lines of two streams over a tail and a channel of two | `RetainedIsAcceptedTail`: what is kept is the newest part of what was accepted; `DeliveredInOrder`, `LossIsReported`: paging is ordered and lossless, or the loss is told; `HydrationClosesGap`: tail and live channel leave no gap |
| `protocol_host` | four dispatches over two ids with one completed and one pending place; three waits and two responses over two interactions; five workloads of five requests with one place for a runtime and one dropped future | `AnswerIsOwn`; `OneResponseEach`; `RuntimesAreSound`: no turn or event of an earlier generation, no more runtimes than allowed, no pump left waiting; `DispatchesEnd`, `RequestsEnd` (liveness) |
| `retained` | two calls, the second possibly a compaction, with a message, an interruption and a disposal; three turns that hand over, with a disposal; some 280 sequences of two turns behind a channel of two | `ConversationIsKept`; `CallsEnd`; `StreamTellsTurn`: the stream of a turn has every number, one terminal event and paired compactions; `TurnContinues`: the next turn asks for its own settings and resumes the last session; `ImplementsOwnership` (refinement of `TurnOwnership`) |
| `client` | one turn over at most two carriers in eight workloads: carriers that break or are denied, answers that time out, an approval, a slow consumer, pages of one event, another call, a disposal | `EventsInOrder`; `AnswersStand`; `NothingHangs` |
| `processes` | a pool of one process for two conversations; a start and two calls of stop, restart or delete; sandbox jobs; one or two callers beside the refresh loop of a daemon that crashes; one or two proxied connections; two agents with uneven grants | `PoolIsSound`, `ParkedWorkIsTold`, `TurnsRunAsAsked`; `StoppedMeansStopped`; `TailnetIsCurrent`; `ExchangesAreWhole`; `NetworkSettles`; `RelayIsBounded` |
| `claude_turn` | one or two turns with up to two messages, two background tasks, hand-offs, plan mode, compaction, death of the program | `MessagesAccounted`: nothing a finished turn submitted is unread, and senders are told the truth; `HandoffAgreed`; `NeverStuck`: quiet completion is armed whenever nothing else will wake the turn; `ViewAgrees`: parser, program and application agree on tasks, mode and compaction |
| `providers` | ten Codex, seven ACP, six one-shot and six OpenCode workloads | `ShownIsOwn`: nothing of a hidden, earlier or foreign turn is shown, nothing twice; `TurnIsWhole`: begun on its terms, completed only when all was shown and nothing is left; `NobodyWaits` |
| `admission` | up to three calls under a limit of one or two; recoveries of one profile; each probe with each way a program behaves; each adapter with each kind of request | `LimitHeld`; `CallsEndClean`; `LaunchesAsAsked`; `InventoryHolds` |
| `chat` | up to four handlers on one or two chats with scripted turns, a queue of up to two, streams, crashes, disconnects, a failing store | `MessagesGetTheirTurn`; `DecisionAgrees`; `HistoryIsWhole`; `NothingStuck` |
| `managed_restart` | a start and one other call | violation of `StoppedIsAsked` |
| `client_not_sent` | carriers that break or cannot be opened | violation of `NotSentIsHonest` |
| `sandbox_drop` | the jobs of `processes` | violation of `DropCleansUp` |

A property of a run is often the conjunction of several that belong together; the
conjuncts are defined, with a comment each, in the component's module.

**Bounds.** Each limit is set to the smallest value at which its eviction,
refusal or overflow happens more than once; the number of actors is the smallest
for which a third party meets a race of two (a waiter, the dropped owner and a
rival claim; a turn, its successor and a disposal; a stop, a restart and the old
task; a carrier, its successor and a recovery; a sender, the dispatcher and
"send now"). Two turns on a kept process are enough for everything one turn can
leave to the next, as an adapter keeps only what `inherit` copies.
`MaxConnections`, `MaxSequence`, `MaxLine`, `MaxCalls`, `MaxDrops`, `MaxMessages`,
`MaxEvents` and the counters of a workload only bound runs.

**Deadlock** is not checked where actors end: requests, calls and turns are
finite in number, and a state in which all have ended has no successor. That
nothing hangs before is a property of its own in every run.

**Fairness.** Only `protocol_host` states fairness: the tokio executor polls every
woken task, so each step of a dispatch or a request that is ready is weakly fair.
No user must answer, no provider must ask, no process must exit and no caller
must drop a future. The other modules state none. Each step of their system side
uses something up (an attempt, a frame, an event, a scripted step), so the system
comes to rest between the steps of the users and the environment, and what must
have happened in the end is an invariant of the states at rest, in which no step
of the system is enabled: `CallsEnd`, `NothingHangs`, `NetworkSettles`,
`NeverStuck`, `NobodyWaits`, `CallsEndClean`, `NothingStuck`. Steps at rest
include timers: a state in which only a deadline can help is not at rest.

**Symmetry** is used in `retained` (the three turns that hand over are
interchangeable), which checks no liveness under it.

## Proofs

All theorems hold for every value of the constants that satisfies the named
assumptions.

* `OrderDequeProofs`: `PushLists` and `WithoutLists`, the two facts about a
  bounded deque that lists the keys of a map without repetition: a push with
  eviction and a removal keep it so. Used by the three modules that follow.
* `EventJournalProofs` proves `Spec => []TypeOK`, `[]Bounded`,
  `[]RetainedIsAcceptedTail` and `[]NeverStateInvariant`, from
  `LimitsAssumption` (every limit is at least one, which the constructor
  enforces) and `DomainAssumption`. The inductive invariant `JournalInv` says of
  every runtime at once that it is well typed, bounded, and that each window is
  the tail of its accepted history; runtimes that are not retained hold the
  empty journal. The strengthening matters at eviction: the window of an
  invocation that is inserted again must start empty, which only the statement
  about absent keys gives. `StateInvariantUnreachable` follows because a push
  into a deque of capacity one or more never evicts the element it pushed.
* `ProtocolHostProofs` proves of the request cache `[]CacheConsistent`, `[]GuardOwnsEntry`,
  `[]AnswerIsOwn` and `[]WindowIsExact`, from limits of at least one and a finite
  set of ids. The invariant `CacheInv` adds `HolderFrame` (an entry remembers
  the frame of the dispatch that claimed it, without which an answer could not
  be traced to its fingerprint) and `OrderCounts` (the position of an id in the
  deque is the number of completions since its own, without which "the newest"
  could not be stated).
* `ProtocolHostProofs` proves of the broker `[]OneResponseEach` for any number of waits,
  responses and interactions (`BrokerAssumption`: the limit is a natural number;
  the code raises 0 to 1). That the guard of an earlier waiter never removes the
  slot of a later one needs two facts the property does not state: no two guards
  hold the same generation (`TicketsApart`), and a waiting slot has the
  generation of its sender (`WaitingSlots`). That a second response is refused
  needs `AcceptedIsKept`: an accepted one is staged, or its interaction is
  remembered as resolved or has been evicted from that window.
* `RetainedRuntimeProofs` proves `[]ConversationIsKept` and that `Spec`
  implements `TurnOwnership!Spec`, for any number of calls, messages,
  interruptions and disposals. `IdsTellTurnsApart` is assumed: invocation ids are
  distinct, or the window of recent ids holds them all, so that a reused one is
  refused; the code settles a turn by its id, and without this the theorem is
  false. The invariant `RuntimeInv` adds what each actor knows about the others
  while it does not hold the lock: no two admitted calls share an id
  (`AdmittedApart`); an active turn has not settled (`ActiveUnsettled`); a
  disposal past the lock waits for the last call that can hold the process
  (`TargetIsLast`); the session a running turn resumed is still the runtime's
  (`SessionKept`); a message on its way holds the lock (`SenderHoldsLock`). For
  the refinement each action is a grant, an end, a stop, or a stutter of the
  mapped variables.
* `HostLifecycleProofs` proves `[]RuntimesAreSound` for any requests on any
  number of ids, dropped or failing. `HostAssumption`: turns are started through
  the host, and an id is used through the host or directly on the client, not
  both. `HostInv` follows a generation of a runtime through its places: requests
  hold the gate of their id (`GateHeld`), what they have in hand was acquired
  under it (`HeldFits`), a live runtime is the registered one (`RegistryFits`),
  and turns or handles of one that is gone are present only while a disposal is
  cleaning up (`TurnsFit`, `HandlesFit`), under the conditions of the properties.
  A pump that was spawned and not yet listed in `active` belongs to the request
  that holds the gate; one whose request was dropped there is `loose`, and its
  events are outside the theorem as they are outside the property.
* `ProcessProofs` proves `[](AnswerMeansStopped /\ DeletedIsStopped)` for any
  number of calls and every restart policy, with a transport that may fail: what
  it says of a process holds of every one but those on which `terminate` or
  `wait` failed (`stray`). `ManagedInv` says where the one sender
  of a task is (`OneSender`) and that a task answers a call only at its end
  (`AnswerIsLast`); for deletes, that without overlap, restart and timeout every
  task that can still run a process has its sender (`PlainIsControlled`).
* `ProcessProofs` also proves `[]HydrationClosesGap` of `ProcessLog` for any number of streams, from a
  tail and a channel of at least one place. `TailComesFirst` is the reason: until
  the tail is read, a line is in it, or has left it, before it is published.

The runs check `RetainedIsAcceptedTail`, `AnswerIsOwn`, `OneResponseEach`,
`ConversationIsKept`, `ImplementsOwnership`, `RuntimesAreSound` and
`HydrationClosesGap` on small instances of the same modules, and the two
invariants of `ManagedProcess` as part of `StoppedMeansStopped`. The other
theorems are not repeated there.

Only model-checked: liveness (TLAPS has no fairness reasoning here) and states at
rest (they use ENABLED), so `NothingUncontrolled`, `CallsEnd`, `DispatchesEnd` and
`RequestsEnd` of the components above too; replay, which sorts, and whatever
else is computed by recursion over data; and the invariants of all other modules.

## Where code and documents disagree

Three disagreements have a run and an entry under `findings`:

* `client_not_sent`: when the first attempt of a request was sent and the second
  cannot connect, the failure says `NotSent` although the host may have executed
  the request; `start_turn` then does not consult the journal.
* `managed_restart`: the old supervise task clears the control of the restarted
  one, which then stops a process nobody asked to stop.
* `sandbox_drop`: a wait that ends because polling failed marks the control of a
  sandbox job as finished; dropping it then leaves the job running.

Others are excluded by a condition in a property or an assumption of an
instance; each condition is there because TLC finds a counterexample without it.

Journal, host and client:

* `DeliveredInOrder` is checked with `ClockMayStepBack` false. Replay sorts by
  wall-clock stamp before sequence (`journal.rs`), so after a step back of the
  clock a truncated page skips an event.
* `LossIsReported` is about invocations the journal remembers. Tombstones are
  bounded too (`journal.rs:327`); a cursor of an invocation whose tombstone is
  gone gets an empty, complete page.
* `OldEventsStayOut` asks for an undisturbed disposal. One whose end is not
  confirmed frees the id but leaves its pump running; late events enter the
  journal of the successor. It also excepts the events of a loose pump: `StartTurn`
  spawns the pump and then waits for the lock of `active` (`protocol_host.rs:460`),
  and a request dropped there leaves a pump that no disposal finds.
* `CapacityHeld` asks, on the client itself, that no two disposals look up the
  same runtime: `dispose` removes by id after an await (`retained.rs:828`). The
  host's gate hides this.
* `StartReachesCurrent` excludes Health requests that keep a handle: Health runs
  without the gate and may store the handle of a disposed runtime
  (`protocol_host.rs:639`).
* `PumpsAreReleased` excludes a dropped start request: nothing else releases
  the pump of its turn (`protocol_host.rs:307`).
* `EventsInOrder` excludes turns whose events two receive loops route at the same
  moment: the last sequence is read and stored in separate steps
  (`protocol_client.rs:510`), so both copies of an event can pass.
* `NothingHangs` excuses turns after `missed`: the end of a carrier is passed over
  when a newer one is open (`protocol_client.rs:721`), recovery is not scheduled
  while one is still ending (`protocol_client.rs:745`), a start served after its
  carrier broke makes that carrier the live one, and a disposal leaves the
  client's turn registered. Such a turn stays pending until something attaches
  again.
* A request that times out leaves its entry in `pending` (`protocol_client.rs:309`);
  the map only grows.
* `InteractionBroker` stages a response to an interaction whose waiter has gone
  (`interactions.rs:154`); it keeps its place until the broker goes away. And
  `register` is not limited by `maximum`, which bounds early responses only.

Retained runtimes and their events:

* `OneOwner` is checked for distinct invocation ids. An id reused after
  `RECENT_INVOCATION_CAPACITY` others lets a late completion settle its namesake
  (`retained.rs:1726`).
* `StreamTellsTurn` holds a turn whose timeout dropped a waiting emission to
  increasing numbers only: the number is taken and the compaction noted before
  the wait for room (`retained.rs:2108`), so such a stream has a gap and may lack
  the end of a compaction, although the numbers are called gap-free in
  `docs/how-to/integrate-context-compaction-with-fleet.md:115`.
* A cancellation or timeout before anything was sent is reported as `Accepted`.

Agent runtime and providers:

* `MessagesAnswered` leaves out a Claude Code that reports no `command_lifecycle`,
  `NeverStuck` what follows an interrupt that was read when nothing of the turn
  was left to stop. A permission mode is a guess for a parser that did not see
  plan mode entered.
* A turn that is cancelled while an approval of background work is shown and
  answered ends as interrupted without passing the answer on (`runtime.rs:6580`).
* A continuation for a held request whose raiser is gone waits for the inactivity
  timeout; a wake permit of an earlier request may wake a later one once.
* `NeverHangs` excludes an OpenCode server that answers the prompt only when its
  work is done: the bridge performs requests one at a time, so an approval would
  wait behind the prompt. Any frame at idle retires a kept OpenCode process, and a
  retained manual compaction ends at `session.compacted`.
* `TasksAreAccounted` covers the tasks a process had when it was decided to replace
  or evict it. The kill comes after an await; a task begun in between ends
  unannounced, although the comment at `runtime.rs:5117` says "Never stop
  background work nobody asked to stop."
* `LaunchHonoured` has three exceptions. An ACP agent that reports no HTTP support
  gets no HTTP servers, and the turn a warning (`acp.rs:1628`). A non-empty tool
  list is advice in the prompt of `opencode serve`, which enforces only an empty one
  (`opencode_serve.rs:370`). A resumed ACP session gets no system prompt again.
* An OpenCode `session.error` without a message leaves the turn without an error
  (`opencode_serve.rs:770`).
* An OpenCode plan turn with `permission_mode = "auto"` allows edits and commands
  (`opencode_serve.rs:200`) although the comment above the function says a plan
  denies them.
* An ACP agent's answer to `set_config_option` replaces the settings the session
  had, where an update merges them (`acp.rs:1783`, `acp.rs:2182`). ACP updates name
  no turn, so a late one belongs to whoever reads it.
* A resumed Codex thread with a goal that was never announced may be reported as
  completed when the server dies.
* A process that exits with 0 in the middle of a turn, before a terminal frame,
  counts as completed, with what it had shown (`runtime.rs:7070`); a failed write ends the turn without `terminate`, leaving it to the
  guard's drop.
* `EveryCallEnds` excuses the last wait of a catalog probe, which has no timeout
  (`runtime.rs:4193`). Discovery probes take no permit, account usage does, and
  its wait for one cannot be cancelled.
* `PreserveOnCompletion` also disarms when the provider failed.
* Sandbox recovery may spawn for a turn that was cancelled before, does not check
  `harness_options`, has no compaction guard (compare the comment at
  `runtime.rs:7768`) and accepts another revision from `resolve`: `RetriesAsApproved`
  asks for the exact profile only of a manager that returns what it was given.
* An empty `AllowDomains` and `Unrestricted` produce the same Nono document. A
  save that is dropped or times out leaves a temporary file.
* `docs/how-to/discover-harness-extensions.md:56` calls the write of a skill
  atomic; a deadline that drops the write in the middle of its input
  (`runtime.rs:3562`) closes the input first, and the helper installs what it got.

Managed processes, sandbox jobs, network:

* `AnswerMeansStopped`, `DeletedIsStopped` and `NothingUncontrolled` except the
  processes on which the transport failed: `supervise` drops the errors of
  `terminate` and `wait` (`services.rs:876`) and takes an error of `wait` for the end
  of the process (`services.rs:902`), so a sandbox job whose kill and polling fail
  goes on behind `Cancelled` or `Failed`.
* `DeletedIsStopped` asks for calls that neither overlap nor follow a restart:
  `stop` takes the sender before the process is gone (`services.rs:634`), and
  `delete` may remove a record between the halves of a restart (`services.rs:674`).
* `ProcessLog` reads the tail after subscribing, as the guide says; the comment
  of `subscribe` (`services.rs:609`) has the other order, which leaves a gap.
* A sandbox job whose start answer is lost has no control; its staged input stays
  when the start fails; attach uses one cursor for both streams; a disarmed silent
  job is polled for ever.
* Of the tailnet daemon: a restart that fails waiting for the socket leaves no
  proxy; `heal` looks before it locks; two refreshes of one generation may commit
  in either order; a logout aborts a login task anywhere; after a stop the loop
  marks the daemon unreachable.
* Of the proxy: a failed lookup falls back to a connect by name, which looks up
  again (`proxy.rs:213`); a write error towards the origin drops what the origin
  had already replied (`proxy.rs:358`).
* Of the relay: a reply may name any message, in any turn, and the router (external)
  chooses where it goes; a reservation stays consumed when the hop check or the router
  fails afterwards; a reply is not checked against the send grant; the hop count
  is a `u8` that saturates, so `ChainsEnd` asks for a grant below it.

Chat server:

* A restart leaves a chat in `input_needed` (`store.rs:846`), of which
  `docs/how-to/persist-conversations.md:139` says "On host restart, mark in-flight
  chats as failed or interrupted"; `RestartEndsTurns` excepts it.
* A write on a record whose turn has ended may collide with the next record's
  numbers (`hist.late`): `Cancelling` or `Running` can be stored after the terminal
  status, and a message can be sent twice.
* A crash or a disconnecting client between taking a queued message and appending
  it loses the message; one between append and activation leaves the chat queued.
  An approval may be decided in the store and not delivered.
* A stream attached with a cursor at or past the terminal event before the record
  is removed waits until it is dropped (`Outlived`); one from 0 ends at an earlier
  turn's terminal event. A lag whose missing part holds the terminal event only
  leaves the inner loop.
* `MessagesGetTheirTurn` says that no message is lost, doubled or misplaced, not that
  the queue empties: a stale "send now" mark (`main.rs:2282`) can leave a message
  in it until the next turn ends.
* "Send now" may overtake an older message; pruning chats removes their queue.

## Not modelled

* `protocol.rs`, `protocol_stream.rs`, `lifecycle.rs`: type declarations, version
  checks on one value and length-prefixed framing by one reader.
* `chat.rs`, `startup.rs`, discovery's file scans, text scrubbing, the crate
  root: nothing another actor reads later.
* Shell quoting, ssh and docker command lines, URL rules and the text of prompts
  and tools: text rewriting without protocol state. `LaunchPolicy` models which
  rights and settings a command line carries, not its spelling.
* What providers print beyond the fields a parser branches on; parsing of
  Tailscale and account-usage output is its verdict.
* Operating-system behaviour (process groups, signals, sockets) and what Nono,
  Docker or a sandbox enforces.
* Of the client: acquire, the cached descriptors, several runtimes in one
  recovery round and the limit of 1,024 replay pages. Of the host: the weak map of
  gates. Of managed processes: the limit on records and the validation of a
  specification.
* Of the skill listing: its `limit`, and the refusal of symbolic links. Of
  `load_chat`: its three reads are one step, and the check of the working directory
  is left out.
* The other examples and the tests.
