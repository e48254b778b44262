--------------------------- MODULE TailnetDaemon ----------------------------
(***************************************************************************)
(* A supervised userspace tailscaled and what the runtime remembers of it  *)
(* (src/src/tailnet/mod.rs, tailscale.rs): the start, the refresh loop     *)
(* that polls `tailscale status' and heals a lost control socket, the      *)
(* callers that refresh, stop, restart, log in and out, and those that ask *)
(* for access or a routing snapshot.                                       *)
(*                                                                         *)
(* Between two steps of an actor the daemon may crash and be relaunched by *)
(* the ManagedProcessSupervisor, lose its socket, be approved in the       *)
(* tailnet or learn of other peers.  A generation stands for the restart   *)
(* count and pid of one launched process.  Each await of the code is the   *)
(* end of a step; writes under one lock with nothing awaited in between    *)
(* are one step.                                                           *)
(***************************************************************************)
EXTENDS Integers, Sequences, FiniteSets, SequencesExt

CONSTANTS Workload      \* the calls made, and how often each fault may happen

VARIABLES
    load,       \* the member of Workload of this behaviour, fixed at the start
    proc,       \* tailscaled: its supervised process, its socket, its tailnet
    st,         \* DaemonState
    proxy,      \* Inner::proxy: <<>>, or the one split proxy's RouteTable
    ssh,        \* the routes in the generated ssh config
    lifecycle,  \* the actor that holds Inner::lifecycle
    act,        \* each caller, the refresh loop and the login task
    login,      \* the login task: the number of the login, and whether its handle is held
    lines,      \* login URLs printed by `tailscale up' and not yet read
    left,       \* how many ticks and faults are still to come
    hist        \* what the properties remember

vars == <<load, proc, st, proxy, ssh, lifecycle, act, login, lines, left, hist>>

Absent == 0
Free == "free"
Loop == "loop"
LoginTask == "task"
Boot == "boot"

Callers == DOMAIN load.ops
Actors == Callers \cup {Loop, LoginTask, Boot}

\* RouteTable: the names of one report of one process.  Before the login the
\* daemon's own name is not a tailnet name, so the table has none.
DefaultRoutes == [gen |-> Absent, net |-> Absent]
route_table(status) ==
    IF status.backend = "Running" THEN [gen |-> status.gen, net |-> status.net]
    ELSE DefaultRoutes

\* TailnetDaemon::routing_generation
routing_generation == IF proc.status = "Running" /\ proc.socket THEN proc.gen ELSE Absent

-----------------------------------------------------------------------------
Idle == [pc |-> "idle", before |-> Absent, got |-> <<>>, ret |-> "done", ok |-> TRUE,
         res |-> <<>>]

Launched(gen) ==
    [status |-> "Running", gen |-> gen, bound |-> FALSE, socket |-> FALSE, known |-> FALSE,
     net |-> 1, url |-> Absent]

Init ==
    /\ load \in Workload
    /\ proc = [Launched(1) EXCEPT !.known = load.known]
    /\ st = [gen |-> Absent, tailscale |-> <<>>, auth |-> Absent, detail |-> "", unreachable |-> FALSE]
    /\ proxy = <<>>
    /\ ssh = DefaultRoutes
    /\ lifecycle = Free
    /\ act = [a \in Actors |-> IF a = Boot THEN [Idle EXCEPT !.pc = "socket"] ELSE Idle]
    /\ login = [n |-> 0, held |-> FALSE]
    /\ lines = {}
    /\ left = [tick |-> load.ticks, crash |-> load.crashes, lose |-> load.losses,
               cli |-> load.cli_failures, net |-> load.changes]
    /\ hist = [up |-> FALSE, dirty |-> FALSE, settled |-> FALSE, stopped |-> FALSE, late |-> FALSE]

At(a, pc) == act[a].pc = pc

Goto(a, pc) == act' = [act EXCEPT ![a].pc = pc]

\* A step of an actor other than the loop disturbs a pass of the loop.
Note(a) == hist' = [hist EXCEPT !.settled = FALSE, !.dirty = IF a = Loop THEN @ ELSE TRUE]

Take(a) == lifecycle = Free /\ lifecycle' = a

Release(a) == lifecycle' = IF lifecycle = a THEN Free ELSE lifecycle

-----------------------------------------------------------------------------
(* TailnetDaemon::refresh *)

Begin(a) == /\ At(a, "refresh")
            /\ act' = [act EXCEPT ![a].pc = "query", ![a].before = routing_generation]
            /\ Note(a)
            /\ UNCHANGED <<proc, st, proxy, ssh, lifecycle, login, lines, left>>

Report == [gen |-> proc.gen, net |-> proc.net, url |-> proc.url,
           backend |-> IF proc.known THEN "Running" ELSE "NeedsLogin"]

Answers == proc.status = "Running" /\ proc.bound /\ proc.socket

\* `tailscale status --json' through the control socket, or its failure or timeout.
Query(a) ==
    /\ At(a, "query")
    /\ \/ /\ Answers
          /\ act' = [act EXCEPT ![a].pc = "lock", ![a].got = <<Report>>]
          /\ UNCHANGED left
       \/ /\ act' = [act EXCEPT ![a].pc = "lock", ![a].got = <<>>]
          /\ IF Answers THEN left.cli > 0 /\ left' = [left EXCEPT !.cli = @ - 1]
             ELSE UNCHANGED left
    /\ Note(a)
    /\ UNCHANGED <<proc, st, proxy, ssh, lifecycle, login, lines>>

\* The call that refreshed goes on: the caller returns, the task and the loop continue.
Returns(a, ok) ==
    act' = [act EXCEPT ![a].pc = act[a].ret, ![a].ok = ok, ![a].got = <<>>]

\* Mutant: what was asked before a relaunch is committed after it.
CommitAnyway(a) ==
    LET now == routing_generation IN
    /\ At(a, "lock")
    /\ lifecycle = Free
    /\ IF act[a].got = <<>> \/ now = Absent
       THEN /\ st' = [st EXCEPT !.unreachable = TRUE]
            /\ Returns(a, FALSE) /\ UNCHANGED lifecycle
       ELSE /\ Take(a)
            /\ act' = [act EXCEPT ![a].pc = "routes", ![a].before = now]
            /\ UNCHANGED st
    /\ Note(a)
    /\ UNCHANGED <<proc, proxy, ssh, login, lines, left>>

\* Under the lifecycle lock: only what the process that still runs said is committed.
Commit(a) ==
    LET now == routing_generation
        before == act[a].before
    IN  /\ At(a, "lock")
        /\ lifecycle = Free
        /\ \/ /\ act[a].got = <<>>
              /\ st' = IF now = before THEN [st EXCEPT !.unreachable = TRUE] ELSE st
              /\ Returns(a, FALSE) /\ UNCHANGED lifecycle
           \/ /\ act[a].got # <<>>
              /\ before = Absent \/ before # now
              /\ Returns(a, FALSE) /\ UNCHANGED <<lifecycle, st>>
           \/ /\ act[a].got # <<>>
              /\ before # Absent /\ before = now
              /\ Take(a) /\ Goto(a, "routes") /\ UNCHANGED st
        /\ Note(a)
        /\ UNCHANGED <<proc, proxy, ssh, login, lines, left>>

SetRoutes(a) ==
    LET routes == route_table(act[a].got[1]) IN
    /\ At(a, "routes")
    /\ proxy' = IF proxy = <<>> THEN <<>> ELSE <<routes>>
    /\ ssh' = routes
    /\ Goto(a, "state")
    /\ Note(a)
    /\ UNCHANGED <<proc, st, lifecycle, login, lines, left>>

SetState(a) ==
    LET status == act[a].got[1]
        running == status.backend = "Running"
    IN  /\ At(a, "state")
        /\ st' = [st EXCEPT !.unreachable = FALSE, !.gen = act[a].before, !.tailscale = <<status>>,
                            !.auth = IF running THEN Absent
                                     ELSE IF status.url # Absent THEN status.url ELSE @,
                            !.detail = IF running THEN "" ELSE @]
        /\ Goto(a, "check")
        /\ Note(a)
        /\ UNCHANGED <<proc, proxy, ssh, lifecycle, login, lines, left>>

\* The supervisor may have relaunched the process meanwhile: nothing of it is kept.
Check(a) ==
    /\ At(a, "check")
    /\ IF routing_generation = act[a].before
       THEN Returns(a, TRUE) /\ UNCHANGED <<st, proxy, ssh>>
       ELSE /\ proxy' = IF proxy = <<>> THEN <<>> ELSE <<DefaultRoutes>>
            /\ ssh' = DefaultRoutes
            /\ st' = [st EXCEPT !.gen = Absent, !.tailscale = <<>>]
            /\ Returns(a, FALSE)
    /\ Release(a)
    /\ Note(a)
    /\ UNCHANGED <<proc, login, lines, left>>

refresh(a) == Begin(a) \/ Query(a) \/ Commit(a) \/ SetRoutes(a) \/ SetState(a) \/ Check(a)

-----------------------------------------------------------------------------
(* TailnetDaemon::stop and restart *)

\* The login task dies wherever it is; what its readers have not read stays.
Abort(acts) == [acts EXCEPT ![LoginTask] = Idle]

\* The call waits for the lifecycle lock, and aborts a login.
LockDown(a) ==
    /\ act[a].pc \in {"stop", "restart"}
    /\ Take(a)
    /\ act' = [IF login.held THEN Abort(act) ELSE act EXCEPT
                ![a].pc = IF @ = "stop" THEN "stopping" ELSE "restarting"]
    /\ login' = [login EXCEPT !.held = FALSE]
    /\ hist' = [hist EXCEPT !.settled = FALSE, !.dirty = IF a = Loop THEN @ ELSE TRUE,
                            !.stopped = IF At(a, "restart") /\ a # Loop THEN FALSE ELSE @]
    /\ UNCHANGED <<proc, st, proxy, ssh, lines, left>>

\* Mutant: an early return forgets the lock.
FailsLocked(a) ==
    /\ act' = [act EXCEPT ![a].pc = IF a = Loop THEN "idle" ELSE "done", ![a].ok = FALSE]
    /\ UNCHANGED lifecycle

\* An error returns at once, and drops the lock.
Fails(a) == /\ Release(a)
            /\ act' = [act EXCEPT ![a].pc = IF a = Loop THEN "idle" ELSE "done", ![a].ok = FALSE]

\* stop_locked: supervisor.stop and the split proxy, then the remembered state.
Stop(a) ==
    /\ act[a].pc \in {"stopping", "restarting"}
    /\ \/ /\ \E gone \in BOOLEAN :      \* whether the daemon removes its socket
                proc' = [proc EXCEPT !.status = "Cancelled", !.bound = FALSE,
                                     !.socket = IF gone THEN FALSE ELSE @]
          /\ proxy' = <<>>
          /\ Goto(a, IF At(a, "stopping") THEN "clear" ELSE "reclear")
          /\ UNCHANGED lifecycle
       \/ load.stop_fails /\ Fails(a) /\ UNCHANGED <<proc, proxy>>
    /\ Note(a)
    /\ UNCHANGED <<st, ssh, login, lines, left>>

Clear(a) ==
    /\ act[a].pc \in {"clear", "reclear"}
    /\ st' = [st EXCEPT !.auth = Absent, !.tailscale = <<>>, !.detail = "", !.unreachable = FALSE]
    /\ \/ /\ At(a, "clear")
          /\ Goto(a, "done") /\ Release(a)
          /\ hist' = [hist EXCEPT !.settled = FALSE, !.dirty = TRUE,
                        !.stopped = \A b \in Actors : act[b].pc # "restart",
                        !.late = act[Loop].pc \in {"heal", "restart"}]
       \/ At(a, "reclear") /\ Goto(a, "relaunch") /\ UNCHANGED lifecycle /\ Note(a)
    /\ UNCHANGED <<proc, proxy, ssh, login, lines, left>>

\* The old socket is removed and the supervisor launches a new process.
Relaunch(a) ==
    /\ At(a, "relaunch")
    /\ \/ /\ proc' = [Launched(proc.gen + 1) EXCEPT !.known = proc.known, !.net = proc.net]
          /\ Goto(a, "socket") /\ UNCHANGED lifecycle
       \/ load.launch_fails /\ Fails(a) /\ proc' = [proc EXCEPT !.socket = FALSE]
    /\ Note(a)
    /\ UNCHANGED <<st, proxy, ssh, login, lines, left>>

\* await_socket, which gives up when the process failed or its wait is over,
\* then ensure_proxy; the lifecycle lock is released before the refresh.
AwaitSocket(a) ==
    /\ At(a, "socket")
    /\ \/ /\ proc.socket
          /\ proxy' = IF proxy = <<>> THEN <<DefaultRoutes>> ELSE proxy
          /\ Release(a)
          /\ act' = [act EXCEPT ![a].pc = "refresh", ![a].ret =
                        CASE a = Boot -> "started" [] a = Loop -> "idle" [] OTHER -> "done"]
       \/ /\ ~proc.socket
          /\ proc.status = "Failed" \/ proc.bound \/ load.socket_late
          /\ Fails(a) /\ UNCHANGED proxy
    /\ Note(a)
    /\ UNCHANGED <<proc, st, ssh, login, lines, left>>

restart(a) == LockDown(a) \/ Stop(a) \/ Clear(a) \/ Relaunch(a) \/ AwaitSocket(a)

\* The start of the daemon ends with a refresh, and then its loop runs.
Started ==
    /\ At(Boot, "started")
    /\ Goto(Boot, "done")
    /\ hist' = [hist EXCEPT !.up = TRUE]
    /\ UNCHANGED <<proc, st, proxy, ssh, lifecycle, login, lines, left>>

-----------------------------------------------------------------------------
(* The refresh loop *)

\* heal_missing_socket looks first; the daemon it finds may be stopped before it acts.
Tick ==
    /\ hist.up
    /\ At(Loop, "idle")
    /\ left.tick > 0
    /\ left' = [left EXCEPT !.tick = @ - 1]
    /\ LET lost == proc.status = "Running" /\ ~proc.socket
       IN  act' = [act EXCEPT ![Loop] = [Idle EXCEPT !.pc = IF lost THEN "heal" ELSE "refresh",
                                                     !.ret = "passed"]]
    /\ hist' = [hist EXCEPT !.dirty = FALSE]
    /\ UNCHANGED <<proc, st, proxy, ssh, lifecycle, login, lines>>

Heal ==
    /\ At(Loop, "heal")
    /\ st' = [st EXCEPT !.unreachable = TRUE]
    /\ Goto(Loop, "restart")
    /\ UNCHANGED <<proc, proxy, ssh, lifecycle, login, lines, left, hist>>

\* A pass is over; nobody disturbed it if no one else took a step meanwhile.
Passed ==
    /\ At(Loop, "passed")
    /\ Goto(Loop, "idle")
    /\ hist' = [hist EXCEPT !.settled = act[Loop].ok /\ ~hist.dirty]
    /\ UNCHANGED <<proc, st, proxy, ssh, lifecycle, login, lines, left>>

spawn_refresh_loop == Tick \/ Heal \/ Passed

-----------------------------------------------------------------------------
(* TailnetDaemon::status, login and logout *)

\* What status() says, from the generation and snapshot read first and the state read last.
State(gen, status) ==
    LET known == gen # Absent /\ gen = st.gen /\ st.tailscale # <<>> IN
    CASE status = "Running" /\ st.unreachable -> "Starting"
      [] status = "Running" /\ ~known -> "Starting"
      [] status = "Running" /\ st.tailscale[1].backend = "Running" -> "Running"
      [] status = "Running" -> "NeedsLogin"
      [] status = "Queued" -> "Starting"
      [] status = "Failed" -> "Failed"
      [] status = "Cancelled" -> "Stopped"

StateNow == State(routing_generation, proc.status)

\* A login starts `tailscale up' unless one is running, then waits for its URL.
StartLogin(a) ==
    /\ At(a, "login")
    /\ IF StateNow = "Running"
       THEN Goto(a, "done") /\ UNCHANGED <<st, login>>
       ELSE IF login.held /\ act[LoginTask].pc # "idle"
       THEN Goto(a, "url") /\ UNCHANGED <<st, login>>
       ELSE /\ st' = [st EXCEPT !.auth = Absent, !.detail = "requesting"]
            /\ login' = [n |-> login.n + 1, held |-> TRUE]
            /\ act' = [act EXCEPT ![a].pc = "url", ![LoginTask] = [Idle EXCEPT !.pc = "up"]]
    /\ Note(a)
    /\ UNCHANGED <<proc, proxy, ssh, lifecycle, lines, left>>

AwaitUrl(a) ==
    /\ At(a, "url")
    /\ Goto(a, "done")      \* with a URL, a final state, or at the end of its wait
    /\ Note(a)
    /\ UNCHANGED <<proc, st, proxy, ssh, lifecycle, login, lines, left>>

\* run_login: `tailscale up' prints a URL and waits for the approval.
Up ==
    /\ At(LoginTask, "up")
    /\ IF Answers
       THEN \/ /\ proc.known /\ Goto(LoginTask, "upok") /\ UNCHANGED <<proc, lines>>
            \/ /\ ~proc.known
               /\ proc' = [proc EXCEPT !.url = login.n]
               /\ lines' = lines \cup {login.n}
               /\ Goto(LoginTask, "approval")
       ELSE Goto(LoginTask, "upfailed") /\ UNCHANGED <<proc, lines>>
    /\ Note(LoginTask)
    /\ UNCHANGED <<st, proxy, ssh, lifecycle, login, left>>

\* A reader of its output: a task of its own, which an abort does not end.
set_auth_url(url) ==
    /\ st' = [st EXCEPT !.auth = url, !.detail = "open the URL"]
    /\ lines' = lines \ {url}
    /\ Note(LoginTask)
    /\ UNCHANGED <<proc, proxy, ssh, lifecycle, act, login, left>>

\* The login is approved, or times out; then the output is read to its end.
UpEnds ==
    /\ At(LoginTask, "approval")
    /\ lines = {}
    /\ Goto(LoginTask, IF proc.known /\ Answers THEN "upok" ELSE "upfailed")
    /\ Note(LoginTask)
    /\ UNCHANGED <<proc, st, proxy, ssh, lifecycle, login, lines, left>>

UpReported ==
    /\ \/ /\ At(LoginTask, "upok")
          /\ act' = [act EXCEPT ![LoginTask].pc = "refresh", ![LoginTask].ret = "refreshed"]
          /\ UNCHANGED st
       \/ /\ At(LoginTask, "upfailed")
          /\ st' = [st EXCEPT !.auth = Absent, !.detail = "not completed"]
          /\ Goto(LoginTask, "idle")
       \/ /\ At(LoginTask, "refreshed")
          /\ st' = IF act[LoginTask].ok THEN st ELSE [st EXCEPT !.detail = "no status"]
          /\ Goto(LoginTask, "idle")
    /\ Note(LoginTask)
    /\ UNCHANGED <<proc, proxy, ssh, lifecycle, login, lines, left>>

run_login == Up \/ UpEnds \/ UpReported

\* The task is aborted even while it commits a refresh, whose lock it then drops.
Logout(a) ==
    /\ \/ /\ At(a, "logout")
          /\ act' = [IF login.held THEN Abort(act) ELSE act EXCEPT ![a].pc = "logoutcli"]
          /\ login' = [login EXCEPT !.held = FALSE]
          /\ lifecycle' = IF login.held /\ lifecycle = LoginTask THEN Free ELSE lifecycle
          /\ UNCHANGED proc
       \/ /\ At(a, "logoutcli")
          /\ IF Answers
             THEN /\ proc' = [proc EXCEPT !.known = FALSE, !.url = Absent]
                  /\ act' = [act EXCEPT ![a].pc = "refresh"]
             ELSE act' = [act EXCEPT ![a].pc = "done", ![a].ok = FALSE] /\ UNCHANGED proc
          /\ UNCHANGED <<login, lifecycle>>
    /\ Note(a)
    /\ UNCHANGED <<st, proxy, ssh, lines, left>>

-----------------------------------------------------------------------------
(* Callers that only ask *)

\* routing_snapshot reads the generation, the state, and the generation again.
routing_snapshot(a) ==
    LET available == /\ act[a].before # Absent /\ act[a].before = st.gen
                     /\ ~st.unreachable
                     /\ st.tailscale # <<>> /\ st.tailscale[1].backend = "Running"
        now == routing_generation
        kept == act[a].got # <<>> /\ act[a].before = now
    IN  /\ \/ /\ At(a, "snapshot")
              /\ act' = [act EXCEPT ![a].pc = "read", ![a].before = now]
           \/ /\ At(a, "read")
              /\ act' = [act EXCEPT ![a].pc = "again",
                                    ![a].got = IF available THEN st.tailscale ELSE <<>>]
           \/ /\ At(a, "again")
              /\ act' = [act EXCEPT ![a].pc = "done", ![a].got = <<>>, ![a].res =
                    <<[gen |-> now, available |-> kept,
                       routes |-> IF kept THEN route_table(act[a].got[1]) ELSE DefaultRoutes]>>]
        /\ Note(a)
        /\ UNCHANGED <<proc, st, proxy, ssh, lifecycle, login, lines, left>>

\* access: status(), which reads the generation, then the process and the proxy, then
\* the state; the endpoints are given only for a running tailnet with a proxy.
access(a) ==
    /\ \/ /\ At(a, "access")
          /\ act' = [act EXCEPT ![a].pc = "observe", ![a].before = routing_generation]
       \/ /\ At(a, "observe")
          /\ act' = [act EXCEPT ![a].pc = "decide", ![a].got = <<proc.status, proxy>>]
       \/ /\ At(a, "decide")
          /\ act' = [act EXCEPT ![a].pc = "done", ![a].got = <<>>,
                        ![a].ok = State(act[a].before, act[a].got[1]) = "Running"
                                    /\ act[a].got[2] # <<>>,
                        ![a].res = <<[gen |-> act[a].before,
                                       named |-> [i \in DOMAIN st.tailscale |->
                                                    st.tailscale[i].gen]]>>]
    /\ Note(a)
    /\ UNCHANGED <<proc, st, proxy, ssh, lifecycle, login, lines, left>>

-----------------------------------------------------------------------------
(* tailscaled and the supervisor *)

Changed == hist' = [hist EXCEPT !.settled = FALSE, !.dirty = TRUE]

\* The daemon binds its control socket once after its launch.
Listen ==
    /\ proc.status = "Running" /\ ~proc.bound
    /\ proc' = [proc EXCEPT !.bound = TRUE, !.socket = TRUE]
    /\ UNCHANGED left

\* It dies, leaving its socket behind, and the supervisor will launch it again.
Crash ==
    /\ proc.status = "Running"
    /\ left.crash > 0
    /\ left' = [left EXCEPT !.crash = @ - 1]
    /\ proc' = [proc EXCEPT !.status = IF load.gives_up THEN "Failed" ELSE "Queued",
                            !.bound = FALSE]

SupervisorRelaunches ==
    /\ proc.status = "Queued"
    /\ proc' = [Launched(proc.gen + 1) EXCEPT !.known = proc.known, !.net = proc.net,
                                              !.socket = proc.socket]
    /\ UNCHANGED left

\* The socket's file disappears while the daemon holds it.
LoseSocket ==
    /\ left.lose > 0
    /\ proc.bound /\ proc.socket
    /\ left' = [left EXCEPT !.lose = @ - 1]
    /\ proc' = [proc EXCEPT !.socket = FALSE]

\* The node is approved, or its peers change.
NetworkChanges ==
    /\ left.net > 0
    /\ Answers
    /\ left' = [left EXCEPT !.net = @ - 1]
    /\ proc' = IF proc.known THEN [proc EXCEPT !.net = @ + 1]
               ELSE [proc EXCEPT !.known = TRUE, !.url = Absent]
    /\ proc.known \/ proc.url # Absent

Environment ==
    /\ Listen \/ Crash \/ SupervisorRelaunches \/ LoseSocket \/ NetworkChanges
    /\ Changed
    /\ UNCHANGED <<st, proxy, ssh, lifecycle, act, login, lines>>

-----------------------------------------------------------------------------
Call(a) ==
    /\ hist.up
    /\ At(a, "idle")
    /\ Goto(a, load.ops[a])
    /\ Note(a)
    /\ UNCHANGED <<proc, st, proxy, ssh, lifecycle, login, lines, left>>

Next ==
    /\ \/ \E a \in Callers : Call(a) \/ StartLogin(a) \/ AwaitUrl(a) \/ Logout(a)
                             \/ routing_snapshot(a) \/ access(a)
       \/ \E a \in Callers \cup {Loop, Boot} : restart(a)
       \/ \E a \in Actors : refresh(a)
       \/ Started
       \/ spawn_refresh_loop
       \/ run_login
       \/ \E url \in lines : set_auth_url(url)
       \/ Environment
    /\ UNCHANGED load

Spec == Init /\ [][Next]_vars

-----------------------------------------------------------------------------
\* Whoever is told that the tailnet is connected is told of the tailnet of one
\* process: a routing snapshot carries the routes of the generation it names,
\* access names the tailnet of the generation it looked at, and while the
\* remembered state is of the current generation and connected, the split proxy,
\* if there is one, routes that generation's names (outside a commit, which sets
\* the routes before the state).  A status asked of an earlier process is never
\* taken for the current one's.
RoutesAreCurrent ==
    /\ \A a \in Callers : act[a].res # <<>> /\ load.ops[a] = "snapshot" =>
        (act[a].res[1].available => act[a].res[1].routes.gen = act[a].res[1].gen)
    /\ \A a \in Callers : act[a].res # <<>> /\ load.ops[a] = "access" =>
        (act[a].ok => act[a].res[1].named = <<act[a].res[1].gen>>)
    /\ st.tailscale # <<>> /\ st.gen # Absent => st.tailscale[1].gen = st.gen
    /\ StateNow = "Running" /\ proxy # <<>> /\ lifecycle = Free =>
        proxy[1].gen = routing_generation

\* A pass of the refresh loop that nothing disturbed leaves the truth: the
\* state, the proxy's routes and the ssh config are what tailscaled says, and
\* no login URL or detail of a finished login is left over a connected tailnet.
RefreshSettles ==
    hist.settled =>
        /\ st.tailscale = <<Report>> /\ st.gen = proc.gen /\ ~st.unreachable
        /\ ssh = route_table(Report)
        /\ proxy # <<>> => proxy = <<route_table(Report)>>
        /\ proc.known => st.auth = Absent /\ st.detail = ""

\* A stop holds: once it returned, with no restart asked for meanwhile, the
\* daemon does not run and no proxy listens, whatever refreshes, logins and
\* passes of the loop were under way.  (Except for a pass that had found the
\* socket missing before the stop: its relaunch comes after it.)
StopHolds ==
    hist.stopped /\ ~hist.late => proc.status # "Running" /\ proxy = <<>>

\* Nobody waits for ever: when no step is left, every call has returned, the
\* loop waits for its next tick and the lifecycle lock is free.
NobodyWaits ==
    (\A a \in Actors : act[a].pc \in {"idle", "lock", "stop", "restart", "socket", "done"})
      /\ ~ENABLED Next =>
        /\ \A a \in Callers \cup {Loop, LoginTask} : act[a].pc \in {"idle", "done"}
        /\ lifecycle = Free

=============================================================================
