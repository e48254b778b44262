---------------------------- MODULE MCProcesses -----------------------------
(***************************************************************************)
(* What goes on outside a call: pooled provider processes, supervised      *)
(* commands, jobs of a sandbox, the tailnet daemon, the connections of its *)
(* proxy, and the turns that relayed messages start.  They share no state: *)
(* a behaviour is about one of them, and the other variables are 0.        *)
(***************************************************************************)
EXTENDS ProcessPool

VARIABLES
    part,
    registered, control, status, alive, stray, op, pc, taken, acked, task, mail, ready, asked, plain, owned,
    job, staged, call, terminal, monitor, pipe, kills, hist,
    st, proxy, ssh, lifecycle, act, login, lines, left,
    conns, routes, permits, accepting,
    now, calls, msgs

\* load, proc, turns, control and hist belong to several parts.
poolOwn == <<processes, turn, jobs, frames, started, ends, dropped, unheard>>
managedOwn == <<registered, status, alive, stray, op, pc, taken, acked, task, mail, ready, asked, plain, owned>>
jobOwn == <<job, staged, call, terminal, monitor, pipe, kills>>
tailnetOwn == <<st, proxy, ssh, lifecycle, act, login, lines, left>>
proxyOwn == <<conns, routes, permits, accepting>>
relayOwn == <<now, calls, msgs>>

(* Workloads of the pool: the provider, the requests its turns may make,   *)
(* how many turns and disposals each runtime sees, how many frames the     *)
(* providers write, and whether timeouts and disposals happen.             *)

Settings(model, mode) ==
    [model |-> model, effort |-> None, fast_mode |-> None, ultracode |-> None,
     permission_mode |-> mode]

Request(fixed, soft, live) ==
    [fixed |-> fixed, soft |-> soft, live |-> live, session |-> "s", next |-> "s",
     continuation |-> FALSE, keep |-> FALSE, bypass |-> FALSE]

Plain == Request("cwd", "on", Settings("opus", "default"))
Continue == [Plain EXCEPT !.continuation = TRUE]

Base == [provider |-> "Claude", requests |-> {Plain}, turns |-> [r \in Runtime |-> 2], frames |-> 3,
         timeouts |-> FALSE, disposals |-> FALSE]

MCWorkload ==
    { \* Two conversations compete for the pool.
      [Base EXCEPT !.requests = {Plain, [Plain EXCEPT !.fixed = "other"]}, !.frames = 0],
      \* Live settings: some switch in place, some need a new process.
      [Base EXCEPT !.requests = {Plain, [Plain EXCEPT !.live = Settings(None, "default"), !.keep = TRUE],
                                 [Plain EXCEPT !.live = Settings("haiku", "bypassPermissions")]},
                   !.turns = [r \in Runtime |-> IF r = "r1" THEN 2 ELSE 0], !.frames = 1],
      [Base EXCEPT !.requests = {Plain, [Plain EXCEPT !.live = Settings("haiku", "bypassPermissions"),
                                                     !.keep = TRUE]},
                   !.turns = [r \in Runtime |-> IF r = "r1" THEN 3 ELSE 0], !.frames = 1],
      [Base EXCEPT !.requests = {Plain, [Plain EXCEPT !.live = Settings(None, "default"), !.keep = TRUE]},
                   !.turns = [r \in Runtime |-> IF r = "r1" THEN 2 ELSE 0], !.frames = 4],
      \* Parked work, its answer, and turns that continue or leave the session.
      [Base EXCEPT !.requests = {Plain, Continue, [Plain EXCEPT !.session = "t"]},
                   !.turns = [r \in Runtime |-> IF r = "r1" THEN 2 ELSE 0], !.frames = 4],
      \* Timeouts and disposals, at any point of a turn.
      [Base EXCEPT !.requests = {Plain, [Plain EXCEPT !.fixed = "other", !.keep = TRUE]},
                   !.turns = [r \in Runtime |-> IF r = "r1" THEN 3 ELSE 0], !.frames = 0,
                   !.timeouts = TRUE, !.disposals = TRUE],
      [Base EXCEPT !.requests = {Plain, [Plain EXCEPT !.fixed = "other", !.keep = TRUE]},
                   !.turns = [r \in Runtime |-> IF r = "r1" THEN 2 ELSE 0], !.frames = 1,
                   !.timeouts = TRUE, !.disposals = TRUE],
      \* The providers that claim without a switch.
      [Base EXCEPT !.provider = "Codex", !.requests = {Plain, [Plain EXCEPT !.soft = "off"]}, !.frames = 0],
      [Base EXCEPT !.provider = "OpenCode", !.frames = 0],
      [Base EXCEPT !.provider = "Acp", !.frames = 0] }

-----------------------------------------------------------------------------
(* Jobs that print, exit, fail and lose their monitor. *)

Good == [status |-> "exited", code |-> 0]
Bad == [status |-> "exited", code |-> 1]
Dead == [status |-> "failed", code |-> 0]
Odd == [status |-> "unknown", code |-> 0]

OneJob == [attach |-> FALSE, cursor |-> 0, stdin |-> TRUE, interactive |-> FALSE, lossy |-> FALSE,
         truncates |-> FALSE, closes |-> FALSE, out |-> 3, err |-> 1, ends |-> {Good, Bad, Dead, Odd},
         then |-> "wait"]

JobLoads ==
    {[OneJob EXCEPT !.then = t, !.lossy = l] : t \in {"wait", "terminate", "drop", "disarm"}, l \in BOOLEAN}
    \cup {[OneJob EXCEPT !.attach = TRUE, !.cursor = 1, !.out = 4, !.err = 2],
          [OneJob EXCEPT !.truncates = TRUE, !.stdin = FALSE, !.err = 0, !.out = 2],
          [OneJob EXCEPT !.closes = TRUE], [OneJob EXCEPT !.interactive = TRUE]}
    \cup {[OneJob EXCEPT !.ends = {}, !.then = t, !.lossy = l] : t \in {"terminate", "drop", "disarm"},
                                                              l \in BOOLEAN}

-----------------------------------------------------------------------------
(* Callers beside the daemon's refresh loop, with crashes, a lost socket,  *)
(* failing commands and changes of the tailnet.                            *)

Daemon ==
    [ops |-> [c1 |-> "refresh"], known |-> TRUE, ticks |-> 1, crashes |-> 0, losses |-> 0, cli_failures |-> 0,
     changes |-> 0, stop_fails |-> FALSE, launch_fails |-> FALSE, socket_late |-> FALSE,
     gives_up |-> FALSE]

\* Crashes and relaunches around refreshes, and what is observed meanwhile.
Crashing ==
    {[Daemon EXCEPT !.ops = [c1 |-> "snapshot"], !.crashes = 1, !.cli_failures = 1, !.changes = 1,
                  !.ticks = 2],
     [Daemon EXCEPT !.ops = [c1 |-> "access", c2 |-> "refresh"], !.crashes = 1],
     [Daemon EXCEPT !.ops = [c1 |-> "refresh", c2 |-> "snapshot"], !.crashes = 2, !.ticks = 0]}

\* Stops and restarts beside a pass that may heal.
Stopping ==
    {[Daemon EXCEPT !.ops = [c1 |-> what, c2 |-> "stop"], !.losses = 1, !.ticks = 2] :
        what \in {"restart", "refresh", "stop"}}
    \cup {[Daemon EXCEPT !.ops = [c1 |-> "restart", c2 |-> "snapshot"], !.losses = 1,
                       !.stop_fails = TRUE, !.launch_fails = TRUE, !.socket_late = TRUE]}
    \cup {[Daemon EXCEPT !.ops = [c1 |-> "restart"], !.crashes = 2, !.gives_up = TRUE, !.ticks = 2]}

\* Logins that are approved, time out, are aborted by a stop or a logout.
LoggingIn ==
    {[Daemon EXCEPT !.ops = [c1 |-> "login", c2 |-> what], !.known = FALSE, !.changes = 1,
                  !.ticks = IF what = "restart" THEN 1 ELSE 2] :
        what \in {"login", "stop", "logout", "restart"}}
    \cup {[Daemon EXCEPT !.ops = [c1 |-> "login", c2 |-> "logout"], !.known = FALSE, !.changes = 1,
                       !.crashes = 1, !.ticks = 0]}

TailnetLoads == Crashing \cup Stopping \cup LoggingIn

-----------------------------------------------------------------------------
(* Tunnels, plain requests and upgrades whose two ends send, close, abort  *)
(* and refuse in every order.                                              *)

Header(name) == [name |-> name]
Length(n) == <<[name |-> "content-length", value |-> n]>>
Chunked == <<[name |-> "transfer-encoding", chunked |-> TRUE]>>
Options(tokens) == <<[name |-> "connection", tokens |-> tokens]>>

Target == [host |-> "h", bracketed |-> FALSE, closed |-> FALSE, colons |-> 0, port |-> "none"]
Socks == [greeting |-> <<5, 0>>, name |-> 9, reply |-> <<5, 0, 0, 1>>]

ReqHead(headers) ==
    [whole |-> TRUE, valid |-> TRUE, method |-> "POST", absolute |-> TRUE, headers |-> headers,
     target |-> Target]

\* A request with a body of one item, an item of the next request behind it.
PlainProxy ==
    [head |-> ReqHead(Length(1)), host |-> [ip |-> <<>>, name |-> "public"],
     resolved |-> {<<93, 184, 1, 1>>}, path |-> "direct", refuses |-> FALSE,
     socks |-> Socks,
     items |-> <<"a", "p">>, framed |-> 1, framing |-> "length", origin |-> <<"100", "final", "y">>,
     offered |-> {"ws"}, selection |-> [option |-> TRUE, selected |-> {"ws"}],
     slow |-> FALSE, closes |-> TRUE, aborts |-> FALSE, silent |-> FALSE, resets |-> FALSE,
     stops |-> FALSE, sound |-> TRUE]

Faulty(l) == {[l EXCEPT !.sound = FALSE, !.aborts = TRUE], [l EXCEPT !.sound = FALSE, !.stops = TRUE],
              [l EXCEPT !.sound = FALSE, !.resets = TRUE]}

Tunnel == [PlainProxy EXCEPT !.head.method = "CONNECT", !.items = <<"a", "b", "c">>,
                             !.origin = <<"x", "y">>]

ChunkedBody == <<"size2", "a", "b", "crlf", "size0", "field", "crlf">>

Framed ==
    {[PlainProxy EXCEPT !.head = ReqHead(Chunked), !.framing = "chunked", !.framed = 7,
                   !.items = ChunkedBody \o <<"p">>, !.origin = <<"final">>],
     [PlainProxy EXCEPT !.head = ReqHead(Length(2) \o Options({"close", "x-hop"}) \o <<Header("x-hop")>>),
                   !.framed = 2, !.items = <<"a", "b", "p">>],
     [PlainProxy EXCEPT !.head = ReqHead(<<Header("host")>>), !.framing = "none", !.framed = 0]}
    \cup {[PlainProxy EXCEPT !.head = ReqHead(Chunked), !.framing = "chunked", !.framed = n, !.sound = FALSE,
                        !.items = SubSeq(ChunkedBody, 1, n) \o bad, !.origin = <<"final">>] :
            n \in {0, 3, 5}, bad \in {<<>>, <<"z">>}}
    \cup {[PlainProxy EXCEPT !.head = ReqHead(Chunked), !.framing = "chunked", !.framed = 3, !.sound = FALSE,
                        !.items = <<"size0", "field", "field", "field", "crlf">>,
                        !.origin = <<"final">>]}

Refused ==
    {[PlainProxy EXCEPT !.sound = FALSE, !.head = h] : h \in
        {ReqHead(Length(1) \o Length(1)), ReqHead(Length(1) \o Chunked), ReqHead(Length(-1)),
         ReqHead(Length(1) \o Options({"content-length"})),
         ReqHead(<<[name |-> "transfer-encoding", chunked |-> FALSE]>>),
         [ReqHead(Length(1)) EXCEPT !.valid = FALSE], [ReqHead(Length(1)) EXCEPT !.whole = FALSE],
         [ReqHead(Length(1)) EXCEPT !.absolute = FALSE]}}
    \cup {[PlainProxy EXCEPT !.sound = FALSE, !.refuses = TRUE]}
    \cup {[PlainProxy EXCEPT !.sound = FALSE, !.head.target = t] : t \in
            {[Target EXCEPT !.host = ""], [Target EXCEPT !.bracketed = TRUE],
             [Target EXCEPT !.colons = 1, !.port = "junk"]}}
    \cup {[PlainProxy EXCEPT !.sound = FALSE, !.host = [ip |-> <<>>, name |-> "tsnet"], !.socks = k] : k \in
            {[Socks EXCEPT !.greeting = <<5, 255>>], [Socks EXCEPT !.name = 256],
             [Socks EXCEPT !.reply = <<4, 0, 0, 1>>], [Socks EXCEPT !.reply = <<5, 1, 0, 1>>],
             [Socks EXCEPT !.reply = <<5, 0, 0, 2>>]}}

Routed ==
    {[PlainProxy EXCEPT !.items = <<"a">>, !.origin = <<"final">>,
                   !.host = [ip |-> <<>>, name |-> "other"], !.resolved = {<<93, 184, 1, 1>>, ip},
                   !.path = IF ip \in {<<100, 64, 0, 1>>, <<100, 127, 9, 9>>} THEN "tailnet" ELSE "direct"] :
        ip \in {<<100, 64, 0, 1>>, <<100, 127, 9, 9>>, <<100, 63, 1, 1>>, <<100, 128, 1, 1>>}}
    \cup {[PlainProxy EXCEPT !.items = <<"a">>, !.origin = <<"final">>, !.path = "tailnet", !.host = h,
                        !.head.target = [Target EXCEPT !.bracketed = h.ip # <<>>, !.closed = TRUE]] :
            h \in {[ip |-> <<>>, name |-> "tsnet"], [ip |-> <<>>, name |-> "peer"],
                   [ip |-> <<64890, 4444, 41440, 0, 0, 0, 0, 1>>, name |-> ""]}}
    \cup {[PlainProxy EXCEPT !.items = <<"a">>, !.origin = <<"final">>, !.resolved = {}]}

Upgrade ==
    [PlainProxy EXCEPT !.head = ReqHead(Length(1) \o Options({"upgrade"}) \o <<Header("upgrade")>>),
                  !.items = <<"a", "b", "c">>, !.origin = <<"100", "101", "y">>]

Upgrades ==
    {Upgrade, [Upgrade EXCEPT !.origin = <<"final", "y">>],
     [Upgrade EXCEPT !.head = ReqHead(Options({"upgrade"}) \o <<Header("upgrade")>>),
                     !.framing = "none", !.framed = 0, !.items = <<>>]}
    \cup {[Upgrade EXCEPT !.sound = FALSE, !.origin = o] : o \in {<<>>, <<"100">>, <<"1xx">>, <<"junk">>}}
    \cup {[Upgrade EXCEPT !.sound = FALSE, !.selection = s] : s \in
            {[option |-> FALSE, selected |-> {"ws"}], [option |-> TRUE, selected |-> {}],
             [option |-> TRUE, selected |-> {"ws", "h2c"}]}}
    \cup {[Upgrade EXCEPT !.sound = FALSE, !.items = <<"a", "b", "c", "d", "e">>, !.origin = o] :
            o \in {<<"101", "y">>, <<"final", "y">>}}
    \cup {[Upgrade EXCEPT !.sound = FALSE, !.slow = TRUE, !.silent = TRUE, !.origin = <<>>]}
    \cup {[Upgrade EXCEPT !.sound = FALSE, !.items = <<>>, !.framed = 0]}

One(l) == [conns |-> <<l>>, known |-> TRUE, changes |-> FALSE, drops |-> FALSE]

ProxyLoads ==
    {One(l) : l \in {PlainProxy, Tunnel, [PlainProxy EXCEPT !.closes = FALSE]} \cup Framed \cup Refused
                    \cup Routed \cup Upgrades
                    \cup Faulty(PlainProxy) \cup Faulty(Tunnel) \cup Faulty(Upgrade)
                    \cup Faulty([Upgrade EXCEPT !.origin = <<"final", "y">>])}
    \cup {[One(PlainProxy) EXCEPT !.conns = <<[PlainProxy EXCEPT !.items = <<"a">>, !.origin = <<"final">>],
                                         [Upgrade EXCEPT !.items = <<"a", "b">>,
                                                         !.origin = <<"101">>]>>,
                             !.drops = TRUE]}
    \cup {[One(PlainProxy) EXCEPT !.conns = <<[PlainProxy EXCEPT !.host = [ip |-> <<>>, name |-> "peer"],
                                                       !.sound = FALSE]>>,
                             !.known = k, !.changes = TRUE] : k \in BOOLEAN}

-----------------------------------------------------------------------------
(* Two agents that answer each other, under uneven grants. *)

Open == [send |-> <<{"a", "b"}>>, receive |-> <<{"a", "b"}>>, max_hops |-> 3, max_message_bytes |-> 2,
         max_messages |-> 3, max_bytes |-> 4, per_minute |-> <<2>>, max_ttl |-> 3]

Send(to, bytes, ttl) == [tool |-> "send", to |-> to, bytes |-> bytes, ttl |-> ttl]
Answer == [tool |-> "reply", to |-> "", bytes |-> 1, ttl |-> 3]

TwoAgents == [first |-> "a", grants |-> [a |-> Open, b |-> Open], tools |-> {Answer, Send("b", 1, 3)},
         refuses |-> FALSE, clock |-> 4]

\* One message in each turn, until the hops are used up.
Chaining ==
    {[TwoAgents EXCEPT !.grants.a = [@ EXCEPT !.max_hops = i, !.max_messages = 1, !.send = <<{"b"}>>],
                  !.grants.b = [@ EXCEPT !.max_hops = j, !.max_messages = 1, !.send = <<{"a"}>>],
                  !.tools = {Answer, Send("b", 1, 1)}, !.clock = 1] :
        i \in 1..3, j \in 1..(3 - 1)}

\* Many messages of one turn.
Sending ==
    {[TwoAgents EXCEPT !.tools = {Send("b", 1, 1), Send("b", 1, 2), Send("b", 2, 1), Send("b", 3, 1)},
                  !.grants.a.per_minute = r, !.grants.b.receive = <<{}>>, !.refuses = TRUE, !.clock = 3] :
        r \in {<<>>, <<1>>}}
    \cup {[TwoAgents EXCEPT !.grants.a.send = <<>>], [TwoAgents EXCEPT !.grants.a.max_bytes = 1],
          [TwoAgents EXCEPT !.grants.a.max_messages = 1, !.grants.b.receive = <<>>, !.clock = 1]}

RelayLoads == Chaining \cup Sending

-----------------------------------------------------------------------------
Managed == INSTANCE ManagedProcess WITH MaxCalls <- 3, restart_policy <- "OnFailure"
Sandbox == INSTANCE SandboxJob WITH Workload <- JobLoads, Capacity <- 2
Tailnet == INSTANCE TailnetDaemon WITH Workload <- TailnetLoads
Proxy == INSTANCE SplitProxy WITH
    Workload <- ProxyLoads, MaxConnections <- 1, MaxUpgradeBuffer <- 2, MaxTrailers <- 2
Relay == INSTANCE RelayBridge WITH
    Workload <- RelayLoads, Minute <- 2, MaxBytes <- 3, MaxHop <- 3, MaxTtl <- 4

PoolIdle ==
    processes = 0 /\ turn = 0 /\ jobs = 0 /\ frames = 0 /\ started = 0 /\ ends = 0 /\ dropped = 0 /\ unheard = 0
ManagedIdle ==
    /\ registered = 0 /\ status = 0 /\ alive = 0 /\ stray = 0 /\ op = 0 /\ pc = 0 /\ taken = 0 /\ acked = 0
    /\ task = 0 /\ mail = 0 /\ ready = 0 /\ asked = 0 /\ plain = 0 /\ owned = 0
JobIdle == job = 0 /\ staged = 0 /\ call = 0 /\ terminal = 0 /\ monitor = 0 /\ pipe = 0 /\ kills = 0
TailnetIdle ==
    st = 0 /\ proxy = 0 /\ ssh = 0 /\ lifecycle = 0 /\ act = 0 /\ login = 0 /\ lines = 0 /\ left = 0
ProxyIdle == conns = 0 /\ routes = 0 /\ permits = 0 /\ accepting = 0
RelayIdle == now = 0 /\ calls = 0 /\ msgs = 0

ProcessesInit ==
    /\ part \in {"pool", "managed", "job", "tailnet", "proxy", "relay"}
    /\ IF part = "pool" THEN Init ELSE PoolIdle
    /\ IF part = "managed" THEN Managed!Init ELSE ManagedIdle
    /\ IF part = "job" THEN Sandbox!Init ELSE JobIdle
    /\ IF part = "tailnet" THEN Tailnet!Init ELSE TailnetIdle
    /\ IF part = "proxy" THEN Proxy!Init ELSE ProxyIdle
    /\ IF part = "relay" THEN Relay!Init ELSE RelayIdle
    /\ part = "managed" => load = 0
    /\ part \notin {"pool", "tailnet"} => proc = 0
    /\ part \notin {"pool", "relay"} => turns = 0
    /\ part \notin {"managed", "job"} => control = 0
    /\ part \notin {"job", "tailnet"} => hist = 0

ProcessesNext ==
    /\ UNCHANGED part
    /\ \/ /\ part = "pool" /\ Next
          /\ UNCHANGED <<control, hist, managedOwn, jobOwn, tailnetOwn, proxyOwn, relayOwn>>
       \/ /\ part = "managed" /\ Managed!Next
          /\ UNCHANGED <<load, proc, turns, hist, poolOwn, jobOwn, tailnetOwn, proxyOwn, relayOwn>>
       \/ /\ part = "job" /\ Sandbox!Next
          /\ UNCHANGED <<proc, turns, poolOwn, managedOwn, tailnetOwn, proxyOwn, relayOwn>>
       \/ /\ part = "tailnet" /\ Tailnet!Next
          /\ UNCHANGED <<turns, control, poolOwn, managedOwn, jobOwn, proxyOwn, relayOwn>>
       \/ /\ part = "proxy" /\ Proxy!Next
          /\ UNCHANGED <<proc, turns, control, hist, poolOwn, managedOwn, jobOwn, tailnetOwn, relayOwn>>
       \/ /\ part = "relay" /\ Relay!Next
          /\ UNCHANGED <<proc, control, hist, poolOwn, managedOwn, jobOwn, tailnetOwn, proxyOwn>>

ProcessesSpec ==
    /\ ProcessesInit
    /\ [][ProcessesNext]_<<part, load, proc, turns, control, hist, poolOwn, managedOwn, jobOwn,
                           tailnetOwn, proxyOwn, relayOwn>>

-----------------------------------------------------------------------------
\* Of the pool: no more provider processes run than allowed, each has one owner,
\* and one that waits for its next turn is watched.
PoolIsSound == part = "pool" => CapacityKept /\ OneOwner /\ PooledIsWatched

\* Of the pool: what a parked process does is neither lost nor told twice.
ParkedWorkIsTold == part = "pool" => TasksAreAccounted /\ HeldRequestsShown

\* Of the pool: a turn only drives a process that runs what the turn asked for.
TurnsRunAsAsked == part = "pool" => RunsAsAsked

\* Of a supervised command: whoever was told it is stopped or deleted finds no
\* process of it, and none stays that nobody can stop, unless the transport
\* failed to end it or to wait for it.  Of a job in a sandbox: its owner learns
\* how it ended, and leaves nothing running but what a failed request left.
StoppedMeansStopped ==
    /\ part = "managed" =>
         Managed!AnswerMeansStopped /\ Managed!DeletedIsStopped /\ Managed!NothingUncontrolled
    /\ part = "job" => Sandbox!ExitIsOwn /\ Sandbox!NothingLeftRunning

\* Of the tailnet: routes, state and ssh config are of the daemon that runs, and
\* none outlives a stop.
TailnetIsCurrent ==
    part = "tailnet" => Tailnet!RoutesAreCurrent /\ Tailnet!RefreshSettles /\ Tailnet!StopHolds

\* Of a proxied connection: the origin reads one request and the client one answer.
ExchangesAreWhole == part = "proxy" => Proxy!OriginSeesOneRequest /\ Proxy!OneAnswer

\* Neither the daemon's lock nor a connection's permit is kept for ever.
NetworkSettles ==
    /\ part = "tailnet" => Tailnet!NobodyWaits
    /\ part = "proxy" => Proxy!ConnectionsEnd

\* Of relayed messages: chains of turns end, and no turn exceeds what it was granted.
RelayIsBounded == part = "relay" => Relay!ChainsEnd /\ Relay!BudgetHeld

\* A sandbox job's control that is dropped while the job runs stops it.
DropCleansUp == part = "job" => Sandbox!DropCleansUp

=============================================================================
