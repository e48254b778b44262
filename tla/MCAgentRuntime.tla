--------------------------- MODULE MCAgentRuntime ---------------------------
(* Workloads for AgentRuntime: calls competing for permits, recoveries      *)
(* competing for a profile, probes, and single launches of every adapter.   *)
EXTENDS AgentRuntime

Quiet == [kind |-> "none", request |-> BaseRequest, policy |-> "terminate", retries |-> 0,
          manager |-> "exact", mode |-> "run", wrap |-> "plain", directory |-> "ok",
          spawn |-> "ok", probe |-> "none", operation |-> "list", query |-> "ok",
          name |-> "kebab-case", scope |-> "user", write |-> TRUE, definition |-> "plain",
          answers |-> <<"installed">>, http |-> TRUE,
          behave |-> [s \in {"a", "b"} |-> "exits"]]

Turn == [Quiet EXCEPT !.kind = "run"]
Recovery == [Quiet EXCEPT !.kind = "recover", !.retries = 1,
                          !.request = [BaseRequest EXCEPT !.sandbox = "managed",
                                                          !.requires = {"filesystem"}]]
Usage(probe, b) == [Quiet EXCEPT !.kind = "usage", !.probe = probe, !.behave["a"] = b]
Discovery(a, b) == [Quiet EXCEPT !.kind = "discover", !.behave = [a |-> a, b |-> b]]
Listing(p, a, b) ==
  [Quiet EXCEPT !.kind = "extension", !.behave = [a |-> a, b |-> b], !.request.provider = p]
Skill(p, scope, write) ==
  [Quiet EXCEPT !.kind = "extension", !.operation = "skill", !.request.provider = p,
                !.scope = scope, !.write = write]
ManagedServer(p, scope, def) ==
  [Quiet EXCEPT !.kind = "extension", !.operation = "mcp", !.request.provider = p,
                !.scope = scope, !.definition = def]
Served == [Turn EXCEPT !.request.provider = "openserve"]
Agent == [Turn EXCEPT !.request.provider = "acp",
                      !.request.options = [k \in {"agent"} |-> "agent"]]

Calls(s) == s \o SubSeq(<<Quiet, Quiet, Quiet>>, 1, Cardinality(Callers) - Len(s))

AllScopes == {"user", "project", "user_mcp", "project_mcp"}

World == [skills |-> [r \in Roots |-> "none"], writable |-> AllScopes,
          calls |-> Calls(<<Quiet>>), limit |-> 1, cancels |-> FALSE, drops |-> FALSE,
          unregisters |-> FALSE, lateExit |-> FALSE, frames |-> {}, denied |-> {},
          changes |-> {"read"},
          transport |-> {"interactive_stdin", "process_tree_termination"},
          profile |-> [read |-> {"a"}, write |-> {}, deny |-> {"d"},
                       network |-> "allowlist", domains |-> {}]]

(* Calls that compete for permits. *)
Competing ==
  { [World EXCEPT !.calls = Calls(<<Turn, Turn, Usage("response", "hangs")>>),
                  !.drops = TRUE],
    [World EXCEPT !.calls = Calls(<<[Turn EXCEPT !.policy = "preserve"], Agent>>),
                  !.frames = {"tool", "compaction"}, !.cancels = TRUE, !.unregisters = TRUE],
    [World EXCEPT !.calls = Calls(<<Served, Turn, Usage("bounded", "floods")>>), !.limit = 2,
                  !.cancels = TRUE],
    [World EXCEPT !.calls = Calls(<<[Served EXCEPT !.spawn = "unattached"],
                                    [Turn EXCEPT !.spawn = "closes"]>>), !.drops = TRUE],
    [World EXCEPT !.calls = Calls(<<Recovery, Turn>>), !.frames = {"session"},
                  !.denied = {"b"}, !.cancels = TRUE, !.drops = TRUE] }

(* Recoveries that compete for one profile. *)
Recovering ==
  { [World EXCEPT !.calls = Calls(<<[Recovery EXCEPT !.manager = m, !.retries = 2], Recovery>>),
                  !.limit = 2, !.frames = {"session"}, !.denied = d, !.changes = {"read"}] :
      m \in {"exact", "moves"}, d \in {{"b"}, {"x"}} }
  \cup
  { [World EXCEPT !.calls = Calls(<<[Recovery EXCEPT !.manager = m, !.mode = mode]>>),
                  !.frames = {"session"}, !.denied = {"b", "d"},
                  !.changes = {"domain", "write"}, !.cancels = TRUE] :
      m \in {"exact", "renames", "unversioned", "forgets"}, mode \in {"run", "wrap"} }

Behaviours == {"answers", "exits", "fails", "floods", "hangs", "closes", "rejects"}

Probing ==
  { [World EXCEPT !.calls = Calls(<<Discovery(a, b), Usage(p, a)>>), !.lateExit = l,
                  !.drops = ~l] :
      a \in Behaviours, b \in Behaviours, p \in {"bounded", "response", "none"}, l \in BOOLEAN }

Hosts == {"claude", "codex", "opencode", "pi", "acp"}

Extending ==
  { [World EXCEPT !.calls = Calls(<<[Listing(p, a, b) EXCEPT !.spawn = sp]>>), !.drops = TRUE,
                  !.writable = w] :
      p \in Hosts, a \in Behaviours, b \in {"exits", "fails"}, sp \in {"ok", "missing"},
      w \in {AllScopes, {"project", "user_mcp"}} }
  \cup
  { [World EXCEPT !.calls = Calls(<<Skill(p, sc, TRUE), Listing(p, "exits", "exits"),
                                    [Skill(p, "user", w) EXCEPT !.name = n]>>)] :
      p \in Hosts, sc \in Scopes, w \in BOOLEAN, n \in {"kebab-case", "Bad"} }
  \cup
  { [World EXCEPT !.calls = Calls(<<Skill("claude", sc, TRUE),
                                    [Listing("claude", "exits", "exits") EXCEPT !.query = "search"]>>)] :
      sc \in Scopes }
  \cup
  { [World EXCEPT !.calls = Calls(<<[ManagedServer(p, sc, d) EXCEPT !.query = "limit0"],
                                    [Listing(p, "exits", "exits") EXCEPT !.query = q,
                                                                         !.directory = dr]>>)] :
      p \in Hosts, sc \in Scopes, d \in {"plain", "environment"}, q \in {"ok", "limit0"},
      dr \in {"ok", "missing"} }
  \cup
  { [World EXCEPT !.calls = Calls(<<[Discovery("exits", "exits") EXCEPT !.answers = an]>>)] :
      an \in {<<>>, <<"error">>, <<"error", "absent">>, <<"error", "installed">>} }

(* One launch at a time: every adapter with the parts of a request. *)
Server(k, pair) == [name |-> "srv", kind |-> k, from |-> {pair}, ok |-> TRUE]

AgentChosen(p) == IF p = "acp" THEN [k \in {"agent"} |-> "agent"] ELSE [k \in {} |-> ""]

Launches ==
  { [BaseRequest EXCEPT !.provider = p, !.permission = m, !.options = o] :
      p \in Adapters, m \in Modes,
      o \in {[k \in {} |-> ""], [k \in {"agent"} |-> "agent"], [k \in {"agent"} |-> "plan"],
             [k \in {"permission_mode"} |-> "auto"], [k \in {"sandbox_mode"} |-> "read-only"],
             [k \in {"model_relay"} |-> "relay:K"], [k \in {"fast_mode"} |-> "true"]} }
  \cup
  { [BaseRequest EXCEPT !.provider = p, !.permission = m, !.system = sys, !.tools = t,
                        !.strict = st, !.servers = sv, !.options = AgentChosen(p)] :
      p \in Adapters, m \in {"Plan", "FullAccess"}, sys \in {"none", "text"},
      t \in {<<>>, <<{}>>, <<{"read", "edit"}>>}, st \in BOOLEAN,
      sv \in {{}, {Server("stdio", <<"K", "K">>)}, {Server("http", <<"T", "K">>)},
              {Server("stdio", <<"T", "K">>)}} }

Refusals ==
  { [BaseRequest EXCEPT !.prompt = x] : x \in {"blank", "long"} }
  \cup { [BaseRequest EXCEPT !.zero = TRUE], [BaseRequest EXCEPT !.compaction = "low"],
         [BaseRequest EXCEPT !.attachments = "many"], [BaseRequest EXCEPT !.environmentBad = TRUE],
         [BaseRequest EXCEPT !.continuation = TRUE], [BaseRequest EXCEPT !.needs = {"network_block"}],
         [BaseRequest EXCEPT !.sandbox = "direct", !.requires = {"audit"}],
         [BaseRequest EXCEPT !.reasoning = "bad"], [BaseRequest EXCEPT !.system = "bad"] }

Launching ==
  { [World EXCEPT !.calls = Calls(<<[Turn EXCEPT !.request = r]>>)] : r \in Launches \cup Refusals }
  \cup
  { [World EXCEPT !.calls = Calls(<<[Turn EXCEPT !.http = FALSE, !.request = r]>>)] :
      r \in {[Agent.request EXCEPT !.servers = sv, !.system = "text", !.session = se] :
              se \in {"none", "s0"},
              sv \in {{Server("http", <<"T", "K">>)}, {Server("stdio", <<"T", "K">>)},
                      {Server("http", <<"T", "K">>), Server("stdio", <<"T", "K">>)}}} }
  \cup
  { [World EXCEPT !.calls = Calls(<<[Turn EXCEPT !.wrap = w, !.mode = mode, !.directory = d,
                                                !.spawn = sp, !.request.sandbox = "direct",
                                                !.request.requires = {"audit"}]>>),
                  !.transport = tr, !.cancels = TRUE] :
      w \in {"plain", "relative", "credentials"}, mode \in {"run", "wrap"}, d \in {"ok", "missing"},
      sp \in {"ok", "missing"},
      tr \in SUBSET {"interactive_stdin", "process_tree_termination"} }

SmallLoads == Competing \cup Recovering \cup Probing \cup Extending \cup Launching
=============================================================================
