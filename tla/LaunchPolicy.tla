---------------------------- MODULE LaunchPolicy ----------------------------
(***************************************************************************)
(* What a turn request may ask of a provider, the command each adapter     *)
(* builds for it, and the profiles of the sandbox it is wrapped in.        *)
(* AgentRuntime::validate and run_inner_with_retention refuse what an      *)
(* adapter does not advertise; the adapters' `command' (and, for           *)
(* OpenCode's server, `permission_config') then express what was admitted. *)
(* Both sides are pure, and written separately in the code.                *)
(*                                                                         *)
(* A request is a record.  Text is abstracted to what the checks tell      *)
(* apart ("text", "blank", "long", "bad"); an MCP server is a record with  *)
(* its kind, the pairs <<target, source>> it forwards, and whether its     *)
(* command or URL is well formed; the allowlist is <<>> (none) or a        *)
(* one-element sequence holding the set of tools.                          *)
(***************************************************************************)
EXTENDS Naturals, Sequences, FiniteSets, FiniteSetsExt

CONSTANTS Usable,       \* paths normalize_paths accepts
          Broken,       \* a path whose document nono's validation rejects
          MaxPaths      \* MAX_PATHS_PER_CLASS

Adapters == {"claude", "codex", "codexapp", "opencode", "openserve", "pi", "acp"}

Modes == {"Default", "AcceptEdits", "Plan", "FullAccess", "Custom"}

ReadOnlyTools == {"read", "grep"}                    \* pi's READ_ONLY_TOOLS

BaseRequest ==
  [provider |-> "claude", prompt |-> "text", continuation |-> FALSE, zero |-> FALSE,
   compaction |-> "default", attachments |-> "none", environment |-> {"K"},
   environmentBad |-> FALSE, permission |-> "FullAccess", custom |-> "auto",
   options |-> [k \in {} |-> ""], system |-> "none", tools |-> <<>>, strict |-> FALSE,
   servers |-> {}, session |-> "none", model |-> "none", reasoning |-> "none",
   sandbox |-> "none", needs |-> {}, requires |-> {}, absolute |-> TRUE]

(* The field of the first check that fails, "" when none does. *)
First(checks) ==
  LET failed == {i \in DOMAIN checks : checks[i][1]}
  IN  IF failed = {} THEN "" ELSE checks[Min(failed)][2]

-----------------------------------------------------------------------------
(* What each adapter advertises. *)

Launch(system, tools, stdio, http, strict) ==
  [system |-> system, tools |-> tools, stdio |-> stdio, http |-> http, strict |-> strict]

ClaudeLaunch == Launch(TRUE, TRUE, TRUE, TRUE, TRUE)
CodexLaunch(app) == Launch(app, FALSE, TRUE, TRUE, FALSE)
OpenCodeLaunch(serve) == Launch(serve, serve, serve, serve, FALSE)
PiLaunch == Launch(TRUE, TRUE, FALSE, FALSE, TRUE)
AcpLaunch == Launch(TRUE, FALSE, TRUE, TRUE, FALSE)

launch_context_capabilities(p) ==
  CASE p = "claude" -> ClaudeLaunch
    [] p \in {"codex", "codexapp"} -> CodexLaunch(p = "codexapp")
    [] p \in {"opencode", "openserve"} -> OpenCodeLaunch(p = "openserve")
    [] p = "pi" -> PiLaunch
    [] OTHER -> AcpLaunch

ClaudePermissions == Modes
CodexPermissions == Modes \ {"Plan"}
OpenCodePermissions(serve) == IF serve THEN Modes ELSE {"Default", "FullAccess", "Custom"}
PiPermissions == {"Plan", "FullAccess"}
AcpPermissions == Modes \ {"Plan"}

permission_support(p) ==
  CASE p = "claude" -> ClaudePermissions
    [] p \in {"codex", "codexapp"} -> CodexPermissions
    [] p \in {"opencode", "openserve"} -> OpenCodePermissions(p = "openserve")
    [] p = "pi" -> PiPermissions
    [] OTHER -> AcpPermissions

Group(id, options) == [id |-> id, options |-> options]

ClaudeControls ==
  {Group("permission_mode", {"manual", "acceptEdits", "plan", "auto", "bypassPermissions"})}
CodexControls ==
  {Group("approval_policy", {"untrusted", "on-request", "never"}),
   Group("sandbox_mode", {"read-only", "workspace-write", "danger-full-access"}),
   Group("collaboration_mode", {"default", "plan"})}
OpenCodeControls ==
  {Group("permission_mode", {"default", "auto"}), Group("agent", {"build", "plan"})}
AcpControls(registered) == {Group("agent", registered)}

control_groups(p, registered) ==
  CASE p = "claude" -> ClaudeControls
    [] p \in {"codex", "codexapp"} -> CodexControls
    [] p \in {"opencode", "openserve"} -> OpenCodeControls
    [] p = "pi" -> {}
    [] OTHER -> AcpControls(registered)

-----------------------------------------------------------------------------
(* What the runtime checks before anything is spawned. *)

validate_environment_reference(r, pair) == pair[2] \in r.environment

ServerCheck(r, s, caps) ==
  First(<< <<s.kind = "stdio" /\ ~caps.stdio, "mcp_servers">>,
           <<s.kind = "http" /\ ~caps.http, "mcp_servers">>,
           <<~s.ok, "mcp_servers.endpoint">>,
           <<\E pair \in s.from : ~validate_environment_reference(r, pair),
             "mcp_servers.environment">> >>)

validate_launch_context(r, caps) ==
  First(<< <<r.system # "none" /\ ~caps.system, "system_prompt_append">>,
           <<r.tools # <<>> /\ ~caps.tools, "allowed_tools">>,
           <<r.strict /\ ~caps.strict, "strict_mcp_config">>,
           <<r.system = "bad", "system_prompt_append">>,
           <<r.tools # <<>> /\ "bad,name" \in UNION {r.tools[i] : i \in DOMAIN r.tools},
             "allowed_tools">>,
           <<\E s \in r.servers : ServerCheck(r, s, caps) # "", "mcp_servers">> >>)

validate_attachments(r) == r.attachments \notin {"many", "bad"}

validate_explicit_environment(r) == ~r.environmentBad

(* AutoCompactionPolicy: only Claude configures it, and only in its range. *)
ValidCompaction(r) ==
  \/ r.compaction = "default"
  \/ r.provider = "claude" /\ r.compaction # "low"

validate(r, available) ==
  First(<< <<~r.continuation /\ r.prompt = "blank", "prompt">>,
           <<r.prompt = "long", "prompt">>,
           <<r.zero, "timeout">>,
           <<~ValidCompaction(r), "auto_compaction">>,
           <<~validate_attachments(r), "attachments">>,
           <<~validate_explicit_environment(r), "environment">>,
           <<validate_launch_context(r, launch_context_capabilities(r.provider)) # "",
             "launch_context">>,
           <<r.sandbox # "none" /\ ~(r.requires \subseteq available.sandbox), "sandbox">>,
           <<~(r.needs \subseteq available.sandbox \cup available.transport),
             "required_sandbox_capabilities">> >>)

(* Options the runtime lets through without a control group of the adapter. *)
Unlisted(r, k) ==
  \/ r.provider \in {"codex", "codexapp"} /\ k \in {"model_relay", "service_tier"}
  \/ r.provider = "acp" /\ k = "config"
  \/ r.provider = "claude" /\ k = "fast_mode" /\ r.options[k] \in {"true", "false"}

OptionsAdvertised(r, registered) ==
  \A k \in DOMAIN r.options :
    \/ Unlisted(r, k)
    \/ \E g \in control_groups(r.provider, registered) :
         g.id = k /\ r.options[k] \in g.options

-----------------------------------------------------------------------------
(* The command an adapter builds, with what its handshake makes of it.      *)
(* `refused' names the field an adapter itself rejects; `access' is the     *)
(* permission it passes to the provider; `tools' is an allowlist that is    *)
(* enforced, `advice' one that the prompt only asks for; `warned' says that *)
(* servers were left out and the application was told.                      *)

Selected(r, k, otherwise) == IF k \in DOMAIN r.options THEN r.options[k] ELSE otherwise

Tool(r) == r.tools[1]

NoCommand(field) ==
  [refused |-> field, access |-> "none", sandbox |-> "none", session |-> "none",
   system |-> FALSE, tools |-> <<>>, advice |-> <<>>, servers |-> {}, warned |-> FALSE,
   strict |-> FALSE]

Command(r, access, tools, servers) ==
  [NoCommand("") EXCEPT !.access = access, !.session = r.session, !.tools = tools,
                        !.servers = servers]

claude_mcp_config(r) ==
  {[name |-> s.name, kind |-> s.kind, from |-> s.from] : s \in r.servers}

ClaudePermission(r) ==
  Selected(r, "permission_mode",
    CASE r.permission = "Default" -> "manual"
      [] r.permission = "AcceptEdits" -> "acceptEdits"
      [] r.permission = "Plan" -> "plan"
      [] r.permission = "FullAccess" -> "bypassPermissions"
      [] OTHER -> r.custom)

claude_command(r) ==
  LET refused == First(<<
        <<ClaudePermission(r) \notin
            {"manual", "acceptEdits", "plan", "auto", "dontAsk", "bypassPermissions"},
          "permission_mode">>,
        <<r.reasoning \notin {"none", "off", "ultracode", "high"}, "reasoning">>,
        <<Selected(r, "fast_mode", "true") \notin {"true", "false"}, "fast_mode">> >>)
  IN  IF refused # "" THEN NoCommand(refused)
      ELSE [Command(r, ClaudePermission(r), r.tools, claude_mcp_config(r))
              EXCEPT !.system = r.system # "none", !.strict = r.strict]

(* resolve_controls: <<>> means unrestricted access with no native control. *)
resolve_controls(r) ==
  LET native == {"approval_policy", "collaboration_mode", "sandbox_mode"} \cap DOMAIN r.options
      approval == Selected(r, "approval_policy",
                           IF r.permission = "Custom" THEN r.custom ELSE "on-request")
      collaboration == Selected(r, "collaboration_mode",
                                IF r.permission = "Plan" THEN "plan" ELSE "default")
      sandbox == Selected(r, "sandbox_mode",
                          IF collaboration = "plan" THEN "read-only" ELSE "workspace-write")
  IN  IF native = {} /\ r.permission = "FullAccess" THEN <<>>
      ELSE << First(<< <<approval \notin {"untrusted", "on-request", "never"}, "approval_policy">>,
                       <<collaboration \notin {"default", "plan"}, "collaboration_mode">>,
                       <<sandbox \notin {"read-only", "workspace-write", "danger-full-access"},
                         "sandbox_mode">> >>),
              approval, sandbox >>

(* append_mcp_launch_context: Codex forwards a variable only under its own name. *)
append_mcp_launch_context(r) ==
  IF \E s \in r.servers : s.kind = "stdio" /\ \E pair \in s.from : pair[1] # pair[2]
  THEN "mcp_servers.environment_from" ELSE ""

(* append_model_relay: an embedder's relay names a variable of the turn. *)
append_model_relay(r) ==
  First(<< <<"config_overrides" \in DOMAIN r.options, "config_overrides">>,
           <<"model_relay" \in DOMAIN r.options
             /\ ~(r.options["model_relay"] = "relay:K" /\ "K" \in r.environment),
             "model_relay">> >>)

codex_command(r) ==
  LET controls == resolve_controls(r)
      plain == [Command(r, "bypass", <<>>, claude_mcp_config(r))
                  EXCEPT !.system = r.provider = "codexapp" /\ r.system # "none"]
      early == First(<< <<append_mcp_launch_context(r) # "", "mcp_servers">>,
                        <<append_model_relay(r) # "", "model_relay">> >>)
  IN  IF early # "" THEN NoCommand(early)
      ELSE IF controls = <<>>
      THEN plain
      ELSE IF controls[1] # "" THEN NoCommand(controls[1])
      ELSE [plain EXCEPT !.access = controls[2], !.sandbox = controls[3]]

opencode_command(r) ==
  LET native == Selected(r, "permission_mode", "none")
      refused == First(<<
        <<native \notin {"none", "auto", "default"}, "permission_mode">>,
        <<r.permission = "AcceptEdits" /\ native = "none", "permission_mode">> >>)
      auto == native = "auto" \/ (native = "none" /\ r.permission = "FullAccess")
  IN  IF refused # "" THEN NoCommand(refused)
      ELSE Command(r, IF auto THEN "auto" ELSE "configured", <<>>, {})

is_plan_mode(r) == r.permission = "Plan" \/ Selected(r, "agent", "none") = "plan"

mcp_config(r) == claude_mcp_config(r)

NoTools(r) == r.tools # <<>> /\ Tool(r) = {}

(* The pair <<edit, bash>> the served policy carries; an empty allowlist
   replaces the whole policy by a wildcard deny rule. *)
permission_config(r) ==
  LET asked == CASE is_plan_mode(r) -> <<"deny", "deny">>
                 [] r.permission = "AcceptEdits" -> <<"allow", "ask">>
                 [] r.permission = "FullAccess" -> <<"allow", "allow">>
                 [] OTHER -> <<"ask", "ask">>
      native == Selected(r, "permission_mode", "default")
  IN  CASE NoTools(r) -> <<"deny", "deny">>
        [] native = "auto" -> <<"allow", "allow">>
        [] native = "ask" -> <<"ask", "ask">>
        [] OTHER -> asked

(* The prompt is prefixed by the system prompt and by an allowlist that is not
   empty: OpenCode has no other channel for either. *)
system_prompt_prefix(r) ==
  [system |-> r.system = "text", advice |-> IF NoTools(r) THEN <<>> ELSE r.tools]

serve_command(r) ==
  LET policy == permission_config(r)
  IN  IF Selected(r, "permission_mode", "default") \notin {"default", "auto", "ask"}
      THEN NoCommand("permission_mode")
      ELSE [Command(r, policy[1], IF NoTools(r) THEN r.tools ELSE <<>>, mcp_config(r))
              EXCEPT !.sandbox = policy[2],
                     !.system = system_prompt_prefix(r).system,
                     !.advice = system_prompt_prefix(r).advice]

tool_selection(r) ==
  IF r.permission = "Plan"
  THEN << {t \in ReadOnlyTools : r.tools = <<>> \/ t \in Tool(r)} >>
  ELSE r.tools

pi_command(r) ==
  LET refused == First(<<
        <<r.permission \notin {"FullAccess", "Plan"}, "permission_mode">>,
        <<r.session = "bad", "session_id">>,
        <<r.model = "-bad", "model">>,
        <<r.reasoning \notin {"none", "default", "high", "off"}, "reasoning">>,
        <<tool_selection(r) # <<>> /\ "-bad" \in tool_selection(r)[1], "allowed_tools">> >>)
  IN  IF refused # "" THEN NoCommand(refused)
      ELSE [Command(r, r.permission, tool_selection(r), {})
              EXCEPT !.system = r.system = "text", !.strict = r.strict]

(* agent_for reads the shared registry, which may have changed since the
   runtime looked at the control groups. *)
agent_for(r, registered) ==
  IF Selected(r, "agent", "none") \in registered THEN "" ELSE "harness_options.agent"

mcp_servers(r) == claude_mcp_config(r)

is_absolute_directory(r) == r.absolute

(* The agent's answer to initialize says whether it connects to HTTP servers;
   without that they are left out of the session, with a warning. *)
offered_servers(r, http) == {s \in mcp_servers(r) : s.kind = "http" => http}

(* A session that is resumed has received the system prompt already. *)
acp_command(r, registered, http) ==
  LET refused == First(<< <<agent_for(r, registered) # "", "agent">>,
                          <<~is_absolute_directory(r), "working_directory">> >>)
  IN  IF refused # "" THEN NoCommand(refused)
      ELSE [Command(r, r.permission, <<>>, offered_servers(r, http))
              EXCEPT !.system = r.system = "text" /\ r.session = "none",
                     !.warned = offered_servers(r, http) # mcp_servers(r)]

command_for_turn(r, registered, http) ==
  CASE r.provider = "claude" -> claude_command(r)
    [] r.provider \in {"codex", "codexapp"} -> codex_command(r)
    [] r.provider = "opencode" -> opencode_command(r)
    [] r.provider = "openserve" -> serve_command(r)
    [] r.provider = "pi" -> pi_command(r)
    [] OTHER -> acp_command(r, registered, http)

-----------------------------------------------------------------------------
(***************************************************************************)
(* Managed Nono profiles: the profile a change produces, the document it   *)
(* is written as, and the directory NonoManager::save writes it to.        *)
(*                                                                         *)
(* A profile grants paths for reading or writing, denies others and may    *)
(* restrict the network to a list of destinations.  Lists are kept as the  *)
(* sets their normalisation makes of them.  A file is named by its content *)
(* (slug and hash), so the directory is a set of documents; a temporary    *)
(* file also carries the counter that makes its name its own.              *)
(***************************************************************************)
None == [kind |-> "none", path |-> "", bypass |-> FALSE]
Grant(kind, path, bypass) == [kind |-> kind, path |-> path, bypass |-> bypass]

(* The old list is already normalised; the vector checked holds one more. *)
normalize_paths(kept, path) ==
  IF Cardinality(kept) + 1 > MaxPaths \/ path \notin Usable
  THEN [ok |-> FALSE, set |-> kept]
  ELSE [ok |-> TRUE, set |-> kept \cup {path}]

normalize_domains(kept, name) ==
  IF name = "" THEN [ok |-> FALSE, set |-> kept] ELSE [ok |-> TRUE, set |-> kept \cup {name}]

(* apply_change: [ok, profile], the profile untouched when it is refused. *)
apply_change(p, ch) ==
  LET list == CASE ch.kind = "read" -> normalize_paths(p.read, ch.path)
                [] ch.kind = "write" -> normalize_paths(p.write, ch.path)
                [] OTHER -> normalize_domains(p.domains, ch.path)
      refused == \/ ch.kind \in {"read", "write"} /\ (ch.bypass \/ ch.path \in p.deny)
                 \/ ch.kind = "domain" /\ p.network # "allowlist"
                 \/ ch.kind \in {"credential", "custom"}
  IN  IF refused \/ ~list.ok THEN [ok |-> FALSE, profile |-> p]
      ELSE [ok |-> TRUE,
            profile |-> CASE ch.kind = "read" -> [p EXCEPT !.read = list.set]
                          [] ch.kind = "write" -> [p EXCEPT !.write = list.set]
                          [] OTHER -> [p EXCEPT !.domains = list.set]]

document(p) ==
  [allow |-> p.write, read |-> p.read, deny |-> p.deny,
   network |-> CASE p.network = "inherit" -> {"inherit"}
                 [] p.network = "allowlist" -> {"block:false"} \cup p.domains
                 [] OTHER -> {"block:true"}]

(* nono profile validate --strict: an external program's verdict. *)
Accepted(doc) == Broken \notin doc.allow \cup doc.read

EmptyDirectory == [files |-> {}, temps |-> {}, next |-> 0]

Saved(dir, doc) == doc \in dir.files

create_temporary(dir, doc) ==
  [dir EXCEPT !.temps = @ \cup {<<dir.next, doc>>}, !.next = @ + 1]

remove_file(dir, temp) == [dir EXCEPT !.temps = @ \ {temp}]

rename(dir, temp) ==
  [dir EXCEPT !.temps = @ \ {temp}, !.files = @ \cup {temp[2]}]

(* NonoMode::capabilities *)
NonoCapabilities(mode) ==
  {"filesystem", "network_block", "process_isolation"}
    \cup IF mode = "run" THEN {"network_allowlist", "credentials", "audit"} ELSE {}

(* NonoExecution::validate: what the wrapper itself refuses in a mode. *)
ValidExecution(option, mode) ==
  /\ option \notin {"relative", "many", "absent", "chain_alone"}
  /\ mode = "wrap" => option \notin {"credentials", "trust_ca", "chain"}

(* NonoExecution::wrap: the provider's command becomes nono's argument. *)
wrap(cmd, mode) == [inner |-> cmd, mode |-> mode]

(* detect_denied_path: only a denial that names a path is a violation. *)
classify_event(failure) == failure \in Usable
=============================================================================
