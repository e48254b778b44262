------------------------- MODULE HarnessExtensions --------------------------
(***************************************************************************)
(* What the extension commands say about an execution host: where each     *)
(* provider's skills live, what discovery lists and offers to manage, and  *)
(* what the management commands accept.  The discovery script, the         *)
(* management script, the inventory and build_mcp_management_command each  *)
(* carry their own table of providers and scopes.                          *)
(*                                                                         *)
(* `skills' maps a root directory to the content of one skill below it;    *)
(* "none" when there is no SKILL.md.  Writing through a symbolic link,      *)
(* which the script refuses, is not modelled.                              *)
(***************************************************************************)
EXTENDS Naturals, Sequences, FiniteSets, FiniteSetsExt

Scopes == {"user", "project"}
McpScope == [user |-> "user_mcp", project |-> "project_mcp"]

Roots == {"home/.claude", "home/.agents", "home/.codex", "config/opencode", "home/.pi",
          "pwd/.claude", "pwd/.agents", "pwd/.opencode", "pwd/.pi",
          "up/.claude", "up/.agents", "up/.opencode", "up/.pi"}

PortableRoot(p, scope) == IF scope = "user" THEN "home/.agents" ELSE "pwd/.agents"

(* SKILL_MANAGEMENT_SCRIPT: the directory written, "exit64" when there is none. *)
ManagedRoot(p, scope) ==
  CASE p = "claude" -> IF scope = "user" THEN "home/.claude" ELSE "pwd/.claude"
    [] p = "codex" -> IF scope = "user" THEN "home/.agents" ELSE "pwd/.agents"
    [] p = "opencode" -> IF scope = "user" THEN "config/opencode" ELSE "pwd/.opencode"
    [] p = "pi" -> IF scope = "user" THEN "home/.pi" ELSE "pwd/.pi"
    [] OTHER -> "exit64"

(* SKILL_DISCOVERY_SCRIPT: the scopes whose write access is reported. *)
emit_access(p) ==
  CASE p \in {"claude", "pi"} -> {"user", "project", "user_mcp", "project_mcp"}
    [] p = "codex" -> {"user", "project", "user_mcp"}
    [] p = "opencode" -> {"user", "project"}
    [] OTHER -> {}

(* The roots in the order they are listed: the user's, then the working
   directory's, then those of its ancestors up to the repository root. *)
UserRoots(p) ==
  CASE p = "claude" -> <<"home/.claude">>
    [] p = "codex" -> <<"home/.codex", "home/.agents">>
    [] p = "opencode" -> <<"config/opencode", "home/.claude", "home/.agents">>
    [] OTHER -> <<"home/.pi", "home/.agents">>

ProjectRoots(p) ==
  CASE p = "claude" -> <<"pwd/.claude", "up/.claude">>
    [] p = "codex" -> <<"pwd/.agents", "up/.agents">>
    [] p = "opencode" -> <<"pwd/.claude", "pwd/.agents", "pwd/.opencode",
                           "up/.claude", "up/.agents", "up/.opencode">>
    [] OTHER -> <<"pwd/.pi", "pwd/.agents", "up/.pi", "up/.agents">>

(* parse_skill_probe keeps one entry per skill: the last one reported among
   those that match the search.  (A limit is at least one and never cuts the
   only skill of this model.) *)
parse_skill_probe(p, skills, query) ==
  LET roots == UserRoots(p) \o ProjectRoots(p)
      found == {i \in DOMAIN roots : /\ skills[roots[i]] # "none"
                                     /\ query = "search" => skills[roots[i]] = "new"}
  IN  IF found = {} THEN "none" ELSE roots[Max(found)]

(* The scopes a provider's MCP servers can be managed in at all. *)
mcp_management_access(p) ==
  CASE p = "claude" -> Scopes
    [] p = "codex" -> {"user"}
    [] OTHER -> {}

(* run_mcp_probe: pi and ACP agents have no listing to run. *)
ListsServers(p) == p \notin {"pi", "acp"}

(* The inventory of discover_harness_extensions from its two probes. *)
Inventory(p, skillsOk, mcpOk, skills, query, writable) ==
  LET access == IF skillsOk THEN emit_access(p) \cap writable ELSE {}
  IN  [provider |-> p,
       listed |-> IF skillsOk THEN parse_skill_probe(p, skills, query) ELSE "none",
       complete |-> skillsOk,
       manageSkills |-> access \cap Scopes,
       manageServers |-> IF mcpOk THEN {s \in mcp_management_access(p) : McpScope[s] \in access}
                         ELSE {}]

(* build_mcp_management_command: refuses what it cannot express safely. *)
build_mcp_management_command(p, scope, def) ==
  CASE p = "claude" -> def \notin {"environment", "empty"}
    [] p = "codex" -> scope = "user" /\ def \notin {"environment", "empty"}
    [] OTHER -> FALSE

validate_extension_query(q) == q \notin {"limit0", "longSearch"}
validate_extension_name(n) == n = "kebab-case"

(* inspect_adapter: one readiness answer per executable an adapter may run;
   it is an error only when not one of them could be inspected. *)
inspect_adapter(answers) ==
  LET installed == {i \in DOMAIN answers : answers[i] = "installed"}
  IN  IF answers # <<>> /\ \A i \in DOMAIN answers : answers[i] = "error"
      THEN [status |-> "error", installed |-> {}, single |-> FALSE]
      ELSE [status |-> IF installed = {} THEN "absent" ELSE "installed",
            installed |-> installed, single |-> Cardinality(installed) = 1]
=============================================================================
