----------------------------- MODULE MCProviders ----------------------------
(* Workloads for Providers: each provider with the parts of its protocol.  *)
EXTENDS Providers

Base == [provider |-> "codex", retained |-> TRUE, resume |-> FALSE, manual |-> FALSE, titled |-> FALSE,
         model |-> TRUE, policy |-> "ask", turns |-> 2, handoffs |-> 0, msgs |-> {}, timeouts |-> FALSE,
         heldQuiet |-> FALSE, probes |-> FALSE, cancels |-> FALSE, drops |-> FALSE, deaths |-> FALSE,
         errors |-> FALSE, holds |-> FALSE, late |-> 0, goals |-> 0, noGoals |-> FALSE, busy |-> FALSE,
         asks |-> {}, renames |-> 0, offers |-> {}, first |-> [k \in {} |-> ""],
         second |-> [k \in {} |-> ""], snapshots |-> {}, resumes |-> "resume", noise |-> FALSE, asked |-> 0,
         changes |-> 0, tools |-> FALSE]

OneTurn == [Base EXCEPT !.retained = FALSE, !.turns = 1]

CodexLoads ==
    { [Base EXCEPT !.probes = TRUE, !.late = 1],
      [Base EXCEPT !.goals = 1, !.late = 1, !.asks = {"approval"}],
      [Base EXCEPT !.titled = TRUE],
      [Base EXCEPT !.titled = TRUE, !.renames = 1, !.turns = 1],
      [Base EXCEPT !.asks = {"approval", "question", "tool"}, !.turns = 1, !.cancels = TRUE],
      [Base EXCEPT !.manual = TRUE],
      [Base EXCEPT !.errors = TRUE, !.noGoals = TRUE, !.deaths = TRUE, !.timeouts = TRUE],
      [OneTurn EXCEPT !.goals = 1, !.timeouts = TRUE, !.deaths = TRUE],
      [OneTurn EXCEPT !.goals = 1, !.resume = TRUE],
      [OneTurn EXCEPT !.resume = TRUE, !.busy = TRUE, !.asks = {"question", "tool"}, !.cancels = TRUE] }

Set(o, m) == [k \in {"option", "mode"} |-> IF k = "option" THEN o ELSE m]

AcpBase == [Base EXCEPT !.provider = "acp", !.offers = {"option", "mode"}]

AcpLoads ==
    { [AcpBase EXCEPT !.first = Set("c", "b"), !.second = Set("c", "a"), !.changes = 2],
      [AcpBase EXCEPT !.first = Set("b", "b"), !.second = Set("a", "a"), !.snapshots = {"option", "mode"}],
      [AcpBase EXCEPT !.first = Set("b", "b"), !.second = Set("a", "a"), !.snapshots = {"option"}],
      [AcpBase EXCEPT !.first = Set("b", "b"), !.errors = TRUE, !.turns = 1],
      [AcpBase EXCEPT !.resume = TRUE, !.resumes = "load", !.asked = 1, !.late = 2],
      [AcpBase EXCEPT !.asked = 1, !.cancels = TRUE, !.policy = "accept_edits", !.noise = TRUE, !.turns = 1],
      [AcpBase EXCEPT !.provider = "acp", !.retained = FALSE, !.turns = 1, !.resume = TRUE, !.resumes = "",
                      !.asked = 2, !.cancels = TRUE, !.errors = TRUE, !.deaths = TRUE, !.drops = TRUE] }

PiLoads ==
    { [OneTurn EXCEPT !.provider = "pi", !.tools = TRUE, !.cancels = TRUE],
      [OneTurn EXCEPT !.provider = "pi", !.errors = TRUE, !.resume = TRUE, !.deaths = TRUE],
      [OneTurn EXCEPT !.provider = "pi", !.errors = TRUE],
      [OneTurn EXCEPT !.provider = "pi", !.holds = TRUE, !.resume = TRUE, !.tools = TRUE],
      [OneTurn EXCEPT !.provider = "codex_exec", !.errors = TRUE, !.deaths = TRUE, !.cancels = TRUE],
      [OneTurn EXCEPT !.provider = "opencode_run", !.errors = TRUE, !.deaths = TRUE] }

OpenCodeBase == [Base EXCEPT !.provider = "opencode"]

OpenCodeLoads ==
    { [OpenCodeBase EXCEPT !.asked = 1, !.late = 1],
      [OpenCodeBase EXCEPT !.asked = 1, !.policy = "plan", !.errors = TRUE, !.turns = 1],
      [OpenCodeBase EXCEPT !.manual = TRUE, !.turns = 1],
      [OpenCodeBase EXCEPT !.manual = TRUE, !.model = FALSE, !.turns = 1],
      [OpenCodeBase EXCEPT !.holds = TRUE, !.asked = 1, !.turns = 1],
      [OpenCodeBase EXCEPT !.retained = FALSE, !.turns = 1, !.asked = 1, !.cancels = TRUE, !.deaths = TRUE, !.late = 1] }

SmallLoads == CodexLoads \cup AcpLoads \cup PiLoads \cup OpenCodeLoads
=============================================================================
