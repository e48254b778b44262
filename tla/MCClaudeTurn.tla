---------------------------- MODULE MCClaudeTurn ----------------------------
(* Workloads for ClaudeTurn: each lets one part of the protocol vary.      *)
EXTENDS ClaudeTurn

Base == [compacts |-> FALSE, titles |-> FALSE, lifecycle |-> TRUE, cancelQueued |-> TRUE,
         errors |-> FALSE, tasks |-> {}, kind |-> [t \in {"t1", "t2"} |-> "local_bash"],
         replays |-> 0, asks |-> 0, plans |-> 0, compactions |-> 0, ticks |-> 0, chatter |-> 0, deaths |-> FALSE,
         cancels |-> FALSE, timeouts |-> FALSE, drops |-> FALSE, heldQuiet |-> FALSE, probes |-> FALSE, mode |-> "accept_edits",
         turns |-> 2, handoffs |-> 0, msgs |-> {}]

Agents == [t \in {"t1", "t2"} |-> IF t = "t1" THEN "local_agent" ELSE "local_bash"]

SmallLoads ==
    { \* exchanges, failures and the messages sent into them
      [Base EXCEPT !.errors = TRUE, !.titles = TRUE, !.deaths = TRUE, !.asks = 1, !.turns = 1],
      [Base EXCEPT !.msgs = {"m1"}, !.lifecycle = FALSE],
      [Base EXCEPT !.msgs = {"m1"}, !.drops = TRUE],
      [Base EXCEPT !.msgs = {"m1", "stop"}, !.turns = 1],
      [Base EXCEPT !.msgs = {"m1", "background"}, !.turns = 1],
      \* cancellation
      [Base EXCEPT !.cancels = TRUE, !.msgs = {"m1"}, !.cancelQueued = FALSE],
      [Base EXCEPT !.cancels = TRUE, !.tasks = {"t1"}, !.kind = Agents, !.asks = 1],
      [Base EXCEPT !.timeouts = TRUE, !.cancels = TRUE, !.deaths = TRUE, !.msgs = {"m1"}, !.turns = 1],
      \* background tasks and hand-offs
      [Base EXCEPT !.tasks = {"t1"}, !.kind = Agents, !.heldQuiet = TRUE, !.handoffs = 2],
      [Base EXCEPT !.tasks = {"t1"}, !.asks = 1, !.kind = Agents, !.handoffs = 1],
      [Base EXCEPT !.tasks = {"t1"}, !.replays = 2],
      [Base EXCEPT !.tasks = {"t1", "t2"}, !.kind = Agents],
      \* modes, compaction, workflows, subagents in the foreground
      [Base EXCEPT !.plans = 2],
      [Base EXCEPT !.compactions = 1, !.compacts = TRUE],
      [Base EXCEPT !.ticks = 4, !.turns = 1],
      [Base EXCEPT !.chatter = 3, !.turns = 1] }
=============================================================================
