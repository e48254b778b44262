---------------------------- MODULE AgentRuntime ----------------------------
(***************************************************************************)
(* The calls an AgentRuntime serves at once: one-shot turns (`run'), turns *)
(* recovered from sandbox denials (`run_with_sandbox_recovery'), account-  *)
(* usage queries, harness discovery and extension commands.  They share    *)
(* the permit semaphore, start child processes through the transport and   *)
(* may be cancelled, time out or be dropped at any await.                  *)
(*                                                                         *)
(* call[c]   what one call has reached: `pc' is the await it stands at.    *)
(* child     the processes of a call: slot "a" is a turn's process or a    *)
(*           probe, slot "b" the second probe of a pair joined together.   *)
(*           `guard' is the process-tree guard: armed, queued (terminate   *)
(*           handed the kill to a blocking task) or off.                   *)
(* free, queue   the semaphore: permits left and calls waiting, in order.  *)
(* profiles  the application's profile store, its revisions in order.      *)
(* dir       the directory NonoManager saves profile documents in.         *)
(* host      the ACP registry, which the application may change, and the   *)
(*           skills below the host's provider directories.                 *)
(* hist      what happened, for the properties.                            *)
(***************************************************************************)
EXTENDS LaunchPolicy, HarnessExtensions

CONSTANTS Callers,
          Workload,
          MaxRetries    \* MAX_SANDBOX_RECOVERY_RETRIES

VARIABLES load, call, child, free, queue, cancelled, profiles, dir, host, hist

vars == <<load, call, child, free, queue, cancelled, profiles, dir, host, hist>>

Slots == {"a", "b"}

Kind(c) == load.calls[c].kind
Request(c) == load.calls[c].request
Asked == {c \in Callers : Kind(c) # "none"}

NoChild == [st |-> "none", ok |-> FALSE, tools |-> FALSE, guard |-> "off",
            behave |-> "none", probe |-> "none", result |-> "none",
            script |-> "none", stdin |-> "none", seen |-> "none"]

Idle == [pc |-> "idle", permit |-> FALSE, attempt |-> 0, revision |-> 0, violation |-> "none",
         session |-> "none", change |-> None, temp |-> <<>>, expected |-> 0,
         profile |-> [read |-> {}], out |-> "none"]

NoHist == [spawned |-> {}, precancelled |-> {}, attempts |-> <<>>, approved |-> <<>>,
           events |-> <<>>, open |-> FALSE, command |-> NoCommand("none"), left |-> FALSE,
           after |-> {}, wrapped |-> <<>>, inventory |-> <<>>]

BackendCapabilities(c) == NonoCapabilities(load.calls[c].mode)

(* What validate sees: the manager's or backend's advertised controls. *)
Available(c) ==
  [transport |-> load.transport,
   sandbox |-> CASE Request(c).sandbox = "none" -> {}
                 [] Request(c).sandbox = "direct" -> BackendCapabilities(c)
                 [] OTHER -> NonoCapabilities("run")]

Holders == {c \in Callers : call[c].permit}

-----------------------------------------------------------------------------
(* Processes.  Dropping the guard kills the tree at once; terminate hands   *)
(* the kill to a blocking task that runs even when its caller is dropped.   *)

Killed(p) == [p EXCEPT !.st = IF @ = "alive" THEN "exited" ELSE @,
                       !.tools = FALSE, !.guard = "off"]

DropGuard(p) == IF p.guard = "armed" THEN Killed(p) ELSE p

terminate(p) == IF p.guard = "armed" THEN [p EXCEPT !.guard = "queued"] ELSE p

disarm(p) == [p EXCEPT !.guard = "off"]

spawned(b, probe) ==
  [NoChild EXCEPT !.st = "alive", !.guard = "armed", !.behave = b, !.probe = probe,
                  !.tools = probe # "turn"]

(* The blocking task of terminate_async. *)
KillRuns(c, s) ==
  /\ child[c][s].guard = "queued"
  /\ child' = [child EXCEPT ![c][s] = Killed(@)]
  /\ UNCHANGED <<call, free, queue, cancelled, profiles, dir, host, hist>>

(* The call's future ends: what it still owns is dropped with it. *)
Ended(c, out) ==
  /\ call' = [call EXCEPT ![c].pc = "done", ![c].permit = FALSE, ![c].out = out]
  /\ child' = [child EXCEPT ![c] = [s \in Slots |-> DropGuard(child[c][s])]]

ReleaseAlways(c) == free' = free + 1

(* Dropping a permit hands it to the next waiter, which acquires it later. *)
Release(c) == free' = IF c \in Holders THEN free + 1 ELSE free

(* run reports an open compaction as failed before it returns; the recovery
   path has no such guard. *)
close_open_compaction(c) ==
  hist' = [hist EXCEPT ![c].open = IF Kind(c) = "run" THEN FALSE ELSE @]

Return(c, out) ==
  /\ Ended(c, out)
  /\ Release(c)
  /\ close_open_compaction(c)
  /\ UNCHANGED <<queue, cancelled, profiles, dir, host>>

Goto(c, pc) ==
  /\ call' = [call EXCEPT ![c].pc = pc]
  /\ UNCHANGED <<child, free, queue, cancelled, profiles, dir, host, hist>>

-----------------------------------------------------------------------------
(* The world outside: cancellation, the caller dropping its future, the     *)
(* registry, and the processes.                                             *)

Cancel(c) ==
  /\ load.cancels /\ Kind(c) \in {"run", "recover"}
  /\ c \notin cancelled /\ call[c].pc # "done"
  /\ cancelled' = cancelled \cup {c}
  /\ hist' = [hist EXCEPT ![c].precancelled = IF call[c].pc = "idle" THEN {c} ELSE @]
  /\ UNCHANGED <<call, child, free, queue, profiles, dir, host>>

Abandon(c) ==
  /\ load.drops /\ call[c].pc \notin {"idle", "done"}
  /\ Ended(c, "dropped")
  /\ Release(c)
  /\ queue' = SelectSeq(queue, LAMBDA d : d # c)
  /\ UNCHANGED <<cancelled, profiles, dir, host, hist>>

AcpAgentRemoved ==
  /\ load.unregisters /\ host.agents # {}
  /\ host' = [host EXCEPT !.agents = {}]
  /\ UNCHANGED <<call, child, free, queue, cancelled, profiles, dir, hist>>

(* A program that closed its output but kept running may still exit. *)
ClosedExits(c, s) ==
  /\ load.lateExit
  /\ child[c][s].st = "alive" /\ child[c][s].behave = "closes"
  /\ child' = [child EXCEPT ![c][s].st = "exited", ![c][s].ok = TRUE]
  /\ UNCHANGED <<call, free, queue, cancelled, profiles, dir, host, hist>>

-----------------------------------------------------------------------------
(* Admission. *)

Enqueue(c) ==
  /\ call' = [call EXCEPT ![c].pc = "queued"]
  /\ queue' = Append(queue, c)
  /\ UNCHANGED <<child, free, cancelled, profiles, dir, host, hist>>

BeginTurn(c) ==
  /\ call[c].pc = "idle" /\ Kind(c) \in {"run", "recover"}
  /\ LET field == First(<< <<Kind(c) = "recover" /\ load.calls[c].retries > MaxRetries,
                              "max_retries">>,
                           <<validate(Request(c), Available(c)) # "", "request">> >>)
     IN  IF field # "" THEN Return(c, "invalid") ELSE Goto(c, "directory")

(* run_inner_with_retention after validate_working_directory *)
Admit(c) ==
  /\ call[c].pc = "directory" /\ Kind(c) = "run"
  /\ \/ load.calls[c].directory = "missing" /\ Return(c, "directory")
     \/ /\ load.calls[c].directory = "ok"
        /\ IF \/ Request(c).continuation
              \/ Request(c).permission \notin permission_support(Request(c).provider)
              \/ ~OptionsAdvertised(Request(c), host.agents)
           THEN Return(c, "invalid")
           ELSE IF c \in cancelled THEN Return(c, "cancelled") ELSE Enqueue(c)

(* run_with_sandbox_recovery after validate_working_directory *)
AdmitRecovery(c) ==
  /\ call[c].pc = "directory" /\ Kind(c) = "recover"
  /\ \/ load.calls[c].directory = "missing" /\ Return(c, "directory")
     \/ /\ load.calls[c].directory = "ok"
        /\ IF \/ Request(c).continuation
              \/ Request(c).permission \notin permission_support(Request(c).provider)
              \/ Request(c).sandbox # "managed"
           THEN Return(c, "invalid") ELSE Enqueue(c)

BeginUsage(c) ==
  /\ call[c].pc = "idle" /\ Kind(c) = "usage"
  /\ IF load.calls[c].probe = "none" THEN Return(c, "unsupported") ELSE Enqueue(c)

WaiterKept(c) ==
  /\ call[c].pc = "queued" /\ c \in cancelled
  /\ call' = [call EXCEPT ![c].pc = "done", ![c].out = "cancelled"]
  /\ UNCHANGED <<queue, child, free, cancelled, profiles, dir, host, hist>>

CancelledInQueue(c) ==
  /\ call[c].pc = "queued" /\ c \in cancelled
  /\ call' = [call EXCEPT ![c].pc = "done", ![c].out = "cancelled"]
  /\ queue' = SelectSeq(queue, LAMBDA d : d # c)
  /\ UNCHANGED <<child, free, cancelled, profiles, dir, host, hist>>

AfterPermit(c) ==
  CASE Kind(c) = "run" -> "prepare" [] Kind(c) = "recover" -> "resolve" [] OTHER -> "probing"

Acquire(c) ==
  /\ call[c].pc = "queued" /\ free > 0 /\ Head(queue) = c
  /\ call' = [call EXCEPT ![c].pc = AfterPermit(c), ![c].permit = TRUE]
  /\ queue' = Tail(queue)
  /\ free' = free - 1
  /\ UNCHANGED <<child, cancelled, profiles, dir, host, hist>>

-----------------------------------------------------------------------------
(* run_process, from the command to the result.                             *)

(* The request of this attempt: a retry resumes the session it learnt. *)
Attempt(c) == [Request(c) EXCEPT !.session = call[c].session]

CommandBuilt(c) ==
  /\ call[c].pc = "prepare"
  /\ LET cmd == command_for_turn(Attempt(c), host.agents, load.calls[c].http)
     IN  IF cmd.refused # "" THEN Return(c, "refused")
         ELSE /\ call' = [call EXCEPT ![c].pc = IF Request(c).sandbox = "none"
                                                THEN "spawn" ELSE "sandbox"]
              /\ hist' = [hist EXCEPT ![c].command = cmd]
              /\ UNCHANGED <<child, free, queue, cancelled, profiles, dir, host>>

(* SandboxRequest::prepare; the recovery path already holds a resolved backend. *)
SandboxPrepared(c) ==
  /\ call[c].pc = "sandbox"
  /\ \/ c \in cancelled /\ Return(c, "cancelled")
     \/ IF \/ Kind(c) = "run" /\ Request(c).sandbox = "managed"
              /\ load.calls[c].manager = "renames"
           \/ ~(Request(c).requires \subseteq BackendCapabilities(c))
           \/ ~ValidExecution(load.calls[c].wrap, load.calls[c].mode)
        THEN Return(c, "sandbox")
        ELSE /\ call' = [call EXCEPT ![c].pc = "spawn"]
             /\ hist' = [hist EXCEPT ![c].wrapped =
                           <<wrap(hist[c].command, load.calls[c].mode)>>]
             /\ UNCHANGED <<child, free, queue, cancelled, profiles, dir, host>>

interactive_stdin(c) == Request(c).provider \notin {"codex", "opencode", "openserve"}

TransportSuffices(c) ==
  /\ interactive_stdin(c) => "interactive_stdin" \in load.transport
  /\ "process_tree_termination" \in load.transport

Spawn(c) ==
  /\ call[c].pc = "spawn"
  /\ IF ~TransportSuffices(c) \/ load.calls[c].spawn = "missing"
     THEN Return(c, "spawn")
     ELSE /\ call' = [call EXCEPT ![c].pc = "wire"]
          /\ child' = [child EXCEPT ![c]["a"] = spawned("turn", "turn")]
          /\ hist' = [hist EXCEPT ![c].attempts = Append(@,
                        [profile |-> call[c].profile, session |-> hist[c].command.session,
                         events |-> Len(hist[c].events), command |-> hist[c].command,
                         wrapped |-> hist[c].wrapped])]
          /\ UNCHANGED <<free, queue, cancelled, profiles, dir, host>>

(* The prompt is written and the streams attached.  A write error returns
   without terminate, so the guard kills the tree; attach terminates it. *)
Wire(c) ==
  /\ call[c].pc = "wire"
  /\ \/ Goto(c, "running")
     \/ load.calls[c].spawn = "closes" /\ Return(c, "io")
     \/ /\ Request(c).provider = "openserve" /\ load.calls[c].spawn = "unattached"
        /\ child' = [child EXCEPT ![c]["a"] = terminate(@)]
        /\ call' = [call EXCEPT ![c].pc = "unattached"]
        /\ UNCHANGED <<free, queue, cancelled, profiles, dir, host, hist>>

AttachFailed(c) ==
  /\ call[c].pc = "unattached" /\ child[c]["a"].guard # "queued"
  /\ Return(c, "attach")

(* What the provider reports or does while its turn runs. *)
Report(c) ==
  /\ call[c].pc = "running" /\ child[c]["a"].st = "alive"
  /\ \/ /\ "session" \in load.frames /\ call[c].session = "none"
        /\ call' = [call EXCEPT ![c].session = "s1"]
        /\ UNCHANGED <<child, hist>>
     \/ \E path \in load.denied :
          /\ call[c].violation = "none" /\ classify_event(path)
          /\ call' = [call EXCEPT ![c].violation = path]
          /\ UNCHANGED <<child, hist>>
     \/ /\ "compaction" \in load.frames
        /\ hist' = [hist EXCEPT ![c].open = ~@]
        /\ UNCHANGED <<call, child>>
     \/ /\ "tool" \in load.frames /\ ~child[c]["a"].tools
        /\ child' = [child EXCEPT ![c]["a"].tools = TRUE]
        /\ UNCHANGED <<call, hist>>
     \/ \E ok \in BOOLEAN :
          /\ child' = [child EXCEPT ![c]["a"].st = "exited", ![c]["a"].ok = ok]
          /\ UNCHANGED <<call, hist>>
  /\ UNCHANGED <<free, queue, cancelled, profiles, dir, host>>

(* The loop sees the cancellation: cancel_running_process. *)
CancelRunning(c) ==
  /\ call[c].pc = "running" /\ c \in cancelled
  /\ call' = [call EXCEPT ![c].pc = "cancelling"]
  /\ child' = [child EXCEPT ![c]["a"] = terminate(@)]
  /\ UNCHANGED <<free, queue, cancelled, profiles, dir, host, hist>>

CancelDone(c) ==
  /\ call[c].pc = "cancelling" /\ child[c]["a"].guard # "queued"
  /\ Return(c, "cancelled")

attached(c) == Request(c).provider = "openserve"
exit_grace(c) == Request(c).provider = "acp"

(* A terminal frame of a server stops it; ACP agents get a grace to exit. *)
ProtocolOver(c) ==
  /\ call[c].pc = "running" /\ child[c]["a"].st = "alive"
  /\ attached(c) \/ exit_grace(c)
  /\ call' = [call EXCEPT ![c].pc = IF attached(c) THEN "stopping" ELSE "grace"]
  /\ child' = [child EXCEPT ![c]["a"] = IF attached(c) THEN terminate([@ EXCEPT !.ok = TRUE])
                                        ELSE [@ EXCEPT !.ok = TRUE]]
  /\ UNCHANGED <<free, queue, cancelled, profiles, dir, host, hist>>

GraceEnds(c) ==
  /\ call[c].pc = "grace"
  /\ call' = [call EXCEPT ![c].pc = "stopping"]
  /\ child' = [child EXCEPT ![c]["a"] = IF child[c]["a"].st = "alive" THEN terminate(@) ELSE @]
  /\ UNCHANGED <<free, queue, cancelled, profiles, dir, host, hist>>

Stopped(c) ==
  /\ call[c].pc = "stopping" /\ child[c]["a"].guard # "queued"
  /\ Goto(c, "policy")

(* End of output and the provider's own exit. *)
Exited(c) ==
  /\ call[c].pc = "running" /\ child[c]["a"].st = "exited"
  /\ Goto(c, "policy")

ToolPolicy(c) ==
  /\ call[c].pc = "policy"
  /\ call' = [call EXCEPT ![c].pc = "drain"]
  /\ IF load.calls[c].policy = "preserve"
     THEN /\ child' = [child EXCEPT ![c]["a"] = disarm(@)]
          /\ hist' = [hist EXCEPT ![c].left = child[c]["a"].tools]
     ELSE /\ child' = [child EXCEPT ![c]["a"] = IF attached(c) THEN @ ELSE terminate(@)]
          /\ UNCHANGED hist
  /\ UNCHANGED <<free, queue, cancelled, profiles, dir, host>>

(* stderr is drained and the outcome decided.  run returns it; recovery looks
   at the violation the attempt reported. *)
Result(c) ==
  /\ call[c].pc = "drain" /\ child[c]["a"].guard # "queued"
  /\ IF ~child[c]["a"].ok THEN Return(c, "failed")
     ELSE IF \/ Kind(c) = "run"
             \/ call[c].violation = "none"
             \/ call[c].attempt = load.calls[c].retries
             \/ call[c].session = "none"
          THEN Return(c, "ok")
     ELSE /\ call' = [call EXCEPT ![c].pc = "decide"]
          /\ child' = [child EXCEPT ![c]["a"] = DropGuard(@)]
          /\ UNCHANGED <<free, queue, cancelled, profiles, dir, host, hist>>

(* The turn deadline drops run_process wherever it stands. *)
InProcess == {"prepare", "sandbox", "spawn", "wire", "unattached", "running", "cancelling",
              "grace", "stopping", "policy", "drain"}

TurnTimesOut(c) ==
  /\ call[c].pc \in InProcess
  /\ Return(c, "timeout")

-----------------------------------------------------------------------------
(* Recovery.  The manager is the application's: it keeps revisions, applies *)
(* the change with ManagedProfile::apply_change, saves the document with    *)
(* NonoManager::save and commits the revision it was given, if unchanged.   *)

Manager(c) == load.calls[c].manager

(* SandboxProfileManager::resolve, which may answer with another revision. *)
ResolvedRevision(c) ==
  IF Manager(c) = "moves" \/ call[c].revision = 0 THEN Len(profiles) ELSE call[c].revision

CancelRecovery(c) ==
  /\ call[c].pc \in {"resolve", "decide", "apply", "validate", "rename", "commit"}
  /\ c \in cancelled
  /\ Return(c, "cancelled")

ManagerTimesOut(c) ==
  /\ call[c].pc \in {"resolve", "apply", "validate", "rename", "commit"}
  /\ Return(c, "timeout")

Resolve(c) ==
  /\ call[c].pc = "resolve"
  /\ IF \/ Manager(c) \in {"renames", "unversioned"}
        \/ ~(Request(c).requires \subseteq BackendCapabilities(c))
     THEN Return(c, "profile")
     ELSE /\ call' = [call EXCEPT ![c].pc = "prepare", ![c].revision = ResolvedRevision(c),
                                  ![c].profile = profiles[ResolvedRevision(c)],
                                  ![c].violation = "none"]
          /\ child' = [child EXCEPT ![c]["a"] = NoChild]
          /\ UNCHANGED <<free, queue, cancelled, profiles, dir, host, hist>>

(* The handler decides; a refusal or a timeout ends the call with the result. *)
Decide(c) ==
  /\ call[c].pc = "decide"
  /\ \/ Return(c, "ok")
     \/ \E kind \in load.changes :
          LET change == Grant(kind, call[c].violation, FALSE)
          IN  /\ call' = [call EXCEPT ![c].pc = "apply", ![c].change = change]
              /\ hist' = [hist EXCEPT ![c].approved = Append(@, change)]
              /\ UNCHANGED <<child, free, queue, cancelled, profiles, dir, host>>

Changed(c) == apply_change(profiles[call[c].revision], call[c].change)

(* apply_change, then save up to the temporary file. *)
Apply(c) ==
  /\ call[c].pc = "apply"
  /\ IF ~Changed(c).ok THEN Return(c, "change")
     ELSE LET doc == document(Changed(c).profile)
          IN  /\ IF Saved(dir, doc)
                 THEN /\ call' = [call EXCEPT ![c].pc = "commit"]
                      /\ UNCHANGED dir
                 ELSE /\ call' = [call EXCEPT ![c].pc = "validate", ![c].temp = <<dir.next, doc>>]
                      /\ dir' = create_temporary(dir, doc)
              /\ UNCHANGED <<child, free, queue, cancelled, profiles, host, hist>>

ValidateDocument(c) ==
  /\ call[c].pc = "validate"
  /\ IF Accepted(call[c].temp[2]) THEN Goto(c, "rename")
     ELSE /\ dir' = remove_file(dir, call[c].temp)
          /\ Ended(c, "rejected") /\ Release(c)
          /\ UNCHANGED <<queue, cancelled, profiles, host, hist>>

Rename(c) ==
  /\ call[c].pc = "rename"
  /\ dir' = rename(dir, call[c].temp)
  /\ call' = [call EXCEPT ![c].pc = "commit"]
  /\ UNCHANGED <<child, free, queue, cancelled, profiles, host, hist>>

Commit(c) ==
  /\ call[c].pc = "commit"
  /\ IF call[c].revision # Len(profiles) THEN Return(c, "stale")
     ELSE /\ profiles' = Append(profiles, Changed(c).profile)
          /\ call' = [call EXCEPT ![c].pc = "updated", ![c].expected = Len(profiles) + 1]
          /\ UNCHANGED <<child, free, queue, cancelled, dir, host, hist>>

UpdateForgotten(c) ==
  /\ call[c].pc = "updated"
  /\ IF Manager(c) = "forgets" THEN Return(c, "profile")
     ELSE /\ call' = [call EXCEPT ![c].pc = "emit"]
          /\ hist' = [hist EXCEPT ![c].events = Append(@, "updated")]
          /\ UNCHANGED <<child, free, queue, cancelled, profiles, dir, host>>

(* The two events are emitted before the session is resumed. *)
Updated(c) ==
  /\ call[c].pc = "updated"
  /\ IF Manager(c) = "forgets" THEN Return(c, "profile")
     ELSE /\ call' = [call EXCEPT ![c].pc = "emit", ![c].revision = call[c].expected]
          /\ hist' = [hist EXCEPT ![c].events = Append(@, "updated")]
          /\ UNCHANGED <<child, free, queue, cancelled, profiles, dir, host>>

Retrying(c) ==
  /\ call[c].pc = "emit"
  /\ call' = [call EXCEPT ![c].pc = "resolve", ![c].attempt = @ + 1]
  /\ hist' = [hist EXCEPT ![c].events = Append(@, "retrying")]
  /\ UNCHANGED <<child, free, queue, cancelled, profiles, dir, host>>

-----------------------------------------------------------------------------
(* Probes: short commands whose output is read under a deadline.            *)

(* Outcome of a probe by what its program does: <<result, terminated>>. *)
execute_bounded_command(b) ==
  CASE b = "exits" -> <<"ok", FALSE>>
    [] b \in {"fails", "rejects"} -> <<"failed", FALSE>>
    [] b = "floods" -> <<"error", TRUE>>
    [] OTHER -> <<"timeout", TRUE>>

(* A response probe stops its program whatever it answered; only a failed
   write of the request returns before that. *)
execute_response_probe(b) ==
  CASE b = "answers" -> <<"ok", TRUE>>
    [] b \in {"exits", "fails", "closes", "floods"} -> <<"error", TRUE>>
    [] b = "rejects" -> <<"error", FALSE>>
    [] OTHER -> <<"timeout", TRUE>>

(* Too much output closes the pipe, which ends the program. *)
execute_authentication_command(b) ==
  CASE b \in {"exits", "fails"} -> <<"ok", FALSE>>
    [] b \in {"rejects", "floods"} -> <<"error", TRUE>>
    [] OTHER -> <<"timeout", TRUE>>

probe_harness_metadata(b) ==
  CASE b = "answers" -> <<"ok", TRUE>>
    [] b \in {"rejects", "floods"} -> <<"error", TRUE>>
    [] b = "hangs" -> <<"timeout", TRUE>>
    [] b = "fails" -> <<"failed", FALSE>>
    [] OTHER -> <<"ok", FALSE>>

Outcome(kind, b) ==
  CASE kind = "bounded" -> execute_bounded_command(b)
    [] kind = "response" -> execute_response_probe(b)
    [] kind = "auth" -> execute_authentication_command(b)
    [] OTHER -> probe_harness_metadata(b)

Operation(c) == load.calls[c].operation

(* The commands a call runs, by slot. *)
Probes(c) ==
  CASE Kind(c) = "usage" -> [s \in {"a"} |-> load.calls[c].probe]
    [] Kind(c) = "discover" -> [s \in Slots |-> IF s = "a" THEN "auth" ELSE "catalog"]
    [] Operation(c) = "skill" -> [s \in {"a"} |-> "skill"]
    [] Operation(c) = "list" /\ ListsServers(Request(c).provider) -> [s \in Slots |-> "bounded"]
    [] OTHER -> [s \in {"a"} |-> "bounded"]

(* inspect_adapter, before the pair of probes *)
Inspect(c) ==
  /\ call[c].pc = "idle" /\ Kind(c) = "discover"
  /\ LET status == inspect_adapter(load.calls[c].answers).status
     IN  IF status = "installed" THEN Goto(c, "probing") ELSE Return(c, status)

BeginExtension(c) ==
  /\ call[c].pc = "idle" /\ Kind(c) = "extension"
  /\ IF \/ Operation(c) = "list" /\ ~validate_extension_query(load.calls[c].query)
        \/ Operation(c) # "list" /\ ~validate_extension_name(load.calls[c].name)
     THEN Return(c, "invalid")
     ELSE /\ call' = [call EXCEPT ![c].pc = "directory"]
          /\ hist' = [hist EXCEPT ![c].after = {d \in Callers : call[d].out = "ok"}]
          /\ UNCHANGED <<child, free, queue, cancelled, profiles, dir, host>>

ExtensionDirectory(c) ==
  /\ call[c].pc = "directory" /\ Kind(c) = "extension"
  /\ IF \/ load.calls[c].directory = "missing"
        \/ Operation(c) = "mcp"
           /\ ~build_mcp_management_command(Request(c).provider, load.calls[c].scope,
                                            load.calls[c].definition)
     THEN Return(c, "refused") ELSE Goto(c, "probing")

StartProbe(c, s) ==
  /\ call[c].pc = "probing" /\ s \in DOMAIN Probes(c) /\ child[c][s].probe = "none"
  /\ child' = [child EXCEPT ![c][s] =
                 IF load.calls[c].spawn = "missing"
                 THEN [NoChild EXCEPT !.probe = Probes(c)[s], !.result = "error"]
                 ELSE [spawned(load.calls[c].behave[s], Probes(c)[s]) EXCEPT
                         !.script = IF Probes(c)[s] = "skill" THEN "start" ELSE "none",
                         !.stdin = IF Probes(c)[s] = "skill" /\ load.calls[c].write
                                   THEN "writing" ELSE "none"]]
  /\ UNCHANGED <<call, free, queue, cancelled, profiles, dir, host, hist>>

(* A catalog probe that saw the end of output waits for the program itself,
   outside its deadline. *)
ProbeReady(p) ==
  /\ p.probe \notin {"none", "turn", "skill"} /\ p.result = "none"
  /\ p.probe = "catalog" /\ p.behave = "closes" => p.st = "exited"

ProbeEnds(c, s) ==
  /\ call[c].pc = "probing" /\ ProbeReady(child[c][s])
  /\ LET p == child[c][s]
         out == Outcome(p.probe, IF p.st = "exited" /\ p.behave = "closes"
                                 THEN "exits" ELSE p.behave)
         ended == [p EXCEPT !.result = out[1],
                            !.seen = parse_skill_probe(Request(c).provider, host.skills,
                                                       load.calls[c].query),
                            !.st = IF p.behave \in {"exits", "fails", "rejects"}
                                   THEN "exited" ELSE @]
     IN  child' = [child EXCEPT ![c][s] = IF out[2] THEN terminate(ended) ELSE DropGuard(ended)]
  /\ UNCHANGED <<call, free, queue, cancelled, profiles, dir, host, hist>>

(* The management script: it makes the directory, copies its input to a
   temporary file and renames that over SKILL.md, or removes the directory. *)
SkillFile(c) == ManagedRoot(Request(c).provider, load.calls[c].scope)

ScriptStep(c) ==
  LET p == child[c]["a"]
      exits(ok) == [p EXCEPT !.st = "exited", !.ok = ok]
  IN  /\ p.probe = "skill" /\ p.st = "alive" /\ p.result \in {"none", "timeout"}
      /\ \/ /\ p.script = "start"
            /\ child' = [child EXCEPT ![c]["a"] =
                 IF SkillFile(c) = "exit64" THEN exits(FALSE) ELSE [p EXCEPT !.script = "reading"]]
            /\ UNCHANGED host
         \/ /\ p.script = "reading" /\ p.stdin # "writing"
            /\ child' = [child EXCEPT ![c]["a"] = exits(TRUE)]
            /\ host' = [host EXCEPT !.skills[SkillFile(c)] =
                 CASE p.stdin = "sent" -> "new" [] p.stdin = "cut" -> "cut" [] OTHER -> "none"]
      /\ UNCHANGED <<call, free, queue, cancelled, profiles, dir, hist>>

(* write_input: all of the content reaches the script, which then sees its end. *)
ContentSent(c) ==
  /\ call[c].pc = "probing" /\ child[c]["a"].stdin = "writing"
  /\ child[c]["a"].script = "reading"
  /\ child' = [child EXCEPT ![c]["a"].stdin = "sent"]
  /\ UNCHANGED <<call, free, queue, cancelled, profiles, dir, host, hist>>

SkillManaged(c) ==
  /\ call[c].pc = "probing" /\ child[c]["a"].probe = "skill"
  /\ child[c]["a"].st = "exited" /\ child[c]["a"].result = "none"
  /\ child' = [child EXCEPT ![c]["a"] =
                 DropGuard([@ EXCEPT !.result = IF child[c]["a"].ok THEN "ok" ELSE "failed"])]
  /\ UNCHANGED <<call, free, queue, cancelled, profiles, dir, host, hist>>

(* The deadline drops the writer, which closes the script's input, before
   terminate hands the kill to a blocking task. *)
SkillTimesOut(c) ==
  /\ call[c].pc = "probing" /\ child[c]["a"].probe = "skill"
  /\ child[c]["a"].st = "alive" /\ child[c]["a"].result = "none"
  /\ child' = [child EXCEPT ![c]["a"] =
                 terminate([@ EXCEPT !.result = "timeout",
                                     !.stdin = IF child[c]["a"].stdin = "writing" THEN "cut" ELSE
                                               child[c]["a"].stdin])]
  /\ UNCHANGED <<call, free, queue, cancelled, profiles, dir, host, hist>>

Joined(c) ==
  /\ call[c].pc = "probing"
  /\ \A s \in DOMAIN Probes(c) : child[c][s].result # "none" /\ child[c][s].guard # "queued"

AllOk(c) == \A s \in DOMAIN Probes(c) : child[c][s].result = "ok"

UsageReported(c) ==
  /\ Joined(c) /\ Kind(c) = "usage"
  /\ Return(c, IF AllOk(c) THEN "ok" ELSE "unavailable")

(* probe_harness: a failed probe degrades its part of the report only. *)
HarnessReported(c) ==
  /\ Joined(c) /\ Kind(c) = "discover"
  /\ Return(c, IF AllOk(c) THEN "ok" ELSE "partial")

ExtensionManaged(c) ==
  /\ Joined(c) /\ Kind(c) = "extension" /\ Operation(c) # "list"
  /\ Return(c, child[c]["a"].result)

ExtensionsListed(c) ==
  /\ Joined(c) /\ Kind(c) = "extension" /\ Operation(c) = "list"
  /\ LET skillsOk == child[c]["a"].result = "ok" /\ Request(c).provider # "acp"
         mcpOk == "b" \in DOMAIN Probes(c) /\ child[c]["b"].result = "ok"
         shown == [Inventory(Request(c).provider, skillsOk, mcpOk, host.skills,
                             load.calls[c].query, load.writable)
                     EXCEPT !.listed = IF skillsOk THEN child[c]["a"].seen ELSE @]
     IN  /\ Ended(c, IF AllOk(c) THEN "ok" ELSE "partial")
         /\ hist' = [hist EXCEPT ![c].inventory = <<shown>>]
         /\ UNCHANGED <<free, queue, cancelled, profiles, dir, host>>

-----------------------------------------------------------------------------

Init ==
  /\ load \in Workload
  /\ call = [c \in Callers |->
               IF Kind(c) = "none" THEN [Idle EXCEPT !.pc = "done"]
               ELSE [Idle EXCEPT !.session = Request(c).session]]
  /\ child = [c \in Callers |-> [s \in Slots |-> NoChild]]
  /\ free = load.limit
  /\ queue = <<>>
  /\ cancelled = {}
  /\ profiles = <<load.profile>>
  /\ dir = EmptyDirectory
  /\ host = [agents |-> {"agent"}, skills |-> [r \in Roots |-> load.skills[r]]]
  /\ hist = [c \in Callers |-> NoHist]

(* What the runtime, its timers and the programs do by themselves. *)
Progress ==
  \E c \in Callers :
    \/ TurnTimesOut(c)
    \/ BeginTurn(c) \/ Admit(c) \/ AdmitRecovery(c) \/ BeginUsage(c)
    \/ CancelledInQueue(c) \/ Acquire(c)
    \/ CommandBuilt(c) \/ SandboxPrepared(c) \/ Spawn(c) \/ Wire(c) \/ AttachFailed(c)
    \/ Report(c) \/ CancelRunning(c) \/ CancelDone(c) \/ ProtocolOver(c) \/ GraceEnds(c)
    \/ Stopped(c) \/ Exited(c) \/ ToolPolicy(c) \/ Result(c)
    \/ CancelRecovery(c) \/ ManagerTimesOut(c) \/ Resolve(c) \/ Decide(c) \/ Apply(c)
    \/ ValidateDocument(c) \/ Rename(c) \/ Commit(c) \/ Updated(c) \/ Retrying(c)
    \/ Inspect(c) \/ BeginExtension(c) \/ ExtensionDirectory(c)
    \/ ScriptStep(c) \/ ContentSent(c) \/ SkillManaged(c) \/ SkillTimesOut(c)
    \/ UsageReported(c) \/ HarnessReported(c) \/ ExtensionManaged(c) \/ ExtensionsListed(c)
    \/ \E s \in Slots : StartProbe(c, s) \/ ProbeEnds(c, s) \/ KillRuns(c, s)

Application ==
  \/ AcpAgentRemoved
  \/ \E c \in Callers : Cancel(c) \/ Abandon(c) \/ \E s \in Slots : ClosedExits(c, s)

Next == (Progress \/ Application) /\ UNCHANGED load

Spec == Init /\ [][Next]_vars

-----------------------------------------------------------------------------
(* Properties. *)

Done(c) == call[c].pc = "done"
Running(c) == \E s \in Slots : child[c][s].st = "alive" /\ child[c][s].guard = "armed"

(* LimitHeld: the permits bound what runs at once.  Turns, recoveries (across
   all their attempts) and account-usage queries whose processes nobody has
   begun to stop are never more than the configured concurrency, whichever of
   them time out, are cancelled or are dropped by their caller. *)
LimitHeld ==
  Cardinality({c \in Asked : Kind(c) \in {"run", "recover", "usage"} /\ Running(c)})
    <= load.limit

(* EveryCallEnds: when nothing is left to happen by itself, every call has
   returned: no permit is lost to a dropped or timed-out turn, no waiter is
   forgotten.  The one exception the code has is a catalog program that closes
   its output and keeps running, which is waited for without a deadline. *)
EveryCallEnds ==
  (\A c \in Asked : call[c].pc # "idle") /\ ~ENABLED Progress =>
    /\ \A c \in Asked :
         \/ Done(c)
         \/ child[c]["b"].probe = "catalog" /\ child[c]["b"].behave = "closes"
    /\ free = load.limit - Cardinality(Holders)

(* NothingOutlives: a call that is over leaves no program and no tool behind,
   except a kill already handed over, and the tools PreserveOnCompletion keeps
   of a provider that was waited for. *)
NothingOutlives ==
  \A c \in Asked : Done(c) =>
    \A s \in Slots :
      \/ child[c][s].guard = "queued"
      \/ /\ child[c][s].st # "alive"
         /\ child[c][s].tools => hist[c].left

Wider(p, q) ==
  /\ p.read \subseteq q.read /\ p.write \subseteq q.write /\ p.domains \subseteq q.domains
  /\ p.deny = q.deny /\ p.network = q.network

(* RetriesAsApproved: a denied step is retried only as run_with_sandbox_recovery
   documents.  Every attempt after the first follows its own approval, runs
   under the denied attempt's profile with exactly that change (with at least
   that change under a manager that answers with its latest revision), in the
   session the provider reported, after both events were emitted, from a
   validated document; and there are no more retries than the policy allows. *)
RetriesAsApproved ==
  /\ \A d \in dir.files : Accepted(d)
  /\ \A c \in Asked : Kind(c) = "recover" =>
       LET tried == hist[c].attempts
           next(i) == apply_change(tried[i].profile, hist[c].approved[i]).profile
       IN  /\ Len(tried) <= load.calls[c].retries + 1
           /\ \A i \in 1..(Len(tried) - 1) :
                /\ Len(hist[c].approved) >= i
                /\ Wider(next(i), tried[i + 1].profile)
                /\ Manager(c) = "exact" => tried[i + 1].profile = next(i)
                /\ document(next(i)) \in dir.files
                /\ tried[i + 1].events = 2 * i
                /\ tried[i + 1].session \notin {"none"}

NativeAccess(r) == {"permission_mode", "agent", "sandbox_mode", "approval_policy"} \cap DOMAIN r.options

Restrictive(r, cmd) ==
  CASE r.permission = "Plan" ->
         CASE r.provider = "pi" -> cmd.tools # <<>> /\ cmd.tools[1] \subseteq ReadOnlyTools
           [] r.provider = "openserve" -> cmd.access = "deny" /\ cmd.sandbox = "deny"
           [] OTHER -> cmd.access = "plan"
    [] r.permission \in {"Default", "AcceptEdits"} ->
         cmd.access \notin {"bypassPermissions", "bypass", "auto", "never", "FullAccess"}
         /\ cmd.sandbox # "danger-full-access"
    [] OTHER -> TRUE

(* LaunchHonoured: a provider is started only with what the request asked for.
   Whichever adapter built the command, it carries every requested MCP server,
   no tool outside the allowlist, the system prompt and the strict-MCP flag,
   and no permission wider than the requested mode unless a native control
   chose one; the sandbox enforces the controls the request requires.  Three
   things are weaker by design: HTTP servers an ACP agent cannot connect to are
   left out with a warning, a resumed ACP session is not given the system prompt
   again, and OpenCode's server is only asked to keep to a list of tools. *)
LaunchHonoured ==
  \A c \in Asked : \A i \in DOMAIN hist[c].attempts :
    LET r == Request(c)
        cmd == hist[c].attempts[i].command
        wrapped == hist[c].attempts[i].wrapped
        asked == {[name |-> s.name, kind |-> s.kind, from |-> s.from] : s \in r.servers}
        acp == r.provider = "acp"
    IN  /\ cmd.servers \subseteq asked
        /\ \A s \in asked \ cmd.servers : acp /\ s.kind = "http" /\ cmd.warned
        /\ r.tools # <<>> =>
             \/ cmd.tools # <<>> /\ cmd.tools[1] \subseteq r.tools[1]
             \/ r.provider = "openserve" /\ r.tools # <<{}>> /\ cmd.advice = r.tools
        /\ r.tools = <<{}>> /\ r.provider = "openserve" => cmd.access = "deny" /\ cmd.sandbox = "deny"
        /\ r.system = "text" => cmd.system \/ (acp /\ cmd.session # "none")
        /\ r.strict => cmd.strict
        /\ NativeAccess(r) = {} => Restrictive(r, cmd)
        /\ r.sandbox # "none" =>
             /\ wrapped # <<>> /\ wrapped[1].inner = cmd
             /\ r.requires \subseteq NonoCapabilities(wrapped[1].mode)
        /\ Kind(c) = "run" => OptionsAdvertised(r, {"agent"})

(* CancelledStartsNothing: a turn cancelled before it was submitted never
   starts a provider, although a permit may be free at once. *)
CancelledStartsNothing ==
  \A c \in Asked : Kind(c) = "run" /\ hist[c].precancelled # {} => hist[c].attempts = <<>>

(* CompactionsClosed: a turn that returned leaves no compaction open in the
   application's view. *)
CompactionsClosed ==
  \A c \in Asked : Done(c) /\ call[c].out # "dropped" /\ Kind(c) = "run" => ~hist[c].open

(* InventoryHolds: what an extension inventory offers can be done, and what was
   installed is listed.  A scope offered for skills or MCP servers is one the
   management script or command accepts, only after the probe behind it
   succeeded; a skill whose installation returned before the listing began is
   in it, unless a search left it out. *)
InventoryHolds ==
  \A c \in Asked : hist[c].inventory # <<>> =>
    LET shown == hist[c].inventory[1]
    IN  /\ \A s \in shown.manageSkills : ManagedRoot(shown.provider, s) # "exit64"
        /\ \A s \in shown.manageServers :
             build_mcp_management_command(shown.provider, s, "plain")
        /\ \A d \in hist[c].after :
             /\ Kind(d) = "extension" /\ Operation(d) = "skill" /\ load.calls[d].write
             /\ Request(d).provider = shown.provider
             /\ ~\E e \in Asked : Kind(e) = "extension" /\ Operation(e) = "skill"
                                  /\ ~load.calls[e].write
             /\ shown.complete /\ load.calls[c].query = "ok"
             => shown.listed # "none"

(* CallsEndClean: every call returns, and what it started and announced is
   over by then: its permit, its programs and tools, its open compaction. *)
CallsEndClean == EveryCallEnds /\ NothingOutlives /\ CompactionsClosed

(* LaunchesAsAsked: whatever is started is what was asked for and approved, on
   the first attempt, on a retry after a denial, and not at all after a
   cancellation. *)
LaunchesAsAsked == LaunchHonoured /\ RetriesAsApproved /\ CancelledStartsNothing
=============================================================================
