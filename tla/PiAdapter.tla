----------------------------- MODULE PiAdapter ------------------------------
(***************************************************************************)
(* The pi adapter (src/src/providers/pi.rs): one process per turn, an RPC  *)
(* exchange that confirms the session before it sends the prompt, and      *)
(* events too large to be read whole.  Its operators are pure.             *)
(*                                                                         *)
(* A frame is a record with the fields type, id, body, item, size and of   *)
(* (whose work it reports); "" is an absent value.                         *)
(***************************************************************************)
EXTENDS Integers, FiniteSets, SequencesExt

CONSTANTS MAX_RUNNING_TOOLS    \* tools remembered while they run

VARIABLES stdin, stdout, alive, srv, load    \* the provider and its pipes: see the second half

Nothing == [events |-> <<>>, writes |-> <<>>, optional |-> <<>>, ask |-> "none", terminal |-> FALSE,
            ok |-> TRUE]

Quiet(s) == [s |-> s, out |-> Nothing]

Event(r, e) == [r EXCEPT !.out.events = Append(@, e)]

ProtocolError(s) == [s |-> s, out |-> [Nothing EXCEPT !.ok = FALSE]]

fail(r) == [r EXCEPT !.s.failed = TRUE, !.out.terminal = TRUE]

\* prepare_turn: the prompt is kept aside until the session is confirmed.
prepare_turn(resume, prompt) ==
    [resume |-> resume, prompt |-> prompt, prompt_sent |-> FALSE, streamed |-> FALSE, stop |-> "",
     open |-> FALSE, tools |-> {}, session |-> resume, failed |-> FALSE]

get_state == <<[type |-> "call", id |-> "state", body |-> ""]>>

interrupt_request == <<[type |-> "call", id |-> "abort", body |-> ""]>>

Output(f, s) == Event(Quiet(s), [kind |-> "output", item |-> f.id, from |-> f.of])

Text(f, s) == Event(Quiet(s), [kind |-> "text", item |-> f.id, n |-> 1, from |-> f.of])

-----------------------------------------------------------------------------
(* Responses to the adapter's own commands.                                *)

\* get_state: f.id is the session, f.item how many messages it holds.
StateResponse(f, s) ==
    LET told == IF s.session = f.id THEN Quiet(s)
                ELSE Event(Quiet([s EXCEPT !.session = f.id]), [kind |-> "session", id |-> f.id])
    IN  CASE f.body = "error" \/ (s.resume # "" /\ f.item # "some") -> fail(Quiet(s))
          [] f.body # "error" /\ (s.resume = "" \/ f.item = "some") /\ s.prompt = "" -> ProtocolError(s)
          [] OTHER -> [told EXCEPT !.s.prompt = "", !.s.prompt_sent = TRUE,
                          !.out.writes = <<[type |-> "call", id |-> "prompt", body |-> s.prompt]>>]

PromptResponse(f, s) ==
    CASE f.body = "error" -> fail(Quiet(s))
      [] f.body = "handled" -> [Quiet(s) EXCEPT !.out.terminal = TRUE]
      [] OTHER -> Quiet(s)

-----------------------------------------------------------------------------
(* Events.                                                                 *)

\* assistant_message: a message that was streamed is not shown again.
assistant_message(f, s) ==
    LET t == [s EXCEPT !.stop = f.body] IN IF s.streamed THEN Quiet(t) ELSE Text(f, t)

ToolStart(f, s) ==
    Output(f, IF Cardinality(s.tools) < MAX_RUNNING_TOOLS THEN [s EXCEPT !.tools = @ \cup {f.id}] ELSE s)

Ended(f, id, how, s) ==
    Event(Quiet([s EXCEPT !.tools = @ \ {id}]), [kind |-> "tool_ended", item |-> id, how |-> how, from |-> f.of])

ToolEnd(f, s) == Ended(f, f.id, IF f.body = "error" THEN "failed" ELSE "succeeded", s)

\* extension_ui_request: what needs a person is asked, a notice is shown.
extension_ui_request(f, s) ==
    CASE f.body \in {"confirm", "select", "input"} ->
            [Event(Quiet(s), [kind |-> "asked", id |-> f.id, from |-> f.of]) EXCEPT !.out.ask = f.id]
      [] f.body = "notify" -> Event(Quiet(s), [kind |-> "warning", from |-> f.of])
      [] OTHER -> Quiet(s)

agent_settled(s) ==
    CASE ~s.prompt_sent -> Quiet(s)
      [] s.prompt_sent /\ s.stop \in {"error", "aborted"} -> fail(Quiet(s))
      [] OTHER -> [Quiet(s) EXCEPT !.out.terminal = TRUE]

parse_line(f, s) ==
    CASE f.type = "state" -> StateResponse(f, s)
      [] f.type = "prompted" -> PromptResponse(f, s)
      [] f.type = "message_start" -> Quiet([s EXCEPT !.streamed = FALSE])
      [] f.type = "message_update" -> Text(f, [s EXCEPT !.streamed = TRUE])
      [] f.type = "message_end" -> IF f.item = "assistant" THEN assistant_message(f, s) ELSE Quiet(s)
      [] f.type = "tool_execution_start" -> ToolStart(f, s)
      [] f.type = "tool_execution_end" -> ToolEnd(f, s)
      [] f.type = "compaction_start" ->
            Event(Quiet([s EXCEPT !.open = TRUE]), [kind |-> "compaction_started"])
      [] f.type = "compaction_end" ->
            Event(Quiet([s EXCEPT !.open = FALSE]),
                  [kind |-> IF f.body = "done" THEN "compaction_completed" ELSE "compaction_failed"])
      [] f.type \in {"auto_retry_start", "extension_error"} ->
            Event(Quiet(s), [kind |-> "warning", from |-> f.of])
      [] f.type = "extension_ui_request" -> extension_ui_request(f, s)
      [] f.type = "agent_settled" -> agent_settled(s)
      [] OTHER -> Quiet(s)

-----------------------------------------------------------------------------
(* Events larger than the event limit: only their first and last bytes.    *)

oversized_frame_kind(f) ==
    CASE f.type \in {"agent_end", "turn_end", "message_start", "tool_execution_update"} -> "redundant"
      [] f.type = "message_end" /\ f.item # "assistant" -> "redundant"
      [] f.type = "tool_execution_end" -> "tool_end"
      [] OTHER -> "none"

\* Whether the tail still says how the tool ended.
oversized_tool_failed(f) == IF f.body = "done" THEN "succeeded" ELSE "failed"

oversized_tool_end(f, s) ==
    LET id == IF f.id # "" THEN f.id
              ELSE IF Cardinality(s.tools) = 1 THEN CHOOSE t \in s.tools : TRUE ELSE ""
    IN  Ended(f, id, oversized_tool_failed(f), s)

parse_frame(f, s) ==
    CASE f.size = "normal" -> parse_line(f, s)
      [] f.size # "normal" /\ oversized_frame_kind(f) = "redundant" -> Quiet(s)
      [] f.size # "normal" /\ oversized_frame_kind(f) = "tool_end" -> oversized_tool_end(f, s)
      [] OTHER -> ProtocolError(s)

approval_response(ask, decision) ==
    IF ask = "none" THEN <<>> ELSE <<[type |-> "reply", id |-> ask, decision |-> decision]>>

-----------------------------------------------------------------------------
(***************************************************************************)
(* The environment of the one-shot adapters: a `pi` process in RPC mode    *)
(* (as src/src/providers/pi.rs expects it), and a command line tool that   *)
(* only prints its events (`codex exec`, `opencode run`).                  *)
(***************************************************************************)

Blank == [type |-> "", id |-> "", body |-> "", item |-> "", size |-> "normal", session |-> "", of |-> 1]

Frame(type, id, body) == [Blank EXCEPT !.type = type, !.id = id, !.body = body]

PiInit == [went |-> "", holds |-> load.holds, asks |-> {}, answers |-> <<>>, made |-> {}, bad |-> {},
           kept |-> TRUE, aborted |-> FALSE, code |-> 0]

Say(frames) == stdout' = stdout \o frames

\* get_state, prompt, abort and answers.
Reads(resume) ==
    /\ stdin # <<>> /\ alive
    /\ stdin' = Tail(stdin)
    /\ LET f == Head(stdin)
       IN  \/ /\ f.id = "state"
              /\ \/ Say(<<[Frame("state", IF resume # "" THEN resume ELSE "s1", "") EXCEPT
                             !.item = IF srv.holds THEN "some" ELSE "none"]>>)
                 \/ load.errors /\ Say(<<Frame("state", "", "error")>>)
              /\ UNCHANGED srv
           \/ /\ f.id = "prompt"
              /\ \/ Say(<<Frame("prompted", "", "")>>) /\ srv' = [srv EXCEPT !.went = "started",
                                                              !.kept = (resume # "" => srv.holds)]
                 \/ load.errors /\ Say(<<Frame("prompted", "", "error")>>) /\ UNCHANGED srv
                 \/ load.errors /\ Say(<<Frame("prompted", "", "handled")>>) /\ UNCHANGED srv
           \/ f.id = "abort" /\ srv' = [srv EXCEPT !.aborted = TRUE] /\ UNCHANGED stdout
           \/ /\ f.type = "reply"
              /\ srv' = [srv EXCEPT !.asks = @ \ {f.id}, !.answers = Append(@, f.id)]
              /\ UNCHANGED stdout
    /\ UNCHANGED alive

Tool(id, body, size) == [Frame("tool_execution_end", id, body) EXCEPT !.size = size]

\* A tool's result may be too large to be read whole; its end may be lost with it.
Works ==
    /\ alive
    /\ \/ /\ srv.went = "started"
          /\ \E streamed \in BOOLEAN :
               Say(<<Frame("message_start", "", "")>>
                   \o (IF streamed THEN <<Frame("message_update", "x1", "")>> ELSE <<>>)
                   \o <<[Frame("message_end", "x1", "") EXCEPT !.item = "assistant"],
                        [Frame("message_end", "u1", "") EXCEPT !.size = "big"]>>)
          /\ srv' = [srv EXCEPT !.went = "said", !.made = {<<1, "x1">>}]
       \/ /\ srv.went = "said" /\ load.tools
          /\ Say(<<Frame("tool_execution_start", "k1", "")>>)
          /\ srv' = [srv EXCEPT !.went = "tool"]
       \/ /\ srv.went = "tool"
          /\ \E how \in {"done", "error"}, size \in {"normal", "big", "cut"} :
               /\ Say(<<Tool(IF size = "cut" THEN "" ELSE "k1", IF size = "cut" THEN "" ELSE how,
                             IF size = "cut" THEN "big" ELSE size)>>)
               /\ srv' = [srv EXCEPT !.went = "asks", !.bad = IF how = "error" THEN {"k1"} ELSE {}]
       \/ /\ srv.went = "asks"
          /\ \E kind \in {"confirm", "notify"} :
               /\ Say(<<Frame("extension_ui_request", "q1", kind), Frame("compaction_start", "", "")>>)
               /\ srv' = [srv EXCEPT !.went = "asked", !.asks = IF kind = "confirm" THEN {"q1"} ELSE {}]
       \/ /\ srv.went = "asked" /\ srv.asks = {}
          /\ \/ \E how \in {"done", "error"} : Say(<<Frame("compaction_end", "", how)>>)
             \/ UNCHANGED stdout
          /\ srv' = [srv EXCEPT !.went = "worked"]
    /\ UNCHANGED <<stdin, alive>>

Settles ==
    /\ alive /\ srv.went \in {"said", "worked"}
    /\ Say(<<Frame("agent_settled", "", "")>>)
    /\ srv' = [srv EXCEPT !.went = "settled"]
    /\ UNCHANGED <<stdin, alive>>

\* An event nobody can shorten is larger than the limit.
TooLarge ==
    /\ alive /\ load.errors /\ srv.went = "said"
    /\ Say(<<[Frame("session_info", "", "") EXCEPT !.size = "big"]>>)
    /\ srv' = [srv EXCEPT !.went = "worked"]
    /\ UNCHANGED <<stdin, alive>>

\* codex exec and opencode run: events on standard output, then the process exits.
Prints(start, text, tool, over, failed) ==
    /\ alive
    /\ \/ /\ srv.went = ""
          /\ Say(<<[Frame(start, "", "") EXCEPT !.session = "s1"],
                   [Frame(tool, "k1", "") EXCEPT !.item = "tool"],
                   [Frame(text, "x1", "") EXCEPT !.item = "message"]>>)
          /\ srv' = [srv EXCEPT !.went = "said", !.made = {<<1, "x1">>}]
       \/ /\ srv.went = "said"
          /\ Say(<<Frame(over, "", "stop")>>) /\ srv' = [srv EXCEPT !.went = "settled"]
       \/ /\ srv.went = "said" /\ load.errors
          /\ Say(<<Frame(failed, "", "")>>) /\ srv' = [srv EXCEPT !.went = "settled", !.code = 1]
    /\ UNCHANGED <<stdin, alive>>
=============================================================================
