----------------------------- MODULE AcpAdapter -----------------------------
(***************************************************************************)
(* The Agent Client Protocol adapter (src/src/providers/acp.rs): the       *)
(* handshake that opens a session, the settings applied one by one before  *)
(* the prompt, permission requests, and the session state a kept process   *)
(* hands from one turn to the next.  Its operators are pure.               *)
(*                                                                         *)
(* A frame of the agent is a record with the fields type ("answer",        *)
(* "request", "update" or "noise"), id, error, body, item, session, tool,  *)
(* settings (the part of the agent's settings it reports), allows (a       *)
(* permission request offers an option that allows) and of (whose work it  *)
(* reports); "" is an absent value.                                        *)
(***************************************************************************)
EXTENDS Integers, FiniteSets, SequencesExt

CONSTANTS
    MAX_OPEN_PERMISSIONS,   \* permission requests remembered for an interrupt
    MAX_TRACKED_TOOLS       \* tool calls remembered in a turn

VARIABLES stdin, stdout, alive, turn, srv, load    \* the provider and its pipes: see the second half

Nothing == [events |-> <<>>, writes |-> <<>>, optional |-> <<>>, ask |-> "none", terminal |-> FALSE,
            ok |-> TRUE]

Quiet(s) == [s |-> s, out |-> Nothing]

Event(r, e) == [r EXCEPT !.out.events = Append(@, e)]

Write(r, w) == [r EXCEPT !.out.writes = Append(@, w)]

Call(id, body, session) == [type |-> "call", id |-> id, body |-> body, session |-> session]

Reply(id, decision) == [type |-> "reply", id |-> id, decision |-> decision]

fail(r) == [r EXCEPT !.s.failed = TRUE, !.out.terminal = TRUE]

-----------------------------------------------------------------------------
(* State.  Settings are a function from the settings an agent advertises   *)
(* to their current values.                                                *)

NoSettings == [k \in {} |-> ""]

\* prepare_turn: `asks` are the requested mode, model and options.
prepare_turn(place, resume, asks, policy, prompt) ==
    [place |-> place, resume |-> resume, session |-> "", replaying |-> FALSE, instructions |-> TRUE,
     http |-> TRUE, asks |-> asks, settings |-> NoSettings, start |-> <<>>, broken |-> FALSE,
     inflight |-> "", policy |-> policy, pending |-> <<>>, submitted |-> FALSE, prompt |-> prompt,
     tools |-> <<>>, open |-> <<>>, noise |-> FALSE, failed |-> FALSE]

\* The settings are requested in the order options, mode, model.
Order == <<"option", "mode", "model">>

\* configure_session: refused, or the requests that make the settings what was asked for.
Refuses(asks, offered) ==
    \E k \in DOMAIN asks : k \notin DOMAIN offered \/ asks[k] = "unoffered"

configure_session(offered, s) ==
    [s EXCEPT !.pending = SelectSeq(Order, LAMBDA k : k \in DOMAIN s.asks /\ s.asks[k] # offered[k])]

\* The next setting, or the prompt once none remains.
advance(r) ==
    LET s == r.s
    IN  IF s.pending # <<>>
        THEN Write([r EXCEPT !.s.pending = Tail(@), !.s.inflight = Head(s.pending)],
                   [Call("set", Head(s.pending), s.session) EXCEPT !.type = "set"]
                     @@ [value |-> s.asks[Head(s.pending)]])
        ELSE IF s.submitted THEN r
        ELSE Write([r EXCEPT !.s.submitted = TRUE, !.s.instructions = (@ /\ s.resume # "")],
                   Call("prompt", s.prompt, s.session))

-----------------------------------------------------------------------------
(* A kept process: the next turn inherits the session and its settings.    *)

inherit_retained_handoff(prior, s) ==
    LET t == [s EXCEPT !.session = s.resume, !.settings = prior.settings]
    IN  IF s.place # prior.place \/ s.resume # prior.session \/ Refuses(s.asks, prior.settings)
        THEN [s EXCEPT !.broken = TRUE]
        ELSE LET r == advance(Quiet(configure_session(prior.settings, t)))
             IN  [r.s EXCEPT !.start = r.out.writes]

retained_turn_start(s) == IF s.broken THEN <<>> ELSE s.start

\* An update replaces the native options; the legacy mode and model stay.
apply_setting_update(f, s) ==
    IF f.body \in {"config_option_update", "current_mode_update"}
    THEN [s EXCEPT !.settings = f.settings @@ @]
    ELSE s

classify_idle_frame(f) == IF f.type \in {"request", "update"} THEN "background" ELSE "unexpected"

observe_idle_frame(f, s) ==
    IF f.type = "update" /\ (s.session = "" \/ f.session = "" \/ f.session = s.session)
    THEN apply_setting_update(f, s)
    ELSE s

idle_frame_writes(f) ==
    CASE f.type # "request" -> <<>>
      [] f.type = "request" /\ f.body = "permission" -> <<Reply(f.id, "cancelled")>>
      [] OTHER -> <<Reply(f.id, "unsupported")>>

initialize == <<Call("initialize", "", "")>>

\* interrupt_request: session/cancel, and every open permission request is refused.
interrupt_request(s) ==
    IF s.session = "" THEN <<>>
    ELSE <<Call("cancel", "", s.session)>> \o [i \in DOMAIN s.open |-> Reply(s.open[i].id, "cancelled")]

\* Mutant: an answered request stays open.
StaysOpen(ask, s) == s

interaction_answered(ask, s) == [s EXCEPT !.open = SelectSeq(@, LAMBDA p : p.id # ask)]

\* option_for: the offered option of the decision's kind, else the request is cancelled.
approval_response(ask, decision) == IF ask = "none" THEN <<>> ELSE <<Reply(ask, decision)>>

-----------------------------------------------------------------------------
(* Frames of a turn.                                                       *)

\* Without an option to select the application is asked after all.
Automatic(f, s) ==
    /\ s.policy = "allow" \/ (s.policy = "accept_edits" /\ f.item = "edit")
    /\ f.allows

agent_request(f, s) ==
    CASE f.body # "permission" -> Write(Quiet(s), Reply(f.id, "unsupported"))
      [] f.body = "permission" /\ Automatic(f, s) -> Write(Quiet(s), Reply(f.id, "allow"))
      [] OTHER -> LET o == IF Len(s.open) < MAX_OPEN_PERMISSIONS
                           THEN Append(s.open, [id |-> f.id, tool |-> f.tool]) ELSE s.open
                  IN  Event([Quiet([s EXCEPT !.open = o]) EXCEPT !.out.ask = f.id],
                            [kind |-> "asked", id |-> f.id, from |-> f.of])

\* initialize: a cold process forgets what was prepared for a kept one.  HTTP MCP
\* servers the agent cannot reach are left out with a warning.
Initialized(f, s) ==
    LET cold == [s EXCEPT !.submitted = FALSE, !.pending = <<>>, !.session = "", !.broken = FALSE]
        ok   == f.error = "" /\ f.body # "version"
        r    == IF cold.http /\ f.body = "nohttp"
                THEN Event(Quiet([cold EXCEPT !.http = FALSE]), [kind |-> "warning", from |-> "adapter"])
                ELSE Quiet(cold)
    IN  CASE ~ok -> fail(Quiet(cold))
          [] ok /\ s.resume = "" -> Write(r, Call("session", "new", ""))
          [] ok /\ s.resume # "" /\ f.item = "resume" -> Write(r, Call("session", "resume", s.resume))
          [] ok /\ s.resume # "" /\ f.item = "load" ->
                Write([r EXCEPT !.s.replaying = TRUE], Call("session", "load", s.resume))
          [] OTHER -> Write(Event([r EXCEPT !.s.resume = ""], [kind |-> "warning", from |-> "adapter"]),
                            Call("session", "new", ""))

SessionOpened(f, s) ==
    LET id   == IF s.resume # "" THEN s.resume ELSE f.session
        open == [s EXCEPT !.replaying = FALSE, !.session = id, !.settings = f.settings]
        told == Event(Quiet(open), [kind |-> "session", id |-> id])
    IN  CASE f.error # "" \/ id = "" -> fail(Quiet([s EXCEPT !.replaying = FALSE]))
          [] f.error = "" /\ id # "" /\ Refuses(s.asks, f.settings) -> fail(told)
          [] OTHER -> advance([told EXCEPT !.s = configure_session(f.settings, open)])

\* A setting was accepted: the agent's snapshot replaces what is known, or the value is assumed.
Set(f, s) ==
    CASE f.error # "" -> fail(Quiet(s))
      [] f.error = "" /\ f.body = "snapshot" -> advance(Quiet([s EXCEPT !.settings = f.settings]))
      [] OTHER -> advance(Quiet([s EXCEPT !.settings = (s.inflight :> s.asks[s.inflight]) @@ @,
                                         !.inflight = ""]))

Prompted(f, s) ==
    LET over == [Quiet([s EXCEPT !.prompt = "", !.tools = <<>>, !.open = <<>>, !.instructions = FALSE,
                                 !.start = <<>>]) EXCEPT !.out.terminal = TRUE]
    IN  CASE f.error # "" \/ f.body \in {"refusal", "cancelled"} -> fail(over)
          [] f.error = "" /\ f.body \in {"end_turn", ""} -> over
          [] OTHER -> Event(over, [kind |-> "warning", from |-> "adapter"])

response(f, s) ==
    CASE f.id = "initialize" -> Initialized(f, s)
      [] f.id = "session" -> SessionOpened(f, s)
      [] f.id = "set" -> Set(f, s)
      [] f.id = "prompt" -> Prompted(f, s)
      [] OTHER -> Quiet(s)

\* tool_call: a tool that moved on no longer waits for permission.
tool_call(f, s) ==
    LET known == \E i \in DOMAIN s.tools : s.tools[i] = f.tool
        tools == CASE known -> s.tools
                   [] ~known /\ Len(s.tools) < MAX_TRACKED_TOOLS -> Append(s.tools, f.tool)
                   [] OTHER -> Append(Tail(s.tools), f.tool)
        open  == IF f.id = "pending" THEN s.open ELSE SelectSeq(s.open, LAMBDA p : p.tool # f.tool)
    IN  Event(Quiet([s EXCEPT !.tools = tools, !.open = open]),
              [kind |-> "output", item |-> f.tool, from |-> f.of])

session_update(f, s) ==
    CASE s.replaying \/ (s.session # "" /\ f.session # "" /\ f.session # s.session) -> Quiet(s)
      [] ~s.replaying /\ f.body = "chunk" ->
            Event(Quiet(s), [kind |-> "text", item |-> f.id, n |-> 1, from |-> f.of])
      [] ~s.replaying /\ f.body \in {"plan", "usage", "notice"} ->
            Event(Quiet(s), [kind |-> "output", item |-> f.id, from |-> f.of])
      [] ~s.replaying /\ f.body = "tool" -> tool_call(f, s)
      [] OTHER -> Quiet(apply_setting_update(f, s))

parse_line(f, s) ==
    CASE f.type = "noise" -> IF s.noise THEN Quiet(s)
                             ELSE Event(Quiet([s EXCEPT !.noise = TRUE]), [kind |-> "warning", from |-> "adapter"])
      [] f.type = "request" -> agent_request(f, s)
      [] f.type = "update" -> session_update(f, s)
      [] OTHER -> response(f, s)

-----------------------------------------------------------------------------
(***************************************************************************)
(* The environment of the ACP adapter: an agent that speaks the Agent      *)
(* Client Protocol on its standard streams, as src/src/providers/acp.rs    *)
(* expects it.                                                             *)
(***************************************************************************)

Blank == [type |-> "update", id |-> "", error |-> "", body |-> "", item |-> "", session |-> "s1",
          tool |-> "", settings |-> [k \in {} |-> ""], allows |-> TRUE, of |-> 0]

Answer(id, body) == [Blank EXCEPT !.type = "answer", !.id = id, !.body = body]

Update(body, id) == [Blank EXCEPT !.body = body, !.id = id]

Ask(id, body) == [Blank EXCEPT !.type = "request", !.id = id, !.body = body, !.tool = "tool"]

Texts == <<"x1", "x2", "x3">>

\* settings: the agent's own; self: the turn in which it last changed one by itself.
AcpInit ==
    [settings |-> [k \in load.offers |-> "a"], self |-> [k \in load.offers |-> 0], prompt |-> 0,
     went |-> "", asks |-> {}, answers |-> <<>>, made |-> {}, kept |-> TRUE, asked |-> 0, changes |-> 0,
     late |-> 0]

Say(frames) == stdout' = stdout \o frames

Opens(f) ==
    \/ /\ f.id = "initialize"
       /\ \E body \in {""} \cup (IF load.errors THEN {"nohttp", "version"} ELSE {}) :
             Say((IF load.noise THEN <<[Blank EXCEPT !.type = "noise"]>> ELSE <<>>)
                 \o <<[Answer("initialize", body) EXCEPT !.item = load.resumes]>>)
       /\ UNCHANGED srv
    \/ /\ f.id = "session" /\ f.body = "load"
       /\ Say(<<Update("chunk", "replayed"), [Answer("session", "") EXCEPT !.settings = srv.settings]>>)
       /\ UNCHANGED srv
    \/ /\ f.id = "session" /\ f.body # "load"
       /\ Say(<<[Answer("session", "") EXCEPT !.settings = srv.settings]>>)
       /\ UNCHANGED srv
    \/ /\ load.errors /\ f.id \in {"initialize", "session"}
       /\ Say(<<[Answer(f.id, "") EXCEPT !.error = "refused"]>>)
       /\ UNCHANGED srv

\* A setting is applied; the answer may repeat the native options.
Sets(f) ==
    \/ /\ srv' = [srv EXCEPT !.settings[f.body] = f.value, !.self[f.body] = 0]
       /\ Say(<<IF load.snapshots = {} THEN Answer("set", "")
                ELSE [Answer("set", "snapshot") EXCEPT
                        !.settings = [k \in load.snapshots |-> srv'.settings[k]]]>>)
    \/ load.errors /\ Say(<<[Answer("set", "") EXCEPT !.error = "refused"]>>) /\ UNCHANGED srv

\* The prompt: `kept` remembers whether the asked settings hold (see Providers).
Prompt(f, asks, excused) ==
    /\ srv' = [srv EXCEPT !.prompt = turn, !.went = "started",
                          !.kept = @ /\ f.session = "s1"
                                     /\ \A k \in DOMAIN asks : \/ srv.settings[k] = asks[k]
                                                               \/ srv.self[k] = turn \/ k \in excused]
    /\ UNCHANGED stdout

Reads(asks, excused) ==
    /\ stdin # <<>> /\ alive
    /\ stdin' = Tail(stdin)
    /\ LET f == Head(stdin)
       IN  \/ f.type = "call" /\ f.id \in {"initialize", "session"} /\ Opens(f)
           \/ f.type = "set" /\ Sets(f)
           \/ f.type = "call" /\ f.id = "prompt" /\ Prompt(f, asks, excused)
           \/ /\ f.type = "call" /\ f.id = "cancel"
              /\ srv' = [srv EXCEPT !.went = IF srv.prompt = 0 THEN @ ELSE "cancelled"]
              /\ UNCHANGED stdout
           \/ /\ f.type = "reply"
              /\ srv' = [srv EXCEPT !.asks = @ \ {f.id}, !.answers = Append(@, f.id)]
              /\ UNCHANGED stdout
    /\ UNCHANGED alive

Mine(f) == [f EXCEPT !.of = srv.prompt]

Works ==
    /\ alive /\ srv.prompt # 0
    /\ \/ /\ srv.went = "started"
          /\ Say(<<Mine(Update("chunk", Texts[srv.prompt]))>>)
          /\ srv' = [srv EXCEPT !.went = "said", !.made = @ \cup {<<srv.prompt, Texts[srv.prompt]>>}]
       \/ /\ srv.went = "said" /\ srv.asked < load.asked
          /\ \E item \in {"edit", "run"}, allows \in BOOLEAN :
               Say(<<[Mine(Update("tool", "pending")) EXCEPT !.tool = "tool"],
                     [Mine(Ask("q1", "permission")) EXCEPT !.item = item, !.allows = allows]>>)
          /\ srv' = [srv EXCEPT !.asked = @ + 1, !.asks = {"q1"}, !.went = "waits"]
       \/ /\ srv.went = "waits" /\ srv.asks = {}
          /\ Say(<<[Mine(Update("tool", "running")) EXCEPT !.tool = "tool"],
                   Mine(Update("plan", "p"))>>)
          /\ srv' = [srv EXCEPT !.went = "worked"]
       \/ /\ srv.went = "said" /\ load.asked > 1 /\ srv.asked = 0
          /\ Say(<<Ask("fs", "read_file"), [Mine(Update("tool", "pending")) EXCEPT !.tool = "other"]>>)
          /\ srv' = [srv EXCEPT !.asked = @ + 2, !.asks = @ \cup {"fs"}, !.went = "waits"]
    /\ UNCHANGED <<stdin, alive>>

Ends ==
    /\ alive /\ srv.prompt # 0
    /\ \/ /\ srv.went \in {"said", "worked"} /\ srv.asks = {}
          /\ \E stop \in {"end_turn"} \cup (IF load.errors THEN {"refusal", "max_tokens"} ELSE {}) :
                Say(<<Answer("prompt", stop)>>)
       \/ srv.went = "cancelled" /\ srv.asks = {} /\ Say(<<Answer("prompt", "cancelled")>>)
    /\ srv' = [srv EXCEPT !.prompt = 0, !.went = ""]
    /\ UNCHANGED <<stdin, alive>>

\* The agent changes one of its settings by itself, in a turn or between turns.
Changes(busy) ==
    /\ alive /\ srv.changes < load.changes
    /\ \E k \in DOMAIN srv.settings :
          /\ srv' = [srv EXCEPT !.changes = @ + 1, !.settings[k] = "b",
                                !.self[k] = IF busy THEN turn ELSE 0]
          /\ Say(<<[Update(IF k = "mode" THEN "current_mode_update" ELSE "config_option_update", "")
                      EXCEPT !.settings = k :> "b"]>>)
    /\ UNCHANGED <<stdin, alive>>

\* Between turns: something trails in, or background work asks for permission.
Trails ==
    /\ alive /\ srv.prompt = 0 /\ srv.made # {} /\ srv.late < load.late
    /\ \/ Say(<<[Update("notice", "late") EXCEPT !.of = -1]>>) /\ srv' = [srv EXCEPT !.late = @ + 1]
       \/ /\ "idle" \notin srv.asks \cup Range(srv.answers)
          /\ Say(<<[Ask("idle", "permission") EXCEPT !.of = -1]>>)
          /\ srv' = [srv EXCEPT !.late = @ + 1, !.asks = @ \cup {"idle"}]
       \/ /\ "other" \notin srv.asks \cup Range(srv.answers)
          /\ Say(<<Ask("other", "terminal")>>)
          /\ srv' = [srv EXCEPT !.late = @ + 1, !.asks = @ \cup {"other"}]
    /\ UNCHANGED <<stdin, alive>>
=============================================================================
