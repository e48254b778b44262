-------------------------- MODULE OpenCodeAdapter ---------------------------
(***************************************************************************)
(* The OpenCode adapter: `opencode serve` driven over a loopback HTTP      *)
(* bridge (src/src/providers/opencode_serve.rs), and the line protocol of  *)
(* `opencode run` (src/src/providers/opencode.rs).  Every operator is      *)
(* pure.                                                                   *)
(*                                                                         *)
(* A bridge frame is a record with the fields type ("ready", "subscribed", *)
(* "response", "event", "error"), id, ok (a status below 400), kind,       *)
(* session, message, body, n (how much text the part holds) and of (whose  *)
(* work it reports); "" is an absent value.                                *)
(***************************************************************************)
EXTENDS Integers, FiniteSets, SequencesExt

VARIABLES stdin, stdout, alive, turn, srv, load    \* the provider and its pipes: see the second half

Nothing == [events |-> <<>>, writes |-> <<>>, optional |-> <<>>, ask |-> "none", terminal |-> FALSE,
            ok |-> TRUE]

Quiet(s) == [s |-> s, out |-> Nothing]

Event(r, e) == [r EXCEPT !.out.events = Append(@, e)]

Write(r, w) == [r EXCEPT !.out.writes = Append(@, w)]

Call(id, body, session) == [type |-> "call", id |-> id, body |-> body, session |-> session]

fail(r) == [r EXCEPT !.s.failed = TRUE, !.out.terminal = TRUE]

\* prepare_turn: a plan turn or an empty tool allowlist refuses every request.
prepare_turn(resume, manual, model, refuses) ==
    [resume |-> resume, manual |-> manual, model |-> model, refuses |-> refuses, session |-> "",
     known |-> resume, compacted |-> FALSE, error |-> FALSE, activity |-> FALSE, text |-> FALSE,
     retained |-> FALSE, open |-> FALSE, roles |-> [m \in {} |-> ""], emitted |-> [p \in {} |-> 0],
     failed |-> FALSE]

mark_retained(s) == [s EXCEPT !.retained = TRUE]

interrupt(s) == IF s.session = "" THEN <<>> ELSE <<Call("abort", "", s.session)>>

-----------------------------------------------------------------------------
(* The handshake: session, event stream, prompt.                           *)

ready(s) ==
    Write(Quiet(s), IF s.resume # "" THEN Call("session", "get", s.resume) ELSE Call("session", "new", ""))

prompt(s) ==
    CASE s.session = "" -> Quiet(s)
      [] s.session # "" /\ s.manual /\ ~s.model -> [s |-> s, out |-> [Nothing EXCEPT !.ok = FALSE]]
      [] OTHER -> Write(Quiet(s), Call("prompt", IF s.manual THEN "summarize" ELSE "message", s.session))

\* A session with a parent never reports anything, so it is refused here.
response(f, s) ==
    LET opened == Quiet([s EXCEPT !.session = f.session, !.known = f.session])
        told   == IF s.known = f.session THEN opened
                  ELSE Event(opened, [kind |-> "session", id |-> f.session])
    IN  CASE f.id = "session" /\ (~f.ok \/ f.session = "" \/ f.body = "parented") -> fail(Quiet(s))
          [] f.id = "session" /\ f.ok /\ f.session # "" /\ f.body # "parented" ->
                Write(told, Call("subscribe", "", f.session))
          [] f.id = "prompt" /\ ~f.ok -> fail(Quiet(s))
          [] OTHER -> Quiet(s)

-----------------------------------------------------------------------------
(* Events of the stream.                                                   *)

Emitted(part, s) == IF part \in DOMAIN s.emitted THEN s.emitted[part] ELSE 0

Shown(f, from, to, s) ==
    LET t == [s EXCEPT !.text = TRUE, !.emitted = (f.id :> to) @@ @]
    IN  [Quiet(t) EXCEPT !.out.events = [i \in 1 .. (to - from) |->
            [kind |-> "text", item |-> f.id, n |-> from + i, from |-> f.of]]]

\* Mutant: a part's whole text is shown each time it is reported.
ObserveAll(f, s) == Shown(f, 0, f.n, s)

\* Only what was not shown yet of a part's whole text.
observe_full(f, s) ==
    IF f.n <= Emitted(f.id, s) THEN Quiet(s) ELSE Shown(f, Emitted(f.id, s), f.n, s)

observe_delta(f, s) == Shown(f, Emitted(f.id, s), Emitted(f.id, s) + 1, s)

compaction_summary(f, s) ==
    IF f.body # "error" THEN Quiet(s)
    ELSE Event(Quiet([s EXCEPT !.open = FALSE]), [kind |-> "compaction_failed"])

MessageUpdated(f, s) ==
    LET t == [s EXCEPT !.roles = (f.message :> f.id) @@ @]
    IN  IF f.id = "summary" THEN compaction_summary(f, t) ELSE Quiet(t)

Assistant(f, s) == f.message \in DOMAIN s.roles /\ s.roles[f.message] = "assistant"

PartUpdated(f, s) ==
    CASE f.body = "compaction" ->
            IF s.open THEN Quiet(s)
            ELSE Event(Quiet([s EXCEPT !.open = TRUE]), [kind |-> "compaction_started"])
      [] f.body = "text" /\ Assistant(f, s) -> observe_full(f, s)
      [] f.body = "tool" /\ Assistant(f, s) ->
            Event(Quiet([s EXCEPT !.activity = TRUE]), [kind |-> "output", item |-> f.id, from |-> f.of])
      [] OTHER -> Quiet(s)

Reply(id, decision) == [type |-> "reply", id |-> id, decision |-> decision]

permission(f, s) ==
    LET told == Event(Quiet(s), [kind |-> "asked", id |-> f.id, from |-> f.of])
    IN  IF s.refuses THEN Write(told, Reply(f.id, "deny")) ELSE [told EXCEPT !.out.ask = f.id]

session_idle(s) ==
    LET over   == [Quiet([s EXCEPT !.open = FALSE]) EXCEPT !.out.terminal = TRUE]
        closed == IF s.open THEN Event(over, [kind |-> "compaction_failed"]) ELSE over
        failed == \/ s.error
                  \/ s.manual /\ ~s.compacted
                  \/ ~s.manual /\ ~s.text /\ ~s.activity
    IN  IF failed THEN fail(closed) ELSE closed

session_compacted(s) ==
    LET r == Event(Quiet([s EXCEPT !.open = FALSE]), [kind |-> "compaction_completed"])
    IN  IF s.manual THEN [r EXCEPT !.s.compacted = TRUE, !.out.terminal = TRUE] ELSE r

\* A kept server carries other sessions: every event has to name this turn's.
Foreign(f, s) ==
    \/ f.kind = "session.updated" /\ (f.session = "" \/ f.session # s.session)
    \/ s.retained /\ (f.session = "" \/ f.session # s.session)
    \/ ~s.retained /\ f.session # "" /\ s.session # "" /\ f.session # s.session

\* An error without a message is not kept: only its session's end tells.
event(f, s) ==
    CASE Foreign(f, s) -> Quiet(s)
      [] ~Foreign(f, s) /\ f.kind = "message.updated" -> MessageUpdated(f, s)
      [] ~Foreign(f, s) /\ f.kind = "message.part.updated" -> PartUpdated(f, s)
      [] ~Foreign(f, s) /\ f.kind = "message.part.delta" ->
            IF Assistant(f, s) THEN observe_delta(f, s) ELSE Quiet(s)
      [] ~Foreign(f, s) /\ f.kind = "permission.asked" -> permission(f, s)
      [] ~Foreign(f, s) /\ f.kind = "session.updated" ->
            IF f.body = "placeholder" THEN Quiet(s) ELSE Event(Quiet(s), [kind |-> "title", by |-> "server"])
      [] ~Foreign(f, s) /\ f.kind = "session.compacted" -> session_compacted(s)
      [] ~Foreign(f, s) /\ f.kind = "session.error" -> Quiet([s EXCEPT !.error = @ \/ f.body = "message"])
      [] ~Foreign(f, s) /\ f.kind = "session.idle" -> session_idle(s)
      [] OTHER -> Quiet(s)

parse_line(f, s) ==
    CASE f.type = "ready" -> ready(s)
      [] f.type = "subscribed" -> prompt(s)
      [] f.type = "response" -> response(f, s)
      [] f.type = "event" -> event(f, s)
      [] f.type = "error" -> fail(Quiet(s))
      [] OTHER -> Quiet(s)

approval_response(ask, decision) == IF ask = "none" THEN <<>> ELSE <<Reply(ask, decision)>>

-----------------------------------------------------------------------------
(* `opencode run`: one line per part, no requests.  A line is a record     *)
(* with the fields type, id, body, session and of.                         *)

run_turn(resume) == [known |-> resume, failed |-> FALSE]

\* A resumed session is not announced again.
step_start(f, s) ==
    IF s.known # "" \/ f.session = "" THEN Quiet(s)
    ELSE Event(Quiet([s EXCEPT !.known = f.session]), [kind |-> "session", id |-> f.session])

run_line(f, s) ==
    CASE f.type = "step_start" -> step_start(f, s)
      [] f.type \in {"text", "reasoning"} ->
            Event(Quiet(s), [kind |-> "text", item |-> f.id, n |-> 1, from |-> f.of])
      [] f.type = "tool" -> Event(Quiet(s), [kind |-> "output", item |-> f.id, from |-> f.of])
      [] f.type = "step_finish" -> [Quiet(s) EXCEPT !.out.terminal = (f.body = "stop")]
      [] f.type = "error" -> fail(Quiet(s))
      [] OTHER -> Quiet(s)

-----------------------------------------------------------------------------
(***************************************************************************)
(* The loopback HTTP bridge between the turn and `opencode serve`          *)
(* (src/src/providers/opencode_http.rs), with the server as its            *)
(* environment.  The bridge performs the requests of a turn one at a time  *)
(* on connections of their own and forwards the events of one stream;      *)
(* both write their frames into the same pipe.                             *)
(***************************************************************************)

Blank == [type |-> "event", id |-> "", ok |-> TRUE, kind |-> "", session |-> "s1", message |-> "",
          body |-> "", n |-> 0, of |-> 0]

Response(id, ok, session) == [Blank EXCEPT !.type = "response", !.id = id, !.ok = ok, !.session = session]

Published(kind, id) == [Blank EXCEPT !.kind = kind, !.id = id, !.of = srv.of]

MessageIds == <<"m1", "m2", "m3">>
Texts == <<"x1", "x2", "x3">>

\* bridge: its task; asked: the request it is waiting on; stream: events published
\* to an open subscription; of, went: the prompt the server works on.
BridgeInit ==
    [bridge |-> "connecting", asked |-> "", stream |-> <<>>, open |-> FALSE, of |-> 0, went |-> "",
     asks |-> {}, answers |-> <<>>, made |-> {}, kept |-> TRUE, extra |-> 0]

Emit(frame) == stdout' = Append(stdout, frame)

\* The server publishes to whoever is subscribed.
Publish(s, events) == [s EXCEPT !.stream = IF s.open THEN @ \o events ELSE @]

-----------------------------------------------------------------------------
(* The bridge.                                                             *)

\* connect: a turn that takes over a kept server gets a bridge of its own.
Attach ==
    /\ stdin # <<>> /\ Head(stdin).type = "attach"
    /\ stdin' = Tail(stdin)
    /\ srv' = [srv EXCEPT !.bridge = "connecting", !.asked = "", !.stream = <<>>, !.open = FALSE]
    /\ UNCHANGED <<stdout, alive>>

\* wait_until_ready: the server answers, or every attempt failed.
wait_until_ready ==
    /\ srv.bridge = "connecting"
    /\ \/ /\ alive
          /\ Emit([Blank EXCEPT !.type = "ready"])
          /\ srv' = [srv EXCEPT !.bridge = "ready"]
       \/ /\ ~alive \/ load.errors
          /\ Emit([Blank EXCEPT !.type = "error"])
          /\ srv' = [srv EXCEPT !.bridge = "over"]
    /\ UNCHANGED <<stdin, alive>>

\* stream_events: opened once; a refusal, an oversized event and its end are errors
\* of the turn.
stream_events ==
    \/ /\ srv.bridge = "ready" /\ srv.asked = "" /\ stdin # <<>> /\ Head(stdin).id = "subscribe"
       /\ stdin' = Tail(stdin)
       /\ IF srv.open THEN UNCHANGED <<srv, stdout>>
          ELSE \/ /\ alive
                  /\ srv' = [srv EXCEPT !.open = TRUE] /\ Emit([Blank EXCEPT !.type = "subscribed"])
               \/ /\ ~alive \/ load.errors
                  /\ srv' = srv /\ Emit([Blank EXCEPT !.type = "error"])
       /\ UNCHANGED alive
    \/ /\ srv.open /\ srv.stream # <<>>
       /\ Emit(Head(srv.stream))
       /\ srv' = [srv EXCEPT !.stream = Tail(@)]
       /\ UNCHANGED <<stdin, alive>>
    \/ /\ srv.open
       /\ (srv.stream = <<>> /\ ~alive) \/ (srv.stream # <<>> /\ load.errors)
       /\ Emit([Blank EXCEPT !.type = "error"])
       /\ srv' = [srv EXCEPT !.open = FALSE, !.stream = <<>>]
       /\ UNCHANGED <<stdin, alive>>

\* run_bridge: the next request waits for the answer of this one.
perform ==
    /\ srv.bridge = "ready" /\ srv.asked = "" /\ stdin # <<>>
    /\ Head(stdin).type \in {"call", "reply"} /\ Head(stdin).id # "subscribe"
    /\ LET f == Head(stdin)
       IN  IF ~alive
           THEN /\ stdin' = Tail(stdin)
                /\ Emit(Response(f.id, FALSE, ""))
                /\ UNCHANGED srv
           ELSE /\ stdin' = Tail(stdin)
                /\ srv' = CASE f.id = "session" -> [srv EXCEPT !.asked = "session"]
                            [] f.id = "prompt" ->
                                 [srv EXCEPT !.asked = "prompt", !.of = turn, !.kept = @ /\ srv.open,
                                             !.went = IF f.body = "summarize" THEN "summarize" ELSE "started"]
                            [] f.id = "abort" ->
                                 Publish([srv EXCEPT !.asked = "abort", !.of = 0, !.went = "", !.asks = {}],
                                         IF srv.of = 0 THEN <<>> ELSE <<Published("session.idle", "")>>)
                            [] OTHER -> [srv EXCEPT !.asked = "reply", !.asks = @ \ {f.id},
                                                    !.answers = Append(@, f.id)]
                /\ UNCHANGED stdout
    /\ UNCHANGED alive

\* The server answers a request; a prompt perhaps only when its work is done.
Answered ==
    /\ srv.asked # ""
    /\ \/ /\ srv.asked = "session" /\ alive
          /\ \/ Emit(Response("session", TRUE, "s1"))
             \/ load.errors /\ Emit([Response("session", TRUE, "s1") EXCEPT !.body = "parented"])
             \/ load.errors /\ Emit(Response("session", FALSE, ""))
       \/ /\ srv.asked = "prompt" /\ alive
          /\ load.holds => srv.of = 0
          /\ \/ Emit(Response("prompt", TRUE, ""))
             \/ load.errors /\ Emit(Response("prompt", FALSE, ""))
       \/ srv.asked \in {"abort", "reply"} /\ alive /\ Emit(Response("other", TRUE, ""))
       \/ ~alive /\ Emit(Response(srv.asked, FALSE, ""))
    /\ srv' = [srv EXCEPT !.asked = ""]
    /\ UNCHANGED <<stdin, alive>>

-----------------------------------------------------------------------------
(* The server.                                                             *)

Part(kind, n) == [Published(kind, Texts[srv.of]) EXCEPT !.message = MessageIds[srv.of], !.body = "text", !.n = n]

Works ==
    /\ alive /\ srv.of # 0
    /\ \/ /\ srv.went = "started"
          /\ \E events \in {<<Part("message.part.updated", 2)>>,
                            <<Part("message.part.delta", 1), Part("message.part.updated", 2)>>,
                            <<Part("message.part.delta", 1), Part("message.part.delta", 1),
                              Part("message.part.updated", 2)>>} :
               srv' = Publish([srv EXCEPT !.went = "said", !.made = @ \cup {<<srv.of, Texts[srv.of]>>}],
                              <<[Published("message.updated", "assistant") EXCEPT
                                   !.message = MessageIds[srv.of]]>> \o events)
       \/ /\ srv.went = "said" /\ load.asked > Len(srv.answers) /\ srv.asks = {}
          /\ srv' = Publish([srv EXCEPT !.asks = {"q1"}],
                            <<[Published("message.part.updated", "k1") EXCEPT
                                 !.message = MessageIds[srv.of], !.body = "tool"],
                              Published("permission.asked", "q1")>>)
       \/ /\ srv.went = "summarize"
          /\ srv' = Publish([srv EXCEPT !.went = "summarizing"],
                            <<[Published("message.part.updated", "c") EXCEPT !.body = "compaction"]>>)
       \/ /\ srv.went = "summarizing"
          /\ \/ srv' = Publish([srv EXCEPT !.went = "done"], <<Published("session.compacted", "")>>)
             \/ srv' = Publish([srv EXCEPT !.went = "done"],
                               <<[Published("message.updated", "summary") EXCEPT !.message = "sum",
                                                                                 !.body = "error"]>>)
             \/ srv' = [srv EXCEPT !.went = "done"]
    /\ UNCHANGED <<stdin, stdout, alive>>

Ends ==
    /\ alive /\ srv.of # 0 /\ srv.went \in {"said", "done"} /\ srv.asks = {}
    /\ \E errors \in {<<>>} \cup (IF load.errors
                                  THEN {<<[Published("session.error", "") EXCEPT !.body = message]>> :
                                          message \in {"message", ""}} ELSE {}) :
          srv' = Publish([srv EXCEPT !.of = 0, !.went = ""], errors \o <<Published("session.idle", "")>>)
    /\ UNCHANGED <<stdin, stdout, alive>>

\* Another session's work, and the title made after the first prompt.
Others ==
    /\ alive /\ srv.extra < load.late
    /\ \E e \in {[Published("session.idle", "") EXCEPT !.session = "s2"],
                 [Published("permission.asked", "q9") EXCEPT !.session = "s2", !.of = 0],
                 [Published("session.updated", "") EXCEPT !.body = "title"]} :
          srv' = Publish([srv EXCEPT !.extra = @ + 1], <<e>>)
    /\ UNCHANGED <<stdin, stdout, alive>>
=============================================================================
