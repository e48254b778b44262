---------------------------- MODULE CodexAdapter ----------------------------
(***************************************************************************)
(* The Codex app-server adapter (src/src/providers/codex_app_server.rs):   *)
(* one JSON-RPC connection that carries the user's thread, the probes that *)
(* confirm a completed turn is over, and the hidden thread that titles the *)
(* session.  Its operators are pure: a frame and the adapter's state give  *)
(* the new state and what the runtime has to do.                           *)
(*                                                                         *)
(* A frame of the server is a record with the fields type ("answer",       *)
(* "request" or "note"), id, n (probe epoch or title attempt), method,     *)
(* thread, turn, error, body, item and of (whose work it reports); "" is   *)
(* an absent value.                                                        *)
(***************************************************************************)
EXTENDS Integers, FiniteSets, SequencesExt

CONSTANTS MAX_CONTINUATIONS    \* provider turns one invocation may complete (1024)

VARIABLES stdin, stdout, alive, turn, srv, load    \* the provider and its pipes: see the second half

Nothing == [events |-> <<>>, writes |-> <<>>, optional |-> <<>>, ask |-> "none", terminal |-> FALSE,
            ok |-> TRUE]

Quiet(s) == [s |-> s, out |-> Nothing]

ProtocolError(s) == [s |-> s, out |-> [Nothing EXCEPT !.ok = FALSE]]

Event(r, e) == [r EXCEPT !.out.events = Append(@, e)]

Write(r, w) == [r EXCEPT !.out.writes = Append(@, w)]

Terminal(r) == [r EXCEPT !.out.terminal = TRUE]

Request(id, n, thread) == [type |-> "call", id |-> id, n |-> n, thread |-> thread]

Reply(id, decision) == [type |-> "reply", id |-> id, decision |-> decision]

-----------------------------------------------------------------------------
(* State.                                                                  *)

NoTitle == [step |-> "none", nonce |-> 0, retried |-> FALSE, model |-> "", main |-> "", thread |-> "",
            hidden |-> {}, turn |-> "", response |-> FALSE, superseded |-> FALSE]

\* prepare_turn: probes are numbered by a counter of the process.
prepare_turn(number, resume, manual, titled) ==
    [resume |-> resume, retained |-> FALSE, pending |-> FALSE, settled |-> FALSE,
     epoch |-> 10 * number, probe |-> "", retire |-> FALSE, goal |-> FALSE, completed |-> {},
     thread |-> "", turn |-> "", streamed |-> {}, open |-> FALSE, sawItem |-> FALSE,
     manual |-> manual, session |-> IF resume THEN "user" ELSE "", failed |-> FALSE,
     title |-> IF titled /\ ~manual THEN [NoTitle EXCEPT !.step = "waiting", !.nonce = number]
               ELSE NoTitle]

mark_retained(s) == [s EXCEPT !.retained = TRUE]

completion_pending(s) == s.pending /\ ~s.settled

can_finish_after_retirement(s) == s.pending /\ ~s.settled /\ ~s.goal

retire_after_completion(s) == s.retire

interrupt(s) ==
    IF s.thread # "" /\ s.turn # "" THEN <<Request("interrupt", 0, s.thread)>> ELSE <<>>

handshake == <<Request("initialize", 0, "")>>

retained_turn_start(s) == <<Request(IF s.resume THEN "resume" ELSE "start", 0, s.session)>>

keepalive_probe(s) == IF s.thread = "" THEN <<>> ELSE <<Request("keepalive", 0, s.thread)>>

fail(r) == Terminal([r EXCEPT !.s.failed = TRUE])

-----------------------------------------------------------------------------
(* Frames outside a turn.                                                  *)

TitleIds == {"title_config", "title_thread", "title_turn", "title_name", "title_unsubscribe"}

StartsWork(f) ==
    \/ f.method = "turn/started"
    \/ f.method = "thread/status/changed" /\ f.body = "active"

classify_idle_frame(f) ==
    CASE StartsWork(f) -> "unexpected"
      [] ~StartsWork(f) /\ f.type = "note" -> "background"
      [] f.type = "answer" /\ f.id = "keepalive" -> IF f.body = "active" THEN "active" ELSE "inactive"
      [] f.type = "answer" /\ f.id \in TitleIds -> "background"
      [] OTHER -> "unexpected"

orphaned_title_thread(f) == f.type = "answer" /\ f.id = "title_thread" /\ f.error = "" /\ f.thread # ""

orphan_unsubscribe(f) == Request("title_unsubscribe", 0, f.thread)

idle_frame_writes(f) == IF orphaned_title_thread(f) THEN <<orphan_unsubscribe(f)>> ELSE <<>>

-----------------------------------------------------------------------------
(* TitleFlow: the hidden thread that titles a new session.                 *)

TitleNo(t) == 2 * t.nonce + IF t.retried THEN 1 ELSE 0

send(r, id, thread) ==
    [r EXCEPT !.out.optional = Append(@, Request(id, TitleNo(r.s.title), thread))]

Step(r, step) == [r EXCEPT !.s.title.step = step]

read_config(r) == send(Step(r, "config"), "title_config", "")

start_thread(r) ==
    send([r EXCEPT !.s.title = [@ EXCEPT !.step = "thread", !.thread = "", !.turn = "",
                                         !.response = FALSE]],
         "title_thread", "")

start_turn(r) == send(Step(r, "turn"), "title_turn", r.s.title.thread)

detach(r) ==
    IF r.s.title.thread = "" THEN r
    ELSE LET sent == send(r, "title_unsubscribe", r.s.title.thread)
         IN  [sent EXCEPT !.s.title.thread = ""]

\* Once more on the user's own model when the title model failed.
retry_or_finish(r) ==
    LET d == detach(r)
        t == d.s.title
    IN  IF ~t.retried /\ t.model = "title" /\ t.main # "title"
        THEN start_thread([d EXCEPT !.s.title.retried = TRUE, !.s.title.model = t.main])
        ELSE Step(d, "done")

abandon(r) == IF r.s.title.step \in {"none", "done"} THEN r ELSE Step(detach(r), "done")

awaits_thread(f, t) == t.step = "thread" /\ f.id = "title_thread" /\ f.n = TitleNo(t)

on_response(f, s) ==
    LET t == s.title
        r == Quiet(s)
        answers(step, id) == t.step = step /\ f.id = id /\ f.n = TitleNo(t)
    IN  CASE answers("config", "title_config") ->
                IF f.error # "" THEN Step(r, "done")
                ELSE start_thread([r EXCEPT !.s.title.model =
                                     IF f.body = "openai" THEN "title" ELSE t.main])
          [] answers("thread", "title_thread") ->
                LET opened == [r EXCEPT !.s.title.thread = f.thread,
                                        !.s.title.hidden = @ \cup {f.thread}]
                IN  CASE f.error # "" -> retry_or_finish(r)
                      [] f.error = "" /\ f.thread = "" -> Step(r, "done")
                      [] f.error = "" /\ f.thread # "" /\ f.body # "readOnly" ->
                            Step(detach(opened), "done")
                      [] OTHER -> start_turn(opened)
          [] answers("turn", "title_turn") ->
                IF f.error # "" THEN retry_or_finish(r)
                ELSE Step([r EXCEPT !.s.title.turn = f.turn], "running")
          [] OTHER -> r

\* The title is reported unless the thread was named some other way meanwhile.
TitleMade(r) ==
    LET t     == r.s.title
        named == IF r.s.thread = "" THEN r ELSE send(r, "title_name", r.s.thread)
    IN  IF t.response /\ ~t.superseded THEN Event(named, [kind |-> "title", by |-> "flow"]) ELSE r

on_notification(f, s) ==
    LET t     == s.title
        r     == Quiet(s)
        own   == t.step \in {"turn", "running"} /\ f.thread = t.thread
        ended == f.method = "turn/completed" /\ (f.turn = "" \/ t.turn = "" \/ f.turn = t.turn)
    IN  CASE own /\ f.method = "item/completed" ->
                IF f.item = "message" THEN [r EXCEPT !.s.title.response = (f.body # "oversized")] ELSE r
          [] own /\ ended /\ f.body # "completed" -> retry_or_finish(r)
          [] own /\ ended /\ f.body = "completed" -> Step(detach(TitleMade(r)), "done")
          [] OTHER -> r

title_frame(f, s) ==
    CASE f.type = "answer" ->
            IF ~awaits_thread(f, s.title) /\ orphaned_title_thread(f)
            THEN [Quiet(s) EXCEPT !.out.optional = <<orphan_unsubscribe(f)>>]
            ELSE on_response(f, s)
      [] f.type = "request" -> [Quiet(s) EXCEPT !.out.optional = <<Reply(f.id, "refused")>>]
      [] OTHER -> on_notification(f, s)

IsTitleFrame(f, s) ==
    \/ f.type = "answer" /\ f.id \in TitleIds
    \/ f.type # "answer" /\ f.thread \in s.title.hidden

-----------------------------------------------------------------------------
(* Answers to this adapter's own requests.                                 *)

begin_completion_probe(r) ==
    LET e == r.s.epoch + 1
    IN  Write([r EXCEPT !.s.epoch = e, !.s.probe = "goal"], Request("goal", e, r.s.thread))

\* thread/start, thread/resume or thread/fork was answered: the turn starts on that thread.
ThreadOpened(f, s) ==
    LET opened == [Quiet(s) EXCEPT !.s.thread = f.thread, !.s.session = f.thread]
        r      == IF s.session = f.thread THEN opened
                  ELSE Event(opened, [kind |-> "session", id |-> f.thread])
        turned == Write(r, Request("turn", 0, f.thread))
    IN  CASE f.thread = "" -> ProtocolError(s)
          [] f.thread # "" /\ s.manual ->
                Write(Event([r EXCEPT !.s.open = TRUE], [kind |-> "compaction_started"]),
                      Request("compact", 0, f.thread))
          [] f.thread # "" /\ ~s.manual /\ s.title.step # "waiting" -> turned
          [] OTHER -> IF f.body = "named" THEN Step(turned, "done")
                      ELSE read_config([turned EXCEPT !.s.title.main = "main"])

\* turn/start and thread/compact/start share an id, and the answer to the latter
\* names no turn.
parse_response(f, s) ==
    CASE f.error # "" ->
            IF f.id = "thread" /\ s.resume /\ f.error = "active_writer"
            THEN Write(Event(Quiet(s), [kind |-> "warning"]), Request("fork", 0, s.session))
            ELSE fail(Quiet(s))
      [] f.error = "" /\ f.id = "initialize" ->
            Write(Quiet(s), Request(IF s.resume THEN "resume" ELSE "start", 0, s.session))
      [] f.error = "" /\ f.id \in {"thread", "fork"} -> ThreadOpened(f, s)
      [] f.error = "" /\ f.id = "turn" -> Quiet([s EXCEPT !.turn = f.turn])
      [] OTHER -> Quiet(s)

\* The answer to the current completion probe; an older one's is dropped.
completion_answer(f, s) ==
    LET taken       == [s EXCEPT !.probe = ""]
        unsupported == f.id = "goal" /\ f.error = "unsupported"
        usable      == unsupported \/ f.body \in {"none", "active", "paused"}
        active      == ~unsupported /\ f.body = "active"
        next        == [taken EXCEPT !.goal = active]
    IN  CASE f.id # s.probe \/ f.n # s.epoch -> Quiet(s)
          [] f.id = s.probe /\ f.n = s.epoch /\ f.error # "" /\ ~unsupported -> ProtocolError(s)
          [] f.id = "goal" /\ f.id = s.probe /\ f.n = s.epoch /\ (f.error = "" \/ unsupported) ->
                IF ~usable \/ (f.thread # "" /\ f.thread # s.thread) THEN ProtocolError(s)
                ELSE IF active THEN Quiet(next)
                ELSE Write(Quiet([next EXCEPT !.probe = "read"]), Request("read", s.epoch, s.thread))
          [] OTHER ->
                CASE f.thread # s.thread -> ProtocolError(s)
                  [] f.thread = s.thread /\ f.body = "idle" -> Terminal(Quiet([taken EXCEPT !.settled = TRUE]))
                  [] f.thread = s.thread /\ f.body = "active" -> Quiet(taken)
                  [] OTHER -> ProtocolError(s)

-----------------------------------------------------------------------------
(* Requests and notifications.                                             *)

Asked(f, s) ==
    [Event(Quiet(s), [kind |-> "asked", id |-> f.id, from |-> f.of]) EXCEPT !.out.ask = f.id]

server_request(f, s) ==
    CASE f.method \in {"approval", "mcp_approval"} -> Asked(f, s)
      [] f.method = "question" ->
            IF f.body = "nonblocking"
            THEN Write(Event(Quiet(s), [kind |-> "asked", id |-> f.id, from |-> f.of]), Reply(f.id, "later"))
            ELSE Asked(f, s)
      [] f.method = "elicitation" -> Write(Quiet(s), Reply(f.id, "decline"))
      [] OTHER -> Write(Quiet(s), Reply(f.id, "empty"))

Shown(f, s) == Event(Quiet(s), [kind |-> "output", item |-> f.id, from |-> f.of])

ShownText(f, s) == Event(Quiet(s), [kind |-> "text", item |-> f.id, n |-> 1, from |-> f.of])

compaction_item(f, s) ==
    LET closed  == [Quiet(s) EXCEPT !.s.open = FALSE]
        ended   == IF s.manual THEN Terminal(closed) ELSE closed
    IN  CASE f.method = "item/started" ->
                IF s.open THEN Quiet(s)
                ELSE Event([Quiet(s) EXCEPT !.s.open = TRUE], [kind |-> "compaction_started"])
          [] f.method = "item/completed" /\ s.manual /\ ~s.open -> ended
          [] OTHER -> Event([ended EXCEPT !.s.sawItem = TRUE], [kind |-> "compaction_completed"])

\* item/started and item/completed: a streamed message is not shown twice.
ItemNote(f, s) ==
    CASE f.item = "compaction" -> compaction_item(f, s)
      [] f.item = "message" ->
            IF f.method = "item/completed" /\ f.id \notin s.streamed THEN ShownText(f, s) ELSE Quiet(s)
      [] OTHER -> Shown(f, s)

name_updated(f, s) ==
    LET own == IF f.thread # "" /\ s.thread # "" THEN f.thread = s.thread ELSE ~s.retained
    IN  IF ~own THEN Quiet(s)
        ELSE Event(Quiet([s EXCEPT !.title.superseded = @ \/ s.title.step \notin {"none", "done"}]),
                   [kind |-> "title", by |-> f.body])

thread_compacted(f, s) ==
    LET closed == Event([Quiet(s) EXCEPT !.s.open = FALSE], [kind |-> "compaction_completed"])
    IN  CASE s.manual -> Terminal(IF s.open THEN closed ELSE Quiet(s))
          [] ~s.manual /\ ~s.open /\ ~s.sawItem -> closed
          [] OTHER -> Quiet(s)

\* turn/completed and turn/failed: success is confirmed by a probe before the turn ends.
TurnEnded(f, s) ==
    LET succeeded == f.body = "completed"
        begun     == IF succeeded /\ ~s.manual /\ s.thread # ""
                     THEN begin_completion_probe(
                              Quiet([s EXCEPT !.pending = TRUE,
                                              !.completed = @ \cup ({s.turn} \ {""})]))
                     ELSE Terminal(Quiet(s))
        closed    == IF s.open THEN Event([begun EXCEPT !.s.open = FALSE], [kind |-> "compaction_failed"])
                     ELSE begun
    IN  CASE f.turn # "" /\ s.turn # "" /\ f.turn # s.turn -> Quiet(s)
          [] (f.turn = "" \/ s.turn = "" \/ f.turn = s.turn) /\ f.body \in {"completed", ""} -> closed
          [] OTHER -> fail(closed)

AboutOther(f, s) == f.thread # "" /\ s.thread # "" /\ f.thread # s.thread

notification(f, s) ==
    CASE f.method = "delta" -> ShownText(f, [s EXCEPT !.streamed = @ \cup {f.id}])
      [] f.method \in {"item/started", "item/completed"} -> ItemNote(f, s)
      [] f.method = "thread/name/updated" -> name_updated(f, s)
      [] f.method \in {"warning", "usage"} ->
            IF AboutOther(f, s) THEN Quiet(s) ELSE Event(Quiet(s), [kind |-> f.method, from |-> f.of])
      [] f.method = "thread/compacted" -> thread_compacted(f, s)
      [] f.method = "turn/completed" -> TurnEnded(f, s)
      [] OTHER -> Quiet(s)

-----------------------------------------------------------------------------
(* parse_line.                                                             *)

OwnThread(f, s) == s.thread # "" /\ f.thread = s.thread

\* After the idle read nothing may run on the thread.
AfterSettlement(f, s) ==
    CASE OwnThread(f, s) /\ StartsWork(f) -> ProtocolError(s)
      [] f.type = "request" /\ ~(OwnThread(f, s) /\ StartsWork(f)) ->
            Terminal(Quiet([s EXCEPT !.retire = TRUE]))
      [] OTHER -> Quiet(s)

\* Mutant: a continuation leaves the running probe in charge.
AdoptKeepsPending(f, s) == [s EXCEPT !.turn = f.turn, !.streamed = {}]

\* The server went on by itself: the turn is not over.
Adopt(f, s) ==
    [s EXCEPT !.turn = f.turn, !.pending = FALSE, !.settled = FALSE, !.probe = "", !.streamed = {}]

\* The goal or the thread's status changed: a probe that found them active is repeated.
GoalNote(f, s) ==
    LET g == [s EXCEPT !.goal = CASE f.method = "thread/goal/updated" -> f.body = "active"
                                  [] f.method = "thread/goal/cleared" -> FALSE
                                  [] OTHER -> @]
    IN  IF s.pending /\ (s.probe = "" \/ f.method \in {"thread/goal/updated", "thread/goal/cleared"})
        THEN begin_completion_probe(Quiet(g))
        ELSE Quiet(g)

\* What a finished segment still sends is stale, and its requests cannot be answered.
StaleFrame(f, s) ==
    CASE f.type = "request" /\ s.goal -> ProtocolError(s)
      [] f.type = "request" /\ ~s.goal -> Terminal(Quiet([s EXCEPT !.retire = TRUE]))
      [] OTHER -> Quiet(s)

Correlated(s) == s.retained \/ s.completed # {}

turn_scoped_method(f) ==
    \/ f.method \in {"delta", "item/started", "item/completed", "approval", "question", "usage",
                     "thread/compacted", "turn/completed"}

belongs_to_active_turn(f, s) ==
    /\ ~AboutOther(f, s)
    /\ Correlated(s) => f.turn # "" /\ f.turn = s.turn

Uncorrelated(f, s) ==
    /\ Correlated(s) /\ f.type # "answer"
    /\ \/ f.type = "note" /\ f.turn = ""
       \/ f.turn # "" /\ f.turn # s.turn

Dispatch(f, s) ==
    LET r == CASE f.type = "answer" -> parse_response(f, s)
               [] f.type = "request" -> server_request(f, s)
               [] OTHER -> notification(f, s)
    IN  IF r.out.ok /\ (r.out.terminal \/ r.s.pending) THEN abandon(r) ELSE r

OwnTurnFrame(f, s) ==
    LET adopts == s.manual /\ s.turn = "" /\ f.method = "turn/started" /\ OwnThread(f, s)
        t      == IF adopts THEN [s EXCEPT !.turn = f.turn] ELSE s
    IN  CASE s.manual /\ f.method = "thread/compacted" /\ OwnThread(f, s) -> notification(f, s)
          [] Uncorrelated(f, t) \/ (turn_scoped_method(f) /\ ~belongs_to_active_turn(f, t)) -> Quiet(t)
          [] OTHER -> Dispatch(f, t)

\* The current segment's frames, once a continuation was adopted.
SegmentFrame(f, s) ==
    CASE OwnThread(f, s) /\ f.method \in {"thread/goal/updated", "thread/goal/cleared",
                                          "thread/status/changed"} -> GoalNote(f, s)
      [] f.type = "answer" /\ f.id \in {"goal", "read"} -> completion_answer(f, s)
      [] f.type = "note" /\ f.method = "thread/name/updated" -> notification(f, s)
      [] f.method \notin {"", "thread/goal/updated", "thread/goal/cleared", "thread/status/changed",
                          "thread/name/updated"} /\ s.pending -> StaleFrame(f, s)
      [] OTHER -> OwnTurnFrame(f, s)

parse_line(f, s) ==
    LET continues == OwnThread(f, s) /\ f.method = "turn/started" /\ s.pending /\ f.turn # ""
    IN  CASE IsTitleFrame(f, s) -> title_frame(f, s)
          [] ~IsTitleFrame(f, s) /\ s.settled /\ f.method \notin {"", "thread/name/updated"} ->
                AfterSettlement(f, s)
          [] ~IsTitleFrame(f, s) /\ ~s.settled /\ continues /\ f.turn \in s.completed -> Quiet(s)
          [] ~IsTitleFrame(f, s) /\ ~s.settled /\ continues /\ f.turn \notin s.completed ->
                IF Cardinality(s.completed) >= MAX_CONTINUATIONS THEN ProtocolError(s)
                ELSE SegmentFrame(f, IF s.turn = f.turn THEN s ELSE Adopt(f, s))
          [] OTHER -> SegmentFrame(f, s)

approval_response(ask, decision) == IF ask = "none" THEN <<>> ELSE <<Reply(ask, decision)>>

-----------------------------------------------------------------------------
(* `codex exec`: one JSON line per event, no requests.  A line is a record *)
(* with the fields type, id, item, session and of.                         *)

exec_turn(resume) == [session |-> resume, failed |-> FALSE]

exec_line(f, s) ==
    CASE f.type = "thread.started" ->
            IF f.session \in {"", s.session} THEN Quiet(s)
            ELSE Event(Quiet([s EXCEPT !.session = f.session]), [kind |-> "session", id |-> f.session])
      [] f.type \in {"item.started", "item.completed"} /\ f.item = "tool" -> Shown(f, s)
      [] f.type = "item.completed" /\ f.item = "message" -> ShownText(f, s)
      [] f.type = "turn.completed" -> Terminal(Quiet(s))
      [] f.type \in {"turn.failed", "error"} -> fail(Quiet(s))
      [] OTHER -> Quiet(s)

-----------------------------------------------------------------------------
(***************************************************************************)
(* The environment of the Codex adapter: `codex app-server`, as            *)
(* src/src/providers/codex_app_server.rs expects it.  It answers requests  *)
(* in order, runs turns of the user's thread and of hidden threads, may go *)
(* on by itself while a goal is active, and winds down after a turn before *)
(* its thread is idle.                                                     *)
(***************************************************************************)

TurnIds == <<"t1", "t2", "t3", "t4">>
Text == [t1 |-> "x1", t2 |-> "x2", t3 |-> "x3", t4 |-> "x4"]
Hidden == <<"h1", "h2", "h3", "h4">>

Blank == [type |-> "note", id |-> "", n |-> 0, method |-> "", thread |-> "user", turn |-> "",
          error |-> "", body |-> "", item |-> "", of |-> 0]

Answer(id, n, body) == [Blank EXCEPT !.type = "answer", !.id = id, !.n = n, !.body = body]

Note(method, body) == [Blank EXCEPT !.method = method, !.body = body, !.thread = srv.thread]

OfRun(f) == [f EXCEPT !.turn = srv.run, !.of = srv.of]

\* run, of: the turn at work and the invocation it works for; went: how far it is.
CodexInit ==
    [thread |-> "user", run |-> "", of |-> 0, went |-> "", winding |-> FALSE, no |-> 0, goal |-> "none", goals |-> load.goals,
     last |-> "", lastOf |-> 0, late |-> 0, hidden |-> {}, hno |-> 0, htitle |-> "", asks |-> {},
     answers |-> <<>>, made |-> {}, renames |-> 0, compacting |-> FALSE]

Say(frames) == stdout' = stdout \o frames

Starts(s, of, manual) ==
    [s EXCEPT !.run = TurnIds[srv.no + 1], !.no = @ + 1, !.of = of, !.went = "started",
              !.winding = FALSE, !.compacting = manual]

Started(s) == [Note("turn/started", "") EXCEPT !.turn = s.run, !.of = s.of]

Threads(f) ==
    \/ /\ f.id = "initialize" /\ Say(<<Answer("initialize", 0, "")>>) /\ UNCHANGED srv
    \/ /\ f.id \in {"start", "resume"} /\ ~load.busy
       /\ Say(<<Answer("thread", 0, "")>>) /\ UNCHANGED srv
    \/ /\ f.id = "resume" /\ load.busy
       /\ Say(<<[Answer("thread", 0, "") EXCEPT !.error = "active_writer"]>>) /\ UNCHANGED srv
    \/ /\ f.id = "fork" /\ Say(<<[Answer("fork", 0, "") EXCEPT !.thread = "forked"]>>)
       /\ srv' = [srv EXCEPT !.thread = "forked"]
    \/ /\ f.id = "turn" /\ srv.run = "" /\ srv.no < Len(TurnIds)
       /\ srv' = [Starts(srv, turn, FALSE) EXCEPT !.goal = IF load.goals > 0 THEN "active" ELSE @]
       /\ Say(<<[Answer("turn", 0, "") EXCEPT !.turn = srv'.run], Started(srv')>>
              \o IF load.goals > 0 /\ ~load.resume THEN <<Note("thread/goal/updated", "active")>> ELSE <<>>)
    \/ /\ f.id = "turn" /\ (load.errors \/ srv.run # "")
       /\ Say(<<[Answer("turn", 0, "") EXCEPT !.error = "refused"]>>) /\ UNCHANGED srv
    \/ /\ f.id = "compact"
       /\ srv' = Starts(srv, turn, TRUE)
       /\ Say(<<Answer("turn", 0, ""), Started(srv')>>)
    \/ /\ f.id = "interrupt"
       /\ srv' = [srv EXCEPT !.run = "", !.went = "", !.asks = {}]
       /\ Say(IF srv.run = "" THEN <<>> ELSE <<OfRun(Note("turn/completed", "interrupted"))>>)

Probes(f) ==
    \/ /\ f.id = "goal"
       /\ Say(<<IF load.noGoals THEN [Answer("goal", f.n, "") EXCEPT !.error = "unsupported"]
                ELSE Answer("goal", f.n, srv.goal)>>)
       /\ UNCHANGED srv
    \/ /\ f.id = "read"
       /\ Say(<<Answer("read", f.n, IF srv.run = "" /\ ~srv.winding THEN "idle" ELSE "active")>>)
       /\ UNCHANGED srv
    \/ /\ f.id = "keepalive"
       /\ \E loaded \in {"active", "unloaded"} : Say(<<Answer("keepalive", 0, loaded)>>)
       /\ UNCHANGED srv

Titles(f) ==
    \/ /\ f.id = "title_config" /\ Say(<<Answer(f.id, f.n, "openai")>>) /\ UNCHANGED srv
    \/ /\ f.id = "title_thread"
       /\ \/ /\ srv' = [srv EXCEPT !.hno = @ + 1, !.hidden = @ \cup {Hidden[srv.hno + 1]}]
             /\ \E policy \in {"readOnly", "full"} :
                   Say(<<[Answer(f.id, f.n, policy) EXCEPT !.thread = Hidden[srv.hno + 1]]>>)
          \/ Say(<<[Answer(f.id, f.n, "") EXCEPT !.error = "no model", !.thread = ""]>>) /\ UNCHANGED srv
    \/ /\ f.id = "title_turn"
       /\ srv' = [srv EXCEPT !.htitle = f.thread]
       /\ Say(<<[Answer(f.id, f.n, "") EXCEPT !.turn = "th", !.thread = f.thread]>>)
    \/ /\ f.id = "title_name" /\ Say(<<Answer(f.id, f.n, ""), Note("thread/name/updated", "echo")>>)
       /\ UNCHANGED srv
    \/ /\ f.id = "title_unsubscribe"
       /\ srv' = [srv EXCEPT !.hidden = @ \ {f.thread}, !.htitle = IF @ = f.thread THEN "" ELSE @]
       /\ Say(<<Answer(f.id, f.n, "")>>)

Reads ==
    /\ stdin # <<>> /\ alive
    /\ stdin' = Tail(stdin)
    /\ LET f == Head(stdin)
       IN  \/ f.type = "call" /\ (Threads(f) \/ Probes(f) \/ Titles(f))
           \/ /\ f.type = "reply"
              /\ srv' = [srv EXCEPT !.asks = @ \ {f.id}, !.answers = Append(@, f.id)]
              /\ UNCHANGED stdout
    /\ UNCHANGED alive

\* The running turn: a message, perhaps streamed, perhaps a question, and its end.
Works ==
    /\ alive /\ srv.run # "" /\ ~srv.compacting
    /\ \/ /\ srv.went = "started"
          /\ \E streamed \in BOOLEAN :
               Say((IF streamed THEN <<OfRun([Note("delta", "") EXCEPT !.id = Text[srv.run]])>> ELSE <<>>)
                   \o <<OfRun([Note("item/completed", "") EXCEPT !.id = Text[srv.run], !.item = "message"])>>)
          /\ srv' = [srv EXCEPT !.went = "said", !.made = @ \cup {<<srv.of, Text[srv.run]>>}]
       \/ /\ srv.went = "said" /\ load.asks \cap {"approval", "question"} # {} /\ srv.asks = {} /\ srv.answers = <<>>
          /\ \E method \in load.asks \cap {"approval", "question"} :
               Say(<<OfRun([Note(method, "") EXCEPT !.type = "request", !.id = "q1"])>>)
          /\ srv' = [srv EXCEPT !.asks = {"q1"}]
       \/ /\ srv.went = "said" /\ "tool" \in load.asks
          /\ Say(<<OfRun([Note("item/started", "") EXCEPT !.id = "tool", !.item = "tool"]),
                   OfRun([Note("item/started", "") EXCEPT !.item = "compaction"]),
                   OfRun(Note("warning", "")),
                   OfRun([Note("elicitation", "") EXCEPT !.type = "request", !.id = "e1"])>>)
          /\ srv' = [srv EXCEPT !.went = "compacting", !.asks = @ \cup {"e1"}]
       \/ /\ srv.went = "compacting" /\ srv.asks = {}
          /\ \/ Say(<<OfRun([Note("item/completed", "") EXCEPT !.item = "compaction"])>>)
             \/ Say(<<OfRun(Note("thread/compacted", ""))>>)
             \/ UNCHANGED stdout
          /\ srv' = [srv EXCEPT !.went = "done"]
    /\ UNCHANGED <<stdin, alive>>

Ends ==
    /\ alive /\ srv.run # "" /\ ~srv.compacting /\ {"q1", "e1"} \cap srv.asks = {} /\ srv.went \in {"said", "done"}
    /\ \E how \in {"completed"} \cup (IF load.errors THEN {"failed"} ELSE {}) :
          Say(<<OfRun(Note("turn/completed", how))>>)
    /\ srv' = [srv EXCEPT !.run = "", !.went = "", !.winding = TRUE, !.last = srv.run, !.lastOf = srv.of]
    /\ UNCHANGED <<stdin, alive>>

Compacts ==
    /\ alive /\ srv.compacting
    /\ \/ /\ srv.went = "started"
          /\ \/ /\ Say(<<OfRun([Note("item/started", "") EXCEPT !.item = "compaction"])>>)
                /\ srv' = [srv EXCEPT !.went = "item"]
             \/ Say(<<>>) /\ srv' = [srv EXCEPT !.went = "item"]
       \/ /\ srv.went = "item"
          /\ \/ Say(<<OfRun([Note("item/completed", "") EXCEPT !.item = "compaction"])>>)
             \/ Say(<<Note("thread/compacted", "")>>)
             \/ Say(<<>>)
          /\ srv' = [srv EXCEPT !.went = "done"]
       \/ /\ srv.went = "done"
          /\ Say(<<OfRun(Note("turn/completed", "completed"))>>)
          /\ srv' = [srv EXCEPT !.run = "", !.went = "", !.compacting = FALSE]
    /\ UNCHANGED <<stdin, alive>>

WindsDown ==
    /\ alive /\ srv.winding
    /\ srv' = [srv EXCEPT !.winding = FALSE]
    /\ Say(<<Note("thread/status/changed", "idle")>>)
    /\ UNCHANGED <<stdin, alive>>

\* While a goal is active the server starts turns by itself.
GoalGoesOn ==
    /\ alive /\ srv.goal = "active" /\ srv.run = "" /\ srv.no > 0
    /\ \/ /\ srv.goals > 0 /\ srv.no < Len(TurnIds)
          /\ srv' = [Starts(srv, srv.lastOf, FALSE) EXCEPT !.goals = @ - 1]
          /\ Say(<<Started(srv'), Note("thread/status/changed", "active")>>)
       \/ \E g \in {"none", "paused"} :
             /\ srv' = [srv EXCEPT !.goal = g]
             /\ Say(<<IF g = "none" THEN Note("thread/goal/cleared", "")
                      ELSE Note("thread/goal/updated", "paused")>>)
    /\ UNCHANGED <<stdin, alive>>

\* A frame of a turn that is over.
Late ==
    /\ alive /\ srv.last # "" /\ srv.late < load.late
    /\ srv' = [srv EXCEPT !.late = @ + 1]
    /\ \/ Say(<<[Note("delta", "") EXCEPT !.turn = srv.last, !.of = srv.lastOf, !.id = "late"]>>)
       \/ Say(<<[Note("usage", "") EXCEPT !.turn = srv.last, !.of = srv.lastOf]>>)
       \/ load.asks # {} /\ Say(<<[Note("approval", "") EXCEPT !.turn = srv.last, !.of = srv.lastOf,
                                              !.type = "request", !.id = "stale"]>>)
    /\ UNCHANGED <<stdin, alive>>

\* The hidden thread's turn titles the session, or fails.
TitleTurn ==
    /\ alive /\ srv.htitle # ""
    /\ LET h(f) == [f EXCEPT !.thread = srv.htitle, !.turn = "th"]
           over == [srv EXCEPT !.htitle = ""]
       IN  \/ /\ Say(<<h([Note("item/completed", "") EXCEPT !.id = "title", !.item = "message"]),
                       h(Note("turn/completed", "completed"))>>)
              /\ srv' = over
           \/ Say(<<h(Note("turn/completed", "failed"))>>) /\ srv' = over
           \/ /\ Say(<<h([Note("approval", "") EXCEPT !.type = "request", !.id = srv.htitle]),
                       h(Note("turn/completed", "completed"))>>)
              /\ srv' = [over EXCEPT !.asks = @ \cup {srv.htitle}]
    /\ UNCHANGED <<stdin, alive>>

Renamed ==
    /\ alive /\ srv.renames < load.renames /\ srv.no > 0
    /\ srv' = [srv EXCEPT !.renames = @ + 1]
    /\ Say(<<Note("thread/name/updated", "user")>>)
    /\ UNCHANGED <<stdin, alive>>
=============================================================================
