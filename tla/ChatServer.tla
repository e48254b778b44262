----------------------------- MODULE ChatServer -----------------------------
(* The server of the fullstack-chat example (main.rs): HTTP handlers, the    *)
(* task that runs a chat's turn or compaction and then dispatches its queue, *)
(* and event streams, all over one record per running chat and one store.   *)
(* An actor is a handler (its index in load.calls), the task of a record or  *)
(* the interrupt task of a compaction.  Awaits separate steps; a database    *)
(* call is one step.                                                         *)
EXTENDS ChatStore, TLC

CONSTANTS Workload,     \* the loads to explore
          ChatIds,      \* ids a chat may have
          Channel       \* capacity of a record's broadcast channel (128)

VARIABLES load,      \* the calls clients make, the faults, the stored state at start
          db,        \* the store
          active,    \* active_chats: chat -> record, 0 for none
          creation,  \* chat_creation: the actor inside, 0 for none
          sendNow,   \* send_now: chat -> << >> or <<message, request>>
          recs,      \* every ChatRecord ever made, dead ones included
          act,       \* actor -> its state
          hist       \* what happened that a property depends on

vars == <<load, db, active, creation, sendNow, recs, act, hist>>

Chain(r) == 100 + r
Interrupt(r) == 200 + r
Handlers == 1..Len(load.calls)

------------------------------------------------------------------------------
(* What an actor still has to write on its record, in order. *)
Item(st, kind, v, role, text) ==
  [st |-> st, kind |-> kind, v |-> v, role |-> role, text |-> text, n |-> 0, m |-> 0, snap |-> <<>>]
Status(s) == Item("status", "chat_status", s, "", <<>>)
Push(kind, v) == Item("number", kind, v, "", <<>>)
Say(role, text) == Item("number", "message_appended", "", role, text)
Ask(id) == Item("approval", "", id, "", <<>>)

Appends(f) == f.role # ""
EventOf(f) == [n |-> f.n, kind |-> f.kind, v |-> f.v]
MessageOf(f) == IF Appends(f) THEN <<[n |-> f.m, role |-> f.role, text |-> f.text]>> ELSE <<>>

Actor(pc, rec, req) ==
  [pc |-> pc, rec |-> rec, todo |-> <<>>, err |-> "failed", req |-> req, msg |-> <<>>,
   kept |-> FALSE, res |-> "", pos |-> 0, last |-> 0, seen |-> <<>>, file |-> "none"]

(* Where the turn runs; the demo harness is the server's own process. *)
transport_for_target(req) ==
  IF req.harness = "demo" \/ req.target = 0 THEN "local" ELSE db.targets[req.target]

(* ChatRecord::new: numbering continues the loaded history. *)
NewRecord(c, snap, messages, events, req, resume, kind) ==
  LET users == {i \in 1..Len(messages) : messages[i].role = "user"}
  IN  [chat |-> c, snap |-> snap, messages |-> messages, events |-> events,
       next |-> LastNumber(events) + 1, nextMessage |-> LastNumber(messages) + 1,
       current |-> IF users = {} THEN 0
                   ELSE messages[CHOOSE i \in users : \A j \in users : j <= i].n,
       from |-> LastNumber(events), observed |-> FALSE, announced |-> FALSE, sent |-> <<>>, cancelled |-> FALSE,
       broker |-> [id \in {"a1", "q1"} |-> [st |-> "none", v |-> ""]],
       script |-> req.script, kind |-> kind, resume |-> resume, harness |-> req.harness,
       host |-> transport_for_target(req),
       out |-> <<>>, told |-> <<>>, closed |-> FALSE, disorder |-> FALSE]

At(a, pc) == act[a].todo = <<>> /\ act[a].pc = pc
Goes(a, pc) == act' = [act EXCEPT ![a].pc = pc]
Answers(a, res) == act' = [act EXCEPT ![a].pc = "done", ![a].res = res]
Fails(a) == act' = [act EXCEPT ![a].pc = "failed"]
Writes(a, todo, pc, err) ==
  act' = [act EXCEPT ![a].todo = todo, ![a].pc = pc, ![a].err = err]

Init ==
  /\ load \in Workload
  /\ db = load.db
  /\ active = [c \in ChatIds |-> 0]
  /\ creation = 0
  /\ sendNow = [c \in ChatIds |-> <<>>]
  /\ recs = <<>>
  /\ act = [a \in Handlers |-> Actor(load.calls[a].op, 0, load.calls[a])]
  /\ hist = [late |-> FALSE, cut |-> FALSE, broken |-> FALSE, dropped |-> FALSE, crashed |-> FALSE]

------------------------------------------------------------------------------
(* push, set_status and append_message.                                      *)

Lag(a, r) == IF recs[r].closed /\ a # Chain(r) THEN [hist EXCEPT !.late = TRUE] ELSE hist

set_status(a) ==
  LET r == act[a].rec  f == Head(act[a].todo) IN
  /\ f.st = "status"
  /\ recs' = [recs EXCEPT ![r].snap.status = f.v,
                          ![r].closed = @ \/ (a = Chain(r) /\ f.v \in Terminal)]
  /\ act' = [act EXCEPT ![a].todo[1].st = "number"]
  /\ hist' = Lag(a, r)
  /\ UNCHANGED <<db, active, creation, sendNow>>

TakeNumber(a) ==
  LET r == act[a].rec  f == Head(act[a].todo) IN
  /\ f.st = "number"
  /\ recs' = [recs EXCEPT ![r].next = @ + 1,
                          ![r].nextMessage = IF Appends(f) THEN @ + 1 ELSE @,
                          ![r].current = IF f.role = "user" THEN recs[r].nextMessage ELSE @]
  /\ act' = [act EXCEPT ![a].todo[1] = [f EXCEPT !.st = IF Appends(f) THEN "clone" ELSE "remember",
                                                 !.n = recs[r].next, !.m = recs[r].nextMessage]]
  /\ UNCHANGED <<db, active, creation, sendNow, hist>>

Drained(s) == IF Len(s) > MaxEvents THEN SubSeq(s, Len(s) - MaxEvents + 1, Len(s)) ELSE s

push(a) ==
  LET r == act[a].rec  f == Head(act[a].todo) IN
  /\ f.st = "remember"
  /\ recs' = [recs EXCEPT ![r].events = Drained(Append(@, EventOf(f))),
                          ![r].disorder = @ \/ f.n # LastNumber(recs[r].events) + 1]
  /\ act' = [act EXCEPT ![a].todo[1] = [f EXCEPT !.st = "store", !.snap = recs[r].snap]]
  /\ UNCHANGED <<db, active, creation, sendNow, hist>>

append_message(a) ==
  LET f == Head(act[a].todo) IN
  /\ f.st = "clone"
  /\ act' = [act EXCEPT ![a].todo[1] = [f EXCEPT !.st = "store", !.snap = recs[act[a].rec].snap]]
  /\ UNCHANGED <<db, active, creation, sendNow, recs, hist>>

Persisted(a) ==
  LET f == Head(act[a].todo) IN
  persist_snapshot_event(db, recs[act[a].rec].chat, f.snap, EventOf(f), MessageOf(f))
Broken == [ok |-> FALSE, db |-> db]

(* The write, and on success the broadcast; a message is shown only now. *)
Finished(a, p) ==
  LET r == act[a].rec  f == Head(act[a].todo)  e == EventOf(f) IN
  /\ f.st = "store"
  /\ db' = p.db
  /\ recs' = [recs EXCEPT
       ![r].messages = IF p.ok THEN @ \o MessageOf(f) ELSE @,
       ![r].events = IF p.ok /\ Appends(f) THEN Append(@, e) ELSE @,
       ![r].sent = IF p.ok THEN Append(@, e) ELSE @,
       ![r].disorder = \/ @ \/ ~p.ok \/ f.n # recs[r].from + Len(recs[r].sent) + 1
                       \/ Appends(f) /\ f.n # LastNumber(recs[r].events) + 1]
  /\ act' = IF p.ok THEN [act EXCEPT ![a].todo = Tail(@), ![a].kept = @ \/ f.role = "user"]
            ELSE [act EXCEPT ![a].todo = <<>>, ![a].pc = act[a].err]
  /\ UNCHANGED <<active, creation, sendNow>>

Store(a) == Finished(a, Persisted(a)) /\ hist' = Lag(a, act[a].rec)
(* The database itself may fail, here once. *)
StoreFails(a) ==
  /\ load.breaks /\ ~hist.broken
  /\ Finished(a, Broken)
  /\ hist' = [Lag(a, act[a].rec) EXCEPT !.broken = TRUE]

SaveApproval(a) ==
  LET r == act[a].rec  f == Head(act[a].todo)
      p == save_approval(db, recs[r].chat, recs[r].current, f.v) IN
  /\ f.st = "approval"
  /\ db' = p.db
  /\ act' = IF p.ok THEN [act EXCEPT ![a].todo = Tail(@)]
            ELSE [act EXCEPT ![a].todo = <<>>, ![a].pc = act[a].err]
  /\ UNCHANGED <<active, creation, sendNow, recs, hist>>

Write(a) ==
  /\ act[a].todo # <<>>
  /\ \/ set_status(a) \/ TakeNumber(a) \/ push(a) \/ append_message(a)
     \/ Store(a) \/ StoreFails(a) \/ SaveApproval(a)

------------------------------------------------------------------------------
(* Starting a turn or a compaction, under the creation lock.                 *)

validate_message(req) == req.text # ""
Missing(req) == req.harness # "demo" /\ req.target # 0 /\ load_ssh_connection(db, req.target) = <<>>
(* A chat keeps its connection; one stored before connections had keys (-1)  *)
(* takes the first it is asked for.                                          *)
Moves(snap, req) == snap.target \notin {-1, req.target}
resume_session(snap, req) == IF snap.harness = req.harness THEN snap.session ELSE ""

start_chat_message(a) ==
  LET req == act[a].req IN
  /\ At(a, "start")
  /\ IF ~validate_message(req) THEN Fails(a) /\ UNCHANGED creation
     ELSE /\ creation = 0
          /\ IF active[req.chat] # 0 THEN Fails(a) /\ UNCHANGED creation
             ELSE Goes(a, "load") /\ creation' = a
  /\ UNCHANGED <<db, active, sendNow, recs, hist>>

(* The snapshot, the messages and the events are read in three calls; here it *)
(* is one, since what writes a chat that is not active are late writes of its *)
(* last turn only.  Another working directory is refused as another target is.*)
LoadPrevious(a) ==
  LET req == act[a].req  c == req.chat IN
  /\ At(a, "load")
  /\ IF ~has_chat(db, c) \/ Moves(db.chats[c].snap, req) \/ Missing(req)
     THEN Fails(a) /\ UNCHANGED recs
     ELSE LET row == load_chat(db, c)
              resume == resume_session(row.snap, req)
              snap == [row.snap EXCEPT !.status = "queued", !.draft = <<>>, !.session = resume,
                                       !.harness = req.harness, !.target = req.target]
          IN  /\ recs' = Append(recs, NewRecord(c, snap, row.messages, row.events, req, resume, "turn"))
              /\ act' = [act EXCEPT ![a].rec = Len(recs) + 1, ![a].pc = "activate",
                                    ![a].err = "failed",
                                    ![a].todo = <<Say("user", <<req.text>>),
                                                  Push("message_started", ""), Status("queued")>>]
  /\ UNCHANGED <<db, active, creation, sendNow, hist>>

CreateChat(a) ==
  LET req == act[a].req
      made == allocate_chat_id(db)
      c == made.chatIds
      snap == [status |-> "queued", draft |-> <<>>, session |-> "", harness |-> req.harness,
               target |-> req.target]
      message == [n |-> 1, role |-> "user", text |-> <<req.text>>]
      p == create_chat(made, c, snap, message)
  IN
  /\ At(a, "create")
  /\ creation = 0 \/ ~validate_message(req)
  /\ IF ~validate_message(req) \/ Missing(req) THEN Fails(a) /\ UNCHANGED <<creation, db, recs>>
     ELSE /\ creation' = a
          /\ db' = p.db
          /\ recs' = Append(recs, NewRecord(c, snap, <<message>>, <<>>, req, "", "turn"))
          /\ act' = [act EXCEPT ![a].rec = Len(recs) + 1, ![a].kept = TRUE,
                                ![a].pc = "activate", ![a].err = "failed",
                                ![a].todo = <<Push("message_started", ""), Status("queued")>>]
  /\ UNCHANGED <<active, sendNow, hist>>

compact_chat(a) ==
  LET req == act[a].req  c == req.chat IN
  /\ At(a, "compact")
  /\ creation = 0
  /\ IF \/ active[c] # 0 \/ ~has_chat(db, c)
        \/ db.chats[c].snap.harness # "claude" \/ req.harness # "claude"
        \/ db.chats[c].snap.session = "" \/ Moves(db.chats[c].snap, req)
        \/ Missing(req) \/ req.script = <<"unavailable">>
     THEN Fails(a) /\ UNCHANGED <<creation, recs>>
     ELSE LET row == load_chat(db, c)
              snap == [row.snap EXCEPT !.status = "queued", !.draft = <<>>]
          IN  /\ creation' = a
              /\ recs' = Append(recs, NewRecord(c, snap, row.messages, row.events, req,
                                                row.snap.session, "compaction"))
              /\ act' = [act EXCEPT ![a].rec = Len(recs) + 1, ![a].pc = "activate",
                                    ![a].err = "failed",
                                    ![a].todo = <<Push("compaction_requested", ""),
                                                  Status("queued")>>]
  /\ UNCHANGED <<db, active, sendNow, hist>>

(* The record becomes the active one, the lock is dropped, the task spawned.  *)
Begin(r) ==
  LET todo == <<Status("running")>> \o
              (IF recs[r].kind = "turn" /\ recs[r].harness = "demo"
               THEN <<Push("plan_created", "")>> ELSE <<>>)
  IN  [todo |-> todo, pc |-> IF recs[r].kind = "turn" THEN "run" ELSE "compacting"]

Activate(a) ==
  LET r == act[a].rec IN
  /\ At(a, "activate")
  /\ active' = [active EXCEPT ![recs[r].chat] = r]
  /\ creation' = 0
  /\ act' = (Chain(r) :> [Actor(Begin(r).pc, r, act[a].req) EXCEPT !.todo = Begin(r).todo,
                                                                   !.err = "over"])
            @@ [act EXCEPT ![a].pc = "done", ![a].res = "ok", ![a].msg = <<>>]
  /\ UNCHANGED <<db, sendNow, recs, hist>>

(* A message taken from the queue not given back. *)
FailedForgets(a) ==
  /\ At(a, "failed")
  /\ creation' = IF creation = a THEN 0 ELSE creation
  /\ act' = [act EXCEPT ![a].pc = "done", ![a].res = "error", ![a].msg = <<>>]
  /\ UNCHANGED <<db, active, sendNow, recs, hist>>

(* An early return drops the lock; a message taken from the queue goes back. *)
Failed(a) ==
  /\ At(a, "failed")
  /\ creation' = IF creation = a THEN 0 ELSE creation
  /\ IF act[a].msg = <<>> THEN Answers(a, "error") ELSE Goes(a, "return")
  /\ UNCHANGED <<db, active, sendNow, recs, hist>>

ReturnToQueue(a) ==
  /\ At(a, "return")
  /\ db' = enqueue(db, act[a].msg[1]).db
  /\ act' = [act EXCEPT ![a].pc = "done", ![a].res = "error", ![a].msg = <<>>]
  /\ UNCHANGED <<active, creation, sendNow, recs, hist>>

Start(a) ==
  \/ start_chat_message(a) \/ LoadPrevious(a) \/ CreateChat(a) \/ compact_chat(a)
  \/ Activate(a) \/ Failed(a) \/ ReturnToQueue(a)

------------------------------------------------------------------------------
(* execute_turn.  The runtime reads the provider's frames one by one, hands  *)
(* each to the sink, and asks the interaction handler where one asks.        *)

Delta(r) == "d" \o ToString(Len(recs[r].out) + 1)
Boundary == {"tool", "approval", "question"}
AskId(x) == IF x = "approval" THEN "a1" ELSE "q1"
Needs(x) == IF x = "approval" THEN "approval_needed" ELSE "input_needed"

(* ChatSink::emit: the snapshot first, then the text said so far when the    *)
(* frame is a boundary, the approval's row, and the event.                   *)
Emitted(r, x) ==
  LET s == recs[r].snap
      draft == IF x = "text" THEN Append(s.draft, Delta(r))
               ELSE IF x \in Boundary THEN <<>> ELSE s.draft
      status == IF x \in {"approval", "question"} THEN Needs(x) ELSE s.status
      session == IF x = "session" THEN recs[r].harness ELSE s.session
  IN  [s EXCEPT !.draft = draft, !.status = status, !.session = session]

EmitItems(r, x) ==
  (IF x \in Boundary /\ recs[r].snap.draft # <<>>
   THEN <<Say("assistant", recs[r].snap.draft)>> ELSE <<>>)
  \o (IF x = "approval" THEN <<Ask("a1")>> ELSE <<>>)
  \o <<Push("turn_event", IF x \in {"approval", "question"} THEN AskId(x) ELSE x)>>

emit(a) ==
  LET r == act[a].rec  x == Head(recs[r].script) IN
  /\ At(a, "run")
  /\ recs[r].script # <<>> /\ x \in Boundary \cup {"session", "text", "silent", "update"}
  /\ recs' = [recs EXCEPT ![r].script = Tail(@), ![r].snap = Emitted(r, x),
                          ![r].observed = @ \/ x = "text",
                          ![r].announced = @ \/ x = "session",
                          ![r].out = IF x \in {"text", "silent"} THEN Append(@, Delta(r)) ELSE @]
  /\ Writes(a, IF x = "silent" THEN <<>> ELSE EmitItems(r, x),
            IF x \in {"approval", "question"} THEN "ask " \o x ELSE "run", "error")
  /\ UNCHANGED <<db, active, creation, sendNow, hist>>

(* ChatInteractions: the status again, then the broker; a status that cannot *)
(* be stored denies.                                                         *)
AskUser(a, x) ==
  /\ At(a, "ask " \o x)
  /\ Writes(a, <<Status(Needs(x))>>, "wait " \o x, "denied")
  /\ UNCHANGED <<db, active, creation, sendNow, recs, hist>>

Tell(r, x, v) == [recs EXCEPT ![r].told = Append(@, <<AskId(x), v>>)]

Denied(a) ==
  /\ At(a, "denied")
  /\ recs' = [recs EXCEPT ![act[a].rec].told = Append(@, <<"", "deny">>)]
  /\ Goes(a, "run")
  /\ UNCHANGED <<db, active, creation, sendNow, hist>>

(* An answer that came first not looked for. *)
RegisterForgets(a, x) ==
  LET r == act[a].rec IN
  /\ At(a, "wait " \o x)
  /\ recs' = [recs EXCEPT ![r].broker[AskId(x)].st = "waiting"]
  /\ Goes(a, "waiting " \o x)
  /\ UNCHANGED <<db, active, creation, sendNow, hist>>

Register(a, x) ==
  LET r == act[a].rec  slot == recs[r].broker[AskId(x)] IN
  /\ At(a, "wait " \o x)
  /\ CASE slot.st = "none" ->
            recs' = [recs EXCEPT ![r].broker[AskId(x)].st = "waiting"] /\ Goes(a, "waiting " \o x)
       [] slot.st = "staged" ->
            /\ recs' = [Tell(r, x, slot.v) EXCEPT ![r].broker[AskId(x)].st = "resolved"]
            /\ Goes(a, "run")
       [] OTHER -> recs' = Tell(r, x, "deny") /\ Goes(a, "run")
  /\ UNCHANGED <<db, active, creation, sendNow, hist>>

Decided(a, x) ==
  LET r == act[a].rec  slot == recs[r].broker[AskId(x)] IN
  /\ At(a, "waiting " \o x)
  /\ slot.st = "resolved"
  /\ recs' = Tell(r, x, slot.v)
  /\ Goes(a, "run")
  /\ UNCHANGED <<db, active, creation, sendNow, hist>>

finish_turn(a) ==
  LET r == act[a].rec  x == Head(recs[r].script)  s == recs[r].snap
      text == IF s.draft # <<>> THEN s.draft
              ELSE IF recs[r].observed THEN <<>> ELSE recs[r].out
  IN
  /\ At(a, "run")
  /\ recs[r].script # <<>> /\ x \in {"done", "fail"}
  /\ recs' = [recs EXCEPT ![r].script = <<>>, ![r].snap.draft = <<>>,
                          ![r].snap.session = IF recs[r].announced THEN recs[r].harness ELSE ""]
  /\ Writes(a, <<Push("turn_result", "")>>
               \o (IF text = <<>> THEN <<>> ELSE <<Say("assistant", text)>>)
               \o <<Status(IF x = "done" THEN "succeeded" ELSE "failed")>>, "over", "over")
  /\ UNCHANGED <<db, active, creation, sendNow, hist>>

(* Any other failure of the run: a dead provider, or a sink that failed. *)
RunFails(a) ==
  LET r == act[a].rec IN
  /\ \/ At(a, "error")
     \/ At(a, "run") /\ recs[r].script # <<>> /\ Head(recs[r].script) = "dies"
  /\ recs' = [recs EXCEPT ![r].script = <<>>, ![r].snap.draft = <<>>]
  /\ Writes(a, <<Push("chat_error", ""), Status("failed")>>, "over", "over")
  /\ UNCHANGED <<db, active, creation, sendNow, hist>>

Asking == {"ask approval", "ask question", "wait approval", "wait question",
           "waiting approval", "waiting question", "denied"}

(* A future dropped in the middle of a write: the database may still do it,  *)
(* nobody hears of it.                                                       *)
Abandoned(a, done) ==
  IF done /\ act[a].todo # <<>> /\ Head(act[a].todo).st = "store" THEN Persisted(a).db ELSE db
MayBeDone(a) == act[a].todo # <<>> /\ Head(act[a].todo).st = "store"
Cut(a) == [hist EXCEPT !.cut = @ \/ act[a].todo # <<>>]
Forgets(r) ==
  [recs EXCEPT ![r].broker = [id \in DOMAIN @ |-> IF @[id].st = "waiting"
                                                  THEN [st |-> "none", v |-> ""] ELSE @[id]]]

(* Cancellation is seen between frames and while the user is asked. *)
CancelSeen(a) ==
  LET r == act[a].rec IN
  /\ recs[r].kind = "turn" /\ recs[r].cancelled
  /\ \/ At(a, "run") /\ recs[r].script # <<>>
     \/ act[a].pc \in Asking \ {"ask approval", "ask question"}
     \/ At(a, "ask approval") \/ At(a, "ask question")
  /\ \E done \in {FALSE, MayBeDone(a)} : db' = Abandoned(a, done)
  /\ recs' = [Forgets(r) EXCEPT ![r].script = <<>>]
  /\ Writes(a, <<Status("cancelled")>>, "over", "over")
  /\ hist' = Cut(a)
  /\ UNCHANGED <<active, creation, sendNow>>

InteractionTimesOut(a) ==
  LET r == act[a].rec IN
  /\ load.timeouts
  /\ act[a].pc \in Asking \ {"ask approval", "ask question", "denied"}
  /\ \E done \in {FALSE, MayBeDone(a)} : db' = Abandoned(a, done)
  /\ recs' = [Forgets(r) EXCEPT ![r].told = Append(@, <<"", "deny">>)]
  /\ Writes(a, <<>>, "run", "error")
  /\ hist' = Cut(a)
  /\ UNCHANGED <<active, creation, sendNow>>

(* The turn's own deadline drops the run wherever it is. *)
TurnTimesOut(a) ==
  LET r == act[a].rec IN
  /\ load.timeouts
  /\ recs[r].kind = "turn" /\ act[a].pc \in Asking \cup {"run"} /\ act[a].err # "over"
  /\ \E done \in {FALSE, MayBeDone(a)} : db' = Abandoned(a, done)
  /\ recs' = [Forgets(r) EXCEPT ![r].script = <<>>]
  /\ Writes(a, <<>>, "error", "over")
  /\ hist' = Cut(a)
  /\ UNCHANGED <<active, creation, sendNow>>

Turn(a) ==
  /\ a \notin Handlers
  /\ \/ emit(a) \/ Denied(a) \/ finish_turn(a) \/ RunFails(a)
     \/ CancelSeen(a) \/ InteractionTimesOut(a) \/ TurnTimesOut(a)
     \/ \E x \in {"approval", "question"} : AskUser(a, x) \/ Register(a, x) \/ Decided(a, x)

------------------------------------------------------------------------------
(* execute_compaction, with the task that passes a cancellation on.          *)

Compacting(a) ==
  LET r == act[a].rec IN
  /\ At(a, "compacting")
  /\ IF recs[r].script = <<"reject">>
     THEN /\ Writes(a, <<Push("chat_error", ""), Status("failed")>>, "over", "over")
     ELSE /\ act' = (Interrupt(r) :> Actor("interrupt", r, act[a].req))
                    @@ [act EXCEPT ![a].pc = "compaction", ![a].err = "compaction"]
  /\ UNCHANGED <<db, active, creation, sendNow, recs, hist>>

(* A compaction event that cannot be stored is only logged. *)
persist_compaction_envelope(a) ==
  LET r == act[a].rec IN
  /\ At(a, "compaction")
  /\ recs[r].script # <<>> /\ Head(recs[r].script) \in {"started", "progress", "completed", "failed"}
  /\ recs' = [recs EXCEPT ![r].script = Tail(@)]
  /\ Writes(a, <<Push("compaction_event", Head(recs[r].script))>>, "compaction", "compaction")
  /\ UNCHANGED <<db, active, creation, sendNow, hist>>

InterruptCompaction(a) ==
  LET r == act[a].rec IN
  /\ At(a, "interrupt")
  /\ recs[r].cancelled
  /\ recs' = [recs EXCEPT ![r].script = IF @ = <<>> THEN @ ELSE <<"failed", "interrupted">>]
  /\ Writes(a, <<Push("compaction_interrupt", "")>>, "done", "done")
  /\ UNCHANGED <<db, active, creation, sendNow, hist>>

(* The stream is over: the interrupt task is aborted wherever it is. *)
CompactionEnds(a) ==
  LET r == act[a].rec  x == Head(recs[r].script)
      items == IF x \in {"done", "fail"}
               THEN <<Push("compaction_result", ""),
                      Status(IF x = "done" THEN "succeeded" ELSE "failed")>>
               ELSE <<Push("chat_error", ""),
                      Status(IF x = "interrupted" THEN "cancelled" ELSE "failed")>>
  IN
  /\ At(a, "compaction")
  /\ recs[r].script # <<>> /\ x \in {"done", "fail", "interrupted", "dies"}
  /\ recs' = [recs EXCEPT ![r].script = <<>>,
                          ![r].snap.session = IF x \in {"done", "fail"} THEN recs[r].harness ELSE @]
  /\ \E done \in {FALSE, MayBeDone(Interrupt(r))} : db' = Abandoned(Interrupt(r), done)
  /\ act' = [act EXCEPT ![a].todo = items, ![a].pc = "over", ![a].err = "over",
                        ![Interrupt(r)].todo = <<>>, ![Interrupt(r)].pc = "done"]
  /\ hist' = Cut(Interrupt(r))
  /\ UNCHANGED <<active, creation, sendNow>>

Compaction(a) ==
  \/ Compacting(a) \/ persist_compaction_envelope(a) \/ InterruptCompaction(a) \/ CompactionEnds(a)

------------------------------------------------------------------------------
(* dispatch_after_operation: the record leaves, then the message chosen by    *)
(* "send now", or else the next one, is taken and started.                   *)

RemoveActive(a) ==
  LET r == act[a].rec  c == recs[r].chat IN
  /\ At(a, "over")
  /\ IF active[c] = r THEN active' = [active EXCEPT ![c] = 0] /\ Goes(a, "take")
     ELSE Answers(a, "ok") /\ UNCHANGED active
  /\ UNCHANGED <<db, creation, sendNow, recs, hist>>

dispatch_after_operation(a) ==
  LET c == recs[act[a].rec].chat
      preferred == sendNow[c]
      taken == IF preferred = <<>> THEN pop_next_queued(db, c)
               ELSE pop_queued(db, c, preferred[1])
      req == IF preferred = <<>> THEN act[a].req ELSE preferred[2]
  IN
  /\ At(a, "take")
  /\ sendNow' = [sendNow EXCEPT ![c] = <<>>]
  /\ db' = taken.db
  /\ act' = IF taken.found = <<>> THEN [act EXCEPT ![a].pc = "done", ![a].res = "ok"]
            ELSE [act EXCEPT ![a].pc = "start", ![a].msg = taken.found, ![a].kept = FALSE,
                             ![a].req = [req EXCEPT !.chat = c, !.text = taken.found[1].text,
                                                    !.script = load.follow]]
  /\ UNCHANGED <<active, creation, recs, hist>>

Dispatch(a) == RemoveActive(a) \/ dispatch_after_operation(a)

------------------------------------------------------------------------------
(* The handlers.                                                             *)

SendMessage(a) == At(a, "send") /\ Goes(a, "start") /\ UNCHANGED <<db, active, creation, sendNow, recs, hist>>

EnqueueMessage(a) ==
  LET req == act[a].req IN
  /\ At(a, "enqueue")
  /\ IF ~validate_message(req) \/ ~has_chat(db, req.chat) THEN Answers(a, "error") ELSE Goes(a, "insert")
  /\ UNCHANGED <<db, active, creation, sendNow, recs, hist>>

enqueue_message(a) ==
  LET req == act[a].req
      made == allocate_queued_message_id(db)
      p == enqueue(made, [n |-> made.queuedIds, chat |-> req.chat, text |-> req.text, revision |-> 1])
  IN
  /\ At(a, "insert")
  /\ db' = p.db
  /\ Answers(a, IF p.ok THEN "ok" ELSE "error")
  /\ UNCHANGED <<active, creation, sendNow, recs, hist>>

(* The revision a client saw decides; the one stored gives the next. *)
EditMessage(a) ==
  LET req == act[a].req  found == load_queued(db, req.chat, req.n) IN
  /\ At(a, "edit")
  /\ IF ~validate_message(req) \/ found = <<>> THEN Answers(a, "error")
     ELSE act' = [act EXCEPT ![a].pc = "update",
                             ![a].msg = <<[found[1] EXCEPT !.revision = @ + 1, !.text = req.text]>>]
  /\ UNCHANGED <<db, active, creation, sendNow, recs, hist>>

update_queued_message(a) ==
  LET p == update_queued(db, act[a].msg[1], act[a].req.revision) IN
  /\ At(a, "update")
  /\ db' = p.db
  /\ act' = [act EXCEPT ![a].pc = "done", ![a].res = IF p.ok THEN "ok" ELSE "error", ![a].msg = <<>>]
  /\ UNCHANGED <<active, creation, sendNow, recs, hist>>

send_queued_message_now(a) ==
  LET req == act[a].req IN
  /\ At(a, "sendnow")
  /\ IF load_queued(db, req.chat, req.n) = <<>> THEN Answers(a, "error") ELSE Goes(a, "find")
  /\ UNCHANGED <<db, active, creation, sendNow, recs, hist>>

FindToSend(a) ==
  LET r == active[act[a].req.chat] IN
  /\ At(a, "find")
  /\ act' = [act EXCEPT ![a].pc = IF r # 0 THEN "prefer" ELSE "pop", ![a].rec = r]
  /\ UNCHANGED <<db, active, creation, sendNow, recs, hist>>

PreferQueued(a) ==
  LET req == act[a].req IN
  /\ At(a, "prefer")
  /\ IF sendNow[req.chat] # <<>> THEN Answers(a, "error") /\ UNCHANGED sendNow
     ELSE /\ sendNow' = [sendNow EXCEPT ![req.chat] = <<req.n, req>>]
          /\ Writes(a, <<Status("cancelling")>>, "signal", "failed")
  /\ UNCHANGED <<db, active, creation, recs, hist>>

PopToSend(a) ==
  LET req == act[a].req  taken == pop_queued(db, req.chat, req.n) IN
  /\ At(a, "pop")
  /\ db' = taken.db
  /\ IF taken.found = <<>> THEN Answers(a, "error")
     ELSE act' = [act EXCEPT ![a].pc = "start", ![a].msg = taken.found,
                             ![a].req.text = taken.found[1].text]
  /\ UNCHANGED <<active, creation, sendNow, recs, hist>>

(* Cancelling: the status, then the token. *)
cancel_chat(a) ==
  LET c == act[a].req.chat  r == active[c] IN
  /\ At(a, "cancel")
  /\ IF r # 0 THEN act' = [act EXCEPT ![a].pc = "check", ![a].rec = r]
     ELSE Answers(a, IF has_chat(db, c) /\ db.chats[c].snap.status \in Terminal
                     THEN "ok" ELSE "error")
  /\ UNCHANGED <<db, active, creation, sendNow, recs, hist>>

CheckStatus(a) ==
  /\ At(a, "check")
  /\ IF recs[act[a].rec].snap.status \in Terminal THEN Answers(a, "ok")
     ELSE Writes(a, <<Status("cancelling")>>, "signal", "failed")
  /\ UNCHANGED <<db, active, creation, sendNow, recs, hist>>

SignalCancel(a) ==
  /\ At(a, "signal")
  /\ recs' = [recs EXCEPT ![act[a].rec].cancelled = TRUE]
  /\ Answers(a, "ok")
  /\ UNCHANGED <<db, active, creation, sendNow, hist>>

(* InteractionBroker::resolve, as the handlers use it. *)
Accepts(slot) == slot.st \in {"none", "waiting"}
Resolved(slot, v) == [st |-> IF slot.st = "waiting" THEN "resolved" ELSE "staged", v |-> v]

(* An approval is decided in the store first, then delivered. *)
FindToAnswer(a) ==
  LET r == active[act[a].req.chat] IN
  /\ At(a, "approve") \/ At(a, "answer")
  /\ IF r = 0 THEN Answers(a, "error")
     ELSE act' = [act EXCEPT ![a].rec = r, ![a].pc = IF @ = "approve" THEN "decide" ELSE "pending"]
  /\ UNCHANGED <<db, active, creation, sendNow, recs, hist>>

(* The store's refusal ignored. *)
DecideAnyway(a) ==
  LET r == act[a].rec
      p == resolve_approval(db, recs[r].chat, recs[r].current, "a1", act[a].req.decision) IN
  /\ At(a, "decide")
  /\ db' = p.db
  /\ Goes(a, "deliver")
  /\ UNCHANGED <<active, creation, sendNow, recs, hist>>

DecideApproval(a) ==
  LET r == act[a].rec
      p == resolve_approval(db, recs[r].chat, recs[r].current, "a1", act[a].req.decision) IN
  /\ At(a, "decide")
  /\ db' = p.db
  /\ IF p.ok THEN Goes(a, "deliver") ELSE Answers(a, "error")
  /\ UNCHANGED <<active, creation, sendNow, recs, hist>>

DeliverApproval(a) ==
  LET r == act[a].rec  slot == recs[r].broker["a1"] IN
  /\ At(a, "deliver")
  /\ IF Accepts(slot)
     THEN /\ recs' = [recs EXCEPT ![r].broker["a1"] = Resolved(slot, act[a].req.decision)]
          /\ Writes(a, <<Status("running")>>, "answered", "failed")
     ELSE Answers(a, "error") /\ UNCHANGED recs
  /\ UNCHANGED <<db, active, creation, sendNow, hist>>

resolve_question(a) ==
  LET r == act[a].rec
      asked == \E i \in 1..Len(recs[r].events) :
                 recs[r].events[i].kind = "turn_event" /\ recs[r].events[i].v = "q1"
  IN
  /\ At(a, "pending")
  /\ IF recs[r].snap.status = "input_needed" /\ asked THEN Goes(a, "reply") ELSE Answers(a, "error")
  /\ UNCHANGED <<db, active, creation, sendNow, recs, hist>>

DeliverAnswer(a) ==
  LET r == act[a].rec  slot == recs[r].broker["q1"] IN
  /\ At(a, "reply")
  /\ IF Accepts(slot)
     THEN /\ recs' = [recs EXCEPT ![r].broker["q1"] = Resolved(slot, "answer")]
          /\ Writes(a, <<Push("question_answered", ""), Status("running")>>, "answered", "failed")
     ELSE Answers(a, "error") /\ UNCHANGED recs
  /\ UNCHANGED <<db, active, creation, sendNow, hist>>

Answered(a) == At(a, "answered") /\ Answers(a, "ok") /\ UNCHANGED <<db, active, creation, sendNow, recs, hist>>

(* SSH targets are saved under fresh ids and never edited. *)
SaveTarget(a) ==
  LET made == allocate_ssh_connection_id(db) IN
  /\ At(a, "saveTarget")
  /\ db' = save_ssh_connection(made, act[a].req.text)
  /\ Answers(a, "ok")
  /\ UNCHANGED <<active, creation, sendNow, recs, hist>>

DeleteTarget(a) ==
  LET p == delete_ssh_connection(db, act[a].req.target) IN
  /\ At(a, "deleteTarget")
  /\ db' = p.db
  /\ Answers(a, IF p.ok THEN "ok" ELSE "error")
  /\ UNCHANGED <<active, creation, sendNow, recs, hist>>

(* An upload writes a file of its own through the target; one retry. *)
upload_attachment(a) ==
  /\ At(a, "upload")
  /\ IF Missing(act[a].req) THEN Answers(a, "error") ELSE Goes(a, "first")
  /\ UNCHANGED <<db, active, creation, sendNow, recs, hist>>

(* Writing, exit status and deadline: the file may hold a part, or all of it *)
(* although the process never reported.                                      *)
store_upload_once == { [file |-> "whole", res |-> "ok"], [file |-> "whole", res |-> "retry"],
                       [file |-> "part", res |-> "retry"], [file |-> "part", res |-> "error"],
                       [file |-> "none", res |-> "retry"], [file |-> "none", res |-> "error"] }

store_upload(a) ==
  /\ At(a, "first") \/ At(a, "second")
  /\ \E o \in store_upload_once :
       act' = [act EXCEPT ![a].file = IF o.file = "none" THEN @ ELSE o.file,
                          ![a].pc = IF o.res = "retry" /\ @ = "first" THEN "second" ELSE "done",
                          ![a].res = IF o.res = "retry" THEN "error" ELSE o.res]
  /\ UNCHANGED <<db, active, creation, sendNow, recs, hist>>

Handle(a) ==
  \/ SendMessage(a) \/ EnqueueMessage(a) \/ enqueue_message(a) \/ EditMessage(a)
  \/ update_queued_message(a) \/ send_queued_message_now(a) \/ FindToSend(a) \/ PreferQueued(a)
  \/ PopToSend(a) \/ cancel_chat(a) \/ CheckStatus(a) \/ SignalCancel(a) \/ FindToAnswer(a)
  \/ DecideApproval(a) \/ DeliverApproval(a) \/ resolve_question(a) \/ DeliverAnswer(a)
  \/ Answered(a) \/ SaveTarget(a) \/ DeleteTarget(a) \/ upload_attachment(a) \/ store_upload(a)

------------------------------------------------------------------------------
(* stream_events: subscribe, then replay, then follow.                       *)

EndsStream(e) == e.kind = "chat_status" /\ e.v \in Terminal

(* What is sent of a list: all of it up to the first end. *)
UpToEnd(s) ==
  LET ends == {i \in 1..Len(s) : EndsStream(s[i])}
  IN  IF ends = {} THEN s ELSE SubSeq(s, 1, CHOOSE i \in ends : \A j \in ends : i <= j)
Shows(a, s) == [act EXCEPT ![a].seen = @ \o [i \in 1..Len(s) |-> s[i].n],
                           ![a].last = IF s = <<>> THEN @ ELSE Last(s).n]

Subscribe(a) ==
  LET r == active[act[a].req.chat] IN
  /\ At(a, "stream")
  /\ act' = [act EXCEPT ![a].pc = "replay", ![a].rec = r, ![a].last = act[a].req.after,
                        ![a].pos = IF r = 0 THEN 0 ELSE Len(recs[r].sent)]
  /\ UNCHANGED <<db, active, creation, sendNow, recs, hist>>

Replay(a) ==
  LET r == act[a].rec  c == act[a].req.chat
      stored == IF has_chat(db, c) THEN load_chat(db, c).events ELSE <<>>
      shown == UpToEnd(After(IF r = 0 THEN stored ELSE recs[r].events, act[a].req.after))
      over == r = 0 \/ (shown # <<>> /\ EndsStream(Last(shown)))
  IN
  /\ At(a, "replay")
  /\ act' = [Shows(a, shown) EXCEPT ![a].pc = IF over THEN "done" ELSE "live",
                                    ![a].res = IF ~over THEN ""
                                               ELSE IF r = 0 /\ ~has_chat(db, c) THEN "error" ELSE "ok"]
  /\ UNCHANGED <<db, active, creation, sendNow, recs, hist>>

(* A lag passed over. *)
LagSkips(a) ==
  LET r == act[a].rec  sent == recs[r].sent
      at == IF Len(sent) - act[a].pos > Channel THEN Len(sent) - Channel ELSE act[a].pos
      e == sent[at + 1]  over == e.n > act[a].last /\ EndsStream(e) IN
  /\ At(a, "live")
  /\ act[a].pos < Len(sent)
  /\ act' = [(IF e.n > act[a].last THEN Shows(a, <<e>>) ELSE act)
               EXCEPT ![a].pos = at + 1, ![a].pc = IF over THEN "done" ELSE @,
                      ![a].res = IF over THEN "ok" ELSE @]
  /\ UNCHANGED <<db, active, creation, sendNow, recs, hist>>

(* A receiver that fell behind is refilled from memory; an end found there    *)
(* leaves only the inner loop.                                               *)
Receive(a) ==
  LET r == act[a].rec  sent == recs[r].sent  behind == Len(sent) - act[a].pos > Channel IN
  /\ At(a, "live")
  /\ act[a].pos < Len(sent)
  /\ IF behind
     THEN act' = [Shows(a, UpToEnd(After(recs[r].events, act[a].last)))
                    EXCEPT ![a].pos = Len(sent) - Channel]
     ELSE LET e == sent[act[a].pos + 1]  over == e.n > act[a].last /\ EndsStream(e) IN
          act' = [(IF e.n > act[a].last THEN Shows(a, <<e>>) ELSE act)
                    EXCEPT ![a].pos = @ + 1, ![a].pc = IF over THEN "done" ELSE @,
                           ![a].res = IF over THEN "ok" ELSE @]
  /\ UNCHANGED <<db, active, creation, sendNow, recs, hist>>

Stream(a) == Subscribe(a) \/ Replay(a) \/ Receive(a)

------------------------------------------------------------------------------
(* Faults: a client that disconnects drops its handler; a crash drops        *)
(* everything, and a new server recovers what the store says was interrupted.*)

Begun(a) == act[a].pc # act[a].req.op
Dropped(a) == [act[a] EXCEPT !.pc = "done", !.res = "gone", !.todo = <<>>, !.msg = <<>>]

DropHandler(a) ==
  /\ load.drops /\ a \in Handlers
  /\ Begun(a) /\ act[a].pc # "done"
  /\ \E done \in {FALSE, MayBeDone(a)} : db' = Abandoned(a, done)
  /\ creation' = IF creation = a THEN 0 ELSE creation
  /\ act' = [act EXCEPT ![a] = Dropped(a)]
  /\ hist' = [hist EXCEPT !.dropped = TRUE]
  /\ UNCHANGED <<active, sendNow, recs>>

Restart ==
  /\ load.crashes /\ ~hist.crashed
  /\ \E last \in {db} \cup {Persisted(a).db : a \in {a \in DOMAIN act : MayBeDone(a)}} :
       db' = recover_interrupted_chats(last)
  /\ active' = [c \in ChatIds |-> 0]
  /\ creation' = 0
  /\ sendNow' = [c \in ChatIds |-> <<>>]
  /\ act' = [a \in DOMAIN act |-> IF ~Begun(a) \/ act[a].pc = "done"
                                  THEN act[a] ELSE Dropped(a)]
  /\ hist' = [hist EXCEPT !.crashed = TRUE]
  /\ UNCHANGED recs

Work(a) ==
  \/ Write(a) \/ Start(a) \/ Turn(a) \/ Compaction(a) \/ Dispatch(a) \/ Handle(a) \/ Stream(a)

Next ==
  /\ \/ \E a \in DOMAIN act : Work(a) \/ DropHandler(a)
     \/ Restart
  /\ UNCHANGED load

Spec == Init /\ [][Next]_vars

------------------------------------------------------------------------------
(* Properties.                                                               *)

Chains == {a \in DOMAIN act : a > 100 /\ a < 200}
Busy(a) == a \in Chains /\ act[a].pc \notin {"take", "start", "load", "activate", "failed",
                                             "return", "done"}

(* A chat never has two turns or compactions: the record found through       *)
(* active_chats is the one whose task is at work, from its activation under  *)
(* the creation lock to its removal in dispatch_after_operation, whoever     *)
(* sends, compacts, dispatches or presses "send now" meanwhile.              *)
OneTurn ==
  \A r \in 1..Len(recs) :
    /\ Busy(Chain(r)) => active[recs[r].chat] = r \/ hist.crashed
    /\ active[recs[r].chat] = r => Busy(Chain(r))

(* The words of one message: as sent or queued, and as edited while queued. *)
Rewrites(n) == {load.calls[i].text : i \in {i \in Handlers : load.calls[i].op = "edit"
                                                             /\ load.calls[i].n = n}}
Messages ==
  {[chat |-> q.chat, words |-> {q.text} \cup Rewrites(q.n)] : q \in Range(load.db.queue)}
  \cup {[chat |-> act[a].req.chat, words |-> {act[a].req.text}] :
          a \in {a \in Handlers : load.calls[a].op \in {"send", "enqueue"} /\ act[a].res = "ok"}}
InQueue(m) == {<<"queue", q.n>> : q \in {q \in Range(db.queue) : q.chat = m.chat /\ q.text \in m.words}}
InHand(m) == {a \in DOMAIN act : /\ act[a].pc \in {"start", "load", "activate", "failed", "return"}
                                 /\ act[a].msg # <<>> /\ ~act[a].kept
                                 /\ act[a].msg[1].chat = m.chat /\ act[a].msg[1].text \in m.words}
InChat(m) == {<<"chat", x.n>> : x \in {x \in Range(db.chats[m.chat].messages) :
                                         x.role = "user" /\ x.text[1] \in m.words}}
Places(m) == Cardinality(InQueue(m)) + Cardinality(InHand(m)) + Cardinality(InChat(m))
Untouched == ~hist.dropped /\ ~hist.crashed /\ ~hist.broken

(* No accepted message is lost or sent twice: whichever of the dispatcher,   *)
(* "send now" and another sender wins, a message is queued, in the hands of  *)
(* the one starting it, or in the transcript, in exactly one of them; and an *)
(* accepted edit is what is sent.  A write arriving on a record whose turn   *)
(* has ended can collide with the next record's numbers and send one twice   *)
(* (hist.late); a crash or a client that disconnects between taking and      *)
(* appending can lose one, and a store failing after the append sends it     *)
(* again.                                                                    *)
MessagesKept ==
  Untouched =>
    /\ \A m \in Messages : has_chat(db, m.chat) =>
         Places(m) = 1 \/ (hist.late /\ Places(m) > 1)
    /\ \A a \in Handlers : load.calls[a].op = "edit" /\ act[a].res = "ok" =>
         \A q \in Range(load.db.queue) : q.n = load.calls[a].n =>
           Places([chat |-> q.chat, words |-> {q.text}]) = 0

(* The provider is told "allow" only for the decision the store holds, once, *)
(* and only while asking: of two people deciding at once one wins in the     *)
(* store, and only that one is delivered.                                    *)
DecisionAgrees ==
  \A r \in 1..Len(recs) :
    LET allowed == {i \in 1..Len(recs[r].told) : recs[r].told[i] = <<"a1", "allow">>}
        key == <<recs[r].chat, recs[r].current, "a1">>
    IN  /\ Cardinality(allowed) <= 1
        /\ allowed # {} /\ has_chat(db, recs[r].chat) /\ recs[r].current > 0 =>
             key \in DOMAIN db.approvals /\ db.approvals[key] = "allow"

(* Where an actor can have to wait for another. *)
Waiting == {"done", "live", "waiting approval", "waiting question", "interrupt", "start",
            "create", "compact", "run", "compaction"}
Rest == /\ \A a \in DOMAIN act : act[a].todo = <<>> /\ act[a].pc \in Waiting
        /\ ~ENABLED (\E a \in DOMAIN act : Work(a))
Contiguous(s) == \A i \in 1..(Len(s) - 1) : s[i + 1].n = s[i].n + 1
Said(c, r) ==
  LET own == SelectSeq(db.chats[c].messages, LAMBDA x : x.n > recs[r].current /\ x.role = "assistant")
  IN  FlattenSeq([i \in 1..Len(own) |-> own[i].text])
LastOf(c) == LET rs == {r \in 1..Len(recs) : recs[r].chat = c}
             IN  IF rs = {} THEN 0 ELSE CHOOSE r \in rs : \A q \in rs : q <= r

(* When the server is quiet, what a chat stored is its true history: a chat  *)
(* without a turn has ended, its status is the last one announced, messages  *)
(* and events have no holes, no draft remains of a turn that succeeded, and  *)
(* the transcript holds the text of that turn once, whether it came as       *)
(* deltas, between tools or only with the result.  Late writes and faults    *)
(* excepted; a write cut off by a cancellation leaves a hole in the numbers. *)
SettledHistory ==
  Rest /\ Untouched /\ ~hist.late =>
    \A c \in DOMAIN db.chats :
      LET row == db.chats[c]  r == LastOf(c)
          statuses == SelectSeq(row.events, LAMBDA e : e.kind = "chat_status")
      IN  active[c] = 0 /\ r # 0 =>
            /\ row.snap.status \in Terminal
            /\ statuses # <<>> => Last(statuses).v = row.snap.status
            /\ (hist.cut \/ Contiguous(row.events)) /\ Contiguous(row.messages)
            /\ row.snap.status = "succeeded" /\ recs[r].kind = "turn" =>
                 row.snap.draft = <<>> /\ Said(c, r) = recs[r].out

Streams == {a \in Handlers : load.calls[a].op = "stream" /\ act[a].rec # 0}
(* Waiting for what its record will never send: the end came with a refill,  *)
(* or before the stream's own starting point.                                *)
Outlived(a) ==
  LET r == act[a].rec  ends == {e.n : e \in {e \in Range(recs[r].events) : EndsStream(e)}}
  IN  \E n \in ends : n > recs[r].from /\ (n \in Range(act[a].seen) \/ n <= act[a].req.after)

(* A stream shows every event of its record after the one asked for, once    *)
(* and in order, across the join of replay and live events and the refill    *)
(* after a lag, as long as no two writers raced on the record's numbers; and *)
(* it ends with the turn, unless its end came in a refill or lies before the *)
(* point it asked for.                                                       *)
StreamsComplete ==
  \A a \in Streams :
    LET r == act[a].rec  seen == act[a].seen IN
    ~recs[r].disorder /\ ~hist.late =>
      /\ \A i \in 1..(Len(seen) - 1) : seen[i + 1] = seen[i] + 1
      /\ seen # <<>> /\ Len(recs[r].events) < MaxEvents => seen[1] = act[a].req.after + 1
      /\ act[a].pc = "live" /\ Untouched /\ Rest => Busy(Chain(r)) \/ Outlived(a)

(* Nobody waits for what cannot come: when the server is quiet every handler *)
(* has answered, no lock is held, and a task still at work is one waiting    *)
(* for an answer that nobody has given.                                      *)
NothingStuck ==
  Rest =>
    /\ creation = 0
    /\ \A a \in Handlers \ Streams : act[a].pc = "done"
    /\ \A a \in DOMAIN act \ Handlers : act[a].pc # "done" =>
         /\ act[a].pc \in {"waiting approval", "waiting question"}
         /\ ~recs[act[a].rec].cancelled /\ ~load.timeouts
         /\ act[a].pc = "waiting question" => \A h \in Handlers :
              load.calls[h].op = "answer" /\ act[h].rec = act[a].rec => act[h].res # "ok"
         /\ act[a].pc = "waiting approval" => \A h \in Handlers :
              load.calls[h].op = "approve" /\ act[h].rec = act[a].rec => act[h].res # "ok"

(* A chat stays where it began: every turn of it runs on the connection the  *)
(* chat was made for, and resumes only a session of the harness it runs,     *)
(* through queued messages, "send now" and deleted connections.              *)
TurnsStayHome ==
  \A r \in 1..Len(recs) :
    /\ recs[r].resume \in {"", recs[r].harness}
    /\ \A q \in 1..Len(recs) :
         recs[q].chat = recs[r].chat /\ "demo" \notin {recs[q].harness, recs[r].harness} =>
           recs[q].host = recs[r].host

(* After a restart no chat is left in the middle of a turn that nobody runs, *)
(* but for one that waited for an answer (recover_interrupted_chats).        *)
RestartEndsTurns ==
  hist.crashed /\ Rest => \A c \in DOMAIN db.chats :
    active[c] = 0 => db.chats[c].snap.status \in Terminal \cup {"input_needed"}

(* An accepted message is never lost, nor sent twice but for a late write:   *)
(* it waits in the queue or has one turn of its own chat, where the chat     *)
(* lives, and no two turns of a chat run at once.  That a queued message is  *)
(* sent in the end is not said here: one marked "send now" may stay queued   *)
(* after its mark went stale (main.rs:2282).                                 *)
MessagesGetTheirTurn == MessagesKept /\ OneTurn /\ TurnsStayHome

(* What is stored and what a stream shows are the chat's whole history, also *)
(* after a restart.                                                          *)
HistoryIsWhole == SettledHistory /\ StreamsComplete /\ RestartEndsTurns
=============================================================================
