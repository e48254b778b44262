---------------------------- MODULE MCChatServer ----------------------------
(* Workloads for ChatServer: clients of one or two chats that send, queue,   *)
(* edit, cancel, answer, watch and compact at the same time.                 *)
EXTENDS ChatServer

Call(op) == [op |-> op, chat |-> 1, text |-> "", harness |-> "claude", target |-> 0,
             script |-> <<>>, n |-> 0, revision |-> 0, decision |-> "", after |-> 0]

Create(script) == [Call("create") EXCEPT !.text = "m0", !.script = script]
Send(text, script) == [Call("send") EXCEPT !.text = text, !.script = script]
Enqueue(text) == [Call("enqueue") EXCEPT !.text = text]
Edit(n, text, revision) == [Call("edit") EXCEPT !.n = n, !.text = text, !.revision = revision]
SendNow(n, script) == [Call("sendnow") EXCEPT !.n = n, !.script = script]
Watch(after) == [Call("stream") EXCEPT !.after = after]
Approve(decision) == [Call("approve") EXCEPT !.decision = decision]
Cancel == Call("cancel")
Answer == Call("answer")
Compact(script) == [Call("compact") EXCEPT !.script = script]

(* A chat that ended before, with a session. *)
Ended == [snap |-> [status |-> "succeeded", draft |-> <<>>, session |-> "claude",
                    harness |-> "claude", target |-> 0],
          messages |-> <<[n |-> 1, role |-> "user", text |-> <<"m0">>]>>,
          events |-> <<[n |-> 1, kind |-> "chat_status", v |-> "queued"],
                       [n |-> 2, kind |-> "chat_status", v |-> "succeeded"]>>,
          at |-> 1]
Row(n, text) == [n |-> n, chat |-> 1, text |-> text, revision |-> 1]
Stored(queue) == [Schema EXCEPT !.chats = 1 :> Ended, !.queue = queue, !.chatIds = 1,
                                !.queuedIds = Len(queue), !.clock = 1,
                                !.targets = 1 :> "box", !.targetIds = 1]
World == [calls |-> <<>>, db |-> Stored(<<>>), timeouts |-> FALSE, follow |-> <<"done">>,
          drops |-> FALSE, crashes |-> FALSE, breaks |-> FALSE]
With(calls) == [World EXCEPT !.calls = calls]

Queueing(calls, queue) == [With(calls) EXCEPT !.db = Stored(queue)]
On(call, harness, target) == [call EXCEPT !.harness = harness, !.target = target]

(* People deciding, answering and cancelling while others watch. *)
Deciding ==
  { With(<<Send("m1", <<"approval", "done">>), Approve("allow"), Approve("deny")>>),
    With(<<Send("m1", <<"text", "question", "done">>), Answer>>),
    With(<<Send("m1", <<"approval", "approval", "done">>), Approve("allow")>>),
    With(<<Send("m1", <<"question", "done">>), Cancel>>),
    With(<<Send("m1", <<"question", "done">>), Answer, Answer>>),
    With(<<Send("m1", <<"text", "tool", "update", "text", "done">>), Watch(2)>>),
    With(<<On(Send("m1", <<"done">>), "demo", 0), Cancel>>) }

(* Messages that wait, are edited, preferred and taken. *)
Queues ==
  { Queueing(<<Send("m1", <<"session", "text", "done">>), Cancel>>, <<Row(1, "q1")>>),
    Queueing(<<Send("m1", <<"done">>), SendNow(2, <<"done">>)>>, <<Row(1, "q1"), Row(2, "q2")>>),
    Queueing(<<SendNow(1, <<"done">>), Edit(1, "q1b", 1)>>, <<Row(1, "q1"), Row(2, "q2")>>),
    Queueing(<<Send("m1", <<"done">>), Edit(1, "q1b", 1), Edit(1, "q1c", 1)>>, <<Row(1, "q1")>>),
    Queueing(<<Send("m1", <<"done">>), Send("m2", <<"fail">>), Enqueue("")>>, <<Row(1, "q1")>>),
    Queueing(<<SendNow(1, <<"done">>), Send("m2", <<"dies">>), Enqueue("q2")>>, <<Row(1, "q1")>>) }

Compactions ==
  { With(<<Compact(<<"started", "completed", "done">>), Cancel>>),
    With(<<Compact(<<"started", "failed", "fail">>), Enqueue("q1"), Watch(1), Watch(9)>>),
    With(<<Compact(<<"reject">>), Compact(<<"unavailable">>), Enqueue("q1")>>),
    With(<<Compact(<<"progress", "dies">>), Send("m1", <<"done">>)>>) }

(* New chats, at the limit of those kept, and where they run. *)
Elsewhere ==
  { With(<<Create(<<"silent", "done">>), [Send("m1", <<"text", "done">>) EXCEPT !.chat = 2],
           Enqueue("q1"), Watch(0)>>),
    With(<<On(Create(<<"session", "done">>), "codex", 1),
           On([Send("m1", <<"done">>) EXCEPT !.chat = 2], "codex", 1),
           On(Call("deleteTarget"), "codex", 1), [Call("saveTarget") EXCEPT !.text = "other"]>>),
    With(<<On(Send("m1", <<"session", "done">>), "codex", 0), Send("m2", <<"done">>),
           On(Send("m3", <<"done">>), "claude", 1), Send("", <<"done">>)>>),
    With(<<On(Call("upload"), "codex", 1), On(Call("deleteTarget"), "codex", 1)>>),
    [With(<<On(Send("m1", <<"session", "done">>), "claude", 1), Send("m2", <<"done">>)>>)
       EXCEPT !.db.chats[1].snap.target = -1] }

Faults ==
  { [With(<<Send("m1", <<"approval", "question", "done">>)>>) EXCEPT !.timeouts = TRUE],
    [With(<<Send("m1", <<"text", "approval", "done">>), Approve("allow")>>) EXCEPT !.breaks = TRUE],
    [With(<<Compact(<<"started", "done">>), Send("m1", <<"done">>)>>) EXCEPT !.breaks = TRUE],
    [With(<<Send("m1", <<"approval", "done">>), Approve("allow")>>) EXCEPT !.timeouts = TRUE],
    [With(<<Send("m1", <<"text", "approval", "done">>), Send("m2", <<"done">>)>>)
       EXCEPT !.crashes = TRUE],
    [Queueing(<<Send("m1", <<"done">>), SendNow(1, <<"done">>)>>, <<Row(1, "q1")>>)
       EXCEPT !.drops = TRUE],
    [With(<<Send("m1", <<"done">>), Cancel, Watch(0)>>) EXCEPT !.drops = TRUE] }

Loads == Deciding \cup Queues \cup Compactions \cup Elsewhere \cup Faults
=============================================================================
