------------------------------ MODULE ChatStore ------------------------------
(* The SQLite store of the fullstack-chat example (store.rs): chats with     *)
(* their messages and events, queued messages, approvals and SSH targets.    *)
(* Every operator is one call to the database thread, so one transaction;    *)
(* an operator that can fail returns [ok, db].                               *)
EXTENDS Integers, Sequences, FiniteSets, SequencesExt

CONSTANTS MaxChats,      \* terminal chats kept (1,000)
          MaxMessages,   \* messages kept per chat (1,000)
          MaxEvents      \* events kept per chat (2,000)

ASSUME LimitsAssumption == /\ MaxChats \in Nat /\ MaxMessages \in Nat \ {0}
                           /\ MaxEvents \in Nat \ {0}

Terminal == {"succeeded", "failed", "cancelled"}

Schema == [chats |-> [c \in {} |-> 0], queue |-> <<>>, approvals |-> [k \in {} |-> 0],
           targets |-> [k \in {} |-> 0], chatIds |-> 0, queuedIds |-> 0, targetIds |-> 0, clock |-> 0]

Numbers(s) == {s[i].n : i \in 1..Len(s)}
LastNumber(s) == IF s = <<>> THEN 0 ELSE Last(s).n

(* Rows come back ORDER BY sequence. *)
InOrder(s, row) ==
  SelectSeq(s, LAMBDA x : x.n < row.n) \o <<row>> \o SelectSeq(s, LAMBDA x : x.n > row.n)
After(s, n) == SelectSeq(s, LAMBDA x : x.n > n)

has_chat(db, c) == c \in DOMAIN db.chats
load_chat(db, c) == db.chats[c]

allocate_chat_id(db) == [db EXCEPT !.chatIds = @ + 1]
allocate_queued_message_id(db) == [db EXCEPT !.queuedIds = @ + 1]
allocate_ssh_connection_id(db) == [db EXCEPT !.targetIds = @ + 1]

(* Deleting a chat deletes what refers to it. *)
Without(db, gone) ==
  [db EXCEPT !.chats = [c \in DOMAIN @ \ gone |-> @[c]],
             !.queue = SelectSeq(@, LAMBDA q : q.chat \notin gone),
             !.approvals = [k \in {k \in DOMAIN @ : k[1] \notin gone} |-> @[k]]]

create_chat(db, c, snap, message) ==
  LET row == [snap |-> snap, messages |-> <<message>>, events |-> <<>>, at |-> db.clock + 1]
      rows == [d \in DOMAIN db.chats \cup {c} |-> IF d = c THEN row ELSE db.chats[d]]
      ended == {d \in DOMAIN rows : rows[d].snap.status \in Terminal}
      old == {d \in ended : Cardinality({e \in ended : rows[e].at > rows[d].at}) >= MaxChats}
  IN  [ok |-> c \notin DOMAIN db.chats,
       db |-> Without([db EXCEPT !.chats = rows, !.clock = @ + 1], old)]

(* One transaction: the snapshot, at most one message, and the event.  A     *)
(* missing chat or a number already taken rolls all of it back.              *)
persist_snapshot_event(db, c, snap, event, message) ==
  IF ~has_chat(db, c) THEN [ok |-> FALSE, db |-> db]
  ELSE LET row == db.chats[c]
           taken == \/ event.n \in Numbers(row.events)
                    \/ Numbers(message) \cap Numbers(row.messages) # {}
           messages == IF message = <<>> THEN row.messages
                       ELSE After(InOrder(row.messages, message[1]), message[1].n - MaxMessages)
           events == After(InOrder(row.events, event), event.n - MaxEvents)
       IN  IF taken THEN [ok |-> FALSE, db |-> db]
           ELSE [ok |-> TRUE,
                 db |-> [db EXCEPT !.clock = @ + 1,
                                   !.chats[c] = [snap |-> snap, messages |-> messages,
                                                 events |-> events, at |-> db.clock + 1]]]

save_approval(db, c, m, id) ==
  IF ~has_chat(db, c) THEN [ok |-> FALSE, db |-> db]
  ELSE [ok |-> TRUE,
        db |-> [db EXCEPT !.approvals =
                  [k \in DOMAIN @ \cup {<<c, m, id>>} |->
                     IF k \in DOMAIN @ THEN @[k] ELSE "pending"]]]

resolve_approval(db, c, m, id, decision) ==
  LET k == <<c, m, id>>
      open == k \in DOMAIN db.approvals /\ db.approvals[k] = "pending"
  IN  [ok |-> open, db |-> IF open THEN [db EXCEPT !.approvals[k] = decision] ELSE db]

Interrupted == {"queued", "running", "approval_needed", "cancelling"}

(* Run once, before the server accepts a request. *)
recover_interrupted_chats(db) ==
  LET recovered(row) ==
        [row EXCEPT !.snap.status = "failed", !.snap.draft = <<>>,
                    !.events = After(Append(@, [n |-> LastNumber(@) + 1, kind |-> "chat_error",
                                                v |-> "restarted"]),
                                     LastNumber(@) + 1 - MaxEvents)]
  IN  [db EXCEPT !.chats = [c \in DOMAIN @ |-> IF @[c].snap.status \in Interrupted
                                               THEN recovered(@[c]) ELSE @[c]]]

(* The queue is read in the order of creation; a returned message keeps its  *)
(* place.                                                                    *)
enqueue(db, q) ==
  LET free == has_chat(db, q.chat) /\ q.n \notin Numbers(db.queue)
  IN  [ok |-> free, db |-> IF free THEN [db EXCEPT !.queue = InOrder(@, q)] ELSE db]

Queued(db, c) == SelectSeq(db.queue, LAMBDA q : q.chat = c)
load_queued(db, c, n) == SelectSeq(db.queue, LAMBDA q : q.chat = c /\ q.n = n)

update_queued(db, q, expected) ==
  LET open == \E i \in 1..Len(db.queue) :
                /\ db.queue[i].n = q.n /\ db.queue[i].chat = q.chat
                /\ db.queue[i].revision = expected
  IN  [ok |-> open,
       db |-> IF open
              THEN [db EXCEPT !.queue = [i \in DOMAIN @ |-> IF @[i].n = q.n THEN q ELSE @[i]]]
              ELSE db]

(* Taking a message reads and deletes it in one transaction. *)
Taken(db, found) ==
  [found |-> found,
   db |-> IF found = <<>> THEN db
          ELSE [db EXCEPT !.queue = SelectSeq(@, LAMBDA q : q.n # found[1].n)]]
pop_queued(db, c, n) == Taken(db, load_queued(db, c, n))
pop_next_queued(db, c) ==
  Taken(db, IF Queued(db, c) = <<>> THEN <<>> ELSE <<Head(Queued(db, c))>>)

save_ssh_connection(db, host) ==
  [db EXCEPT !.targets = [k \in DOMAIN @ \cup {db.targetIds} |->
                            IF k = db.targetIds THEN host ELSE @[k]]]
delete_ssh_connection(db, k) ==
  [ok |-> k \in DOMAIN db.targets, db |-> [db EXCEPT !.targets = [j \in DOMAIN @ \ {k} |-> @[j]]]]
load_ssh_connection(db, k) == IF k \in DOMAIN db.targets THEN <<db.targets[k]>> ELSE <<>>
=============================================================================
