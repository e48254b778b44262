---------------------------- MODULE RelayBridge -----------------------------
(***************************************************************************)
(* Agent Relay (src/src/relay/mod.rs, mcp.rs, inbound.rs): an agent's turn *)
(* holds a bridge with its own budget and calls its tools; what the        *)
(* application's router accepts is dispatched as a turn of the recipient,  *)
(* with a bridge of its own that continues the chain of hops.              *)
(*                                                                         *)
(* Calls of one bridge overlap: a call reserves its budget under the lock  *)
(* and then waits for the router.  The router and the clock are external.  *)
(***************************************************************************)
EXTENDS Integers, Sequences, FiniteSets, SequencesExt

CONSTANTS
    Workload,       \* the agents' grants, the calls they may make, a bound on the clock
    Minute,         \* the window of the rate limit
    MaxBytes,       \* MAX_AGENT_MESSAGE_BYTES
    MaxHop,         \* u8::MAX, where the hop count stays
    MaxTtl          \* MAX_AGENT_MESSAGE_TTL_SECONDS

VARIABLES
    load,       \* the member of Workload of this behaviour, fixed at the start
    now,
    turns,      \* the turns so far, each with its bridge
    calls,      \* calls that reserved and wait for the router
    msgs        \* the messages the router accepted

vars == <<load, now, turns, calls, msgs>>

-----------------------------------------------------------------------------
(* MessagingGrant and AgentMessageEnvelope *)

\* MessagingGrant::validate
ValidGrant(g) ==
    /\ g.max_hops \in 1..MaxHop
    /\ g.max_message_bytes \in 1..MaxBytes
    /\ g.max_messages > 0
    /\ g.max_bytes >= g.max_message_bytes
    /\ g.per_minute # <<0>>
    /\ g.max_ttl \in 1..MaxTtl

permits_send_to(g, to) == g.send # <<>> /\ to \in g.send[1]
permits_receive_from(g, from) == g.receive # <<>> /\ from \in g.receive[1]

\* AgentMessageEnvelope::validate
ValidEnvelope(m) ==
    /\ m.bytes \in 1..MaxBytes
    /\ m.ttl \in 1..MaxTtl
    /\ m.limit > 0 /\ m.hop <= m.limit

is_expired_at(m, time) == time >= m.at + m.ttl

validate_inbound(m, g) ==
    /\ ValidGrant(g) /\ ValidEnvelope(m)
    /\ permits_receive_from(g, m.from)
    /\ m.hop <= g.max_hops
    /\ m.bytes <= g.max_message_bytes
    /\ ~is_expired_at(m, now)

-----------------------------------------------------------------------------
(* AgentMessageBridge *)

\* A bridge for a user's turn (no inbound message) or for the turn of a message.
Turn(agent, inbound) ==
    [agent |-> agent, inbound |-> inbound, count |-> 0, bytes |-> 0, recent |-> <<>>,
     tried |-> {}, reserved |-> <<>>]

Init ==
    /\ load \in Workload
    /\ now = 0
    /\ turns = IF ValidGrant(load.grants[load.first]) THEN <<Turn(load.first, <<>>)>> ELSE <<>>
    /\ calls = {}
    /\ msgs = <<>>

Grant(t) == load.grants[turns[t].agent]

next_hop_count(t) ==
    LET inbound == turns[t].inbound
    IN  IF inbound = <<>> THEN 0 ELSE IF inbound[1].hop = MaxHop THEN MaxHop ELSE inbound[1].hop + 1

effective_hop_limit(t) ==
    LET own == Grant(t).max_hops
        inbound == turns[t].inbound
    IN  IF inbound = <<>> \/ inbound[1].limit > own THEN own ELSE inbound[1].limit

\* Mutant: the oldest message leaves the window too early.
WindowShort(t, c) ==
    LET g == Grant(t)
        b == turns[t]
        recent == SelectSeq(b.recent, LAMBDA at : now - at < Minute - 1)
    IN  /\ b.count < g.max_messages /\ b.bytes + c.bytes <= g.max_bytes
        /\ g.per_minute = <<>> \/ Len(recent) < g.per_minute[1]

\* The rolling window, the number and the bytes, all read under the lock.
WithinBudget(t, c) ==
    LET g == Grant(t)
        b == turns[t]
        recent == SelectSeq(b.recent, LAMBDA at : now - at < Minute)
    IN  /\ b.count < g.max_messages
        /\ b.bytes + c.bytes <= g.max_bytes
        /\ g.per_minute = <<>> \/ Len(recent) < g.per_minute[1]

\* A refused call leaves the budget, but old entries have left the window.
validate_and_reserve(t, c) ==
    LET g == Grant(t)
        b == turns[t]
        recent == SelectSeq(b.recent, LAMBDA at : now - at < Minute)
        tried == b.tried \cup {c}
        sized == c.bytes \in 1..MaxBytes /\ c.bytes <= g.max_message_bytes /\ c.ttl \in 1..g.max_ttl
    IN  turns' = [turns EXCEPT ![t] =
            IF ~sized THEN [b EXCEPT !.tried = tried]
            ELSE IF ~WithinBudget(t, c) THEN [b EXCEPT !.tried = tried, !.recent = recent]
            ELSE [b EXCEPT !.tried = tried, !.recent = Append(recent, now), !.count = @ + 1,
                           !.bytes = @ + c.bytes, !.reserved = Append(@, [at |-> now, bytes |-> c.bytes])]]

Reserved(t) == Len(turns'[t].reserved) > Len(turns[t].reserved)

\* call_tool: a send or a reply.  A reply names any message, also in a user's turn:
\* only the router knows it and its sender, and no entry in the send grant is
\* needed.  A hop too far is refused only after the reservation.
call_tool(t, c) ==
    LET hop == next_hop_count(t)
        limit == effective_hop_limit(t)
        permitted == c.tool = "send" => permits_send_to(Grant(t), c.to)
    IN  /\ c \notin turns[t].tried
        /\ Grant(t).send # <<>>
        /\ \/ /\ ~permitted
              /\ turns' = [turns EXCEPT ![t].tried = @ \cup {c}]
              /\ UNCHANGED calls
           \/ /\ permitted
              /\ validate_and_reserve(t, c)
              /\ calls' = IF Reserved(t) /\ hop <= limit
                          THEN calls \cup {[turn |-> t, from |-> turns[t].agent, to |-> c.to, bytes |-> c.bytes,
                                            ttl |-> c.ttl, hop |-> hop, limit |-> limit]}
                          ELSE calls
        /\ UNCHANGED <<load, now, msgs>>

\* Where a message goes; a reply, to the sender of the message it names.
Recipients(c) == IF c.to = "" THEN {msgs[i].from : i \in DOMAIN msgs} ELSE {c.to}

\* The router persists the message, or refuses it.
Router(c) ==
    /\ calls' = calls \ {c}
    /\ \/ \E to \in Recipients(c) :
            msgs' = Append(msgs, [from |-> c.from, to |-> to, bytes |-> c.bytes, ttl |-> c.ttl,
                                  hop |-> c.hop, limit |-> c.limit, turn |-> c.turn, at |-> now,
                                  dispatched |-> FALSE])
       \/ (load.refuses \/ Recipients(c) = {}) /\ UNCHANGED msgs
    /\ UNCHANGED <<load, now, turns>>

\* inbound_turn_request or inbound_turn_input, and a bridge for the turn.
Dispatch(i) ==
    /\ ~msgs[i].dispatched
    /\ msgs' = [msgs EXCEPT ![i].dispatched = TRUE]
    /\ turns' = IF validate_inbound(msgs[i], load.grants[msgs[i].to])
                THEN Append(turns, Turn(msgs[i].to, <<msgs[i]>>)) ELSE turns
    /\ UNCHANGED <<load, now, calls>>

Tick == /\ now < load.clock
        /\ now' = now + 1
        /\ UNCHANGED <<load, turns, calls, msgs>>

Next ==
    \/ \E t \in DOMAIN turns, c \in load.tools : call_tool(t, c)
    \/ \E c \in calls : Router(c)
    \/ \E i \in DOMAIN msgs : Dispatch(i)
    \/ Tick

Spec == Init /\ [][Next]_vars

-----------------------------------------------------------------------------
\* The agents along the chain of messages that led to turn t, itself included.
Chain[t \in Nat] ==
    IF turns[t].inbound = <<>> THEN <<turns[t].agent>>
    ELSE Append(Chain[turns[t].inbound[1].turn], turns[t].agent)

\* A chain of turns that trigger each other ends, as long as one agent on it
\* allows fewer hops than the counter holds: a message's hop is the number of
\* messages before it, and no agent on its chain allows fewer hops than that,
\* however generous the grants of the others are.
ChainsEnd ==
    /\ \A i \in DOMAIN msgs :
        LET chain == Chain[msgs[i].turn] IN
        /\ (\E j \in DOMAIN chain : load.grants[chain[j]].max_hops < MaxHop) => msgs[i].hop = Len(chain) - 1
        /\ \A j \in DOMAIN chain : msgs[i].hop <= load.grants[chain[j]].max_hops
    /\ \A t \in DOMAIN turns : turns[t].inbound # <<>> =>
        turns[t].inbound[1].hop <= Grant(t).max_hops

\* One turn's capability holds its ceilings although its calls overlap and some
\* fail: at every time the messages of the last minute, all messages and all
\* bytes stay within the grant, and no message was accepted that was not counted.
BudgetHeld ==
    \A t \in DOMAIN turns :
        LET g == Grant(t)
            all == turns[t].reserved
            during(from) == {i \in DOMAIN all : all[i].at >= from /\ all[i].at - from < Minute}
        IN  /\ Len(all) <= g.max_messages
            /\ FoldSeq(LAMBDA r, sum : sum + r.bytes, 0, all) <= g.max_bytes
            /\ g.per_minute # <<>> => \A from \in 0..now : Cardinality(during(from)) <= g.per_minute[1]
            /\ Len(SelectSeq(msgs, LAMBDA m : m.turn = t)) <= Len(all)

=============================================================================
