----------------------------- MODULE SplitProxy -----------------------------
(***************************************************************************)
(* The split proxy in front of a tailnet daemon (src/src/tailnet/proxy.rs): *)
(* a connection is accepted under a permit, its request head is read and   *)
(* parsed, its host is routed through tailscaled or connected directly, and *)
(* then it is a CONNECT tunnel, one plain HTTP request, or an upgrade that *)
(* tunnels only after a valid 101.                                         *)
(*                                                                         *)
(* A stream is a sequence of items, one for each unit the code tells       *)
(* apart: a byte of a body, a chunk line, a status line with its head.     *)
(* The proxy reads an item and writes it in two steps, so every future can *)
(* be dropped with an item in its hands.  A write to the client is one     *)
(* step.                                                                   *)
(***************************************************************************)
EXTENDS Integers, Sequences, FiniteSets, SequencesExt

CONSTANTS
    Workload,           \* the connections made and what their two ends do
    MaxConnections,     \* MAX_CONNECTIONS
    MaxUpgradeBuffer,   \* MAX_UPGRADE_BUFFER_BYTES, in items
    MaxTrailers         \* MAX_HEAD_BYTES of trailers, in items

VARIABLES
    load,       \* the member of Workload of this behaviour, fixed at the start
    conns,      \* the connections
    routes,     \* whether the RouteTable names the host
    permits,
    accepting   \* the handle is held and the accept task runs

vars == <<load, conns, routes, permits, accepting>>

Conns == DOMAIN load.conns

-----------------------------------------------------------------------------
(* RouteTable and parse_request *)

is_tailnet_ip(ip) ==
    \/ Len(ip) = 4 /\ ip[1] = 100 /\ ip[2] \in 64..127
    \/ Len(ip) = 8 /\ SubSeq(ip, 1, 3) = <<64890, 4444, 41440>>

\* An address decides by itself and *.ts.net always is inside; the other names
\* are inside when the table has them.
is_tailnet_host(known, host) ==
    IF host.ip # <<>> THEN is_tailnet_ip(host.ip)
    ELSE host.name = "tsnet" \/ (host.name = "peer" /\ known)

route_for_resolved(resolved) ==
    IF \E ip \in resolved : is_tailnet_ip(ip) THEN "tailnet" ELSE "direct"

\* host:port, [v6]:port, or a host alone (with the default port).
split_host_port(target) ==
    /\ target.host # ""
    /\ IF target.bracketed THEN target.closed /\ target.port \in {"none", "number"}
       ELSE target.colons # 1 \/ target.port = "number"

\* The handshake with tailscaled: version 5 without authentication, the name or
\* the address it is asked for, and a success with a known address type.
connect_via_socks5(socks) ==
    /\ socks.greeting = <<5, 0>>
    /\ socks.name <= 255
    /\ socks.reply[1] = 5 /\ socks.reply[2] = 0
    /\ socks.reply[4] \in {1, 3, 4}

Named(headers, name) == SelectSeq(headers, LAMBDA h : h.name = name)

Nominated(headers) == UNION {headers[i].tokens : i \in {i \in DOMAIN headers :
                                                          headers[i].name = "connection"}}

Error == [kind |-> "error"]

\* The body's framing is decided once, from the fields the origin will also see.
parse_request(head) ==
    LET nominated == Nominated(head.headers)
        length == Named(head.headers, "content-length")
        coding == Named(head.headers, "transfer-encoding")
        upgrade == "upgrade" \in nominated /\ Named(head.headers, "upgrade") # <<>>
        kept(h) == /\ h.name \notin {"host", "connection", "proxy-connection"}
                   /\ h.name \in nominated => upgrade /\ h.name = "upgrade"
    IN  CASE ~head.valid \/ ~split_host_port(head.target) -> Error
          [] head.valid /\ split_host_port(head.target) /\ head.method = "CONNECT" ->
             [kind |-> "connect"]
          [] OTHER ->
             IF \/ ~head.absolute
                \/ nominated \cap {"content-length", "transfer-encoding"} # {}
                \/ Len(length) > 1 \/ \E i \in DOMAIN length : length[i].value < 0
                \/ Len(coding) > 1 \/ \E i \in DOMAIN coding : ~coding[i].chunked
                \/ length # <<>> /\ coding # <<>>
             THEN Error
             ELSE [kind |-> "forward", upgrade |-> upgrade,
                   headers |-> SelectSeq(head.headers, kept),
                   body |-> IF coding # <<>> THEN [chunked |-> TRUE, at |-> "line", n |-> 0]
                            ELSE [chunked |-> FALSE, at |-> "data",
                                  n |-> IF length = <<>> THEN 0 ELSE length[1].value]]

-----------------------------------------------------------------------------
(* forward_body: one item of a body *)

Sizes == [size0 |-> 0, size1 |-> 1, size2 |-> 2]

Whole(body) == (~body.chunked /\ body.n = 0) \/ body.at = "over"

Bad(body) == [body EXCEPT !.at = "bad"]

\* body_line and the copies between the lines.
forward_body(body, item) ==
    CASE ~body.chunked -> [body EXCEPT !.n = @ - 1]
      [] body.chunked /\ body.at = "line" ->
         IF item \notin DOMAIN Sizes THEN Bad(body)
         ELSE [body EXCEPT !.n = Sizes[item], !.at = IF item = "size0" THEN "trailer" ELSE "data"]
      [] body.chunked /\ body.at = "data" ->
         [body EXCEPT !.n = @ - 1, !.at = IF body.n = 1 THEN "end" ELSE "data"]
      [] body.chunked /\ body.at = "end" ->
         IF item = "crlf" THEN [body EXCEPT !.at = "line"] ELSE Bad(body)
      [] body.chunked /\ body.at = "trailer" ->
         IF item = "crlf" THEN [body EXCEPT !.at = "over"]
         ELSE IF item = "field" /\ body.n < MaxTrailers THEN [body EXCEPT !.n = @ + 1]
         ELSE Bad(body)

\* A switch names the connection option and only what was offered.
valid_upgrade_selection(offered, response) ==
    response.option /\ response.selected # {} /\ response.selected \subseteq offered

-----------------------------------------------------------------------------
\* One connection.  send is the future that reads the client, reply the one that
\* reads the origin; hand is what send has read and not yet written.
Fresh == [pc |-> "queued", sent |-> 0, client |-> "open", read |-> 0, hand |-> <<>>, pend |-> <<>>,
          eof |-> FALSE, send |-> "none", body |-> <<>>, fwd |-> <<>>, fin |-> FALSE,
          req |-> Error, path |-> "none", deaf |-> FALSE,
          osent |-> 0, origin |-> "closed", oread |-> 0, reply |-> "none", got |-> <<>>]

Init ==
    /\ load \in Workload
    /\ conns = [c \in Conns |-> Fresh]
    /\ routes = load.known
    /\ permits = MaxConnections
    /\ accepting = TRUE

C(c) == conns[c]
L(c) == load.conns[c]

Set(c, r) == conns' = [conns EXCEPT ![c] = r]

\* The connection's task ends: both sockets are closed and the permit returns.
Done(c, r) == /\ Set(c, [r EXCEPT !.pc = "done", !.hand = <<>>])
              /\ permits' = permits + 1

Still == UNCHANGED permits

Answer(r, text) == [r EXCEPT !.got = IF r.client = "abort" THEN @ ELSE Append(@, text)]

\* A connection waits for a permit before it is served.
Accept(c) == /\ C(c).pc = "queued"
             /\ accepting
             /\ permits > 0
             /\ permits' = permits - 1
             /\ Set(c, [C(c) EXCEPT !.pc = "head"])

\* read_head and its parsing: a head too long or cut short ends without an
\* answer.  A tunnel keeps what was read past the head.
read_head(c) ==
    LET r == C(c)
        req == parse_request(L(c).head)
    IN  /\ r.pc = "head"
        /\ \/ /\ ~L(c).head.whole /\ Done(c, r)
           \/ /\ L(c).head.whole /\ req.kind = "error"
              /\ Done(c, Answer(r, "400"))
           \/ /\ L(c).head.whole /\ req.kind # "error"
              /\ \E k \in IF req.kind = "connect" THEN 0..r.sent ELSE {0} :
                    Set(c, [r EXCEPT !.pc = "route", !.req = req, !.read = k,
                                     !.hand = SubSeq(L(c).items, 1, k)])
              /\ Still

\* The table is asked first; any other name is resolved.
ByName(c) ==
    /\ C(c).pc = "route"
    /\ Set(c, IF is_tailnet_host(routes, L(c).host) THEN [C(c) EXCEPT !.pc = "connect", !.path = "tailnet"]
              ELSE [C(c) EXCEPT !.pc = "resolve"])
    /\ Still

Resolve(c) ==
    /\ C(c).pc = "resolve"
    /\ Set(c, [C(c) EXCEPT !.pc = "connect", !.path = route_for_resolved(L(c).resolved)])
    /\ Still

\* connect_via_socks5, whose greeting, reply and address type must be the
\* expected ones, or a direct connect.  A failure is answered.
Connect(c) ==
    LET r == [C(c) EXCEPT !.origin = "open"]
        reached == /\ ~L(c).refuses
                   /\ r.path = "tailnet" => connect_via_socks5(L(c).socks)
    IN
    /\ C(c).pc = "connect"
    /\ \/ ~reached /\ Done(c, Answer(C(c), "502"))
       \/ /\ reached
          /\ \/ /\ r.req.kind = "connect"
                /\ Set(c, [Answer(r, "200") EXCEPT !.pc = "tunnel", !.reply = "copy",
                                    !.send = IF r.client = "abort" THEN "failed" ELSE "copy"])
             \/ /\ r.req.kind = "forward"
                /\ Set(c, [r EXCEPT !.pc = IF r.req.upgrade THEN "upgrade" ELSE "forward",
                                    !.body = <<r.req.body>>, !.reply = "copy",
                                    !.send = IF ~Whole(r.req.body) THEN "body"
                                             ELSE IF r.req.upgrade THEN "wait" ELSE "drain"])
          /\ Still

-----------------------------------------------------------------------------
(* The future that reads the client *)

Sending(c, at) == /\ C(c).pc \in {"tunnel", "forward", "upgrade", "upgraded", "final"}
                  /\ C(c).send \in at

Readable(c) == C(c).client # "abort" /\ C(c).read < C(c).sent
AtEof(c) == C(c).client = "eof" /\ C(c).read = C(c).sent
Item(c) == L(c).items[C(c).read + 1]

Fail(r) == [r EXCEPT !.send = "failed"]

\* The next item of the framed body, read and not yet written.
TakeBody(c) ==
    LET r == C(c)
        body == forward_body(r.body[1], Item(c))
    IN  /\ Sending(c, {"body"})
        /\ r.hand = <<>>
        /\ Readable(c)
        /\ Set(c, IF body.at = "bad" THEN Fail([r EXCEPT !.read = @ + 1])
                  ELSE [r EXCEPT !.read = @ + 1, !.hand = <<Item(c)>>, !.body = <<body>>])

TakeCopy(c) ==
    /\ Sending(c, {"copy"})
    /\ C(c).hand = <<>>
    /\ Readable(c)
    /\ Set(c, [C(c) EXCEPT !.read = @ + 1, !.hand = <<Item(c)>>])

\* What is in hand is written, unless the origin no longer reads.
Put(c) ==
    LET r == [C(c) EXCEPT !.fwd = @ \o C(c).hand, !.hand = <<>>] IN
    /\ Sending(c, {"body", "copy"})
    /\ C(c).hand # <<>>
    /\ IF C(c).deaf THEN Set(c, Fail(C(c)))
       ELSE Set(c, [r EXCEPT !.send = IF r.send = "body" /\ Whole(r.body[1])
                                      THEN IF r.pc = "forward" THEN "drain" ELSE "wait"
                                      ELSE @])

\* The body of one request is over: later requests are dropped, an EOF is passed on.
Drain(c) ==
    /\ Sending(c, {"drain"})
    /\ \/ Readable(c) /\ Set(c, [C(c) EXCEPT !.read = @ + 1])
       \/ AtEof(c) /\ Set(c, [C(c) EXCEPT !.fin = TRUE, !.send = "ended"])

\* Mutant: the end of the client's input is passed on before what is buffered.
WaitFinEarly(c) ==
    LET r == C(c) IN
    /\ Sending(c, {"wait"})
    /\ \/ /\ Readable(c) /\ ~r.eof
          /\ Set(c, IF Len(r.pend) + 1 > MaxUpgradeBuffer THEN Fail([r EXCEPT !.read = @ + 1])
                    ELSE [r EXCEPT !.read = @ + 1, !.pend = Append(@, Item(c))])
       \/ /\ AtEof(c) /\ ~r.eof
          /\ Set(c, [r EXCEPT !.eof = TRUE, !.fin = TRUE])
       \/ /\ r.pc = "upgraded"
          /\ Set(c, [r EXCEPT !.hand = r.pend, !.pend = <<>>, !.send = "copy"])

\* Before the 101 protocol bytes are buffered up to a limit; an EOF is passed on
\* at once only if nothing must precede it.
Wait(c) ==
    LET r == C(c) IN
    /\ Sending(c, {"wait"})
    /\ \/ /\ Readable(c) /\ ~r.eof
          /\ Set(c, IF Len(r.pend) + 1 > MaxUpgradeBuffer THEN Fail([r EXCEPT !.read = @ + 1])
                    ELSE [r EXCEPT !.read = @ + 1, !.pend = Append(@, Item(c))])
       \/ /\ AtEof(c) /\ ~r.eof
          /\ Set(c, [r EXCEPT !.eof = TRUE, !.fin = r.pend = <<>>])
       \/ /\ r.pc = "upgraded"
          /\ Set(c, [r EXCEPT !.hand = r.pend, !.pend = <<>>, !.send = "copy"])

\* The client's EOF or its reset, and the origin's, reach the future.
SendEnds(c) ==
    /\ \/ /\ Sending(c, {"copy"}) /\ AtEof(c) /\ C(c).hand = <<>>
          /\ Set(c, [C(c) EXCEPT !.fin = TRUE, !.send = "ended"])
       \/ /\ Sending(c, {"body"}) /\ AtEof(c) /\ C(c).hand = <<>>
          /\ Set(c, Fail(C(c)))
       \/ /\ Sending(c, {"body", "copy", "drain", "wait"}) /\ C(c).client = "abort"
          /\ ~C(c).eof
          /\ Set(c, Fail(C(c)))

SendStep(c) == /\ TakeBody(c) \/ TakeCopy(c) \/ Put(c) \/ Drain(c) \/ Wait(c) \/ SendEnds(c)
               /\ Still

-----------------------------------------------------------------------------
(* The future that reads the origin *)

OriginReadable(c) == C(c).oread < C(c).osent
OriginAtEof(c) == C(c).origin = "eof" /\ C(c).oread = C(c).osent
OriginItem(c) == L(c).origin[C(c).oread + 1]

Reply(c) ==
    LET r == C(c) IN
    /\ r.pc \in {"tunnel", "forward", "upgraded", "final"}
    /\ r.reply = "copy"
    /\ \/ /\ OriginReadable(c)
          /\ Set(c, IF r.client = "abort" THEN [r EXCEPT !.reply = "failed"]
                    ELSE [r EXCEPT !.oread = @ + 1, !.got = Append(@, OriginItem(c))])
       \/ OriginAtEof(c) /\ Set(c, [r EXCEPT !.reply = "ended"])
       \/ r.origin = "reset" /\ Set(c, [r EXCEPT !.reply = "failed"])
    /\ Still

\* One request ends with its reply; the two directions of a tunnel both end.
Finish(c) ==
    LET r == C(c) IN
    /\ r.pc \in {"tunnel", "forward", "upgraded", "final"}
    /\ \/ "failed" \in {r.send, r.reply}
       \/ r.reply = "ended" /\ (r.pc \in {"forward", "final"} \/ r.send = "ended")
    /\ Done(c, r)

\* read_upgrade_response: an interim head is passed on; a valid 101 lets the
\* pending upload and the tunnel go on; any other status line is final, and ends
\* the upload; a malformed interim head is answered by the proxy.  A client that
\* is gone ends the connection.
read_upgrade_response(c) ==
    LET item == OriginItem(c)
        valid == valid_upgrade_selection(L(c).offered, L(c).selection)
        next == [C(c) EXCEPT !.oread = @ + 1]
        relayed == Answer(next, item)
    IN  /\ C(c).pc = "upgrade"
        /\ OriginReadable(c)
        /\ \/ C(c).client = "abort" /\ Done(c, next)
           \/ /\ C(c).client # "abort"
              /\ \/ item = "1xx" \/ (item = "101" /\ ~valid)
              /\ Done(c, Answer(next, "502"))
           \/ /\ C(c).client # "abort"
              /\ \/ item = "100" /\ Set(c, relayed)
                 \/ item = "101" /\ valid /\ Set(c, [relayed EXCEPT !.pc = "upgraded"])
                 \/ /\ item \notin {"100", "101", "1xx"}
                    /\ Set(c, [relayed EXCEPT !.pc = "final", !.send = "drain", !.hand = <<>>])
              /\ Still

\* The upload failed, the origin closed before a status line, or the deadline
\* of negotiate_upgrade passed.
negotiate_upgrade(c) ==
    /\ C(c).pc = "upgrade"
    /\ \/ C(c).send = "failed" \/ OriginAtEof(c) \/ C(c).origin = "reset"
       \/ L(c).slow
    /\ Done(c, Answer(C(c), "502"))

-----------------------------------------------------------------------------
(* The two ends, and the owner of the proxy *)

ClientSends(c) ==
    /\ C(c).client = "open" /\ C(c).pc # "done"
    /\ \/ C(c).sent < Len(L(c).items) /\ Set(c, [C(c) EXCEPT !.sent = @ + 1])
       \/ C(c).sent = Len(L(c).items) /\ L(c).closes /\ Set(c, [C(c) EXCEPT !.client = "eof"])
       \/ L(c).aborts /\ C(c).pc \notin {"queued", "head"} /\ Set(c, [C(c) EXCEPT !.client = "abort"])

\* The origin answers when it likes; it may stop reading, or reset the connection.
OriginSends(c) ==
    /\ C(c).origin = "open" /\ C(c).pc # "done"
    /\ \/ C(c).osent < Len(L(c).origin) /\ Set(c, [C(c) EXCEPT !.osent = @ + 1])
       \/ C(c).osent = Len(L(c).origin) /\ ~L(c).silent /\ Set(c, [C(c) EXCEPT !.origin = "eof"])
       \/ L(c).resets /\ Set(c, [C(c) EXCEPT !.origin = "reset", !.deaf = TRUE])
       \/ L(c).stops /\ ~C(c).deaf /\ Set(c, [C(c) EXCEPT !.deaf = TRUE])

set_routes ==
    /\ load.changes
    /\ routes' = ~routes
    /\ routes = load.known
    /\ UNCHANGED <<conns, permits, accepting>>

DropProxy ==
    /\ load.drops
    /\ accepting
    /\ accepting' = FALSE
    /\ UNCHANGED <<conns, permits, routes>>

serve_connection(c) == \/ read_head(c) \/ ByName(c) \/ Resolve(c) \/ Connect(c) \/ SendStep(c)
                       \/ Reply(c) \/ Finish(c) \/ read_upgrade_response(c) \/ negotiate_upgrade(c)

Next ==
    /\ \/ \E c \in Conns :
            /\ \/ Accept(c)
               \/ serve_connection(c)
               \/ (ClientSends(c) \/ OriginSends(c)) /\ Still
            /\ UNCHANGED <<routes, accepting>>
       \/ set_routes
       \/ DropProxy
    /\ UNCHANGED load

Spec == Init /\ [][Next]_vars

-----------------------------------------------------------------------------
\* What a reader of the forwarded head takes for the length of the body.
Framing(headers) ==
    IF Named(headers, "transfer-encoding") # <<>> THEN "chunked"
    ELSE IF Named(headers, "content-length") # <<>> THEN "length" ELSE "none"

\* The origin gets the bytes of its one request, in order and no others: what
\* was written to it is a prefix of the framed body, whose framing its own head
\* states, until a 101 was relayed or the connection is a tunnel; from then on
\* nothing is lost or reordered although the upload was under way.  The end of
\* the client's input is passed on only after all that must precede it, unless
\* the origin has refused an upgrade.
OriginSeesOneRequest ==
    \A c \in Conns : C(c).origin # "closed" =>
        LET r == C(c)
            body == SubSeq(L(c).items, 1, L(c).framed)
        IN  /\ r.req.kind = "forward" => Framing(r.req.headers) = L(c).framing
            /\ IF r.req.kind = "connect" \/ "101" \in ToSet(r.got)
               THEN IsPrefix(r.fwd, L(c).items) /\ (r.fin => r.fwd = L(c).items)
               ELSE /\ IsPrefix(r.fwd, body)
                    /\ r.fin => r.fwd = body \/ (r.req.upgrade /\ ToSet(r.got) \ {"100", "502"} # {})

\* The client sees one answer: what the origin said, from its start, or the
\* proxy's own answer after interim heads at most and never over a response that
\* began.  If both ends behaved, the whole response was relayed when the
\* connection is done, through tailscaled exactly if the host is in the tailnet.
OneAnswer ==
    \A c \in Conns :
        LET r == C(c)
            own == r.got # <<>> /\ Last(r.got) \in {"400", "502"}
            said == IF r.req.kind = "connect" THEN <<"200">> \o L(c).origin ELSE L(c).origin
        IN  /\ IF own THEN \A i \in 1..Len(r.got) - 1 : r.got[i] = "100"
               ELSE IsPrefix(r.got, said)
            /\ r.pc = "done" /\ L(c).sound /\ r.client # "abort" /\ ~r.deaf =>
                 r.got = said /\ r.path = L(c).path

\* Every connection ends once its ends have, and its permit serves another:
\* when no step is left all accepted connections are done.
ConnectionsEnd ==
    ~ENABLED Next =>
        /\ \A c \in Conns : C(c).pc = "done" \/ (C(c).pc = "queued" /\ ~accepting)
        /\ permits = MaxConnections

=============================================================================
