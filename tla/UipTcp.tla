------------------------------- MODULE UipTcp -------------------------------
(***************************************************************************)
(* One HTTP POST over the Ethernet board, as often as the gateway makes    *)
(* one: SendingMessageThroughEthernet, the TcpClient socket it uses, the   *)
(* uIP stack underneath (utility/uip.c), and the tick() of UipEthernet     *)
(* that runs the stack from inside every call of the socket.               *)
(*                                                                         *)
(* Nothing here is concurrent inside the gateway: the socket's calls loop  *)
(* over tick(), and a tick takes at most one frame and runs the timers.    *)
(* What interleaves is the network: every segment ever sent may reach the  *)
(* other side late, twice, out of order or never.  A request is blocks of  *)
(* data and a reply is segments, each one unit of the sequence space; a    *)
(* connection attempt stands for the pair of initial sequence numbers and  *)
(* ports that tells its segments from the others'.                         *)
(***************************************************************************)
EXTENDS Integers, Sequences, TLC, FiniteSetsExt, SequencesExt

CONSTANTS
    UIP_CONNS,              \* entries of uip_conns and of all_data (4)
    UIP_SOCKET_NUMPACKETS,  \* blocks a socket queues in each direction (5)
    UIP_RTO,                \* first retransmission time, in periods (3)
    UIP_MAXRTX,             \* retransmissions of a segment (8)
    UIP_MAXSYNRTX,          \* retransmissions of a SYN (5)
    UIP_TIME_WAIT_TIMEOUT,  \* periods in TIME_WAIT and FIN_WAIT_2 (120)
    MAX_RETRIES,            \* attempts to connect (20)
    QueryTimeout,           \* periods the exchange waits (5 s)
    WatchdogTimeout,        \* periods after which the watchdog may bite (5 s)
    PoolSizes,              \* blocks the pool may have left for the sockets (12)
    HeaderFits,             \* bytes are left for a frame without data even then
    RequestLen, ReplyLen,   \* blocks of the longest request, segments of the reply
    Exchanges,              \* bound: messages to forward
    Silent                  \* the server never answers

ASSUME TcpAssumption ==
    /\ {UIP_CONNS, UIP_SOCKET_NUMPACKETS, UIP_RTO, MAX_RETRIES} \subseteq Nat \ {0}
    /\ {UIP_MAXRTX, UIP_MAXSYNRTX, UIP_TIME_WAIT_TIMEOUT, QueryTimeout,
        WatchdogTimeout, RequestLen, ReplyLen, Exchanges} \subseteq Nat
    /\ PoolSizes \subseteq Nat \ {0, 1} /\ RequestLen > 0 /\ UIP_SOCKET_NUMPACKETS > 1
    /\ {HeaderFits, Silent} \subseteq BOOLEAN

VARIABLES
    conns,      \* uip_conns
    all_data,   \* TcpClient::all_data: what a socket has queued
    held,       \* UipEthernet::inPacket when it survives its tick
    sent,       \* segments on the wire that can still tell the server something
    server,     \* external: the server's end of the last attempt
    lastport,   \* the attempt uip_connect last numbered
    app,        \* where exchangeMessagesThroughEthernet stands
    age,        \* periods since the watchdog was last kicked
    pool,       \* blocks of UIP_TCP_MSS the chip's memory has for the sockets
    unstored    \* history: data taken from the peer for which there was no block

vars == <<conns, all_data, held, sent, server, lastport, app, age, pool, unstored>>

NULL == -1
NoData == <<>>
Conns == 0 .. UIP_CONNS - 1

\* Input: the request is no longer than the pool has room for, and for a frame.
AskedLen == Min({RequestLen, pool - 1})

\* A block of a request, a segment of a reply, and what a handle of before
\* the last MemPool::init leads to.
Asked(x, i) == <<"ask", x, i>>
Answered(p, i) == <<"answer", p, i>>
Stale == <<"stale">>
Request(x) == [i \in 1 .. AskedLen |-> Asked(x, i)]
Reply(p) == [i \in 1 .. ReplyLen |-> Answered(p, i)]

NoSegment == [port |-> 0, flags |-> {}, seq |-> 0, ack |-> 0, data |-> NoData]
SegLen(s) == IF s.data = NoData THEN 0 ELSE 1

TcpStates == {"CLOSED", "SYN_SENT", "ESTABLISHED", "FIN_WAIT_1", "FIN_WAIT_2",
              "CLOSING", "TIME_WAIT", "LAST_ACK"}

\* struct uip_conn; SYN_RCVD needs a listening port, and nothing listens.
NewConn == [tcpstate |-> "CLOSED", stopped |-> FALSE, lport |-> 0, snd_nxt |-> 0,
            rcv_nxt |-> 0, len |-> 0, nrtx |-> 0, timer |-> 0, appstate |-> NULL]

\* uip_userdata_t: state is the set of its flags, empty when the entry is free.
NewData == [state |-> {}, packets_in |-> <<>>, packets_out |-> <<>>,
            pollTimer |-> FALSE]

\* An exchange before it starts: the user's place in it, its socket, the
\* blocks still to write, what it has read and how it ended.
NewExchange ==
    [x |-> 0, pc |-> "idle", data |-> NULL, conn |-> NULL, port |-> 0, retries |-> 0,
     left |-> <<>>, want |-> 0, read |-> <<>>, outcome |-> "none"]

-----------------------------------------------------------------------------
(***************************************************************************)
(* The state a tick works on.  The operators below take it, with what they *)
(* were called with, and return it changed; out collects what is sent.     *)
(***************************************************************************)
Stack == [conns |-> conns, all_data |-> all_data, held |-> held, out |-> {},
          unstored |-> unstored]

SetConn(w, c, fields) == [w EXCEPT !.conns[c] = fields @@ @]

\* Blocks taken from MemPool since its last init, and whether one is left;
\* the frame being received is in the ring, not in the pool.
Live(blocks) == Len(SelectSeq(blocks, LAMBDA b : b # Stale))
Room(w) ==
    MapThenSumSet(LAMBDA d : Live(w.all_data[d].packets_in \o w.all_data[d].packets_out),
                  Conns) < pool

\* network_send: a frame is built in a block of the pool, or not sent at all.
network_send(w, seg) ==
    IF Room(w) \/ (HeaderFits /\ seg.data = NoData) THEN [w EXCEPT !.out = @ \cup {seg}] ELSE w

\* tcp_send: the numbers of the connection in a segment with these flags.
tcp_send(w, c, flags, data) ==
    LET n == w.conns[c]
    IN  network_send(w, [port |-> n.lport, flags |-> flags, seq |-> n.snd_nxt,
                         ack |-> n.rcv_nxt, data |-> data])
tcp_send_ack(w, c) == tcp_send(w, c, {"ACK"}, NoData)

\* reset: what answers a segment that belongs to no connection.
reset(w, seg) ==
    IF "RST" \in seg.flags THEN w
    ELSE network_send(w, [port |-> seg.port, flags |-> {"RST", "ACK"},
                          seq |-> seg.ack, ack |-> seg.seq + 1, data |-> NoData])

\* tcpstateflags == s compares the STOPPED bit too, and assigning a state
\* clears it.
IsState(n, s) == n.tcpstate = s /\ ~n.stopped
Become(s) == [tcpstate |-> s, stopped |-> FALSE]

-----------------------------------------------------------------------------
(***************************************************************************)
(* uipclient_appcall: the stack's call into the socket.  flags is          *)
(* uip_flags; the result carries them as the socket left them, and the     *)
(* block it wants to send.                                                 *)
(***************************************************************************)
Called(w, flags, send) == [w |-> w, flags |-> flags, send |-> send]

\* A connection that comes up without user data gets the first free entry.
_allocateData(w, c, flags) ==
    LET free == {d \in Conns : w.all_data[d].state = {}}
    IN  IF w.conns[c].appstate # NULL \/ "CONNECTED" \notin flags \/ free = {} THEN w
        ELSE [SetConn(w, c, [appstate |-> Min(free)]) EXCEPT !.all_data[Min(free)] =
                [NewData EXCEPT !.state = {"CONNECTED"}, !.pollTimer = w.all_data[Min(free)].pollTimer]]

\* Mutant of TakeData: the last place of the queue counts as none.
TakeDataShort(w, c, u, flags, seg) ==
    IF \/ "NEWDATA" \notin flags \/ SegLen(seg) = 0
       \/ w.all_data[u].state \cap {"CLOSE", "REMOTECLOSED"} # {} THEN w
    ELSE IF Len(w.all_data[u].packets_in) + 1 < UIP_SOCKET_NUMPACKETS
    THEN [w EXCEPT !.all_data[u].packets_in = Append(@, seg.data)]
    ELSE [w EXCEPT !.held = seg, !.conns[c].stopped = TRUE]

\* uip_newdata: queue the segment; when that takes the last place, or there
\* is none, the peer is told to stop.  Without a place or a block the frame is
\* kept, but rcv_nxt has moved past it: when the next tick feeds it again it
\* fails the sequence check, is acknowledged and freed.
TakeData(w, c, u, flags, seg) ==
    LET d == w.all_data[u]
        i == Len(d.packets_in) + 1
    IN  IF \/ "NEWDATA" \notin flags \/ SegLen(seg) = 0
           \/ d.state \cap {"CLOSE", "REMOTECLOSED"} # {} THEN w
        ELSE IF i <= UIP_SOCKET_NUMPACKETS /\ Room(w)
        THEN [w EXCEPT !.all_data[u].packets_in = Append(@, seg.data),
                       !.conns[c].stopped = @ \/ i = UIP_SOCKET_NUMPACKETS]
        ELSE [w EXCEPT !.held = seg, !.conns[c].stopped = TRUE,
                       !.unstored = IF Room(w) THEN @ ELSE @ \cup {seg.data}]

\* uip_closed or uip_timedout: the socket outlives the connection for as long
\* as it has data to read.
LetGo(w, c, u) ==
    [SetConn(w, c, [appstate |-> NULL]) EXCEPT
        !.all_data[u].packets_out = <<>>,
        !.all_data[u].state = IF w.all_data[u].packets_in = <<>> THEN {}
                              ELSE @ \cup {"REMOTECLOSED"}]

\* The end of the call, for a socket that was told to close.
CloseAsked(w, c, u, flags) ==
    IF "CLOSE" \notin w.all_data[u].state THEN Called(w, flags, NoData)
    ELSE IF w.all_data[u].packets_out = <<>>
    THEN Called([SetConn(w, c, [appstate |-> NULL]) EXCEPT !.all_data[u].state = {}],
                {"CLOSE"}, NoData)
    ELSE Called(SetConn(w, c, [stopped |-> TRUE]), flags, NoData)

Answer(w, c, u, flags) ==
    LET out == w.all_data[u].packets_out
    IN  IF flags \cap {"POLL", "REXMIT"} # {} /\ out # <<>>
        THEN Called(w, flags, Head(out))
        ELSE CloseAsked(w, c, u, flags)

\* Mutant of Acked: what was acknowledged stays queued.
AckedKept(w, c, u, flags) ==
    IF flags \cap {"CLOSE", "TIMEDOUT"} # {} THEN Called(LetGo(w, c, u), flags, NoData)
    ELSE Answer(w, c, u, flags)

Acked(w, c, u, flags) ==
    IF flags \cap {"CLOSE", "TIMEDOUT"} # {} THEN Called(LetGo(w, c, u), flags, NoData)
    ELSE IF "ACKDATA" \in flags /\ w.all_data[u].packets_out # <<>>
    THEN Answer([w EXCEPT !.all_data[u].packets_out = Tail(@)], c, u, flags)
    ELSE Answer(w, c, u, flags)

Restarted(w, c, u, flags) ==
    IF "RESTART" \in w.all_data[u].state
    THEN Acked([w EXCEPT !.all_data[u].state = @ \ {"RESTART"},
                         !.conns[c].stopped = FALSE], c, u, flags \cup {"NEWDATA"})
    ELSE Acked(w, c, u, flags)

WithData(w, c, flags, seg) ==
    LET u == w.conns[c].appstate
    IN  IF u = NULL THEN Called(w, flags, NoData)
        ELSE Restarted(TakeData(w, c, u, flags, seg), c, u, flags)

uipclient_appcall(w, c, flags, seg) == WithData(_allocateData(w, c, flags), c, flags, seg)

-----------------------------------------------------------------------------
(***************************************************************************)
(* uip_process.                                                            *)
(***************************************************************************)
\* The data the socket gave, else an ACK when data came in, else nothing.
apprexmit(r, c) ==
    IF r.send # NoData /\ r.w.conns[c].len > 0
    THEN tcp_send(r.w, c, {"ACK", "PSH"}, r.send)
    ELSE IF "NEWDATA" \in r.flags THEN tcp_send_ack(r.w, c) ELSE r.w

\* What follows a call of the socket: close, or send what it gave.
appsend(r, c) ==
    IF "CLOSE" \in r.flags
    THEN tcp_send(SetConn(r.w, c, [len |-> 1, nrtx |-> 0] @@ Become("FIN_WAIT_1")),
                  c, {"FIN", "ACK"}, NoData)
    ELSE apprexmit([r EXCEPT !.w = SetConn(@, c,
            [len |-> IF r.send # NoData THEN 1 ELSE r.w.conns[c].len, nrtx |-> 0])], c)

\* Does this segment acknowledge what is outstanding?  If so, note it.
Acks(n, seg) == "ACK" \in seg.flags /\ n.len > 0 /\ seg.ack = n.snd_nxt + n.len
NoteAck(n, seg) ==
    IF Acks(n, seg) THEN [n EXCEPT !.snd_nxt = @ + n.len, !.timer = UIP_RTO, !.len = 0]
    ELSE n

\* Mutant of OutOfOrder: only SYN and FIN are checked.
OutOfOrderUnchecked(n, seg) ==
    /\ ~(n.tcpstate = "SYN_SENT" /\ seg.flags = {"SYN", "ACK"})
    /\ seg.flags \cap {"SYN", "FIN"} # {}
    /\ seg.seq # n.rcv_nxt

OutOfOrder(n, seg) ==
    /\ ~(n.tcpstate = "SYN_SENT" /\ seg.flags = {"SYN", "ACK"})
    /\ SegLen(seg) > 0 \/ seg.flags \cap {"SYN", "FIN"} # {}
    /\ seg.seq # n.rcv_nxt

InSynSent(w, c, acked, seg) ==
    IF acked /\ seg.flags = {"SYN", "ACK"}
    THEN LET up == [rcv_nxt |-> seg.seq + 1, len |-> 0] @@ Become("ESTABLISHED")
         IN  appsend(uipclient_appcall(SetConn(w, c, up), c, {"CONNECTED", "NEWDATA"},
                                       [seg EXCEPT !.data = NoData]), c)
    ELSE reset(SetConn(uipclient_appcall(w, c, {"ABORT"}, seg).w, c, Become("CLOSED")), seg)

\* A FIN ends the connection at once, unless data is still outstanding.
FinIn(w, c, acked, seg) ==
    LET took == SetConn(w, c, [rcv_nxt |-> w.conns[c].rcv_nxt + 1 + SegLen(seg)])
        flags == {"CLOSE"} \cup (IF acked THEN {"ACKDATA"} ELSE {})
                           \cup (IF SegLen(seg) > 0 THEN {"NEWDATA"} ELSE {})
        told == uipclient_appcall(took, c, flags, seg).w
    IN  IF w.conns[c].len > 0 THEN w
        ELSE tcp_send(SetConn(told, c, [len |-> 1, nrtx |-> 0] @@ Become("LAST_ACK")),
                      c, {"FIN", "ACK"}, NoData)

InEstablished(w, c, acked, seg) ==
    LET n == w.conns[c]
        new == SegLen(seg) > 0 /\ ~n.stopped
        flags == (IF acked THEN {"ACKDATA"} ELSE {}) \cup (IF new THEN {"NEWDATA"} ELSE {})
        took == SetConn(w, c, [rcv_nxt |-> n.rcv_nxt + (IF new THEN SegLen(seg) ELSE 0)])
    IN  IF "FIN" \in seg.flags /\ ~n.stopped THEN FinIn(w, c, acked, seg)
        ELSE IF flags = {} THEN w
        ELSE appsend(uipclient_appcall(took, c, flags, seg), c)

InLastAck(w, c, acked, seg) ==
    IF acked THEN uipclient_appcall(SetConn(w, c, Become("CLOSED")), c, {"CLOSE"}, seg).w
    ELSE w

\* FIN_WAIT_1 and FIN_WAIT_2: what still comes is counted and thrown away.
InFinWait(w, c, acked, seg) ==
    LET n == w.conns[c]
        first == n.tcpstate = "FIN_WAIT_1"
        fin == "FIN" \in seg.flags
        took == SetConn(w, c, [rcv_nxt |-> n.rcv_nxt + SegLen(seg) + (IF fin THEN 1 ELSE 0)])
    IN  IF fin /\ first /\ ~acked
        THEN tcp_send_ack(uipclient_appcall(SetConn(took, c, Become("CLOSING")),
                                            c, {"CLOSE"}, seg).w, c)
        ELSE IF fin
        THEN tcp_send_ack(uipclient_appcall(SetConn(took, c,
                [timer |-> 0] @@ Become("TIME_WAIT")), c, {"CLOSE"}, seg).w, c)
        ELSE IF first /\ acked THEN SetConn(took, c, Become("FIN_WAIT_2"))
        ELSE IF SegLen(seg) > 0 THEN tcp_send_ack(took, c)
        ELSE w

InClosing(w, c, acked) ==
    IF acked THEN SetConn(w, c, [timer |-> 0] @@ Become("TIME_WAIT")) ELSE w

\* The switch on the state of the connection.
InState(w, c, acked, seg) ==
    CASE w.conns[c].tcpstate = "SYN_SENT" -> InSynSent(w, c, acked, seg)
      [] w.conns[c].tcpstate = "ESTABLISHED" -> InEstablished(w, c, acked, seg)
      [] w.conns[c].tcpstate = "LAST_ACK" -> InLastAck(w, c, acked, seg)
      [] w.conns[c].tcpstate \in {"FIN_WAIT_1", "FIN_WAIT_2"} -> InFinWait(w, c, acked, seg)
      [] w.conns[c].tcpstate = "TIME_WAIT" -> tcp_send_ack(w, c)
      [] w.conns[c].tcpstate = "CLOSING" -> InClosing(w, c, acked)
      [] OTHER -> w

\* found: any RST ends the connection, and the socket is told ABORT, which it
\* has no branch for.
Found(w, c, seg) ==
    IF "RST" \in seg.flags
    THEN uipclient_appcall(SetConn(w, c, Become("CLOSED")), c, {"ABORT"}, seg).w
    ELSE IF OutOfOrder(w.conns[c], seg) THEN tcp_send_ack(w, c)
    ELSE InState(SetConn(w, c, NoteAck(w.conns[c], seg)), c, Acks(w.conns[c], seg), seg)

tcp_input(w, seg) ==
    LET match == {c \in Conns : ~IsState(w.conns[c], "CLOSED") /\ w.conns[c].lport = seg.port}
    IN  IF match = {} THEN reset(w, seg) ELSE Found(w, Min(match), seg)

-----------------------------------------------------------------------------
\* UIP_TIMER, the retransmission of what is outstanding.
Resend(w, c) ==
    CASE w.conns[c].tcpstate = "SYN_SENT" -> tcp_send(w, c, {"SYN"}, NoData)
      [] w.conns[c].tcpstate = "ESTABLISHED" ->
            apprexmit(uipclient_appcall(w, c, {"REXMIT"}, NoSegment), c)
      [] w.conns[c].tcpstate \in {"FIN_WAIT_1", "CLOSING", "LAST_ACK"} ->
            tcp_send(w, c, {"FIN", "ACK"}, NoData)
      [] OTHER -> w

\* Mutant of GivenUp: one retransmission too late.
GivenUpLate(n) == n.nrtx > UIP_MAXRTX

GivenUp(n) ==
    n.nrtx = UIP_MAXRTX \/ (IsState(n, "SYN_SENT") /\ n.nrtx = UIP_MAXSYNRTX)

\* Exponential back-off, at most four doublings.
Backoff(n) == [timer |-> UIP_RTO * 2 ^ Min({n.nrtx, 4}), nrtx |-> n.nrtx + 1]

Outstanding(w, c) ==
    LET n == w.conns[c]
    IN  IF n.timer > 0 THEN SetConn(w, c, [timer |-> n.timer - 1])
        ELSE IF GivenUp(n)
        THEN tcp_send(uipclient_appcall(SetConn(w, c, Become("CLOSED")), c,
                                        {"TIMEDOUT"}, NoSegment).w, c, {"RST", "ACK"}, NoData)
        ELSE Resend(SetConn(w, c, Backoff(n)), c)

\* Mutant of Waited: the state is left only by what arrives.
WaitedForever(n) == n

\* The states in which the connection only waits for time to pass.
Waited(n) ==
    IF n.timer + 1 = UIP_TIME_WAIT_TIMEOUT
    THEN [n EXCEPT !.timer = @ + 1, !.tcpstate = "CLOSED"]
    ELSE [n EXCEPT !.timer = @ + 1]

Polled(w, c) == appsend(uipclient_appcall(w, c, {"POLL"}, NoSegment), c)

uip_timer(w, c) ==
    LET n == w.conns[c]
    IN  IF IsState(n, "TIME_WAIT") \/ IsState(n, "FIN_WAIT_2") THEN SetConn(w, c, Waited(n))
        ELSE IF IsState(n, "CLOSED") THEN w
        ELSE IF n.len > 0 THEN Outstanding(w, c)
        ELSE IF n.tcpstate = "ESTABLISHED" THEN Polled(w, c)
        ELSE w

\* UIP_POLL_REQUEST, for a socket that wrote something at least 10 ms ago.
uip_poll_request(w, c) ==
    LET n == w.conns[c]
        u == n.appstate
    IN  IF u = NULL \/ (u # NULL /\ ~w.all_data[u].pollTimer) THEN w
        ELSE [(IF n.tcpstate = "ESTABLISHED" /\ n.len = 0 THEN Polled(w, c) ELSE w)
                EXCEPT !.all_data[u].pollTimer = FALSE]

\* tick: one frame, the one kept if there is one, then the timers of every
\* connection.  timers says which: "periodic", "poll" or "none" is due.
TickInput(w, seg) ==
    IF w.held # NoSegment THEN tcp_input([w EXCEPT !.held = NoSegment], w.held)
    ELSE IF seg # NoSegment THEN tcp_input(w, seg)
    ELSE w

TickTimers(w, timers) ==
    FoldSet(LAMBDA c, v : IF timers = "periodic" THEN uip_timer(v, c)
                          ELSE uip_poll_request(v, c), w, Conns)

tick(w, seg, timers) ==
    IF timers = "none" THEN TickInput(w, seg) ELSE TickTimers(TickInput(w, seg), timers)

-----------------------------------------------------------------------------
(***************************************************************************)
(* External: the server.  It keeps what arrives in order, answers once the *)
(* request is complete, one unacknowledged segment at a time, and may      *)
(* reset.  Its end of an attempt only grows, so that what it may have said *)
(* up to now, and the network may deliver now, follows from where it is.   *)
(* Of an attempt that is over only stray segments are left: the gateway    *)
(* answers them with a reset, and they concern nothing below.              *)
(***************************************************************************)
NoPeer == [up |-> FALSE, got |-> <<>>, fin |-> FALSE, acked |-> 1]

\* What a segment of the gateway tells the server's end of the attempt.
Heard(e, seg) ==
    LET next == seg.seq = Len(e.got) + 1 /\ e.up /\ ~e.fin
    IN  [up |-> e.up \/ "SYN" \in seg.flags,
         got |-> IF next /\ seg.data # NoData THEN Append(e.got, seg.data) ELSE e.got,
         fin |-> e.fin \/ (next /\ "FIN" \in seg.flags),
         acked |-> IF e.up /\ "ACK" \in seg.flags THEN Max({e.acked, seg.ack}) ELSE e.acked]

\* A segment that is news to the server now or may be later.
News(seg, e) ==
    /\ "RST" \notin seg.flags /\ seg.port = lastport
    /\ \/ "SYN" \in seg.flags /\ ~e.up
       \/ seg.seq > Len(e.got) /\ ~e.fin /\ (seg.data # NoData \/ "FIN" \in seg.flags)
       \/ "ACK" \in seg.flags /\ seg.ack > e.acked

\* Everything the server may have sent on the attempt so far, the answer of an
\* old connection on the port to the SYN, and a reset, included.
Said ==
    LET e == server
        p == lastport
        Say(flags, seq, ack, data) ==
            [port |-> p, flags |-> flags, seq |-> seq, ack |-> ack, data |-> data]
        asked == Len(e.got) = AskedLen
        last == AskedLen + 1
        end == IF e.fin THEN {Len(e.got) + 2} ELSE {}
        acks == (1 .. Len(e.got) + 1) \cup end
    IN  IF ~e.up THEN {}
        ELSE {Say({"SYN", "ACK"}, 0, 1, NoData), Say({"RST"}, 1, 1, NoData),
              Say({"ACK"}, 1, 0, NoData)}
             \cup {Say({"ACK"}, e.acked, a, NoData) : a \in acks}
             \cup {Say({"ACK"}, i, a, Answered(p, i)) :
                    i \in {i \in 1 .. ReplyLen : asked /\ i <= e.acked}, a \in {last} \cup end}
             \cup {Say({"ACK", "FIN"}, i, a, Answered(p, i)) :
                    i \in {i \in {ReplyLen} : asked /\ i <= e.acked}, a \in {last} \cup end}
             \cup {Say({"ACK", "FIN"}, ReplyLen + 1, a, NoData) :
                    a \in IF e.acked > ReplyLen THEN {last} \cup end ELSE end}

Stray == [NoSegment EXCEPT !.flags = {"ACK"}]
Arriving == {NoSegment, Stray} \cup Said

ServerHears ==
    /\ ~Silent
    /\ \E seg \in sent :
        \E now \in {Heard(server, seg)} :
            /\ server' = now
            /\ sent' = {s \in sent : News(s, now)}
    /\ server' # server
    /\ UNCHANGED <<conns, all_data, held, lastport, app, age, pool, unstored>>

-----------------------------------------------------------------------------
(***************************************************************************)
(* The socket and its user.  Every call runs a tick first, with whatever   *)
(* the network and the clock have for it.                                  *)
(***************************************************************************)
Timers == {"none", "poll", "periodic"}

\* Put back what a tick, and the call after it, made of the stack.
Put(w) ==
    /\ conns' = w.conns /\ all_data' = w.all_data /\ held' = w.held
    /\ unstored' = w.unstored
    /\ sent' = {s \in sent \cup w.out : News(s, server)}

\* Past the time that matters the age only alternates, so that it still tells
\* a period from none.
Aged(timers) ==
    IF timers # "periodic" THEN age
    ELSE IF age = QueryTimeout + 2 THEN QueryTimeout + 1
    ELSE age + 1

\* One tick inside a call; Then(w) is what the call does after it.
Ticking(Then(_)) ==
    \E seg \in Arriving, timers \in Timers :
        /\ age' = Aged(timers)
        /\ \E w \in {tick(Stack, seg, timers)} : Then(w)
        /\ UNCHANGED <<server, lastport, pool>>

Goes(pc) == app' = [app EXCEPT !.pc = pc]

Ends(outcome) == app' = [app EXCEPT !.pc = "closing", !.outcome = outcome]

\* ConnectingEthernet: UipEthernet::init closes every connection and empties
\* the pool, but neither all_data nor what the connections point at, nor
\* inPacket.
ConnectEthernet ==
    /\ app.pc = "idle" /\ app.x < Exchanges
    /\ conns' = [c \in Conns |-> Become("CLOSED") @@ conns[c]]
    /\ all_data' = [d \in Conns |-> [all_data[d] EXCEPT
            !.packets_in = [i \in DOMAIN @ |-> Stale],
            !.packets_out = [i \in DOMAIN @ |-> Stale]]]
    /\ app' = [NewExchange EXCEPT !.pc = "opening", !.x = app.x + 1]
    /\ age' = 0
    /\ UNCHANGED <<held, sent, server, lastport, pool, unstored>>

\* connect returned an error: once more from the main loop, or give up.
Refused ==
    IF app.retries + 1 >= MAX_RETRIES
    THEN [app EXCEPT !.retries = @ + 1, !.pc = "closing", !.outcome = "fallback"]
    ELSE [app EXCEPT !.retries = @ + 1, !.pc = "opening"]

\* uip_connect: the first closed connection, else the oldest that only waits.
ConnFor(w) ==
    LET closed == {c \in Conns : IsState(w.conns[c], "CLOSED")}
        waiting == {c \in Conns : IsState(w.conns[c], "TIME_WAIT")}
        oldest == {c \in waiting : \A o \in waiting : w.conns[o].timer <= w.conns[c].timer}
    IN  IF closed # {} THEN Min(closed) ELSE IF waiting # {} THEN Min(oldest) ELSE NULL

uip_connect(w, c) ==
    SetConn(w, c, [lport |-> lastport + 1, snd_nxt |-> 0, len |-> 1, nrtx |-> 0, timer |-> 1]
                  @@ Become("SYN_SENT"))

\* The name is resolved; connect() stops a socket that has no data yet, which
\* is a tick, and asks the stack for a connection.
Connect ==
    /\ app.pc = "opening"
    /\ \E seg \in Arriving, timers \in Timers :
        \E w \in {tick(Stack, seg, timers)} :
            \E c \in {ConnFor(w)} :
                IF c = NULL
                THEN Put(w) /\ app' = Refused /\ UNCHANGED <<server, lastport>>
                ELSE /\ conns' = uip_connect(w, c).conns /\ all_data' = w.all_data
                     /\ held' = w.held /\ sent' = {} /\ server' = NoPeer
                     /\ unstored' = {}
                     /\ app' = [app EXCEPT !.pc = "connecting", !.conn = c,
                                           !.port = lastport + 1]
                     /\ lastport' = lastport + 1
    /\ age' = 0 /\ UNCHANGED pool

\* The name is not resolved: connect(host) returns what the lookup returned,
\* and the 0 of a lookup that could not ask reads as a connection.
NotResolved ==
    /\ app.pc = "opening"
    /\ \/ app' = Refused
       \/ app' = [app EXCEPT !.pc = "sending", !.left = Request(app.x)]
    /\ age' = 0
    /\ UNCHANGED <<conns, all_data, held, sent, server, lastport, pool, unstored>>

\* One turn of connect()'s loop.
AwaitConnection ==
    /\ app.pc = "connecting"
    /\ Ticking(LAMBDA w :
        /\ Put(w)
        /\ app' = CASE w.conns[app.conn].tcpstate = "ESTABLISHED" ->
                        [app EXCEPT !.pc = "sending", !.left = Request(app.x),
                                    !.data = w.conns[app.conn].appstate]
                    [] w.conns[app.conn].tcpstate = "CLOSED" -> Refused
                    [] OTHER -> app)

\* _write, one turn: as many blocks as the queue and the pool take.  A socket
\* that is closing refuses; a socket whose entry was freed does not.
Writable(w) ==
    app.data # NULL /\ w.all_data[app.data].state \cap {"CLOSE", "REMOTECLOSED"} = {}

Fitting(w) ==
    Min({Len(app.left), UIP_SOCKET_NUMPACKETS - Len(w.all_data[app.data].packets_out)})

WriteSome(w, n) ==
    [w EXCEPT !.all_data[app.data].packets_out = @ \o SubSeq(app.left, 1, n),
              !.all_data[app.data].pollTimer = @ \/ n = Len(app.left)]

Write ==
    /\ app.pc = "sending"
    /\ Ticking(LAMBDA w :
        IF ~Writable(w) THEN Put(w) /\ Ends("fallback")
        ELSE \E n \in {IF Room(w) THEN Fitting(w) ELSE 0} :
                /\ Put(WriteSome(w, n))
                /\ app' = [app EXCEPT !.left = SubSeq(@, n + 1, Len(@)),
                                      !.pc = IF n = Len(app.left) THEN "awaiting" ELSE @])

\* operator bool and available(), after their tick.
IsOpen(w) ==
    /\ app.data # NULL
    /\ \/ "REMOTECLOSED" \notin w.all_data[app.data].state
       \/ w.all_data[app.data].packets_in # <<>>

available(w) == IF IsOpen(w) THEN Len(w.all_data[app.data].packets_in) ELSE 0

\* One turn of the loop that waits for an answer until the time is over.
AwaitReply ==
    /\ app.pc = "awaiting"
    /\ Ticking(LAMBDA w :
        /\ Put(w)
        /\ \/ available(w) > 0 /\ Goes("reading")
           \/ available(w) = 0 /\ age' > QueryTimeout /\ Ends("fallback")
           \/ available(w) = 0 /\ age' <= QueryTimeout /\ UNCHANGED app)

\* The loop that reads: how much there is ...
AwaitMore ==
    /\ app.pc = "reading"
    /\ Ticking(LAMBDA w :
        /\ Put(w)
        /\ \/ available(w) > 0 /\ app' = [app EXCEPT !.pc = "receiving", !.want = available(w)]
           \/ available(w) = 0 /\ Ends("delivered"))

\* ... and recv.  Each block read to its end asks for a restart when the
\* connection numbered as the entry is stopped; the last one frees an entry
\* the peer has closed.
EatBlocks(w, n) ==
    LET d == w.all_data[app.data]
        restart == w.conns[app.data].stopped /\ d.state \cap {"CLOSE", "REMOTECLOSED"} = {}
        rest == SubSeq(d.packets_in, n + 1, Len(d.packets_in))
    IN  [w EXCEPT !.all_data[app.data] = [d EXCEPT
            !.packets_in = rest,
            !.state = IF rest = <<>> /\ "REMOTECLOSED" \in @ THEN {}
                      ELSE IF restart THEN @ \cup {"RESTART"} ELSE @]]

Receive ==
    /\ app.pc = "receiving"
    /\ Ticking(LAMBDA w :
        IF ~IsOpen(w) THEN Put(w) /\ Ends("fallback")
        ELSE \E n \in {Min({app.want, Len(w.all_data[app.data].packets_in)})} :
                /\ Put(EatBlocks(w, n))
                /\ app' = [app EXCEPT
                    !.pc = "reading",
                    !.read = @ \o SubSeq(w.all_data[app.data].packets_in, 1, n),
                    !.data = IF EatBlocks(w, n).all_data[@].state = {} THEN NULL ELSE @])

\* disconnect: stop() drops what was not read, marks the entry or frees it,
\* and ticks once more; then the board is left alone.
Stopped ==
    IF app.data = NULL THEN Stack
    ELSE IF all_data[app.data].state = {} THEN Stack
    ELSE [Stack EXCEPT !.all_data[app.data] = [@ EXCEPT
            !.packets_in = <<>>,
            !.state = IF "REMOTECLOSED" \in @ THEN {} ELSE @ \cup {"CLOSE"}]]

Disconnect ==
    /\ app.pc = "closing"
    /\ \E seg \in Arriving, timers \in Timers : Put(tick(Stopped, seg, timers))
    /\ app' = [app EXCEPT !.pc = "idle", !.data = NULL]
    /\ age' = 0
    /\ UNCHANGED <<server, lastport, pool>>

\* No call of the exchange kicks the watchdog once connect() has begun: the
\* gateway restarts with its memory cleared.
WatchdogBites ==
    /\ app.pc \notin {"idle", "opening"} /\ age >= WatchdogTimeout
    /\ conns' = [c \in Conns |-> NewConn] /\ all_data' = [d \in Conns |-> NewData]
    /\ held' = NoSegment /\ unstored' = {}
    /\ app' = [NewExchange EXCEPT !.x = app.x, !.outcome = "reset"]
    /\ age' = 0
    /\ UNCHANGED <<sent, server, lastport, pool>>

-----------------------------------------------------------------------------
Init ==
    /\ conns = [c \in Conns |-> NewConn] /\ all_data = [d \in Conns |-> NewData]
    /\ held = NoSegment /\ sent = {}
    /\ server = NoPeer
    /\ lastport = 0 /\ app = NewExchange /\ age = 0
    /\ pool \in PoolSizes /\ unstored = {}

Next ==
    \/ ConnectEthernet \/ Connect \/ NotResolved
    \/ AwaitConnection \/ Write \/ AwaitReply
    \/ AwaitMore \/ Receive \/ Disconnect
    \/ WatchdogBites \/ ServerHears

Spec == Init /\ [][Next]_vars

\* The loops of the exchange keep calling tick() and the clock goes on: an
\* exchange that never ended would see one period after the other.  Nothing is
\* asked of the server, the network or the watchdog.
FairSpec ==
    /\ Spec
    /\ WF_vars(Connect) /\ WF_vars(Disconnect)
    /\ []<>(app.pc = "idle") \/ []<><<age' # age>>_age

-----------------------------------------------------------------------------
\* The types, the retransmission limit and the queues' lengths; and an entry of
\* all_data in use belongs to the running exchange or to a connection that will
\* free it: no order of closing, timing out and reading leaves one behind.
TypeOK ==
    /\ \A c \in Conns :
        /\ conns[c].tcpstate \in TcpStates
        /\ conns[c].appstate \in {NULL} \cup Conns
        /\ conns[c].nrtx \in 0 .. UIP_MAXRTX /\ conns[c].len \in 0 .. 1
    /\ \A d \in Conns :
        /\ all_data[d].state \subseteq {"CONNECTED", "CLOSE", "REMOTECLOSED", "RESTART"}
        /\ Len(all_data[d].packets_in) <= UIP_SOCKET_NUMPACKETS
        /\ Len(all_data[d].packets_out) <= UIP_SOCKET_NUMPACKETS
    /\ app.pc \in {"idle", "opening", "connecting", "sending", "awaiting", "reading",
                   "receiving", "closing"}
    /\ app.data \in {NULL} \cup Conns
    /\ \A d \in Conns : all_data[d].state # {} =>
        d = app.data \/ \E c \in Conns : conns[c].appstate = d

\* What the exchange has of the reply: read, or queued for it to read.
Arrived == app.read \o (IF app.data = NULL THEN <<>> ELSE all_data[app.data].packets_in)

InExchange == app.pc \in {"sending", "awaiting", "reading", "receiving"} /\ app.port # 0

\* The entry of all_data the exchange holds is still a socket.  uip_init leaves
\* appstate and a CLOSE of the last exchange, so that a new connection may take
\* the entry up, close at once and free it under the exchange; what comes then
\* is acknowledged and thrown away, as after any close.
InUse == InExchange /\ app.data # NULL /\ all_data[app.data].state # {}

\* The reply but for the data there was no block for.
Stored == SelectSeq(Reply(app.port), LAMBDA b : b \notin unstored)

\* The reply reaches the exchange in order, without a hole and without a
\* repetition, whatever the network loses, repeats or reorders: the sequence
\* check of uip_process and the queue of uipclient_appcall together.  Where
\* blocks run out, only data there was no block for is missing: the frame kept
\* in the chip, fed to the stack once more, is not taken a second time.
ReplyInOrder == InExchange => IsPrefix(Arrived, Stored)

\* What the stack has acknowledged to the server the exchange can still read:
\* rcv_nxt is advanced before the socket is asked for a place, so the peer has
\* to be stopped one segment early and restarted not before a place is free.
\* Data there was no block for is acknowledged and lost; in this build the pool
\* has a block for every place of the queues (ten of 512 bytes and a frame, of
\* 6145 bytes), and nothing is.
NothingAckedIsLost ==
    InUse => \A i \in 1 .. Min({server.acked - 1, ReplyLen}) :
                Answered(app.port, i) \in ToSet(Arrived) \cup unstored

\* An exchange that counts as delivered (the gateway moves to
\* SensingBatteryStatus) put exactly its own request on the server, even after
\* exchanges that were given up and left their socket behind.
DeliveredMeansReceived ==
    app.outcome = "delivered" => server.got = Request(app.x)

\* An exchange that started ends, without the watchdog: connect() has no
\* timeout of its own and leans on the stack closing every connection.
ExchangeEnds == app.pc # "idle" ~> app.pc = "idle"

\* The gateway gives a server that does not answer up, and turns to the mobile
\* network, before its watchdog runs out.
GivesUpInTime == app.outcome # "reset"

\* connect() never waits for a connection that the gateway itself is closing.
OpensUnclosed ==
    app.pc = "connecting" => conns[app.conn].tcpstate \in {"SYN_SENT", "CLOSED"}
=============================================================================
