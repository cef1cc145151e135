--------------------------- MODULE EthernetSetup ---------------------------
(***************************************************************************)
(* What the gateway does on Ethernet before it can forward a message:      *)
(* ConnectingEthernet brings the stack up and asks for an address          *)
(* (UipEthernet::connect, DhcpClient), ObtaingTimeUTCThroughEthernet looks *)
(* the time server's name up, twice (UdpSocket::sendto, DnsClient), and    *)
(* asks it for the time.  All of it runs on one UDP socket at a time       *)
(* (UdpSocket.tla), in one thread, inside calls that poll tick().          *)
(*                                                                         *)
(* The rest of the network is external: DHCP servers, a router, a DNS      *)
(* server, a time server, a host that asks for us; and frames that are     *)
(* lost, repeated or late, also by a whole round.                          *)
(*                                                                         *)
(* Time is counted in polls: 50 ms in DHCP, and in the other waits the     *)
(* share of a second that the bounds make it.                              *)
(***************************************************************************)
EXTENDS UdpSocket

CONSTANTS
    Servers,            \* the DHCP servers
    LeaseOf,            \* the address each of them has for the gateway
    Foreign,            \* those whose address has another first octet than a lease
    Router, DnsServer, TimeServer, Chatty,
    Timeout,            \* polls connect() may last (15 s)
    DnsTimeout,         \* polls processResponse waits (5000 ms)
    RecvTimeout,        \* polls recvfrom waits (1000 ms)
    WatchdogTimeout,    \* polls until the watchdog resets the gateway (5000 ms)
    Initials,           \* first transaction ids, at random in the code
    Rounds,             \* bound: messages to set Ethernet up for
    MaxInFlight         \* bound: frames under way to the gateway

Lease(s) == LeaseOf[s]
Leases == {Lease(s) : s \in Servers}

ASSUME SetupAssumption ==
    /\ {Timeout, DnsTimeout, RecvTimeout, WatchdogTimeout, Rounds, MaxInFlight} \subseteq Nat
    /\ Initials \subseteq Nat \ {0} /\ Initials # {}
    /\ Foreign \subseteq Servers /\ {Router, DnsServer} \cup Servers \subseteq LocalHosts
    /\ TimeServer \notin LocalHosts /\ {ZERO, BROADCAST} \cap (LocalHosts \cup {TimeServer}) = {}
    /\ RecvTimeout <= DnsTimeout
    /\ DOMAIN LeaseOf = Servers /\ ZERO \notin Leases

VARIABLES
    world,      \* the stack: see UdpSocket
    dhcp,       \* DhcpClient: state, transaction ids, the lease so far
    at,         \* where the gateway is: which call, and how long it waits
    flight,     \* frames under way to the gateway
    granted,    \* external: servers that have acknowledged their address to us
    round       \* how often Ethernet was set up

vars == <<world, dhcp, at, flight, granted, round>>

NoNet == [hostaddr |-> ZERO, draddr |-> ZERO, dnsServerAddress |-> ZERO]
NoWorld == [sock |-> Closed, arp |-> uip_arp_init, blocks |-> 0, net |-> NoNet,
            wire |-> {}, sent |-> 0]
NoLease == [state |-> "START", xid |-> 0, initial |-> 0, ip |-> ZERO, server |-> ZERO]
Idle == [pc |-> "idle", waited |-> 0, elapsed |-> 0, fed |-> 0, retries |-> 0,
         id |-> 0, clock |-> "unset"]

Init ==
    /\ world = NoWorld /\ dhcp = NoLease /\ at = Idle
    /\ flight = {} /\ granted = {} /\ round = 0

(***************************************************************************)
(* A tick takes one frame, or none, and may find the UDP period over.  A   *)
(* frame may come again: the network need not forget it.                   *)
(***************************************************************************)
Arrivals == {{}} \cup {{f} : f \in flight}
Forgotten(frames) == \E rest \in {flight, flight \ frames} : flight' = rest

(***************************************************************************)
(* UipEthernet::connect and DhcpClient::requestDhcpLease.  uip_init and    *)
(* uip_arp_init forget the sockets and the MAC addresses, MemPool::init    *)
(* every block, but the host keeps the address of the round before.        *)
(***************************************************************************)
Initialised(w) == [w EXCEPT !.sock = Closed, !.arp = uip_arp_init, !.blocks = 0, !.sent = 0]
Connect ==
    /\ at.pc = "idle" /\ round < Rounds
    /\ round' = round + 1
    /\ world' = begin(Initialised(world), DHCP_CLIENT_PORT)
    /\ \E x \in Initials : dhcp' = [NoLease EXCEPT !.xid = x, !.initial = x]
    /\ at' = [Idle EXCEPT !.pc = "dhcp"]
    /\ UNCHANGED <<flight, granted>>

\* sendDhcpMessage: the tick of beginPacket comes before the address is set,
\* and the request names the server, but with the first octet of the lease.
SidSent(d) == IF d.server = ZERO \/ d.server \in Foreign THEN ZERO ELSE d.server
Discover(d) == [kind |-> "discover", xid |-> d.xid, ip |-> ZERO, sid |-> ZERO]
RequestFor(d) == [kind |-> "request", xid |-> d.xid, ip |-> d.ip, sid |-> SidSent(d)]
sendDhcpMessage(w, msg) == SendPacket(w, BROADCAST, DHCP_SERVER_PORT, msg)

\* Mutant of TimedOut: the loop's time is not limited.
NeverTimedOut(elapsed) == FALSE

\* The end of the loop's body: the lease was not obtained in time.  A packet
\* costs time too, a poll's worth.
TimedOut(elapsed) == elapsed > Timeout
Later(elapsed) == IF TimedOut(elapsed) THEN elapsed ELSE elapsed + 1

DhcpStart ==
    /\ at.pc = "dhcp" /\ dhcp.state = "START"
    /\ \E frames \in Arrivals, periodic \in BOOLEAN :
         /\ world' = sendDhcpMessage(tick(world, frames, periodic),
                                     Discover([dhcp EXCEPT !.xid = @ + 1]))
         /\ Forgotten(frames)
    /\ dhcp' = [dhcp EXCEPT !.xid = @ + 1, !.state = "DISCOVER"]
    /\ UNCHANGED <<at, granted, round>>

Polled(w, frames, periodic) == parsePacket(tick(w, frames, periodic))

\* Mutant of DhcpWaits: the answer is awaited without a limit.
WaitsForever(w) == world' = w /\ at' = [at EXCEPT !.waited = 1] /\ UNCHANGED dhcp

\* parseDhcpResponse polls at once and, responseTimeout being 4 but compared
\* with milliseconds, only once more after its sleep of 50 ms.
DhcpWaits(w) ==
    /\ world' = w
    /\ IF at.waited = 0
       THEN /\ at' = [at EXCEPT !.waited = 1, !.elapsed = Later(@)]
            /\ UNCHANGED dhcp
       ELSE /\ at' = [at EXCEPT !.waited = 0,
                                !.pc = IF TimedOut(at.elapsed) THEN "giveup" ELSE "dhcp"]
            /\ dhcp' = [dhcp EXCEPT !.state = "START"]
DhcpPoll ==
    /\ at.pc = "dhcp" /\ dhcp.state \in {"DISCOVER", "REQUEST"}
    /\ world.sock.packet_in = NOBLOCK
    /\ \E frames \in Arrivals, periodic \in BOOLEAN :
         /\ Forgotten(frames)
         /\ \E w \in {Polled(world, frames, periodic)} :
              IF w.sock.packet_in = NOBLOCK THEN DhcpWaits(w)
              ELSE /\ world' = w /\ at' = [at EXCEPT !.waited = 0] /\ UNCHANGED dhcp
    /\ UNCHANGED <<granted, round>>

\* Every read() of the answer is a tick too.
ReadTick ==
    /\ at.pc \in {"dhcp", "lookup1", "lookup2"} /\ world.sock.packet_in # NOBLOCK
    /\ \E f \in flight, periodic \in BOOLEAN :
         world' = tick(world, {f}, periodic) /\ Forgotten({f})
    /\ UNCHANGED <<dhcp, at, granted, round>>

\* parseDhcpResponse: the address is taken from any answer to one of our
\* transactions; the server's name only when none is known, or when it is
\* the one whose packet came last.
Expected(d, w, f) == w.sock.rport = DHCP_SERVER_PORT /\ f.xid \in d.initial .. d.xid
ServerNamed(d, w, f) ==
    IF d.server \in {ZERO, w.sock.ripaddr} THEN f.src ELSE d.server
Learned(d, w, f) ==
    IF ~Expected(d, w, f) THEN d
    ELSE [d EXCEPT !.ip = f.ip, !.server = ServerNamed(d, w, f)]
TypeOf(d, w, f) == IF Expected(d, w, f) THEN f.kind ELSE "none"

\* set_network after a lease: the address, and with it the router and the
\* DNS server the answer named.
Configured(w, d) ==
    [w EXCEPT !.net = [hostaddr |-> d.ip, draddr |-> Router, dnsServerAddress |-> DnsServer]]
Leased(w, d) ==
    /\ dhcp' = [d EXCEPT !.state = "LEASED", !.xid = @ + 1]
    /\ world' = Configured(stop(flush(w)), d)
    /\ at' = [at EXCEPT !.pc = "connected"]
Requested(w, d, f) ==
    /\ dhcp' = [d EXCEPT !.xid = f.xid, !.state = "REQUEST"]
    /\ \E frames \in Arrivals :
         /\ world' = sendDhcpMessage(tick(flush(w), frames, FALSE),
                                     RequestFor([d EXCEPT !.xid = f.xid]))
         /\ Forgotten(frames)
    /\ UNCHANGED at
Ignored(w, d, state) ==
    /\ dhcp' = [d EXCEPT !.state = state]
    /\ world' = flush(w)
    /\ at' = [at EXCEPT !.pc = IF TimedOut(at.elapsed) THEN "giveup" ELSE "dhcp",
                        !.elapsed = Later(@)]

\* Mutant of IsAck: the type of the answer to a request is not looked at.
OfferIsAck(type) == type \in {"ack", "offer"}

IsAck(type) == type = "ack"

\* requestDhcpLease: what an answer of this type does in this state.
DhcpParsed ==
    /\ at.pc = "dhcp" /\ world.sock.packet_in # NOBLOCK
    /\ \E f \in {world.sock.packet_in} :
       \E d \in {Learned(dhcp, world, f)}, type \in {TypeOf(dhcp, world, f)} :
         \/ /\ dhcp.state = "DISCOVER" /\ type = "offer"
            /\ Requested(world, d, f)
         \/ /\ dhcp.state = "DISCOVER" /\ type # "offer"
            /\ Ignored(world, d, "DISCOVER") /\ UNCHANGED flight
         \/ /\ dhcp.state = "REQUEST" /\ IsAck(type)
            /\ Leased(world, d) /\ UNCHANGED flight
         \/ /\ dhcp.state = "REQUEST" /\ ~IsAck(type)
            /\ Ignored(world, d, IF type = "nak" THEN "START" ELSE "REQUEST")
            /\ UNCHANGED flight
    /\ UNCHANGED <<granted, round>>

\* connect() returns -1: the mobile network is tried.
DhcpGivesUp ==
    /\ at.pc = "giveup"
    /\ world' = stop(world)
    /\ at' = Idle
    /\ UNCHANGED <<dhcp, flight, granted, round>>

(***************************************************************************)
(* DnsClient::getHostByName on a socket of its own, from sendto and again  *)
(* from beginPacket(host).  The query is sent once; only its ARP request   *)
(* is repeated.  The id is drawn from a generator seeded with the second,  *)
(* so the two lookups may use the same.  Nothing here kicks the watchdog.  *)
(***************************************************************************)
Query(id) == [kind |-> "query", id |-> id]
Lookup ==
    /\ at.pc \in {"connected", "between"}
    /\ \E id \in 1 .. 2, frames \in Arrivals :
         /\ world' = SendPacket(tick(begin(world, DNS_LOCAL_PORT), frames, FALSE),
                                world.net.dnsServerAddress, DNS_PORT, Query(id))
         /\ Forgotten(frames)
         /\ at' = [at EXCEPT !.pc = IF @ = "connected" THEN "lookup1" ELSE "lookup2",
                             !.id = id, !.waited = 0, !.retries = 0]
    /\ UNCHANGED <<dhcp, granted, round>>

\* getHostByName returns and the first result is not used: sendto looks the
\* name up again, and gives up when the second lookup failed.
LookedUp(w, found) ==
    /\ world' = stop(w)
    /\ at' = [at EXCEPT !.waited = 0, !.retries = 0,
                        !.pc = IF @ = "lookup1" THEN "between"
                               ELSE IF found THEN "asktime" ELSE "done"]

\* No packet: the timeout of processResponse, of which there are three.
DnsWaits(w) ==
    IF at.waited <= DnsTimeout
    THEN /\ world' = w
         /\ at' = [at EXCEPT !.waited = @ + 1, !.fed = @ + 1]
    ELSE IF at.retries < 2
    THEN /\ world' = w
         /\ at' = [at EXCEPT !.waited = 0, !.retries = @ + 1]
    ELSE LookedUp(w, FALSE)
DnsPoll ==
    /\ at.pc \in {"lookup1", "lookup2"} /\ world.sock.packet_in = NOBLOCK
    /\ at.fed < WatchdogTimeout
    /\ \E frames \in Arrivals, periodic \in BOOLEAN :
         /\ Forgotten(frames)
         /\ \E w \in {Polled(world, frames, periodic)} :
              IF w.sock.packet_in = NOBLOCK THEN DnsWaits(w) ELSE world' = w /\ UNCHANGED at
    /\ UNCHANGED <<dhcp, granted, round>>

\* processResponse: any packet but an answer to this query ends the lookup.
DnsParsed ==
    /\ at.pc \in {"lookup1", "lookup2"} /\ world.sock.packet_in # NOBLOCK
    /\ \E f \in {world.sock.packet_in} :
         LookedUp(flush(world), /\ world.sock.ripaddr = world.net.dnsServerAddress
                                /\ world.sock.rport = DNS_PORT
                                /\ f.id = at.id /\ f.ok)
    /\ UNCHANGED <<dhcp, flight, granted, round>>

(***************************************************************************)
(* queryUTCTimeViaRemoteServer after the lookups: sendto's packet, then    *)
(* recvfrom, whose result is not looked at.                                *)
(***************************************************************************)
AskTime ==
    /\ at.pc = "asktime"
    /\ \E frames \in Arrivals :
         \E w \in {SendPacket(tick(begin(world, TIME_LOCAL_PORT), frames, FALSE),
                              TimeServer, NTP_SERVER_PORT, [kind |-> "asktime"])} :
              /\ Forgotten(frames)
              /\ world' = IF w.sock.packet_out = NOBLOCK /\ w.sent = 0 THEN stop(w) ELSE w
              /\ at' = [at EXCEPT !.pc = IF w.sock.packet_out = NOBLOCK /\ w.sent = 0
                                         THEN "done" ELSE "receive"]
    /\ UNCHANGED <<dhcp, granted, round>>

recvfrom ==
    /\ at.pc = "receive" /\ at.fed < WatchdogTimeout
    /\ \E frames \in Arrivals, periodic \in BOOLEAN :
         /\ Forgotten(frames)
         /\ \E w \in {Polled(world, frames, periodic)} :
              IF w.sock.packet_in # NOBLOCK
              THEN /\ world' = stop(flush(w))
                   /\ at' = [at EXCEPT !.pc = "done", !.clock = "answer"]
              ELSE IF at.waited < RecvTimeout
              THEN /\ world' = w
                   /\ at' = [at EXCEPT !.waited = @ + 1, !.fed = @ + 1]
              ELSE /\ world' = stop(w)
                   /\ at' = [at EXCEPT !.pc = "done", !.clock = "uninitialised"]
    /\ UNCHANGED <<dhcp, granted, round>>

\* The gateway goes on to FormattingMessage; its loop kicks the watchdog.
FormatMessage ==
    /\ at.pc = "done" /\ at' = Idle
    /\ UNCHANGED <<world, dhcp, flight, granted, round>>

\* The watchdog resets the gateway, and the reset clears its memory.
WatchdogBites ==
    /\ at.pc \in {"lookup1", "lookup2", "receive"} /\ at.fed >= WatchdogTimeout
    /\ world' = [NoWorld EXCEPT !.wire = world.wire] /\ dhcp' = NoLease /\ at' = Idle
    /\ UNCHANGED <<flight, granted, round>>

(***************************************************************************)
(* External: the hosts answer what reached them, or it was lost.           *)
(***************************************************************************)
UdpFrom(src, mac, srcport, destport, dest) ==
    [src |-> src, mac |-> mac, srcport |-> srcport, destport |-> destport, dest |-> dest]
DhcpAnswers(q, s) ==
    LET answer(kind, ip) ==
          WithHeaders([kind |-> kind, xid |-> q.xid, ip |-> ip],
                      UdpFrom(s, s, DHCP_SERVER_PORT, DHCP_CLIENT_PORT, BROADCAST))
    IN  IF q.kind = "discover" THEN {answer("offer", Lease(s))}
        ELSE IF q.sid # s THEN {}
        ELSE {answer("nak", ZERO)} \cup
             (IF q.ip = Lease(s) THEN {answer("ack", Lease(s))} ELSE {})
Answers(q) ==
    CASE q.kind \in {"discover", "request"} -> UNION {DhcpAnswers(q, s) : s \in Servers}
      [] q.kind = "arp" /\ q.dest \in LocalHosts ->
           {[kind |-> "arpreply", src |-> q.dest, mac |-> q.dest, dest |-> q.src]}
      [] q.kind = "query" /\ q.to = DnsServer ->
           {WithHeaders([kind |-> "dns", id |-> q.id, ok |-> b],
                        UdpFrom(DnsServer, DnsServer, DNS_PORT, DNS_LOCAL_PORT, q.src))
              : b \in BOOLEAN}
      [] q.kind = "asktime" /\ q.to = Router ->
           {WithHeaders([kind |-> "time"],
                        UdpFrom(TimeServer, Router, NTP_SERVER_PORT, TIME_LOCAL_PORT, q.src))}
      [] OTHER -> {}

\* A host answers the last frame, any number of times; the answers to the
\* frames before are those already under way.
HostAnswers ==
    /\ Cardinality(flight) < MaxInFlight
    /\ \E q \in world.wire : \E a \in Answers(q) :
         /\ flight' = flight \cup {a}
         /\ granted' = IF a.kind = "ack" THEN granted \cup {a.src} ELSE granted
    /\ UNCHANGED <<world, dhcp, at, round>>

\* A host of the local network asks for our MAC address.
AskMac == [kind |-> "arp", src |-> Chatty, mac |-> Chatty, dest |-> world.net.hostaddr]
HostAsks ==
    /\ Cardinality(flight) < MaxInFlight /\ world.net.hostaddr # ZERO
    /\ flight' = flight \cup {AskMac}
    /\ UNCHANGED <<world, dhcp, at, granted, round>>
LoseFrame ==
    /\ \E f \in flight : flight' = flight \ {f}
    /\ UNCHANGED <<world, dhcp, at, granted, round>>

Next ==
    \/ Connect \/ DhcpStart \/ DhcpPoll \/ ReadTick \/ DhcpParsed \/ DhcpGivesUp
    \/ Lookup \/ DnsPoll \/ DnsParsed \/ AskTime \/ recvfrom \/ FormatMessage
    \/ WatchdogBites
    \/ HostAnswers \/ HostAsks \/ LoseFrame

Spec == Init /\ [][Next]_vars

\* The gateway runs its calls to their end; nothing is asked of the network.
Fairness ==
    /\ WF_vars(DhcpStart) /\ WF_vars(DhcpPoll) /\ WF_vars(DhcpParsed)
    /\ WF_vars(DhcpGivesUp) /\ WF_vars(Lookup) /\ WF_vars(DnsPoll) /\ WF_vars(DnsParsed)
    /\ WF_vars(AskTime) /\ WF_vars(recvfrom) /\ WF_vars(FormatMessage)
    /\ WF_vars(WatchdogBites)
FairSpec == Spec /\ Fairness

-----------------------------------------------------------------------------
\* The types and the limits of the waits; and every block in use is one the
\* socket can still free, and between two messages there is none: the exits of
\* getHostByName, sendto, recvfrom and requestDhcpLease each call stop(),
\* whatever arrived meanwhile.
TypeOK ==
    /\ dhcp.state \in {"START", "DISCOVER", "REQUEST", "LEASED"}
    /\ dhcp.ip \in Leases \cup {ZERO} /\ dhcp.server \in Servers \cup {ZERO}
    /\ world.net.hostaddr \in Leases \cup {ZERO}
    /\ world.blocks \in 0 .. PoolBlocks
    /\ at.waited \in 0 .. DnsTimeout + 1 /\ at.elapsed \in 0 .. Timeout + 1
    /\ at.fed \in 0 .. WatchdogTimeout
    /\ world.blocks = Held(world.sock)
    /\ at.pc \in {"idle", "connected", "between", "asktime", "done"} => world.sock = Closed

\* The address connect() configures is one a server has acknowledged to this
\* gateway, never one that was only offered: offers of another server, and
\* answers to earlier transactions, arrive while an acknowledgement is awaited
\* and are parsed into the same _dhcpLocalIp.
LeaseAcknowledged == world.net.hostaddr # ZERO => \E s \in granted : world.net.hostaddr = Lease(s)

\* A request that waits for its answer was sent exactly once, or waits for a
\* MAC address and is still held, to be sent when that is known; and it goes to
\* the MAC address of the host that is to forward it, also when entries of the
\* ARP table were thrown away and written again.
SentOnceToNextHop ==
    /\ at.pc \in {"lookup1", "lookup2", "receive"} =>
         \/ world.sent = 1 /\ world.sock.packet_out = NOBLOCK
         \/ world.sent = 0 /\ world.sock.packet_out # NOBLOCK /\ world.sock.send
    /\ \A q \in world.wire : q.kind \in {"query", "asktime"} =>
         q.to = IF q.dest \in LocalHosts THEN q.dest ELSE Router

\* Setting Ethernet up ends: with the time asked for, with the mobile network
\* in its place, or with a reset.
SetupEnds == at.pc # "idle" ~> at.pc = "idle"
=============================================================================
