----------------------------- MODULE UdpSocket -----------------------------
(***************************************************************************)
(* A UDP socket of the Ethernet stack (UIPEthernet/UdpSocket.cpp) over uIP *)
(* (utility/uip.c) and its ARP table (utility/uip_arp.c).  The operators   *)
(* take the world the stack works on, a record                             *)
(*                                                                         *)
(*   sock    the socket: its uip_udp_conn and its appdata                  *)
(*   arp     arp_table, entry by entry: the IP address and the MAC address *)
(*   blocks  blocks of the chip's memory in use                            *)
(*   net     uip_hostaddr, uip_draddr and the DNS server's address         *)
(*   wire    the frame the gateway sent last: at most one                  *)
(*   sent    how often the socket's last packet was put on the wire        *)
(*                                                                         *)
(* and return the world after the call.  The code that calls them is in    *)
(* EthernetSetup.tla, which keeps the world in a variable.                 *)
(***************************************************************************)
EXTENDS Integers, FiniteSets, FiniteSetsExt

CONSTANTS
    UIP_ARPTAB_SIZE,    \* entries of arp_table (8)
    PoolBlocks,         \* blocks the chip's memory holds
    LocalHosts          \* addresses inside the local network

ASSUME UdpAssumption ==
    /\ UIP_ARPTAB_SIZE \in Nat \ {0} /\ PoolBlocks \in Nat /\ PoolBlocks >= 2

ZERO == "0.0.0.0"
BROADCAST == "255.255.255.255"
NOBLOCK == <<>>

\* The frames carry one message each; to is the MAC address, named by its host.
DHCP_SERVER_PORT == 67
DHCP_CLIENT_PORT == 68
DNS_PORT == 53
DNS_LOCAL_PORT == 1024
NTP_SERVER_PORT == 37
TIME_LOCAL_PORT == 1027

\* struct uip_udp_conn and uip_udp_userdata_t of a socket nobody opened.
Closed == [lport |-> 0, rport |-> 0, ripaddr |-> ZERO, packet_in |-> NOBLOCK,
           packet_next |-> NOBLOCK, packet_out |-> NOBLOCK, send |-> FALSE]

(***************************************************************************)
(* uip_arp.c.  uip_arp_timer is never called, so arptime stays 0, no entry *)
(* grows older than another and the one thrown away is always the first.   *)
(***************************************************************************)
NoEntry == [ipaddr |-> ZERO, ethaddr |-> ZERO]
uip_arp_init == [i \in 1 .. UIP_ARPTAB_SIZE |-> NoEntry]

EntriesOf(arp, ip) == {i \in DOMAIN arp : arp[i].ipaddr = ip}
OldestEntry == 1
Slot(arp, ip) ==
    IF EntriesOf(arp, ip) # {} THEN Min(EntriesOf(arp, ip))
    ELSE IF EntriesOf(arp, ZERO) # {} THEN Min(EntriesOf(arp, ZERO))
    ELSE OldestEntry

\* Mutant of uip_arp_update: an entry keeps the address it had.
MacKept(arp, ip, mac) ==
    [arp EXCEPT ![Slot(arp, ip)].ipaddr = ip,
                ![Slot(arp, ip)].ethaddr = IF @ = ZERO THEN mac ELSE @]

uip_arp_update(arp, ip, mac) == [arp EXCEPT ![Slot(arp, ip)] = [ipaddr |-> ip, ethaddr |-> mac]]

\* With no address yet the netmask is 0.0.0.0 and every host is a local one.
IsLocal(net, ip) == net.hostaddr = ZERO \/ ip \in LocalHosts

uip_arp_ipin(w, f) ==
    IF IsLocal(w.net, f.src) THEN [w EXCEPT !.arp = uip_arp_update(@, f.src, f.mac)] ELSE w

\* A request for our address is answered from the same buffer.
ArpAnswer(w, f) == [kind |-> "arpreply", to |-> f.mac, dest |-> f.src, src |-> w.net.hostaddr]
uip_arp_arpin(w, f) ==
    IF f.dest # w.net.hostaddr THEN w
    ELSE [w EXCEPT !.arp = uip_arp_update(@, f.src, f.mac)]

\* uip_arp_out: the host whose MAC address the packet needs, and either that
\* address or none, when the packet gives way to an ARP request.
NextHop(net, dest) == IF IsLocal(net, dest) THEN dest ELSE net.draddr
MacFor(w, dest) ==
    IF dest = BROADCAST THEN {BROADCAST}
    ELSE LET found == EntriesOf(w.arp, NextHop(w.net, dest))
         IN  IF found = {} THEN {} ELSE {w.arp[Min(found)].ethaddr}
ArpRequest(w, dest) ==
    [kind |-> "arp", to |-> BROADCAST, dest |-> NextHop(w.net, dest), src |-> w.net.hostaddr]

(***************************************************************************)
(* network_send: a frame built in uip_buf needs a block of its own for a   *)
(* moment; without one it is not sent.                                     *)
(***************************************************************************)
SendFrame(w, frame) ==
    IF w.blocks < PoolBlocks THEN [w EXCEPT !.wire = {frame}] ELSE w

\* The headers are written in front of the payload, in the packet's own block.
WithHeaders(msg, header) ==
    [x \in DOMAIN msg \cup DOMAIN header |-> IF x \in DOMAIN msg THEN msg[x] ELSE header[x]]

\* _send: the packet leaves and its block with it, or an ARP request does and
\* the packet stays with the socket, to be tried again by the UDP timer.
Transmitted(w) ==
    LET frame == [to |-> CHOOSE mac \in MacFor(w, w.sock.ripaddr) : TRUE,
                  dest |-> w.sock.ripaddr, src |-> w.net.hostaddr]
    IN  [w EXCEPT !.sock.send = FALSE, !.sock.packet_out = NOBLOCK, !.blocks = @ - 1,
                  !.sent = @ + 1, !.wire = {WithHeaders(w.sock.packet_out, frame)}]
HeldBack(w) == SendFrame(w, ArpRequest(w, w.sock.ripaddr))
_send(w) == IF MacFor(w, w.sock.ripaddr) = {} THEN HeldBack(w) ELSE Transmitted(w)

\* uip_udp_periodic_conn: the appcall is polled and hands its packet over.
Periodic(w) == IF w.sock.lport # 0 /\ w.sock.send THEN _send(w) ELSE w

(***************************************************************************)
(* Input.  The packet is for the socket when the ports and, unless the     *)
(* remote address is unset or the broadcast address, the sender agree.     *)
(* The appcall takes it only into an empty packet_next, but then copies    *)
(* the sender's address and port before it has a block for it.             *)
(***************************************************************************)
ForUs(w, f) == w.net.hostaddr = ZERO \/ f.dest \in {BROADCAST, w.net.hostaddr}
Matches(sock, f) ==
    /\ sock.lport # 0 /\ sock.lport = f.destport
    /\ sock.rport \in {0, f.srcport}
    /\ sock.ripaddr \in {ZERO, BROADCAST, f.src}
uipudp_appcall(w, f) ==
    IF w.sock.packet_next # NOBLOCK THEN w
    ELSE LET took == [w EXCEPT !.sock.rport = f.srcport, !.sock.ripaddr = f.src]
         IN  IF w.blocks = PoolBlocks THEN took
             ELSE [took EXCEPT !.sock.packet_next = f, !.blocks = @ + 1]
udp_input(w, f) == IF ForUs(w, f) /\ Matches(w.sock, f) THEN uipudp_appcall(w, f) ELSE w

\* tick: the received frame, if any, and the UDP timer when its period is over.
ArpIn(w, f) ==
    IF f.kind = "arp" /\ f.dest = w.net.hostaddr
    THEN SendFrame(uip_arp_arpin(w, f), ArpAnswer(w, f))
    ELSE uip_arp_arpin(w, f)
TickInput(w, f) ==
    IF f.kind \in {"arp", "arpreply"} THEN ArpIn(w, f) ELSE udp_input(uip_arp_ipin(w, f), f)
tick(w, frames, periodic) ==
    LET heard == IF frames = {} THEN w ELSE TickInput(w, CHOOSE f \in frames : TRUE)
    IN  IF periodic THEN Periodic(heard) ELSE heard

(***************************************************************************)
(* The socket's calls.                                                     *)
(***************************************************************************)
begin(w, port) ==
    [w EXCEPT !.sock = [Closed EXCEPT !.lport = port], !.sent = 0]

Held(sock) == Cardinality({x \in {"packet_in", "packet_next", "packet_out"} : sock[x] # NOBLOCK})
stop(w) == [w EXCEPT !.sock = Closed, !.blocks = @ - Held(w.sock)]

\* beginPacket (after its tick), the writes and endPacket for a packet that
\* fits one block.  Without a block nothing is sent and endPacket returns 0.
Addressed(w, ip, port) == [w EXCEPT !.sock.ripaddr = ip, !.sock.rport = port]
CanBegin(w) == w.sock.packet_out = NOBLOCK /\ w.blocks < PoolBlocks
SendPacket(w, ip, port, msg) ==
    LET to == Addressed(w, ip, port)
    IN  IF ~CanBegin(to) THEN to
        ELSE Periodic([to EXCEPT !.sock.packet_out = msg, !.sock.send = TRUE,
                                 !.blocks = @ + 1, !.sent = 0])

\* parsePacket after its tick: the old packet is freed, the next one moves up.
parsePacket(w) ==
    [w EXCEPT !.sock.packet_in = w.sock.packet_next, !.sock.packet_next = NOBLOCK,
              !.blocks = @ - (IF w.sock.packet_in = NOBLOCK THEN 0 ELSE 1)]
flush(w) ==
    [w EXCEPT !.sock.packet_in = NOBLOCK,
              !.blocks = @ - (IF w.sock.packet_in = NOBLOCK THEN 0 ELSE 1)]
=============================================================================
