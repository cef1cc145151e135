------------------------- MODULE EthernetSetupProofs -------------------------
(***************************************************************************)
(* Proofs about EthernetSetup and UdpSocket, for every set of DHCP servers,*)
(* every timeout and every bound.                                          *)
(***************************************************************************)
EXTENDS EthernetSetup, FiniteSetTheorems, WellFoundedInduction, TLAPS

Shape(w) ==
    /\ DOMAIN w = {"sock", "arp", "blocks", "net", "wire", "sent"}
    /\ DOMAIN w.sock = {"lport", "rport", "ripaddr", "packet_in", "packet_next",
                        "packet_out", "send"}

\* v is w after calls that read nothing but the frames of F.
From(w, v, F) ==
    /\ Shape(v)
    /\ v.net = w.net
    /\ v.sock.packet_in \in {w.sock.packet_in, w.sock.packet_next, NOBLOCK} \cup F
    /\ v.sock.packet_next \in {w.sock.packet_in, w.sock.packet_next, NOBLOCK} \cup F

LEMMA FromSelf ==
    ASSUME NEW w, Shape(w), NEW F
    PROVE  From(w, w, F)
  BY DEF From

LEMMA FromTrans ==
    ASSUME NEW u, NEW v, NEW w, NEW F, From(u, v, F), From(v, w, F)
    PROVE  From(u, w, F)
  BY DEF From

LEMMA FromSendFrame ==
    ASSUME NEW w, Shape(w), NEW frame, NEW F
    PROVE  From(w, SendFrame(w, frame), F)
  BY DEF From, SendFrame, Shape

LEMMA FromPeriodic ==
    ASSUME NEW w, Shape(w), NEW F
    PROVE  From(w, Periodic(w), F)
<1>1. From(w, Transmitted(w), F)
  BY DEF From, Transmitted, Shape
<1> QED
  BY <1>1, FromSelf, FromSendFrame DEF Periodic, _send, HeldBack

LEMMA FromTickInput ==
    ASSUME NEW w, Shape(w), NEW f
    PROVE  From(w, TickInput(w, f), {f})
<1>1. From(w, uip_arp_ipin(w, f), {f})
  BY FromSelf DEF From, uip_arp_ipin, Shape
<1>2. From(w, uip_arp_arpin(w, f), {f})
  BY FromSelf DEF From, uip_arp_arpin, Shape
<1>3. From(w, ArpIn(w, f), {f})
  <2> DEFINE v == uip_arp_arpin(w, f)
  <2>1. Shape(v)
    BY <1>2 DEF From
  <2>2. From(v, SendFrame(v, ArpAnswer(w, f)), {f})
    BY <2>1, FromSendFrame
  <2>3. ArpIn(w, f) = v \/ ArpIn(w, f) = SendFrame(v, ArpAnswer(w, f))
    BY DEF ArpIn
  <2> HIDE DEF v
  <2>4. From(w, v, {f})
    BY <1>2 DEF v
  <2> QED
    BY <2>2, <2>3, <2>4, FromTrans
<1>4. ASSUME NEW v, Shape(v)
      PROVE  From(v, udp_input(v, f), {f})
  BY <1>4 DEF udp_input, uipudp_appcall, From, Shape
<1>5. From(w, udp_input(uip_arp_ipin(w, f), f), {f})
  BY <1>1, <1>4, FromTrans DEF From
<1> QED
  BY <1>3, <1>5 DEF TickInput

LEMMA FromTick ==
    ASSUME NEW w, Shape(w), NEW frames, NEW periodic
    PROVE  From(w, tick(w, frames, periodic), frames)
<1> DEFINE f == CHOOSE f \in frames : TRUE
           heard == IF frames = {} THEN w ELSE TickInput(w, f)
<1>1. From(w, heard, frames)
  <2>1. CASE frames = {}
    BY <2>1, FromSelf
  <2>2. CASE frames # {}
    <3>1. f \in frames
      BY <2>2
    <3> HIDE DEF f
    <3> QED
      BY <2>2, <3>1, FromTickInput DEF From
  <2> QED
    BY <2>1, <2>2
<1>2. From(heard, Periodic(heard), frames)
  BY <1>1, FromPeriodic DEF From
<1>3. tick(w, frames, periodic) = IF periodic THEN Periodic(heard) ELSE heard
  BY DEF tick
<1> HIDE DEF heard
<1> QED
  BY <1>1, <1>2, <1>3, FromTrans

LEMMA FromCalls ==
    ASSUME NEW w, Shape(w), NEW F
    PROVE  /\ \A port : From(w, begin(w, port), F)
           /\ From(w, stop(w), F)
           /\ From(w, flush(w), F)
           /\ From(w, parsePacket(w), F)
<1>1. \A port : From(w, begin(w, port), F)
  BY DEF begin, From, Shape, Closed
<1>2. From(w, stop(w), F)
  BY DEF stop, From, Shape, Closed
<1>3. From(w, flush(w), F)
  BY DEF flush, From, Shape
<1>4. From(w, parsePacket(w), F)
  BY DEF parsePacket, From, Shape
<1> QED
  BY <1>1, <1>2, <1>3, <1>4

LEMMA FromSendPacket ==
    ASSUME NEW w, Shape(w), NEW ip, NEW port, NEW msg, NEW F
    PROVE  From(w, SendPacket(w, ip, port, msg), F)
<1> DEFINE to == Addressed(w, ip, port)
           full == [to EXCEPT !.sock.packet_out = msg, !.sock.send = TRUE,
                              !.blocks = @ + 1, !.sent = 0]
<1>1. From(w, to, F)
  BY DEF Addressed, From, Shape
<1>2. SendPacket(w, ip, port, msg) = IF ~CanBegin(to) THEN to ELSE Periodic(full)
  BY DEF SendPacket
<1> HIDE DEF to
<1>3. From(to, full, F)
  BY <1>1 DEF From, Shape
<1> HIDE DEF full
<1>4. From(full, Periodic(full), F)
  BY <1>3, FromPeriodic DEF From
<1> QED
  BY <1>1, <1>2, <1>3, <1>4, FromTrans

-----------------------------------------------------------------------------
(***************************************************************************)
(* The lease                                                               *)
(***************************************************************************)
IsGrant(f) == f.src \in granted /\ f.ip = Lease(f.src)

Grants(F) == \A f \in F : f # NOBLOCK /\ f.kind = "ack" => IsGrant(f)

\* Every acknowledgement under way, waiting or being parsed is a server's, of
\* its own address.
AckInv ==
    /\ Shape(world)
    /\ Grants(flight)
    /\ Grants({world.sock.packet_in, world.sock.packet_next})

ClientShape == DOMAIN dhcp = {"state", "xid", "initial", "ip", "server"}

LeaseInv == AckInv /\ ClientShape /\ LeaseAcknowledged

\* The stack's part: calls that read only frames under way keep the invariant.
LEMMA LeaseKept ==
    ASSUME LeaseInv, UNCHANGED granted, flight' \subseteq flight,
           NEW frames \in SUBSET flight, From(world, world', frames),
           DOMAIN dhcp' = DOMAIN dhcp
    PROVE  LeaseInv'
<1>1. Grants(flight)'
  BY DEF LeaseInv, AckInv, Grants, IsGrant
<1>2. Grants({world.sock.packet_in, world.sock.packet_next})'
  BY DEF LeaseInv, AckInv, Grants, IsGrant, From
<1>3. LeaseAcknowledged'
  BY DEF LeaseInv, LeaseAcknowledged, From
<1> QED
  BY <1>1, <1>2, <1>3 DEF LeaseInv, AckInv, ClientShape, From

\* The network's part: an acknowledgement is the server's own, of its address.
LEMMA AnswersGrant ==
    ASSUME NEW q, NEW a \in Answers(q), a.kind = "ack"
    PROVE  a.ip = Lease(a.src)
<1>2. \/ a \in UNION {DhcpAnswers(q, s) : s \in Servers}
      \/ a \in {[kind |-> "arpreply", src |-> q.dest, mac |-> q.dest, dest |-> q.src]}
      \/ a \in {WithHeaders([kind |-> "dns", id |-> q.id, ok |-> b],
                        UdpFrom(DnsServer, DnsServer, DNS_PORT, DNS_LOCAL_PORT, q.src))
              : b \in BOOLEAN}
      \/ a \in {WithHeaders([kind |-> "time"],
                        UdpFrom(TimeServer, Router, NTP_SERVER_PORT, TIME_LOCAL_PORT, q.src))}
      \/ a \in {}
  BY Zenon DEF Answers
<1>3. CASE a \in UNION {DhcpAnswers(q, s) : s \in Servers}
  <2>1. PICK s \in Servers : a \in DhcpAnswers(q, s)
    BY <1>3
  <2> DEFINE answer(kind, ip) ==
          WithHeaders([kind |-> kind, xid |-> q.xid, ip |-> ip],
                      UdpFrom(s, s, DHCP_SERVER_PORT, DHCP_CLIENT_PORT, BROADCAST))
  <2>2. a \in {answer("offer", Lease(s)), answer("nak", ZERO), answer("ack", Lease(s))}
    BY <2>1 DEF DhcpAnswers
  <2>3. \A kind, ip : /\ answer(kind, ip).kind = kind
                      /\ answer(kind, ip).ip = ip
                      /\ answer(kind, ip).src = s
    BY DEF WithHeaders, UdpFrom
  <2> HIDE DEF answer
  <2> QED
    BY <2>2, <2>3
<1>4. CASE a \in {WithHeaders([kind |-> "dns", id |-> q.id, ok |-> b],
                        UdpFrom(DnsServer, DnsServer, DNS_PORT, DNS_LOCAL_PORT, q.src))
              : b \in BOOLEAN}
  BY <1>4 DEF WithHeaders, UdpFrom
<1>5. CASE a \in {WithHeaders([kind |-> "time"],
                        UdpFrom(TimeServer, Router, NTP_SERVER_PORT, TIME_LOCAL_PORT, q.src))}
  BY <1>5 DEF WithHeaders, UdpFrom
<1> QED
  BY <1>2, <1>3, <1>4, <1>5

LEMMA LeaseInit == Init => LeaseInv
  BY DEF Init, LeaseInv, AckInv, ClientShape, LeaseAcknowledged, Shape, Grants,
         NoWorld, NoNet, NoLease, Closed, NOBLOCK

LEMMA LeaseNext ==
    ASSUME LeaseInv, [Next]_vars
    PROVE  LeaseInv'
<1> USE DEF Forgotten, Arrivals
<1>0. Shape(world)
  BY DEF LeaseInv, AckInv
<1>a. \A F : From(world, world, F)
  BY <1>0, FromSelf
<1>b. ASSUME NEW frames, NEW periodic
      PROVE  From(world, Polled(world, frames, periodic), frames)
  BY <1>0, FromTick, FromCalls, FromTrans DEF Polled, From
<1>1. CASE Connect
  <2>1. From(world, Initialised(world), {})
    BY <1>0 DEF Initialised, From, Shape, Closed
  <2>2. From(world, world', {})
    <3>1. Shape(Initialised(world))
      BY <2>1 DEF From
    <3>2. From(Initialised(world), begin(Initialised(world), DHCP_CLIENT_PORT), {})
      BY <3>1, FromCalls
    <3>3. world' = begin(Initialised(world), DHCP_CLIENT_PORT)
      BY <1>1 DEF Connect
    <3> QED
      BY <2>1, <3>2, <3>3, FromTrans
  <2>3. DOMAIN dhcp' = DOMAIN dhcp
    BY <1>1 DEF Connect, NoLease, LeaseInv, ClientShape
  <2> QED
    BY <1>1, <2>2, <2>3, LeaseKept DEF Connect
<1>2. CASE DhcpStart
  <2>1. PICK frames \in Arrivals, periodic \in BOOLEAN :
           /\ world' = sendDhcpMessage(tick(world, frames, periodic),
                                     Discover([dhcp EXCEPT !.xid = @ + 1]))
           /\ Forgotten(frames)
    BY <1>2 DEF DhcpStart
  <2>2. From(world, world', frames)
    BY <1>0, <2>1, FromTick, FromSendPacket, FromTrans DEF sendDhcpMessage, From
  <2> QED
    BY <1>2, <2>1, <2>2, LeaseKept DEF DhcpStart
<1>3. CASE DhcpPoll
  <2>1. PICK frames \in Arrivals, periodic \in BOOLEAN :
           /\ Forgotten(frames)
           /\ world' = Polled(world, frames, periodic)
    BY <1>3 DEF DhcpPoll, DhcpWaits
  <2>2. DOMAIN dhcp' = DOMAIN dhcp
    BY <1>3 DEF DhcpPoll, DhcpWaits
  <2> QED
    BY <1>3, <1>b, <2>1, <2>2, LeaseKept DEF DhcpPoll
<1>4. CASE ReadTick
  <2>1. PICK f \in flight, periodic \in BOOLEAN :
           world' = tick(world, {f}, periodic) /\ Forgotten({f})
    BY <1>4 DEF ReadTick
  <2>2. From(world, world', {f})
    BY <1>0, <2>1, FromTick
  <2> QED
    BY <1>4, <2>1, <2>2, LeaseKept DEF ReadTick
<1>5. CASE DhcpParsed
  <2> DEFINE f == world.sock.packet_in
             d == Learned(dhcp, world, f)
             type == TypeOf(dhcp, world, f)
  <2>1. f # NOBLOCK /\ UNCHANGED granted
    BY <1>5 DEF DhcpParsed
  <2>2. DOMAIN d = DOMAIN dhcp
    BY DEF Learned
  <2>3. \/ Requested(world, d, f)
        \/ Ignored(world, d, "DISCOVER") /\ UNCHANGED flight
        \/ IsAck(type) /\ Leased(world, d) /\ UNCHANGED flight
        \/ Ignored(world, d, IF type = "nak" THEN "START" ELSE "REQUEST") /\ UNCHANGED flight
    BY <1>5 DEF DhcpParsed
  <2>4. IsAck(type) => d.ip = f.ip /\ f.kind = "ack"
    BY DEF IsAck, TypeOf, Learned, LeaseInv, ClientShape
  <2> HIDE DEF d, type
  <2>5. CASE Requested(world, d, f)
    <3>1. PICK frames \in Arrivals :
            /\ world' = sendDhcpMessage(tick(flush(world), frames, FALSE),
                                        RequestFor([d EXCEPT !.xid = f.xid]))
            /\ Forgotten(frames)
      BY <2>5 DEF Requested
    <3>2. From(world, flush(world), frames)
      BY <1>0, FromCalls
    <3>3. From(flush(world), tick(flush(world), frames, FALSE), frames)
      BY <3>2, FromTick DEF From
    <3>4. From(tick(flush(world), frames, FALSE), world', frames)
      <4>1. Shape(tick(flush(world), frames, FALSE))
        BY <3>3 DEF From
      <4> QED
        BY <3>1, <4>1, FromSendPacket DEF sendDhcpMessage
    <3>5. From(world, world', frames)
      BY <3>2, <3>3, <3>4, FromTrans
    <3>6. DOMAIN dhcp' = DOMAIN dhcp
      BY <2>2, <2>5 DEF Requested
    <3> QED
      BY <2>1, <3>1, <3>5, <3>6, LeaseKept
  <2>6. ASSUME NEW state, Ignored(world, d, state), UNCHANGED flight
        PROVE  LeaseInv'
    <3>1. From(world, world', {}) /\ DOMAIN dhcp' = DOMAIN dhcp
      BY <1>0, <2>2, <2>6, FromCalls DEF Ignored
    <3> QED
      BY <2>1, <2>6, <3>1, LeaseKept
  <2>7. CASE IsAck(type) /\ Leased(world, d) /\ UNCHANGED flight
    <3> DEFINE w == stop(flush(world))
    <3>1. From(world, w, {})
      BY <1>0, FromCalls, FromTrans DEF From
    <3>2. world' = Configured(w, d) /\ DOMAIN dhcp' = DOMAIN dhcp
      BY <2>2, <2>7 DEF Leased
    <3> HIDE DEF w
    <3>3. /\ Shape(world')
          /\ world'.sock = w.sock
          /\ world'.net.hostaddr = d.ip
      BY <3>1, <3>2 DEF From, Shape, Configured
    <3>4. Grants(flight)'
      BY <2>1, <2>7 DEF LeaseInv, AckInv, Grants, IsGrant
    <3>5. Grants({world.sock.packet_in, world.sock.packet_next})'
      BY <2>1, <3>1, <3>3 DEF LeaseInv, AckInv, Grants, IsGrant, From
    <3>6. f.src \in granted' /\ d.ip = Lease(f.src)
      BY <2>1, <2>4, <2>7 DEF LeaseInv, AckInv, Grants, IsGrant
    <3>7. LeaseAcknowledged'
      BY <3>3, <3>6 DEF LeaseAcknowledged
    <3> QED
      BY <3>2, <3>3, <3>4, <3>5, <3>7 DEF LeaseInv, AckInv, ClientShape
  <2> QED
    BY <2>3, <2>5, <2>6, <2>7
<1>6. CASE DhcpGivesUp
  BY <1>0, <1>6, FromCalls, LeaseKept DEF DhcpGivesUp
<1>7. CASE Lookup
  <2>1. PICK id \in 1 .. 2, frames \in Arrivals :
         /\ world' = SendPacket(tick(begin(world, DNS_LOCAL_PORT), frames, FALSE),
                                world.net.dnsServerAddress, DNS_PORT, Query(id))
         /\ Forgotten(frames)
    BY <1>7 DEF Lookup
  <2>2. From(world, begin(world, DNS_LOCAL_PORT), frames)
    BY <1>0, FromCalls
  <2>3. From(begin(world, DNS_LOCAL_PORT),
             tick(begin(world, DNS_LOCAL_PORT), frames, FALSE), frames)
    BY <2>2, FromTick DEF From
  <2>4. From(tick(begin(world, DNS_LOCAL_PORT), frames, FALSE), world', frames)
    <3>1. Shape(tick(begin(world, DNS_LOCAL_PORT), frames, FALSE))
      BY <2>3 DEF From
    <3> QED
      BY <2>1, <3>1, FromSendPacket
  <2>5. From(world, world', frames)
    BY <2>2, <2>3, <2>4, FromTrans
  <2>6. UNCHANGED <<dhcp, granted>>
    BY <1>7 DEF Lookup
  <2>7. frames \subseteq flight /\ flight' \subseteq flight
    BY <2>1
  <2> QED
    BY <2>5, <2>6, <2>7, LeaseKept
<1>8. CASE DnsPoll
  <2>1. PICK frames \in Arrivals, periodic \in BOOLEAN :
         /\ Forgotten(frames)
         /\ \/ world' = Polled(world, frames, periodic)
            \/ world' = stop(Polled(world, frames, periodic))
    BY <1>8 DEF DnsPoll, DnsWaits, LookedUp
  <2>2. From(world, Polled(world, frames, periodic), frames)
    BY <1>b
  <2>3. From(world, world', frames)
    BY <2>1, <2>2, FromCalls, FromTrans DEF From
  <2> QED
    BY <1>8, <2>1, <2>3, LeaseKept DEF DnsPoll
<1>9. CASE DnsParsed
  <2>1. world' = stop(flush(world))
    BY <1>9 DEF DnsParsed, LookedUp
  <2>2. From(world, world', {})
    BY <1>0, <2>1, FromCalls, FromTrans DEF From
  <2> QED
    BY <1>9, <2>2, LeaseKept DEF DnsParsed
<1>10. CASE AskTime
  <2> DEFINE opened == begin(world, TIME_LOCAL_PORT)
             w(frames) == SendPacket(tick(opened, frames, FALSE),
                                     TimeServer, NTP_SERVER_PORT, [kind |-> "asktime"])
  <2>1. PICK frames \in Arrivals :
           Forgotten(frames) /\ (world' = w(frames) \/ world' = stop(w(frames)))
    BY <1>10 DEF AskTime
  <2>2. From(world, opened, frames)
    BY <1>0, FromCalls
  <2>3. From(opened, tick(opened, frames, FALSE), frames)
    BY <2>2, FromTick DEF From
  <2>4. From(tick(opened, frames, FALSE), w(frames), frames)
    BY <2>3, FromSendPacket DEF From
  <2> HIDE DEF opened, w
  <2>5. From(world, w(frames), frames)
    BY <2>2, <2>3, <2>4, FromTrans
  <2>6. From(world, world', frames)
    BY <2>1, <2>5, FromCalls, FromTrans DEF From
  <2> QED
    BY <1>10, <2>1, <2>6, LeaseKept DEF AskTime
<1>11. CASE recvfrom
  <2>1. PICK frames \in Arrivals, periodic \in BOOLEAN :
         /\ Forgotten(frames)
         /\ \/ world' = Polled(world, frames, periodic)
            \/ world' = stop(Polled(world, frames, periodic))
            \/ world' = stop(flush(Polled(world, frames, periodic)))
    BY <1>11 DEF recvfrom
  <2>2. From(world, Polled(world, frames, periodic), frames)
    BY <1>b
  <2>3. From(world, flush(Polled(world, frames, periodic)), frames)
    BY <2>2, FromCalls, FromTrans DEF From
  <2>4. From(world, world', frames)
    BY <2>1, <2>2, <2>3, FromCalls, FromTrans DEF From
  <2> QED
    BY <1>11, <2>1, <2>4, LeaseKept DEF recvfrom
<1>12. CASE FormatMessage
  BY <1>12, <1>a, LeaseKept DEF FormatMessage
<1>13. CASE WatchdogBites
  <2>1. Shape(world') /\ world'.net.hostaddr = ZERO
        /\ world'.sock.packet_in = NOBLOCK /\ world'.sock.packet_next = NOBLOCK
    BY <1>13 DEF WatchdogBites, NoWorld, NoNet, Closed, Shape
  <2>2. Grants(flight)'
    BY <1>13 DEF WatchdogBites, LeaseInv, AckInv, Grants, IsGrant
  <2>3. Grants({world.sock.packet_in, world.sock.packet_next})' /\ LeaseAcknowledged'
    BY <2>1 DEF Grants, LeaseAcknowledged
  <2>4. ClientShape'
    BY <1>13 DEF WatchdogBites, ClientShape, NoLease
  <2> QED
    BY <2>1, <2>2, <2>3, <2>4 DEF LeaseInv, AckInv
<1>14. CASE HostAnswers
  <2>0. PICK q \in world.wire : \E a \in Answers(q) :
         /\ flight' = flight \cup {a}
         /\ granted' = IF a.kind = "ack" THEN granted \cup {a.src} ELSE granted
    BY <1>14 DEF HostAnswers
  <2>1. PICK a \in Answers(q) :
         /\ flight' = flight \cup {a}
         /\ granted' = IF a.kind = "ack" THEN granted \cup {a.src} ELSE granted
    BY <2>0
  <2>2. a.kind = "ack" => a.ip = Lease(a.src)
    BY AnswersGrant
  <2>3. granted \subseteq granted' /\ UNCHANGED <<world, dhcp>>
    BY <1>14, <2>1 DEF HostAnswers
  <2>4. Grants(flight)'
    BY <2>1, <2>2, <2>3 DEF LeaseInv, AckInv, Grants, IsGrant
  <2>5. Grants({world.sock.packet_in, world.sock.packet_next})'
    BY <2>3 DEF LeaseInv, AckInv, Grants, IsGrant
  <2> QED
    BY <2>3, <2>4, <2>5 DEF LeaseInv, AckInv, ClientShape, LeaseAcknowledged
<1>15. CASE HostAsks
  <2>1. AskMac.kind # "ack"
    BY DEF AskMac
  <2>2. Grants(flight)'
    BY <1>15, <2>1 DEF HostAsks, LeaseInv, AckInv, Grants, IsGrant
  <2> QED
    BY <1>15, <2>2 DEF HostAsks, LeaseInv, AckInv, ClientShape, LeaseAcknowledged, Grants,
                       IsGrant
<1>16. CASE LoseFrame
  BY <1>16, <1>a, LeaseKept DEF LoseFrame
<1>17. CASE UNCHANGED vars
  BY <1>17, <1>a, LeaseKept DEF vars
<1> QED
  BY <1>1, <1>2, <1>3, <1>4, <1>5, <1>6, <1>7, <1>8, <1>9, <1>10, <1>11, <1>12, <1>13,
     <1>14, <1>15, <1>16, <1>17 DEF Next

\* LeaseAcknowledged, for any number of servers, rounds, retries, timeouts and
\* late or repeated frames: set_network is only ever given an address that
\* its server has acknowledged, although _dhcpLocalIp is overwritten by every
\* answer parsed on the way.
THEOREM LeaseIsAcknowledged == Spec => []LeaseAcknowledged
<1>1. LeaseInv /\ [Next]_vars => LeaseInv'
  BY LeaseNext
<1>2. LeaseInv => LeaseAcknowledged
  BY DEF LeaseInv
<1> QED
  BY <1>1, <1>2, LeaseInit, PTL DEF Spec

-----------------------------------------------------------------------------
(***************************************************************************)
(* The socket's blocks, its packets and where they are sent                *)
(***************************************************************************)
LEMMA MinIn ==
    ASSUME NEW T, T \subseteq Nat, T # {}
    PROVE  Min(T) \in T
<1> DEFINE R == {ss \in Nat \X Nat : ss[1] < ss[2]}
<1>1. IsWellFoundedOn(R, Nat)
  BY NatLessThanWellFounded, Zenon DEF OpToRel
<1> HIDE DEF R
<1>2. PICK x \in T : \A y \in T : ~ (<<y, x>> \in R)
  BY <1>1, WFMin
<1>3. ASSUME NEW y \in T
      PROVE  x =< y
  <2>1. x \in Nat /\ y \in Nat
    OBVIOUS
  <2>2. y < x => <<y, x>> \in R
    BY <2>1 DEF R
  <2> QED
    BY <1>2, <2>1, <2>2
<1> QED
  BY <1>3 DEF Min

One(p) == IF p = NOBLOCK THEN 0 ELSE 1
Used(sock) == One(sock.packet_in) + One(sock.packet_next) + One(sock.packet_out)

LEMMA HeldIsUsed ==
    ASSUME NEW sock
    PROVE  Held(sock) = Used(sock)
<1> DEFINE A == IF sock.packet_in # NOBLOCK THEN {} \cup {"packet_in"} ELSE {}
           B == IF sock.packet_next # NOBLOCK THEN A \cup {"packet_next"} ELSE A
           C == IF sock.packet_out # NOBLOCK THEN B \cup {"packet_out"} ELSE B
<1>1. IsFiniteSet(A) /\ Cardinality(A) = One(sock.packet_in) /\ A \subseteq {"packet_in"}
  BY FS_EmptySet, FS_AddElement DEF One
<1>2. C = {x \in {"packet_in", "packet_next", "packet_out"} : sock[x] # NOBLOCK}
  OBVIOUS
<1> HIDE DEF A
<1>3. /\ IsFiniteSet(B) /\ B \subseteq {"packet_in", "packet_next"}
      /\ Cardinality(B) = One(sock.packet_in) + One(sock.packet_next)
  BY <1>1, FS_AddElement DEF One
<1> HIDE DEF B
<1>4. Cardinality(C) = Used(sock)
  BY <1>3, FS_AddElement DEF One, Used
<1> QED
  BY <1>2, <1>4 DEF Held

\* Every block in use is held by the socket, and what is to be sent has one.
Blocks(w) ==
    /\ w.blocks = Used(w.sock) /\ w.blocks =< PoolBlocks
    /\ w.sock.send => w.sock.packet_out # NOBLOCK

\* A frame the network may deliver: one with a local source came from that
\* host itself, and what is sent to the DHCP client's port is a DHCP answer.
FromDhcp(f) == f.src \in Servers /\ f.ip \in Leases \cup {ZERO}
FrameOK(f) ==
    /\ f # NOBLOCK
    /\ f.src \in LocalHosts => f.mac = f.src
    /\ f.kind \notin {"arp", "arpreply"} /\ f.destport = DHCP_CLIENT_PORT => FromDhcp(f)

\* What the DHCP client parses was sent to its port.
Packets(w) ==
    \A p \in {w.sock.packet_in, w.sock.packet_next} :
        p # NOBLOCK /\ w.sock.lport = DHCP_CLIENT_PORT => FromDhcp(p)

\* What is sent carries no address of its own, and a request to a host goes
\* there although packets arrive while it is held back.
Requests == {"query", "asktime"}
MessageOK(m) == m # NOBLOCK /\ "kind" \in DOMAIN m /\ "to" \notin DOMAIN m /\ "dest" \notin DOMAIN m
Directed(w) ==
    w.sock.packet_out # NOBLOCK =>
      /\ MessageOK(w.sock.packet_out)
      /\ w.sock.packet_out.kind \in Requests =>
           w.net.hostaddr # ZERO /\ w.sock.ripaddr \notin {ZERO, BROADCAST}

\* The ARP table maps local hosts to themselves; the router is known.
ArpOK(arp) ==
    /\ DOMAIN arp = 1 .. UIP_ARPTAB_SIZE
    /\ \A i \in DOMAIN arp : arp[i].ipaddr \in LocalHosts => arp[i].ethaddr = arp[i].ipaddr
NetOK(net) == net.hostaddr # ZERO => net.draddr = Router /\ net.dnsServerAddress = DnsServer
WireOK(wire) ==
    \A q \in wire : q.kind \in Requests =>
        q.to = IF q.dest \in LocalHosts THEN q.dest ELSE Router
Routes(w) == Directed(w) /\ ArpOK(w.arp) /\ NetOK(w.net) /\ WireOK(w.wire)

StackInv(w) == Shape(w) /\ Blocks(w) /\ Packets(w) /\ Routes(w)

\* The packet was put on the wire once, or is held and will be.
Once(w) ==
    \/ w.sent = 1 /\ w.sock.packet_out = NOBLOCK
    \/ w.sent = 0 /\ w.sock.packet_out # NOBLOCK /\ w.sock.send

\* What every tick leaves as it was.
Kept(w, v) ==
    /\ StackInv(v)
    /\ v.net = w.net /\ v.sock.lport = w.sock.lport
    /\ v.sock.packet_in = w.sock.packet_in
    /\ v.sock.packet_out \in {NOBLOCK, w.sock.packet_out}
    /\ Once(w) => Once(v)

LEMMA KeptSelf ==
    ASSUME NEW w, StackInv(w)
    PROVE  Kept(w, w)
  BY DEF Kept

LEMMA KeptTrans ==
    ASSUME NEW u, NEW v, NEW w, Kept(u, v), Kept(v, w)
    PROVE  Kept(u, w)
  BY DEF Kept

LEMMA KeptSendFrame ==
    ASSUME NEW w, StackInv(w), NEW frame, frame.kind \notin Requests
    PROVE  Kept(w, SendFrame(w, frame))
<1>1. CASE w.blocks < PoolBlocks
  <2> DEFINE v == [w EXCEPT !.wire = {frame}]
  <2>1. /\ Shape(v) /\ v.sock = w.sock /\ v.arp = w.arp /\ v.blocks = w.blocks
        /\ v.net = w.net /\ v.wire = {frame} /\ v.sent = w.sent
    BY DEF StackInv, Shape
  <2>2. SendFrame(w, frame) = v
    BY <1>1 DEF SendFrame
  <2> HIDE DEF v
  <2>3. StackInv(v)
    BY <2>1 DEF StackInv, Blocks, Packets, Routes, Directed, WireOK
  <2> QED
    BY <2>1, <2>2, <2>3 DEF Kept, Once
<1>2. CASE ~(w.blocks < PoolBlocks)
  BY <1>2, KeptSelf DEF SendFrame
<1> QED
  BY <1>1, <1>2

LEMMA KeptTransmitted ==
    ASSUME NEW w, StackInv(w), w.sock.send, MacFor(w, w.sock.ripaddr) # {}
    PROVE  Kept(w, Transmitted(w))
<1> DEFINE mac == CHOOSE m \in MacFor(w, w.sock.ripaddr) : TRUE
           frame == [to |-> mac, dest |-> w.sock.ripaddr, src |-> w.net.hostaddr]
           q == WithHeaders(w.sock.packet_out, frame)
           v == [w EXCEPT !.sock.send = FALSE, !.sock.packet_out = NOBLOCK, !.blocks = @ - 1,
                          !.sent = @ + 1, !.wire = {q}]
<1>1. Transmitted(w) = v
  BY DEF Transmitted
<1>2. MessageOK(w.sock.packet_out)
  BY DEF StackInv, Blocks, Routes, Directed
<1>3. q.kind = w.sock.packet_out.kind /\ q.to = mac /\ q.dest = w.sock.ripaddr
  <2> HIDE DEF mac
  <2> QED
    BY <1>2 DEF WithHeaders, MessageOK
<1>4. ASSUME w.sock.packet_out.kind \in Requests
      PROVE  mac = IF w.sock.ripaddr \in LocalHosts THEN w.sock.ripaddr ELSE Router
  <2> DEFINE h == NextHop(w.net, w.sock.ripaddr)
             found == EntriesOf(w.arp, h)
  <2>1. w.net.hostaddr # ZERO /\ w.sock.ripaddr # BROADCAST /\ w.net.draddr = Router
    BY <1>2, <1>4 DEF StackInv, Routes, Directed, NetOK, MessageOK
  <2>2. h = IF w.sock.ripaddr \in LocalHosts THEN w.sock.ripaddr ELSE Router
    BY <2>1 DEF NextHop, IsLocal
  <2>3. h \in LocalHosts
    BY <2>2, SetupAssumption
  <2> HIDE DEF h
  <2>4. MacFor(w, w.sock.ripaddr) = IF found = {} THEN {} ELSE {w.arp[Min(found)].ethaddr}
    BY <2>1 DEF MacFor, h
  <2>5. found # {} /\ MacFor(w, w.sock.ripaddr) = {w.arp[Min(found)].ethaddr}
    BY <2>4
  <2>6. found \subseteq Nat
    BY UdpAssumption DEF EntriesOf, StackInv, Routes, ArpOK
  <2>7. Min(found) \in found
    BY <2>5, <2>6, MinIn
  <2>8. w.arp[Min(found)].ethaddr = h
    BY <2>3, <2>7 DEF EntriesOf, StackInv, Routes, ArpOK
  <2> QED
    BY <2>2, <2>5, <2>8
<1> HIDE DEF mac, frame, q
<1>5. /\ Shape(v) /\ v.arp = w.arp /\ v.net = w.net /\ v.wire = {q}
      /\ v.blocks = w.blocks - 1 /\ v.sent = w.sent + 1
      /\ v.sock = [w.sock EXCEPT !.send = FALSE, !.packet_out = NOBLOCK]
  BY DEF StackInv, Shape
<1>6. /\ v.sock.packet_in = w.sock.packet_in /\ v.sock.packet_next = w.sock.packet_next
      /\ v.sock.packet_out = NOBLOCK /\ v.sock.send = FALSE
      /\ v.sock.lport = w.sock.lport
  BY <1>5 DEF StackInv, Shape
<1> HIDE DEF v
<1>7. Blocks(v)
  BY <1>5, <1>6, <1>2, UdpAssumption DEF StackInv, Blocks, Used, One, MessageOK
<1>8. Packets(v)
  BY <1>6 DEF StackInv, Packets
<1>9. WireOK(v.wire)
  BY <1>3, <1>4, <1>5 DEF WireOK
<1>10. Routes(v)
  BY <1>5, <1>6, <1>9 DEF StackInv, Routes, Directed
<1>11. Once(w) => Once(v)
  BY <1>2, <1>5, <1>6 DEF Once, MessageOK
<1> QED
  BY <1>1, <1>2, <1>5, <1>6, <1>7, <1>8, <1>10, <1>11 DEF Kept, StackInv, MessageOK

LEMMA KeptPeriodic ==
    ASSUME NEW w, StackInv(w)
    PROVE  Kept(w, Periodic(w))
<1>1. ArpRequest(w, w.sock.ripaddr).kind \notin Requests
  BY DEF ArpRequest, Requests
<1>2. Kept(w, HeldBack(w))
  BY <1>1, KeptSendFrame DEF HeldBack
<1> QED
  BY <1>2, KeptSelf, KeptTransmitted DEF Periodic, _send

\* An entry is replaced as a whole.
LEMMA ArpUpdated ==
    ASSUME NEW arp, ArpOK(arp), NEW ip, NEW mac, ip \in LocalHosts => mac = ip
    PROVE  ArpOK(uip_arp_update(arp, ip, mac))
  BY DEF ArpOK, uip_arp_update

\* The table is changed and nothing else.
LEMMA KeptArp ==
    ASSUME NEW w, StackInv(w), NEW arp, ArpOK(arp)
    PROVE  Kept(w, [w EXCEPT !.arp = arp])
<1> DEFINE v == [w EXCEPT !.arp = arp]
<1>1. /\ Shape(v) /\ v.sock = w.sock /\ v.arp = arp /\ v.blocks = w.blocks
      /\ v.net = w.net /\ v.wire = w.wire /\ v.sent = w.sent
  BY DEF StackInv, Shape
<1> HIDE DEF v
<1>2. StackInv(v)
  BY <1>1 DEF StackInv, Blocks, Packets, Routes, Directed
<1>3. Kept(w, v)
  BY <1>1, <1>2 DEF Kept, Once
<1> QED
  BY <1>3 DEF v

LEMMA KeptUdpInput ==
    ASSUME NEW w, StackInv(w), NEW f, FrameOK(f), f.kind \notin {"arp", "arpreply"}
    PROVE  Kept(w, udp_input(w, f))
<1>1. CASE ~(ForUs(w, f) /\ Matches(w.sock, f)) \/ w.sock.packet_next # NOBLOCK
  BY <1>1, KeptSelf DEF udp_input, uipudp_appcall
<1>2. CASE Matches(w.sock, f) /\ w.sock.packet_next = NOBLOCK
  <2> DEFINE took == [w EXCEPT !.sock.rport = f.srcport, !.sock.ripaddr = f.src]
             v == [took EXCEPT !.sock.packet_next = f, !.blocks = @ + 1]
  <2>1. /\ Shape(took) /\ took.arp = w.arp /\ took.blocks = w.blocks
        /\ took.net = w.net /\ took.wire = w.wire /\ took.sent = w.sent
    BY DEF StackInv, Shape
  <2>2. /\ took.sock.packet_in = w.sock.packet_in /\ took.sock.packet_next = w.sock.packet_next
        /\ took.sock.packet_out = w.sock.packet_out /\ took.sock.send = w.sock.send
        /\ took.sock.lport = w.sock.lport /\ took.sock.ripaddr = f.src
    BY DEF StackInv, Shape
  <2>3. w.sock.ripaddr \notin {ZERO, BROADCAST} => f.src = w.sock.ripaddr
    BY <1>2 DEF Matches
  <2>4. w.sock.lport = DHCP_CLIENT_PORT => FromDhcp(f)
    BY <1>2 DEF Matches, FrameOK
  <2>5. udp_input(w, f) = w \/ udp_input(w, f) = took
        \/ (w.blocks # PoolBlocks /\ udp_input(w, f) = v)
    BY DEF udp_input, uipudp_appcall
  <2> HIDE DEF took
  <2>6. Directed(took)
    BY <2>1, <2>2, <2>3 DEF StackInv, Routes, Directed
  <2>7. StackInv(took)
    BY <2>1, <2>2, <2>6 DEF StackInv, Blocks, Used, Packets, Routes
  <2>8. Kept(w, took)
    BY <2>1, <2>2, <2>7 DEF Kept, Once
  <2>9. /\ Shape(v) /\ v.arp = took.arp /\ v.blocks = took.blocks + 1
        /\ v.net = took.net /\ v.wire = took.wire /\ v.sent = took.sent
    BY <2>1 DEF Shape
  <2>10. /\ v.sock.packet_in = took.sock.packet_in /\ v.sock.packet_next = f
         /\ v.sock.packet_out = took.sock.packet_out /\ v.sock.send = took.sock.send
         /\ v.sock.lport = took.sock.lport /\ v.sock.ripaddr = took.sock.ripaddr
    BY <2>1 DEF Shape
  <2> HIDE DEF v
  <2>11. Directed(v)
    BY <2>9, <2>10, <2>6 DEF Directed
  <2>12. w.blocks # PoolBlocks => Blocks(v)
    BY <1>2, <2>1, <2>2, <2>7, <2>9, <2>10, UdpAssumption DEF StackInv, Blocks, Used, One, FrameOK
  <2>13. Packets(v)
    BY <2>2, <2>4, <2>7, <2>10 DEF StackInv, Packets
  <2>14. w.blocks # PoolBlocks => StackInv(v)
    BY <2>7, <2>9, <2>11, <2>12, <2>13 DEF StackInv, Routes
  <2>15. w.blocks # PoolBlocks => Kept(took, v)
    BY <2>9, <2>10, <2>14 DEF Kept, Once
  <2> QED
    BY <2>5, <2>8, <2>15, KeptSelf, KeptTrans
<1> QED
  BY <1>1, <1>2

LEMMA KeptTickInput ==
    ASSUME NEW w, StackInv(w), NEW f, FrameOK(f)
    PROVE  Kept(w, TickInput(w, f))
<1> DEFINE table == uip_arp_update(w.arp, f.src, f.mac)
<1>1. ArpOK(table)
  BY ArpUpdated DEF FrameOK, StackInv, Routes
<1>2. Kept(w, [w EXCEPT !.arp = table])
  BY <1>1, KeptArp
<1>3. /\ uip_arp_ipin(w, f) \in {w, [w EXCEPT !.arp = table]}
      /\ uip_arp_arpin(w, f) \in {w, [w EXCEPT !.arp = table]}
  BY DEF uip_arp_ipin, uip_arp_arpin
<1> HIDE DEF table
<1>4. Kept(w, uip_arp_ipin(w, f)) /\ Kept(w, uip_arp_arpin(w, f))
  BY <1>2, <1>3, KeptSelf
<1>5. CASE f.kind \in {"arp", "arpreply"}
  <2> DEFINE v == uip_arp_arpin(w, f)
  <2>1. ArpAnswer(w, f).kind \notin Requests
    BY DEF ArpAnswer, Requests
  <2>2. StackInv(v)
    BY <1>4 DEF Kept
  <2>3. TickInput(w, f) = v \/ TickInput(w, f) = SendFrame(v, ArpAnswer(w, f))
    BY <1>5 DEF TickInput, ArpIn
  <2> HIDE DEF v
  <2>4. Kept(v, SendFrame(v, ArpAnswer(w, f)))
    BY <2>1, <2>2, KeptSendFrame
  <2>5. Kept(w, v)
    BY <1>4 DEF v
  <2> QED
    BY <2>3, <2>4, <2>5, KeptTrans
<1>6. CASE f.kind \notin {"arp", "arpreply"}
  <2> DEFINE v == uip_arp_ipin(w, f)
  <2>1. StackInv(v)
    BY <1>4 DEF Kept
  <2>2. TickInput(w, f) = udp_input(v, f)
    BY <1>6 DEF TickInput
  <2>3. Kept(w, v)
    BY <1>4
  <2> HIDE DEF v
  <2>4. Kept(v, udp_input(v, f))
    BY <1>6, <2>1, KeptUdpInput
  <2> QED
    BY <2>2, <2>3, <2>4, KeptTrans
<1> QED
  BY <1>5, <1>6

LEMMA KeptTick ==
    ASSUME NEW w, StackInv(w), NEW frames, \A f \in frames : FrameOK(f), NEW periodic
    PROVE  Kept(w, tick(w, frames, periodic))
<1> DEFINE f == CHOOSE f \in frames : TRUE
           heard == IF frames = {} THEN w ELSE TickInput(w, f)
<1>1. Kept(w, heard)
  <2>1. CASE frames = {}
    BY <2>1, KeptSelf
  <2>2. CASE frames # {}
    <3>1. f \in frames
      BY <2>2
    <3> HIDE DEF f
    <3> QED
      BY <2>2, <3>1, KeptTickInput
  <2> QED
    BY <2>1, <2>2
<1>2. tick(w, frames, periodic) = IF periodic THEN Periodic(heard) ELSE heard
  BY DEF tick
<1> HIDE DEF heard
<1>3. StackInv(heard)
  BY <1>1 DEF Kept
<1>4. Kept(heard, Periodic(heard))
  BY <1>3, KeptPeriodic
<1> QED
  BY <1>1, <1>2, <1>4, KeptTrans

\* begin opens a closed socket; one that holds blocks would lose them.
LEMMA Begun ==
    ASSUME NEW w, StackInv(w), w.sock = Closed, NEW port
    PROVE  /\ StackInv(begin(w, port))
           /\ begin(w, port).net = w.net
           /\ begin(w, port).sock = [Closed EXCEPT !.lport = port]
<1> DEFINE v == begin(w, port)
<1>1. /\ Shape(v) /\ v.arp = w.arp /\ v.blocks = w.blocks /\ v.net = w.net
      /\ v.wire = w.wire /\ v.sock = [Closed EXCEPT !.lport = port]
  BY DEF begin, StackInv, Shape, Closed
<1> HIDE DEF v
<1>2. /\ v.sock.packet_in = NOBLOCK /\ v.sock.packet_next = NOBLOCK
      /\ v.sock.packet_out = NOBLOCK /\ v.sock.send = FALSE
  BY <1>1 DEF Closed
<1>3. Used(w.sock) = 0
  BY DEF Used, One, Closed
<1>4. Blocks(v)
  BY <1>1, <1>2, <1>3 DEF StackInv, Blocks, Used, One
<1>5. Packets(v) /\ Directed(v)
  BY <1>2 DEF Packets, Directed
<1>6. StackInv(v)
  BY <1>1, <1>4, <1>5 DEF StackInv, Routes
<1> QED
  BY <1>1, <1>6 DEF v

\* stop frees whatever the socket holds.
LEMMA Stopped ==
    ASSUME NEW w, StackInv(w)
    PROVE  StackInv(stop(w)) /\ stop(w).sock = Closed /\ stop(w).net = w.net
<1> DEFINE v == stop(w)
<1>1. /\ Shape(v) /\ v.arp = w.arp /\ v.blocks = w.blocks - Held(w.sock) /\ v.net = w.net
      /\ v.wire = w.wire /\ v.sock = Closed
  BY DEF stop, StackInv, Shape, Closed
<1> HIDE DEF v
<1>2. /\ v.sock.packet_in = NOBLOCK /\ v.sock.packet_next = NOBLOCK
      /\ v.sock.packet_out = NOBLOCK /\ v.sock.send = FALSE
  BY <1>1 DEF Closed
<1>3. w.blocks = Held(w.sock) /\ w.blocks \in Nat
  BY HeldIsUsed DEF StackInv, Blocks, Used, One
<1>4. Blocks(v)
  BY <1>1, <1>2, <1>3, UdpAssumption DEF Blocks, Used, One
<1>5. Packets(v) /\ Directed(v)
  BY <1>2 DEF Packets, Directed
<1>6. StackInv(v)
  BY <1>1, <1>4, <1>5 DEF StackInv, Routes
<1> QED
  BY <1>1, <1>6 DEF v

\* flush and parsePacket free the packet that was read, and only that.
Drained(w, v) ==
    /\ StackInv(v)
    /\ v.net = w.net /\ v.sock.lport = w.sock.lport
    /\ v.sock.packet_out = w.sock.packet_out
    /\ Once(w) => Once(v)

LEMMA FlushedAndParsed ==
    ASSUME NEW w, StackInv(w)
    PROVE  /\ Drained(w, flush(w)) /\ flush(w).sock.packet_in = NOBLOCK
           /\ Drained(w, parsePacket(w))
<1> DEFINE less == w.blocks - (IF w.sock.packet_in = NOBLOCK THEN 0 ELSE 1)
<1>1. ASSUME NEW p, NEW n, One(p) + One(n) = One(w.sock.packet_next),
             {p, n} \subseteq {NOBLOCK, w.sock.packet_next},
             NEW v, Shape(v), v.arp = w.arp, v.blocks = less, v.net = w.net, v.wire = w.wire,
             v.sent = w.sent,
             v.sock.packet_in = p, v.sock.packet_next = n,
             v.sock.packet_out = w.sock.packet_out, v.sock.send = w.sock.send,
             v.sock.lport = w.sock.lport, v.sock.ripaddr = w.sock.ripaddr
      PROVE  Drained(w, v)
  <2>1. Blocks(v)
    <3>1. w.blocks = Used(w.sock) /\ w.blocks =< PoolBlocks /\ w.blocks \in Nat
      BY DEF StackInv, Blocks, Used, One
    <3>2. v.blocks = w.blocks - One(w.sock.packet_in)
      BY <1>1 DEF One
    <3>3. Used(v.sock) = Used(w.sock) - One(w.sock.packet_in)
      BY <1>1 DEF Used, One
    <3>4. One(w.sock.packet_in) \in 0 .. 1
      BY DEF One
    <3> QED
      BY <1>1, <3>1, <3>2, <3>3, <3>4, UdpAssumption DEF StackInv, Blocks
  <2>2. Packets(v)
    BY <1>1 DEF StackInv, Packets
  <2>3. Routes(v)
    BY <1>1 DEF StackInv, Routes, Directed
  <2> QED
    BY <1>1, <2>1, <2>2, <2>3 DEF Drained, StackInv, Once
<1>2. Drained(w, flush(w)) /\ flush(w).sock.packet_in = NOBLOCK
  <2> DEFINE v == flush(w)
  <2>1. /\ Shape(v) /\ v.arp = w.arp /\ v.blocks = less /\ v.net = w.net /\ v.wire = w.wire
        /\ v.sent = w.sent
    BY DEF flush, StackInv, Shape
  <2>2. /\ v.sock.packet_in = NOBLOCK /\ v.sock.packet_next = w.sock.packet_next
        /\ v.sock.packet_out = w.sock.packet_out /\ v.sock.send = w.sock.send
        /\ v.sock.lport = w.sock.lport /\ v.sock.ripaddr = w.sock.ripaddr
    BY DEF flush, StackInv, Shape
  <2> HIDE DEF v, less
  <2>3. One(NOBLOCK) + One(w.sock.packet_next) = One(w.sock.packet_next)
    BY DEF One
  <2>4. Drained(w, v)
    BY <1>1, <2>1, <2>2, <2>3
  <2> QED
    BY <2>2, <2>4 DEF v
<1>3. Drained(w, parsePacket(w))
  <2> DEFINE v == parsePacket(w)
  <2>1. /\ Shape(v) /\ v.arp = w.arp /\ v.blocks = less /\ v.net = w.net /\ v.wire = w.wire
        /\ v.sent = w.sent
    BY DEF parsePacket, StackInv, Shape
  <2>2. /\ v.sock.packet_in = w.sock.packet_next /\ v.sock.packet_next = NOBLOCK
        /\ v.sock.packet_out = w.sock.packet_out /\ v.sock.send = w.sock.send
        /\ v.sock.lport = w.sock.lport /\ v.sock.ripaddr = w.sock.ripaddr
    BY DEF parsePacket, StackInv, Shape
  <2> HIDE DEF v, less
  <2>3. One(w.sock.packet_next) + One(NOBLOCK) = One(w.sock.packet_next)
    BY DEF One
  <2>4. Drained(w, v)
    BY <1>1, <2>1, <2>2, <2>3
  <2> QED
    BY <2>4 DEF v
<1> QED
  BY <1>2, <1>3

\* A packet for a socket that has none and a free block is sent or held; and
\* whatever the socket holds stays accounted for.
LEMMA PacketSent ==
    ASSUME NEW w, StackInv(w), NEW ip, NEW port, NEW msg, MessageOK(msg),
           msg.kind \in Requests => w.net.hostaddr # ZERO /\ ip \notin {ZERO, BROADCAST},
           w.sock.packet_out # NOBLOCK => w.sock.packet_out.kind \notin Requests
    PROVE  LET v == SendPacket(w, ip, port, msg)
           IN  /\ StackInv(v)
               /\ v.net = w.net /\ v.sock.lport = w.sock.lport
               /\ v.sock.packet_out \in {NOBLOCK, msg, w.sock.packet_out}
               /\ CanBegin(w) => Once(v)
<1> DEFINE to == Addressed(w, ip, port)
           full == [to EXCEPT !.sock.packet_out = msg, !.sock.send = TRUE,
                              !.blocks = @ + 1, !.sent = 0]
<1>1. /\ Shape(to) /\ to.arp = w.arp /\ to.blocks = w.blocks /\ to.net = w.net
      /\ to.wire = w.wire /\ to.sent = w.sent
  BY DEF Addressed, StackInv, Shape
<1>2. /\ to.sock.packet_in = w.sock.packet_in /\ to.sock.packet_next = w.sock.packet_next
      /\ to.sock.packet_out = w.sock.packet_out /\ to.sock.send = w.sock.send
      /\ to.sock.lport = w.sock.lport /\ to.sock.ripaddr = ip
  BY DEF Addressed, StackInv, Shape
<1>3. SendPacket(w, ip, port, msg) = IF ~CanBegin(to) THEN to ELSE Periodic(full)
  BY DEF SendPacket
<1> HIDE DEF to
<1>4. StackInv(to)
  <2>1. Directed(to)
    BY <1>1, <1>2 DEF StackInv, Routes, Directed
  <2> QED
    BY <1>1, <1>2, <2>1 DEF StackInv, Blocks, Used, Packets, Routes
<1>5. CanBegin(to) <=> CanBegin(w)
  BY <1>1, <1>2 DEF CanBegin
<1>6. ASSUME CanBegin(to)
      PROVE  /\ StackInv(full) /\ Once(full)
             /\ full.net = w.net /\ full.sock.lport = w.sock.lport
             /\ full.sock.packet_out = msg
  <2>1. /\ Shape(full) /\ full.arp = to.arp /\ full.blocks = to.blocks + 1 /\ full.net = to.net
        /\ full.wire = to.wire /\ full.sent = 0
    BY <1>1 DEF Shape
  <2>2. /\ full.sock.packet_in = to.sock.packet_in
        /\ full.sock.packet_next = to.sock.packet_next
        /\ full.sock.packet_out = msg /\ full.sock.send = TRUE
        /\ full.sock.lport = to.sock.lport /\ full.sock.ripaddr = to.sock.ripaddr
    BY <1>1 DEF Shape
  <2> HIDE DEF full
  <2>3. Blocks(full)
    BY <1>4, <1>6, <2>1, <2>2, UdpAssumption DEF StackInv, Blocks, Used, One, CanBegin, MessageOK
  <2>4. Packets(full)
    BY <1>4, <2>2 DEF StackInv, Packets
  <2>5. Directed(full)
    BY <1>1, <1>2, <2>1, <2>2 DEF Directed
  <2>6. StackInv(full)
    BY <1>4, <2>1, <2>3, <2>4, <2>5 DEF StackInv, Routes
  <2> QED
    BY <1>1, <1>2, <2>1, <2>2, <2>6 DEF Once, MessageOK
<1> HIDE DEF full
<1>7. CanBegin(to) => Kept(full, Periodic(full))
  BY <1>6, KeptPeriodic
<1> QED
  BY <1>1, <1>2, <1>3, <1>4, <1>5, <1>6, <1>7 DEF Kept

-----------------------------------------------------------------------------
(***************************************************************************)
(* Where the gateway is, and what the stack holds there                    *)
(***************************************************************************)
Places == {"idle", "dhcp", "giveup", "connected", "lookup1", "between", "lookup2", "asktime",
           "receive", "done"}
ClosedAt == {"idle", "connected", "between", "asktime", "done"}
OnlineAt == {"connected", "lookup1", "between", "lookup2", "asktime", "receive"}
AskingAt == {"lookup1", "lookup2", "receive"}

WaitInv ==
    /\ DOMAIN at = {"pc", "waited", "elapsed", "fed", "retries", "id", "clock"}
    /\ at.pc \in Places
    /\ at.waited \in 0 .. DnsTimeout + 1 /\ at.elapsed \in 0 .. Timeout + 1
    /\ at.fed \in 0 .. WatchdogTimeout

ClientInv ==
    /\ dhcp.state \in {"START", "DISCOVER", "REQUEST", "LEASED"}
    /\ dhcp.ip \in Leases \cup {ZERO} /\ dhcp.server \in Servers \cup {ZERO}

DhcpSocket(w) ==
    /\ w.sock.lport = DHCP_CLIENT_PORT
    /\ w.sock.packet_out # NOBLOCK => w.sock.packet_out.kind \notin Requests

PlaceInv ==
    /\ at.pc \in ClosedAt => world.sock = Closed
    /\ at.pc = "dhcp" => DhcpSocket(world)
    /\ at.pc \in OnlineAt => world.net.hostaddr # ZERO
    /\ at.pc \in AskingAt => Once(world)

NetworkInv == granted \subseteq Servers /\ \A f \in flight : FrameOK(f)

LocalInv == StackInv(world) /\ WaitInv /\ ClientInv /\ PlaceInv

SetupInv == LeaseInv /\ NetworkInv /\ LocalInv

LEMMA AnswersOK ==
    ASSUME NEW q, NEW a \in Answers(q)
    PROVE  FrameOK(a) /\ (a.kind = "ack" => a.src \in Servers)
<1>1. \/ a \in UNION {DhcpAnswers(q, s) : s \in Servers}
      \/ a \in {[kind |-> "arpreply", src |-> q.dest, mac |-> q.dest, dest |-> q.src]}
      \/ a \in {WithHeaders([kind |-> "dns", id |-> q.id, ok |-> b],
                        UdpFrom(DnsServer, DnsServer, DNS_PORT, DNS_LOCAL_PORT, q.src))
              : b \in BOOLEAN}
      \/ a \in {WithHeaders([kind |-> "time"],
                        UdpFrom(TimeServer, Router, NTP_SERVER_PORT, TIME_LOCAL_PORT, q.src))}
      \/ a \in {}
  BY Zenon DEF Answers
<1>2. \A f : "kind" \in DOMAIN f => f # NOBLOCK
  BY DEF NOBLOCK
<1>3. CASE a \in UNION {DhcpAnswers(q, s) : s \in Servers}
  <2>1. PICK s \in Servers : a \in DhcpAnswers(q, s)
    BY <1>3
  <2> DEFINE answer(kind, ip) ==
          WithHeaders([kind |-> kind, xid |-> q.xid, ip |-> ip],
                      UdpFrom(s, s, DHCP_SERVER_PORT, DHCP_CLIENT_PORT, BROADCAST))
  <2>2. a \in {answer("offer", Lease(s)), answer("nak", ZERO), answer("ack", Lease(s))}
    BY <2>1 DEF DhcpAnswers
  <2>3. \A kind, ip : /\ "kind" \in DOMAIN answer(kind, ip)
                      /\ answer(kind, ip).ip = ip
                      /\ answer(kind, ip).src = s /\ answer(kind, ip).mac = s
    BY DEF WithHeaders, UdpFrom
  <2> HIDE DEF answer
  <2>4. "kind" \in DOMAIN a /\ a.ip \in {Lease(s), ZERO} /\ a.src = s /\ a.mac = s
    BY <2>2, <2>3
  <2> QED
    BY <1>2, <2>4 DEF FrameOK, FromDhcp, Leases
<1>4. CASE a \in {[kind |-> "arpreply", src |-> q.dest, mac |-> q.dest, dest |-> q.src]}
  <2>1. "kind" \in DOMAIN a /\ a.kind = "arpreply" /\ a.mac = a.src
    BY <1>4
  <2> QED
    BY <1>2, <2>1 DEF FrameOK
<1>5. CASE a \in {WithHeaders([kind |-> "dns", id |-> q.id, ok |-> b],
                        UdpFrom(DnsServer, DnsServer, DNS_PORT, DNS_LOCAL_PORT, q.src))
              : b \in BOOLEAN}
  <2>1. /\ "kind" \in DOMAIN a /\ a.kind = "dns" /\ a.mac = a.src
        /\ a.destport = DNS_LOCAL_PORT
    BY <1>5 DEF WithHeaders, UdpFrom
  <2> QED
    BY <1>2, <2>1 DEF FrameOK, DNS_LOCAL_PORT, DHCP_CLIENT_PORT
<1>6. CASE a \in {WithHeaders([kind |-> "time"],
                        UdpFrom(TimeServer, Router, NTP_SERVER_PORT, TIME_LOCAL_PORT, q.src))}
  <2>1. /\ "kind" \in DOMAIN a /\ a.kind = "time" /\ a.src = TimeServer
        /\ a.destport = TIME_LOCAL_PORT
    BY <1>6 DEF WithHeaders, UdpFrom
  <2> QED
    BY <1>2, <2>1, SetupAssumption DEF FrameOK, TIME_LOCAL_PORT, DHCP_CLIENT_PORT
<1> QED
  BY <1>1, <1>3, <1>4, <1>5, <1>6

\* Only the hosts add a frame or acknowledge.
LEMMA NetworkNext ==
    ASSUME SetupInv, [Next]_vars
    PROVE  NetworkInv'
<1>1. CASE flight' \subseteq flight /\ UNCHANGED granted
  BY <1>1 DEF SetupInv, NetworkInv
<1>2. CASE HostAnswers
  <2>1. PICK q \in world.wire : \E a \in Answers(q) :
         /\ flight' = flight \cup {a}
         /\ granted' = IF a.kind = "ack" THEN granted \cup {a.src} ELSE granted
    BY <1>2 DEF HostAnswers
  <2>2. PICK a \in Answers(q) :
         /\ flight' = flight \cup {a}
         /\ granted' = IF a.kind = "ack" THEN granted \cup {a.src} ELSE granted
    BY <2>1
  <2>3. FrameOK(a) /\ (a.kind = "ack" => a.src \in Servers)
    BY AnswersOK
  <2> QED
    BY <2>2, <2>3 DEF SetupInv, NetworkInv
<1>3. CASE HostAsks
  <2>1. AskMac # NOBLOCK /\ AskMac.kind = "arp" /\ AskMac.mac = AskMac.src
    <3>1. "kind" \in DOMAIN AskMac
      BY DEF AskMac
    <3> QED
      BY <3>1 DEF AskMac, NOBLOCK
  <2>2. FrameOK(AskMac)
    BY <2>1 DEF FrameOK
  <2> QED
    BY <1>3, <2>2 DEF HostAsks, SetupInv, NetworkInv
<1>4. CASE ~HostAnswers /\ ~HostAsks
  <2>1. UNCHANGED granted
    BY <1>4 DEF Next, vars, Connect, DhcpStart, DhcpPoll, ReadTick, DhcpParsed, DhcpGivesUp,
                Lookup, DnsPoll, DnsParsed, AskTime, recvfrom, FormatMessage, WatchdogBites,
                LoseFrame
  <2>2. flight' \subseteq flight
    <3> USE DEF Forgotten
    <3>1. CASE Connect \/ DhcpStart \/ DhcpPoll \/ ReadTick
      BY <3>1 DEF Connect, DhcpStart, DhcpPoll, ReadTick
    <3>2. CASE DhcpParsed
      BY <3>2 DEF DhcpParsed, Requested
    <3>3. CASE DhcpGivesUp \/ DnsPoll \/ DnsParsed
      BY <3>3 DEF DhcpGivesUp, DnsPoll, DnsParsed
    <3>5. CASE Lookup
      <4>1. \E id \in 1 .. 2, frames \in Arrivals : Forgotten(frames)
        BY <3>5, Zenon DEF Lookup
      <4> QED
        BY <4>1
    <3>6. CASE AskTime
      BY <3>6 DEF AskTime
    <3>4. CASE recvfrom \/ FormatMessage \/ WatchdogBites \/ LoseFrame \/ UNCHANGED vars
      BY <3>4 DEF recvfrom, FormatMessage, WatchdogBites, LoseFrame, vars
    <3> QED
      BY <1>4, <3>1, <3>2, <3>3, <3>4, <3>5, <3>6 DEF Next
  <2> QED
    BY <1>1, <2>1, <2>2
<1> QED
  BY <1>2, <1>3, <1>4

LEMMA MessagesOK ==
    /\ \A d : /\ MessageOK(Discover(d)) /\ Discover(d).kind \notin Requests
              /\ MessageOK(RequestFor(d)) /\ RequestFor(d).kind \notin Requests
    /\ \A id : MessageOK(Query(id))
    /\ MessageOK([kind |-> "asktime"])
<1>1. \A f : "kind" \in DOMAIN f => f # NOBLOCK
  BY DEF NOBLOCK
<1>2. ASSUME NEW d
      PROVE  MessageOK(Discover(d)) /\ Discover(d).kind \notin Requests
  BY <1>1 DEF MessageOK, Discover, Requests
<1>3. ASSUME NEW d
      PROVE  MessageOK(RequestFor(d)) /\ RequestFor(d).kind \notin Requests
  BY <1>1 DEF MessageOK, RequestFor, Requests
<1>4. ASSUME NEW id
      PROVE  MessageOK(Query(id))
  BY <1>1 DEF MessageOK, Query
<1>5. MessageOK([kind |-> "asktime"])
  BY <1>1 DEF MessageOK
<1> QED
  BY <1>2, <1>3, <1>4, <1>5

LEMMA SetupInit == Init => SetupInv
<1> SUFFICES ASSUME Init PROVE SetupInv
  OBVIOUS
<1>1. LeaseInv
  BY LeaseInit
<1>2. NetworkInv
  BY DEF Init, NetworkInv
<1>3. StackInv(world)
  <2>1. /\ Shape(world) /\ world.sock = Closed /\ world.arp = uip_arp_init /\ world.blocks = 0
        /\ world.net = NoNet /\ world.wire = {}
    BY DEF Init, NoWorld, Shape, Closed
  <2>2. Blocks(world) /\ Packets(world) /\ Directed(world)
    BY <2>1, UdpAssumption DEF Blocks, Used, One, Packets, Directed, Closed
  <2>3. ArpOK(world.arp)
    BY <2>1 DEF ArpOK, uip_arp_init, NoEntry
  <2> QED
    BY <2>1, <2>2, <2>3 DEF StackInv, Routes, NetOK, NoNet, WireOK
<1>4. WaitInv
  BY SetupAssumption DEF Init, WaitInv, Idle, Places
<1>5. ClientInv
  BY DEF Init, ClientInv, NoLease
<1>6. PlaceInv
  BY DEF Init, PlaceInv, Idle, NoWorld, OnlineAt, AskingAt
<1> QED
  BY <1>1, <1>2, <1>3, <1>4, <1>5, <1>6 DEF SetupInv, LocalInv

\* What the proofs below take from the invariant.
LEMMA LocalFacts ==
    ASSUME SetupInv
    PROVE  /\ StackInv(world) /\ PlaceInv /\ WaitInv /\ ClientInv
           /\ \A frames \in Arrivals : \A f \in frames : FrameOK(f)
           /\ \A f \in flight : \A g \in {f} : FrameOK(g)
           /\ DOMAIN at = {"pc", "waited", "elapsed", "fed", "retries", "id", "clock"}
           /\ DOMAIN dhcp = {"state", "xid", "initial", "ip", "server"}
           /\ {Timeout, DnsTimeout, RecvTimeout, WatchdogTimeout} \subseteq Nat
  BY SetupAssumption DEF SetupInv, LocalInv, NetworkInv, Arrivals, WaitInv, LeaseInv,
     ClientShape

\* A poll: the tick, then the packet that arrived moves up.
LEMMA PollOK ==
    ASSUME SetupInv, NEW frames \in Arrivals, NEW periodic
    PROVE  LET w == Polled(world, frames, periodic)
           IN  /\ StackInv(w) /\ w.net = world.net
               /\ DhcpSocket(world) => DhcpSocket(w)
               /\ Once(world) => Once(w)
<1> DEFINE t == tick(world, frames, periodic)
<1>1. Kept(world, t)
  BY LocalFacts, KeptTick
<1>2. Polled(world, frames, periodic) = parsePacket(t)
  BY DEF Polled
<1> HIDE DEF t
<1>3. Drained(t, parsePacket(t))
  BY <1>1, FlushedAndParsed DEF Kept
<1> QED
  BY <1>1, <1>2, <1>3 DEF Kept, Drained, DhcpSocket

LEMMA DhcpSends ==
    ASSUME NEW w, StackInv(w), DhcpSocket(w), NEW msg, MessageOK(msg), msg.kind \notin Requests
    PROVE  LET v == sendDhcpMessage(w, msg) IN StackInv(v) /\ DhcpSocket(v)
<1> DEFINE v == SendPacket(w, BROADCAST, DHCP_SERVER_PORT, msg)
<1>1. StackInv(v) /\ v.sock.lport = w.sock.lport
      /\ v.sock.packet_out \in {NOBLOCK, msg, w.sock.packet_out}
  BY PacketSent DEF DhcpSocket
<1> HIDE DEF v
<1>2. DhcpSocket(v)
  BY <1>1 DEF DhcpSocket
<1> QED
  BY <1>1, <1>2 DEF sendDhcpMessage, v

\* DHCP: the calls of requestDhcpLease.
LEMMA DhcpLocal ==
    ASSUME SetupInv, Connect \/ DhcpStart \/ DhcpPoll \/ DhcpParsed \/ DhcpGivesUp
    PROVE  LocalInv'
<1> USE LocalFacts
<1>1. CASE Connect
  <2> DEFINE w == Initialised(world)
  <2>1. /\ Shape(w) /\ w.sock = Closed /\ w.arp = uip_arp_init /\ w.blocks = 0
        /\ w.net = world.net /\ w.wire = world.wire
    BY DEF Initialised, StackInv, Shape, Closed
  <2>2. world' = begin(w, DHCP_CLIENT_PORT)
    BY <1>1 DEF Connect
  <2> HIDE DEF w
  <2>3. Blocks(w) /\ Packets(w) /\ Directed(w)
    BY <2>1, UdpAssumption DEF Blocks, Used, One, Packets, Directed, Closed
  <2>4. ArpOK(w.arp)
    BY <2>1 DEF ArpOK, uip_arp_init, NoEntry
  <2>5. StackInv(w)
    BY <2>1, <2>3, <2>4 DEF StackInv, Routes
  <2>6. StackInv(world') /\ world'.sock = [Closed EXCEPT !.lport = DHCP_CLIENT_PORT]
    BY <2>1, <2>2, <2>5, Begun
  <2>7. at'.pc = "dhcp" /\ WaitInv'
    <3>1. at' = [Idle EXCEPT !.pc = "dhcp"]
      BY <1>1 DEF Connect
    <3>2. /\ at'.pc = "dhcp" /\ at'.waited = 0 /\ at'.elapsed = 0 /\ at'.fed = 0
          /\ DOMAIN at' = {"pc", "waited", "elapsed", "fed", "retries", "id", "clock"}
      BY <3>1 DEF Idle
    <3> QED
      BY <3>2 DEF WaitInv, Places
  <2>8. ClientInv'
    BY <1>1 DEF Connect, ClientInv, NoLease
  <2>9. DhcpSocket(world')
    BY <2>6 DEF DhcpSocket, Closed
  <2> QED
    BY <2>6, <2>7, <2>8, <2>9 DEF LocalInv, PlaceInv, ClosedAt, OnlineAt, AskingAt
<1>2. CASE DhcpStart
  <2>1. PICK frames \in Arrivals, periodic \in BOOLEAN :
           world' = sendDhcpMessage(tick(world, frames, periodic),
                                    Discover([dhcp EXCEPT !.xid = @ + 1]))
    BY <1>2 DEF DhcpStart
  <2> DEFINE t == tick(world, frames, periodic)
  <2>2. Kept(world, t)
    BY KeptTick
  <2>3. at.pc = "dhcp" /\ UNCHANGED at /\ DhcpSocket(world)
    BY <1>2 DEF DhcpStart, PlaceInv
  <2> HIDE DEF t
  <2>4. StackInv(t) /\ DhcpSocket(t)
    BY <2>2, <2>3 DEF Kept, DhcpSocket
  <2>5. StackInv(world') /\ DhcpSocket(world')
    BY <2>1, <2>4, MessagesOK, DhcpSends DEF t
  <2>6. WaitInv'
    BY <2>3 DEF WaitInv
  <2>7. ClientInv'
    BY <1>2 DEF DhcpStart, ClientInv
  <2> QED
    BY <2>3, <2>5, <2>6, <2>7 DEF LocalInv, PlaceInv, ClosedAt, OnlineAt, AskingAt
<1>3. CASE DhcpPoll
  <2>1. PICK frames \in Arrivals, periodic \in BOOLEAN :
           \E w \in {Polled(world, frames, periodic)} :
              IF w.sock.packet_in = NOBLOCK THEN DhcpWaits(w)
              ELSE world' = w /\ at' = [at EXCEPT !.waited = 0] /\ UNCHANGED dhcp
    BY <1>3 DEF DhcpPoll
  <2>2. world' = Polled(world, frames, periodic)
    BY <2>1 DEF DhcpWaits
  <2>3. at.pc = "dhcp" /\ DhcpSocket(world)
    BY <1>3 DEF DhcpPoll, PlaceInv
  <2>4. StackInv(world') /\ DhcpSocket(world')
    BY <2>2, <2>3, PollOK
  <2>5. at'.pc \in {"dhcp", "giveup"} /\ WaitInv'
    <3>1. \/ at' = [at EXCEPT !.waited = 0]
          \/ at' = [at EXCEPT !.waited = 1, !.elapsed = Later(@)]
          \/ at' = [at EXCEPT !.waited = 0,
                              !.pc = IF TimedOut(at.elapsed) THEN "giveup" ELSE "dhcp"]
      BY <2>1 DEF DhcpWaits
    <3>2. Later(at.elapsed) \in 0 .. Timeout + 1
      BY DEF Later, TimedOut, WaitInv
    <3>3. /\ at'.pc \in {"dhcp", "giveup"} /\ at'.waited \in {0, 1} /\ at'.fed = at.fed
          /\ at'.elapsed \in {at.elapsed, Later(at.elapsed)} /\ DOMAIN at' = DOMAIN at
      BY <2>3, <3>1
    <3> QED
      BY <3>2, <3>3 DEF WaitInv, Places
  <2>6. ClientInv'
    BY <2>1 DEF DhcpWaits, ClientInv
  <2> QED
    BY <2>4, <2>5, <2>6 DEF LocalInv, PlaceInv, ClosedAt, OnlineAt, AskingAt
<1>4. CASE DhcpParsed
  <2> DEFINE f == world.sock.packet_in
             d == Learned(dhcp, world, f)
             type == TypeOf(dhcp, world, f)
  <2>1. f # NOBLOCK /\ at.pc = "dhcp"
    BY <1>4 DEF DhcpParsed
  <2>2. DhcpSocket(world)
    BY <2>1 DEF PlaceInv
  <2>3. FromDhcp(f)
    BY <2>1, <2>2 DEF DhcpSocket, StackInv, Packets
  <2>4. /\ DOMAIN d = DOMAIN dhcp /\ d.state = dhcp.state
        /\ d.ip \in Leases \cup {ZERO} /\ d.server \in Servers \cup {ZERO}
    BY <2>3 DEF Learned, ServerNamed, FromDhcp, ClientInv
  <2>5. \/ Requested(world, d, f)
        \/ Ignored(world, d, "DISCOVER")
        \/ IsAck(type) /\ Leased(world, d)
        \/ Ignored(world, d, IF type = "nak" THEN "START" ELSE "REQUEST")
    BY <1>4 DEF DhcpParsed
  <2>6. IsAck(type) => d.ip = f.ip /\ f.kind = "ack"
    BY DEF IsAck, TypeOf, Learned
  <2> HIDE DEF d, type
  <2>7. Drained(world, flush(world)) /\ DhcpSocket(flush(world))
    BY <2>2, FlushedAndParsed DEF Drained, DhcpSocket
  <2>8. CASE Requested(world, d, f)
    <3>1. PICK frames \in Arrivals :
            world' = sendDhcpMessage(tick(flush(world), frames, FALSE),
                                     RequestFor([d EXCEPT !.xid = f.xid]))
      BY <2>8 DEF Requested
    <3> DEFINE t == tick(flush(world), frames, FALSE)
    <3>2. Kept(flush(world), t)
      BY <2>7, KeptTick DEF Drained
    <3> HIDE DEF t
    <3>3. StackInv(t) /\ DhcpSocket(t)
      BY <2>7, <3>2 DEF Kept, DhcpSocket
    <3>4. StackInv(world') /\ DhcpSocket(world')
      BY <3>1, <3>3, MessagesOK, DhcpSends DEF t
    <3>5. UNCHANGED at /\ WaitInv'
      BY <2>8 DEF Requested, WaitInv
    <3>6. ClientInv'
      BY <2>4, <2>8 DEF Requested, ClientInv
    <3> QED
      BY <2>1, <3>4, <3>5, <3>6 DEF LocalInv, PlaceInv, ClosedAt, OnlineAt, AskingAt
  <2>9. ASSUME NEW state \in {"START", "DISCOVER", "REQUEST"}, Ignored(world, d, state)
        PROVE  LocalInv'
    <3>1. StackInv(world') /\ DhcpSocket(world')
      BY <2>7, <2>9 DEF Ignored, Drained
    <3>2. at'.pc \in {"dhcp", "giveup"} /\ WaitInv'
      BY <2>9 DEF Ignored, WaitInv, Places, Later, TimedOut
    <3>3. ClientInv'
      BY <2>4, <2>9 DEF Ignored, ClientInv
    <3> QED
      BY <3>1, <3>2, <3>3 DEF LocalInv, PlaceInv, ClosedAt, OnlineAt, AskingAt
  <2>10. CASE IsAck(type) /\ Leased(world, d)
    <3> DEFINE w == stop(flush(world))
    <3>1. StackInv(w) /\ w.sock = Closed
      BY <2>7, Stopped DEF Drained
    <3>2. d.ip # ZERO
      <4>1. f.src \in granted /\ d.ip = Lease(f.src)
        BY <2>1, <2>6, <2>10 DEF SetupInv, LeaseInv, AckInv, Grants, IsGrant
      <4> QED
        BY <4>1, SetupAssumption DEF SetupInv, NetworkInv, Leases
    <3>3. world' = Configured(w, d)
      BY <2>10 DEF Leased
    <3> HIDE DEF w
    <3>4. /\ Shape(world') /\ world'.sock = Closed /\ world'.arp = w.arp
          /\ world'.blocks = w.blocks /\ world'.wire = w.wire
          /\ world'.net = [hostaddr |-> d.ip, draddr |-> Router, dnsServerAddress |-> DnsServer]
      BY <3>1, <3>3 DEF Configured, StackInv, Shape
    <3>5. NetOK(world'.net) /\ world'.net.hostaddr # ZERO
      BY <3>2, <3>4 DEF NetOK
    <3>6. Directed(world') /\ Packets(world') /\ Blocks(world')
      BY <3>1, <3>4 DEF StackInv, Directed, Packets, Blocks, Closed
    <3>7. StackInv(world')
      BY <3>1, <3>4, <3>5, <3>6 DEF StackInv, Routes
    <3>8. at'.pc = "connected" /\ WaitInv'
      BY <2>10 DEF Leased, WaitInv, Places
    <3>9. ClientInv'
      BY <2>4, <2>10 DEF Leased, ClientInv
    <3> QED
      BY <3>4, <3>5, <3>7, <3>8, <3>9 DEF LocalInv, PlaceInv, ClosedAt, OnlineAt, AskingAt
  <2> QED
    BY <2>5, <2>8, <2>9, <2>10
<1>5. CASE DhcpGivesUp
  <2>1. StackInv(world') /\ world'.sock = Closed
    BY <1>5, Stopped DEF DhcpGivesUp
  <2>2. at'.pc = "idle" /\ WaitInv'
    BY <1>5 DEF DhcpGivesUp, WaitInv, Idle, Places
  <2>3. ClientInv'
    BY <1>5 DEF DhcpGivesUp, ClientInv
  <2> QED
    BY <2>1, <2>2, <2>3 DEF LocalInv, PlaceInv, OnlineAt, AskingAt
<1> QED
  BY <1>1, <1>2, <1>3, <1>4, <1>5

\* A request on a socket opened for it: a packet that arrives in between takes
\* one block, the request finds another.
LEMMA Asked ==
    ASSUME SetupInv, world.sock = Closed, world.net.hostaddr # ZERO,
           NEW frames \in Arrivals, NEW lport, NEW ip, ip \notin {ZERO, BROADCAST},
           NEW port, NEW msg, MessageOK(msg)
    PROVE  LET v == SendPacket(tick(begin(world, lport), frames, FALSE), ip, port, msg)
           IN  StackInv(v) /\ v.net = world.net /\ Once(v)
<1> DEFINE b == begin(world, lport)
           t == tick(b, frames, FALSE)
           v == SendPacket(t, ip, port, msg)
<1>1. StackInv(b) /\ b.net = world.net /\ b.sock = [Closed EXCEPT !.lport = lport]
  BY LocalFacts, Begun
<1> HIDE DEF b
<1>2. Kept(b, t)
  BY <1>1, LocalFacts, KeptTick
<1> HIDE DEF t
<1>3. t.sock.packet_in = NOBLOCK /\ t.sock.packet_out = NOBLOCK
  BY <1>1, <1>2 DEF Kept, Closed
<1>4. StackInv(t) /\ t.net = world.net
  BY <1>1, <1>2 DEF Kept
<1>5. CanBegin(t)
  <2>1. t.blocks = Used(t.sock)
    BY <1>4 DEF StackInv, Blocks
  <2>2. Used(t.sock) \in 0 .. 1
    BY <1>3 DEF Used, One
  <2> QED
    BY <1>3, <2>1, <2>2, UdpAssumption DEF CanBegin
<1>6. StackInv(v) /\ v.net = world.net /\ Once(v)
  BY <1>3, <1>4, <1>5, PacketSent
<1> QED
  BY <1>6 DEF v, t, b

\* The names and the time: getHostByName, sendto, recvfrom.
LEMMA AskingLocal ==
    ASSUME SetupInv, ReadTick \/ Lookup \/ DnsPoll \/ DnsParsed \/ AskTime \/ recvfrom
    PROVE  LocalInv'
<1> USE LocalFacts
<1>a. ASSUME UNCHANGED dhcp PROVE ClientInv'
  BY <1>a DEF ClientInv
<1>1. CASE ReadTick
  <2>1. PICK f \in flight, periodic \in BOOLEAN : world' = tick(world, {f}, periodic)
    BY <1>1 DEF ReadTick
  <2>2. Kept(world, world')
    BY <2>1, KeptTick
  <2>3. at.pc \in {"dhcp", "lookup1", "lookup2"} /\ UNCHANGED at /\ WaitInv'
    BY <1>1 DEF ReadTick, WaitInv
  <2>4. PlaceInv'
    BY <2>2, <2>3 DEF PlaceInv, Kept, DhcpSocket, ClosedAt
  <2> QED
    BY <1>1, <1>a, <2>2, <2>3, <2>4 DEF ReadTick, LocalInv, Kept
<1>2. CASE Lookup
  <2>1. PICK id \in 1 .. 2, frames \in Arrivals :
         /\ world' = SendPacket(tick(begin(world, DNS_LOCAL_PORT), frames, FALSE),
                                world.net.dnsServerAddress, DNS_PORT, Query(id))
         /\ at' = [at EXCEPT !.pc = IF @ = "connected" THEN "lookup1" ELSE "lookup2",
                             !.id = id, !.waited = 0, !.retries = 0]
    BY <1>2, Zenon DEF Lookup
  <2>2. at.pc \in {"connected", "between"} /\ UNCHANGED dhcp
    BY <1>2 DEF Lookup
  <2>3. world.sock = Closed /\ world.net.hostaddr # ZERO
    BY <2>2 DEF PlaceInv, ClosedAt, OnlineAt
  <2>4. world.net.dnsServerAddress \notin {ZERO, BROADCAST}
    BY <2>3, SetupAssumption DEF StackInv, Routes, NetOK
  <2>5. StackInv(world') /\ world'.net = world.net /\ Once(world')
    BY <2>1, <2>3, <2>4, MessagesOK, Asked
  <2>6. /\ at'.pc \in {"lookup1", "lookup2"} /\ at'.waited = 0 /\ at'.fed = at.fed
        /\ at'.elapsed = at.elapsed /\ DOMAIN at' = DOMAIN at
    BY <2>1
  <2>7. WaitInv'
    BY <2>6 DEF WaitInv, Places
  <2> QED
    BY <1>a, <2>2, <2>3, <2>5, <2>6, <2>7 DEF LocalInv, PlaceInv, ClosedAt
<1>b. ASSUME NEW w, StackInv(w), w.net = world.net, NEW found, LookedUp(w, found),
             at.pc \in {"lookup1", "lookup2"}
      PROVE  StackInv(world') /\ WaitInv' /\ PlaceInv'
  <2>1. StackInv(world') /\ world'.sock = Closed /\ world'.net = world.net
    BY <1>b, Stopped DEF LookedUp
  <2>2. /\ at'.pc \in {"between", "asktime", "done"} /\ at'.waited = 0 /\ at'.fed = at.fed
        /\ at'.elapsed = at.elapsed /\ DOMAIN at' = DOMAIN at
    BY <1>b DEF LookedUp
  <2>3. WaitInv'
    BY <2>2 DEF WaitInv, Places
  <2>4. world.net.hostaddr # ZERO
    BY <1>b DEF PlaceInv, OnlineAt
  <2> QED
    BY <2>1, <2>2, <2>3, <2>4 DEF PlaceInv, AskingAt
<1>3. CASE DnsPoll
  <2>1. PICK frames \in Arrivals, periodic \in BOOLEAN :
           \E w \in {Polled(world, frames, periodic)} :
              IF w.sock.packet_in = NOBLOCK THEN DnsWaits(w) ELSE world' = w /\ UNCHANGED at
    BY <1>3 DEF DnsPoll
  <2> DEFINE w == Polled(world, frames, periodic)
  <2>2. DnsWaits(w) \/ (world' = w /\ UNCHANGED at)
    BY <2>1
  <2>3. StackInv(w) /\ w.net = world.net /\ (Once(world) => Once(w))
    BY PollOK
  <2> HIDE DEF w
  <2>4. at.pc \in {"lookup1", "lookup2"} /\ at.fed < WatchdogTimeout /\ UNCHANGED dhcp
    BY <1>3 DEF DnsPoll
  <2>5. CASE LookedUp(w, FALSE)
    BY <1>a, <1>b, <2>3, <2>4, <2>5 DEF LocalInv
  <2>6. CASE world' = w /\ (\/ UNCHANGED at
                            \/ /\ at.waited <= DnsTimeout
                               /\ at' = [at EXCEPT !.waited = @ + 1, !.fed = @ + 1]
                            \/ at' = [at EXCEPT !.waited = 0, !.retries = @ + 1])
    <3>1. at'.pc = at.pc /\ at'.elapsed = at.elapsed /\ DOMAIN at' = DOMAIN at
      BY <2>6
    <3>a. /\ at'.waited \in {at.waited, 0} \/ (at.waited <= DnsTimeout /\ at'.waited = at.waited + 1)
          /\ at'.fed \in {at.fed, at.fed + 1}
      BY <2>6
    <3>b. at.waited \in 0 .. DnsTimeout + 1 /\ at.fed \in 0 .. WatchdogTimeout
      BY DEF WaitInv
    <3>2. at'.waited \in 0 .. DnsTimeout + 1
      BY <3>a, <3>b
    <3>3. at'.fed \in 0 .. WatchdogTimeout
      BY <2>4, <3>a, <3>b
    <3>4. WaitInv'
      BY <3>1, <3>2, <3>3 DEF WaitInv
    <3>5. PlaceInv'
      BY <2>3, <2>4, <2>6, <3>1 DEF PlaceInv, ClosedAt, OnlineAt, AskingAt
    <3> QED
      BY <1>a, <2>3, <2>4, <2>6, <3>4, <3>5 DEF LocalInv
  <2> QED
    BY <2>2, <2>5, <2>6 DEF DnsWaits
<1>4. CASE DnsParsed
  <2>1. PICK found : LookedUp(flush(world), found)
    BY <1>4 DEF DnsParsed
  <2>2. StackInv(flush(world)) /\ flush(world).net = world.net
    BY FlushedAndParsed DEF Drained
  <2>3. at.pc \in {"lookup1", "lookup2"} /\ UNCHANGED dhcp
    BY <1>4 DEF DnsParsed
  <2> QED
    BY <1>a, <1>b, <2>1, <2>2, <2>3 DEF LocalInv
<1>5. CASE AskTime
  <2> DEFINE w(frames) == SendPacket(tick(begin(world, TIME_LOCAL_PORT), frames, FALSE),
                                     TimeServer, NTP_SERVER_PORT, [kind |-> "asktime"])
             failed(v) == v.sock.packet_out = NOBLOCK /\ v.sent = 0
  <2>1. PICK frames \in Arrivals :
          /\ world' = IF failed(w(frames)) THEN stop(w(frames)) ELSE w(frames)
          /\ at' = [at EXCEPT !.pc = IF failed(w(frames)) THEN "done" ELSE "receive"]
    BY <1>5 DEF AskTime
  <2>2. at.pc = "asktime" /\ UNCHANGED dhcp
    BY <1>5 DEF AskTime
  <2>3. world.sock = Closed /\ world.net.hostaddr # ZERO
    BY <2>2 DEF PlaceInv, ClosedAt, OnlineAt
  <2>4. StackInv(w(frames)) /\ w(frames).net = world.net /\ Once(w(frames))
    BY <2>3, MessagesOK, Asked, SetupAssumption
  <2> HIDE DEF w
  <2>5. ~failed(w(frames))
    BY <2>4 DEF Once
  <2> HIDE DEF failed
  <2>6. world' = w(frames) /\ at' = [at EXCEPT !.pc = "receive"]
    BY <2>1, <2>5
  <2>7. at'.pc = "receive" /\ WaitInv'
    BY <2>6 DEF WaitInv, Places
  <2>8. PlaceInv'
    BY <2>3, <2>4, <2>6, <2>7 DEF PlaceInv, ClosedAt
  <2> QED
    BY <1>a, <2>2, <2>4, <2>6, <2>7, <2>8 DEF LocalInv
<1>6. CASE recvfrom
  <2>1. PICK frames \in Arrivals, periodic \in BOOLEAN :
         \E w \in {Polled(world, frames, periodic)} :
              IF w.sock.packet_in # NOBLOCK
              THEN /\ world' = stop(flush(w))
                   /\ at' = [at EXCEPT !.pc = "done", !.clock = "answer"]
              ELSE IF at.waited < RecvTimeout
              THEN /\ world' = w
                   /\ at' = [at EXCEPT !.waited = @ + 1, !.fed = @ + 1]
              ELSE /\ world' = stop(w)
                   /\ at' = [at EXCEPT !.pc = "done", !.clock = "uninitialised"]
    BY <1>6 DEF recvfrom
  <2> DEFINE w == Polled(world, frames, periodic)
  <2>2. \/ /\ world' \in {stop(flush(w)), stop(w)}
           /\ \E c : at' = [at EXCEPT !.pc = "done", !.clock = c]
        \/ /\ at.waited < RecvTimeout /\ world' = w
           /\ at' = [at EXCEPT !.waited = @ + 1, !.fed = @ + 1]
    BY <2>1
  <2>3. StackInv(w) /\ w.net = world.net /\ (Once(world) => Once(w))
    BY PollOK
  <2> HIDE DEF w
  <2>4. at.pc = "receive" /\ at.fed < WatchdogTimeout /\ UNCHANGED dhcp
    BY <1>6 DEF recvfrom
  <2>5. StackInv(flush(w))
    BY <2>3, FlushedAndParsed DEF Drained
  <2>6. CASE /\ world' \in {stop(flush(w)), stop(w)}
             /\ \E c : at' = [at EXCEPT !.pc = "done", !.clock = c]
    <3>1. StackInv(world') /\ world'.sock = Closed
      BY <2>3, <2>5, <2>6, Stopped
    <3>2. at'.pc = "done" /\ WaitInv'
      BY <2>6 DEF WaitInv, Places
    <3> QED
      BY <1>a, <2>4, <3>1, <3>2 DEF LocalInv, PlaceInv, OnlineAt, AskingAt
  <2>7. CASE /\ at.waited < RecvTimeout /\ world' = w
             /\ at' = [at EXCEPT !.waited = @ + 1, !.fed = @ + 1]
    <3>1. at'.pc = at.pc /\ at'.elapsed = at.elapsed /\ DOMAIN at' = DOMAIN at
      BY <2>7
    <3>2. at'.waited \in 0 .. DnsTimeout + 1
      BY <2>7, SetupAssumption DEF WaitInv
    <3>3. at'.fed \in 0 .. WatchdogTimeout
      BY <2>4, <2>7 DEF WaitInv
    <3>4. WaitInv'
      BY <3>1, <3>2, <3>3 DEF WaitInv
    <3>5. PlaceInv'
      BY <2>3, <2>4, <2>7, <3>1 DEF PlaceInv, ClosedAt, OnlineAt, AskingAt
    <3> QED
      BY <1>a, <2>3, <2>4, <2>7, <3>4, <3>5 DEF LocalInv
  <2> QED
    BY <2>2, <2>6, <2>7
<1> QED
  BY <1>1, <1>2, <1>3, <1>4, <1>5, <1>6

\* The end of a message, the reset, and the network's own steps.
LEMMA OtherLocal ==
    ASSUME SetupInv,
           \/ FormatMessage \/ WatchdogBites \/ HostAnswers \/ HostAsks \/ LoseFrame
           \/ UNCHANGED vars
    PROVE  LocalInv'
<1> USE LocalFacts
<1>1. CASE UNCHANGED <<world, dhcp, at>>
  BY <1>1 DEF LocalInv, WaitInv, ClientInv, PlaceInv
<1>2. CASE FormatMessage
  <2>1. UNCHANGED <<world, dhcp>> /\ at.pc = "done" /\ at' = Idle
    BY <1>2 DEF FormatMessage
  <2>2. at'.pc = "idle" /\ WaitInv'
    BY <2>1 DEF WaitInv, Idle, Places
  <2>3. ClientInv'
    BY <2>1 DEF ClientInv
  <2>4. PlaceInv'
    BY <2>1, <2>2 DEF PlaceInv, ClosedAt, OnlineAt, AskingAt
  <2> QED
    BY <2>1, <2>2, <2>3, <2>4 DEF LocalInv
<1>3. CASE WatchdogBites
  <2>1. /\ Shape(world') /\ world'.sock = Closed /\ world'.arp = uip_arp_init
        /\ world'.blocks = 0 /\ world'.net = NoNet /\ world'.wire = world.wire
    BY <1>3 DEF WatchdogBites, NoWorld, Shape, Closed
  <2>2. Blocks(world') /\ Packets(world') /\ Directed(world')
    BY <2>1, UdpAssumption DEF Blocks, Used, One, Packets, Directed, Closed
  <2>3. ArpOK(world'.arp)
    BY <2>1 DEF ArpOK, uip_arp_init, NoEntry
  <2>4. StackInv(world')
    BY <2>1, <2>2, <2>3 DEF StackInv, Routes, NetOK, NoNet
  <2>5. at'.pc = "idle" /\ WaitInv'
    BY <1>3 DEF WatchdogBites, WaitInv, Idle, Places
  <2>6. ClientInv'
    BY <1>3 DEF WatchdogBites, ClientInv, NoLease
  <2> QED
    BY <2>1, <2>4, <2>5, <2>6 DEF LocalInv, PlaceInv, OnlineAt, AskingAt
<1>4. CASE HostAnswers \/ HostAsks \/ LoseFrame \/ UNCHANGED vars
  BY <1>1, <1>4 DEF HostAnswers, HostAsks, LoseFrame, vars
<1> QED
  BY <1>2, <1>3, <1>4

LEMMA SetupNext ==
    ASSUME SetupInv, [Next]_vars
    PROVE  SetupInv'
<1>1. LeaseInv'
  BY LeaseNext DEF SetupInv
<1>2. NetworkInv'
  BY NetworkNext
<1>3. LocalInv'
  BY DhcpLocal, AskingLocal, OtherLocal DEF Next
<1> QED
  BY <1>1, <1>2, <1>3 DEF SetupInv

\* The inductive invariant of the set-up: what socket, ARP table, pool, client
\* and the place in the set-up say of each other, in every state it reaches.
THEOREM SetupInvariance == Spec => []SetupInv
<1>1. SetupInv /\ [Next]_vars => SetupInv'
  BY SetupNext
<1> QED
  BY <1>1, SetupInit, PTL DEF Spec

\* TypeOK, for every size of the pool and every limit: whatever arrives at
\* whatever time, the blocks in use are those of the open socket, and a
\* message leaves none behind.
THEOREM TypeCorrect == Spec => []TypeOK
<1>1. SetupInv => TypeOK
  <2> SUFFICES ASSUME SetupInv PROVE TypeOK
    OBVIOUS
  <2>1. world.blocks = Held(world.sock) /\ world.blocks \in 0 .. PoolBlocks
    BY LocalFacts, HeldIsUsed, UdpAssumption DEF StackInv, Blocks, Used, One
  <2>2. world.net.hostaddr \in Leases \cup {ZERO}
    BY DEF SetupInv, LeaseInv, LeaseAcknowledged, NetworkInv, Leases
  <2> QED
    BY <2>1, <2>2, LocalFacts DEF TypeOK, WaitInv, ClientInv, PlaceInv, ClosedAt
<1> QED
  BY <1>1, SetupInvariance, PTL

\* SentOnceToNextHop, for every ARP table and every pattern of loss: a query
\* goes out once, to the MAC address of the host or of the router, although
\* packets that arrive rewrite the socket's remote address and the table.
THEOREM RequestsAreDirected == Spec => []SentOnceToNextHop
<1>1. SetupInv => SentOnceToNextHop
  BY LocalFacts DEF SentOnceToNextHop, PlaceInv, AskingAt, Once, StackInv, Routes, WireOK,
     Requests
<1> QED
  BY <1>1, SetupInvariance, PTL
=============================================================================
