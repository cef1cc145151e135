------------------------------ MODULE Enc28j60 ------------------------------
(***************************************************************************)
(* The ENC28J60 driver (utility/Enc28j60Eth.cpp) with the chip it drives,  *)
(* the pool it inherits (MemPool.tla), the part of UipEthernet that moves  *)
(* packets between them (tick, network_send and the DMA callback of        *)
(* UipEthernet.cpp), and the sockets as the owners of blocks.              *)
(*                                                                         *)
(* The chip has one memory: a receive ring it fills by itself, 0 to        *)
(* RXEND_INIT, and the pool above it.  A stored frame is a status vector   *)
(* (pointer to the next frame, length, status), the frame and its CRC; the *)
(* next frame starts at an even address.  A byte is a cell that says where *)
(* it came from, so that a misread byte is told from the right one.        *)
(***************************************************************************)
EXTENDS MemPool

CONSTANTS
    VectorLen,      \* bytes of a status vector (6)
    HeaderLen,      \* bytes of the Ethernet, IP and transport headers (42, 54)
    CrcLen,         \* bytes of the CRC behind a frame (4)
    UIP_SOCKET_DATALEN, \* bytes of a block that a socket writes into (512)
    Frames,         \* the frames that arrive: kind, a tag that tells two
                    \* payloads apart, and the length of the payload
    Writes          \* what a socket writes into a block: a tag and a length

ASSUME FrameAssumption ==
    /\ {VectorLen, HeaderLen, UIP_SOCKET_DATALEN} \subseteq Nat /\ CrcLen \in Nat
    /\ VectorLen >= 2 /\ HeaderLen >= 1 /\ UIP_SOCKET_DATALEN >= 1
    /\ \A f \in Frames : /\ f.kind \in {"tcp", "udp", "udp0"} \* udp0: no checksum
                         /\ f.tag \in Nat /\ f.len \in Nat \ {0}
    /\ Frames # {}
    /\ \A w \in Writes : w.tag \in Nat /\ w.len \in 1 .. UIP_SOCKET_DATALEN

VARIABLES
    mem,            \* the chip's memory
    erxrdpt,        \* ERXRDPT: the chip does not write past it
    erxwrpt,        \* ERXWRPT: where the chip stores the next frame
    epktcnt,        \* EPKTCNT: frames stored and not yet taken
    regs,           \* the selected bank, the driver's copy of it, and whether
                    \* a register access ever went to another bank
    blocks,         \* MemPool::blocks
    nextPacketPtr,  \* where the driver expects the next status vector
    receivePkt,     \* the packet in the ring that is being processed
    inPacket,       \* UipEthernet::inPacket is UIP_RECEIVEBUFFERHANDLE
    held,           \* handle -> what its owner put there, and who that is
    spilled,        \* a block has been placed past the end of the memory
    wrong,          \* what has been handed over with the wrong bytes
    started         \* the chip has been initialised

vars == <<mem, erxrdpt, erxwrpt, epktcnt, regs, blocks, nextPacketPtr,
          receivePkt, inPacket, held, spilled, wrong, started>>

Cell(kind, tag, len, i) == [kind |-> kind, tag |-> tag, len |-> len, i |-> i]
Zero == Cell("zero", 0, 0, 0)
FrameCell(f, i) == Cell(f.kind, f.tag, f.len, i)
Payload(f) == [i \in 1 .. f.len |-> FrameCell(f, HeaderLen + i - 1)]
HeaderOf(f) == [i \in 1 .. HeaderLen |-> FrameCell(f, i - 1)]
Written(w) == [i \in 1 .. w.len |-> Cell("app", w.tag, w.len, i)]
OutHeader == [i \in 1 .. HeaderLen |-> Cell("header", 0, 0, i)]

\* The model stops where a block is placed past the end of the memory.
Running == started /\ ~spilled

RingSize == RXEND_INIT + 1 - RXSTART_INIT
Ring(a) == a % RingSize
\* The chip reads n bytes from a; in the ring its pointer wraps by itself.
Cells(m, a, n) ==
    [i \in 1 .. n |-> m[IF a <= RXEND_INIT THEN Ring(a + i - 1) ELSE a + i - 1]]
Stored(m, a, s) ==
    [x \in DOMAIN m |-> IF a <= x /\ x < a + Len(s) THEN s[x - a + 1] ELSE m[x]]

\* Bytes that no block and no stored frame covers are not told apart: they are
\* Zero, which no reader takes for a byte it expects.
PoolOnly(m, bs) ==
    [a \in DOMAIN m |->
        IF a <= RXEND_INIT \/ Owners(bs, a) # {}
        THEN m[a] ELSE Zero]
RingOnly(m, from, to) ==
    [a \in DOMAIN m |->
        IF a > RXEND_INIT \/ Ring(a + RingSize - from) < Ring(to + RingSize - from)
        THEN m[a] ELSE Zero]

-----------------------------------------------------------------------------
(* Registers: setBank skips the two bank-select writes when its copy of    *)
(* the bank says that they are not needed.                                 *)

setBank(r, bank) ==
    IF bank = r.bank THEN r ELSE [r EXCEPT !.bank = bank, !.chip = bank]

\* readReg, writeReg and writeRegPair of a register of this bank.
Access(r, bank) ==
    LET s == setBank(r, bank) IN [s EXCEPT !.missed = s.missed \/ s.chip # bank]
\* writeOp on a register of this bank, without setBank.
RawAccess(r, bank) == [r EXCEPT !.missed = r.missed \/ r.chip # bank]
Accesses(r, banks) ==
    LET after[n \in 0 .. Len(banks)] ==
            IF n = 0 THEN r ELSE Access(after[n - 1], banks[n])
    IN  after[Len(banks)]

\* The registers init writes, in order: the ring pointers (bank 0), the
\* filters (1), the MAC (2, one of them with a bare bit-field-set), the
\* address (3), the PHY through MIREGADR, MIWRL and MISTAT, setBank(ECON1),
\* and the PHY once more.
InitRegisters(r) ==
    LET reset == [r EXCEPT !.chip = 0]
        mac == RawAccess(Accesses(reset, <<0, 0, 0, 1, 1, 1, 2>>), 2)
    IN  Accesses(setBank(Accesses(mac, <<2, 2, 2, 3, 2, 2, 3>>), 0), <<2, 2, 3>>)

-----------------------------------------------------------------------------
(* The chip, as the driver uses it.                                        *)

FreeInRing ==
    IF erxwrpt > erxrdpt THEN RingSize - 1 - (erxwrpt - erxrdpt)
    ELSE IF erxwrpt = erxrdpt THEN RingSize - 1
    ELSE erxrdpt - erxwrpt - 1

Footprint(f) ==
    LET n == VectorLen + HeaderLen + f.len + CrcLen IN n + (n % 2)

\* A frame as the chip stores it.  ok is the "received ok" bit of the status
\* vector.
Framed(f, ok, next) ==
    <<Cell("next", 0, 0, next), Cell("stat", ok, HeaderLen + f.len + CrcLen, 0)>>
    \o ([i \in 1 .. VectorLen - 2 |-> Zero] \o HeaderOf(f) \o Payload(f)
        \o [i \in 1 .. CrcLen |-> Cell("crc", f.tag, 0, i)])

\* A frame arrives from the wire; without room it is lost.
Arrive(f, ok) ==
    LET next == Ring(erxwrpt + Footprint(f))
        bytes == Framed(f, ok, next)
    IN  /\ Running
        /\ Footprint(f) <= FreeInRing
        /\ mem' = [a \in DOMAIN mem |->
                    IF a <= RXEND_INIT /\ Ring(a + RingSize - erxwrpt) < Len(bytes)
                    THEN bytes[Ring(a + RingSize - erxwrpt) + 1] ELSE mem[a]]
        /\ erxwrpt' = next
        /\ epktcnt' = epktcnt + 1
        /\ UNCHANGED <<erxrdpt, regs, blocks, nextPacketPtr, receivePkt,
                       inPacket, held, spilled, wrong, started>>

-----------------------------------------------------------------------------
(* The driver's address arithmetic in the ring.                            *)

\* receivePacket, setReadPtr and copyPacket all wrap an address with the same
\* expression, which subtracts RXEND_INIT and not the size of the ring.
Wrap(a) == IF a > RXEND_INIT THEN a - RXEND_INIT + RXSTART_INIT ELSE a

\* Mutant of setERXRDPT: the pointer is not wrapped.
ErxrdptBefore(next) == next - 1

\* setERXRDPT and freePacket: the byte before the next packet, in the ring.
setERXRDPT(next) == IF next = RXSTART_INIT THEN RXEND_INIT ELSE next - 1

-----------------------------------------------------------------------------
(* Blocks and their contents.                                              *)

NotHeld == [owner |-> "none", bytes |-> <<>>]

\* The pool macro makes room for two bytes more than the chip has: the model
\* stops where a block is placed there.
Spills(r) == r.handle # NOBLOCK /\ End(r.blocks[r.handle]) - 1 > TXEND_INIT

Linear(m, a, n) == [i \in 1 .. n |-> m[a + i - 1]]

\* Mutant of Restored: the control byte stays in the block below.
ControlLeft(m, start, data) == m

\* sendPacket: the byte before the block is the control byte; it belongs to
\* the block below and is put back.
Restored(m, start, data) == [m EXCEPT ![start] = data]
Transmitted(m, start, n) == Linear(m, start + 1, n)
sendPacket(m, b) ==
    LET start == b.begin - 1
        zeroed == [m EXCEPT ![start] = Zero]
    IN  [mem |-> Restored(zeroed, start, m[start]),
         frame |-> Transmitted(zeroed, start, b.size)]

\* network_send of a packet made of this header and, behind it, the contents
\* of block data (NOBLOCK: a header only, as of an acknowledgement): a block
\* for the whole packet, the payload copied by DMA, the header written, the
\* packet sent, the block freed.  ok is FALSE when no block was to be had.
PacketSent(bs, h, sent) ==
    [blocks |-> freeBlock(bs, h), mem |-> sent.mem, frame |-> sent.frame,
     ok |-> TRUE, spills |-> FALSE]
WithPayload(a, data) ==
    IF data = NOBLOCK THEN a.mem
    ELSE Stored(a.mem, a.blocks[a.handle].begin + HeaderLen,
                Linear(a.mem, a.blocks[data].begin, a.blocks[data].size))
InBlock(a, data) ==
    IF a.handle = NOBLOCK \/ Spills(a)
    THEN [blocks |-> a.blocks, mem |-> a.mem, frame |-> <<>>, ok |-> FALSE,
          spills |-> Spills(a)]
    ELSE PacketSent(a.blocks, a.handle,
            sendPacket(Stored(WithPayload(a, data), a.blocks[a.handle].begin, OutHeader),
                       a.blocks[a.handle]))
network_send(bs, m, data) ==
    InBlock(allocBlock(bs, m, HeaderLen + (IF data = NOBLOCK THEN 0 ELSE bs[data].size)), data)

Note(what, good) == IF good THEN wrong ELSE wrong \cup {what}

-----------------------------------------------------------------------------
(* UipEthernet::init: the pool and the chip start again; the driver's copy *)
(* of the bank and a packet that was being processed do not.               *)

init ==
    /\ ~spilled
    /\ started' = TRUE
    /\ blocks' = NoBlocks
    /\ held' = [h \in Handles |-> NotHeld]
    /\ nextPacketPtr' = RXSTART_INIT
    /\ erxrdpt' = RXSTART_INIT
    /\ erxwrpt' = RXSTART_INIT
    /\ epktcnt' = 0
    /\ regs' = InitRegisters(regs)
    /\ mem' = PoolOnly(IF inPacket THEN mem ELSE RingOnly(mem, 0, 0), NoBlocks)
    /\ UNCHANGED <<receivePkt, inPacket, spilled, wrong>>

-----------------------------------------------------------------------------
(* UipEthernet::tick.                                                      *)

\* receivePacket on a ring that holds no frame.
TickIdle ==
    /\ Running
    /\ ~inPacket /\ epktcnt = 0
    /\ regs' = Access(regs, 1)
    /\ UNCHANGED <<mem, erxrdpt, erxwrpt, epktcnt, blocks, nextPacketPtr,
                   receivePkt, inPacket, held, spilled, wrong, started>>

\* ECON2.PKTDEC.
PktDec(count) == count - 1
Vector == Cells(mem, nextPacketPtr, 2)
ReadPtr == Wrap(nextPacketPtr + VectorLen)

\* receivePacket of a frame whose status is not ok: it is skipped.
TickBadStatus ==
    /\ Running
    /\ ~inPacket /\ epktcnt > 0
    /\ Vector[2].tag = 0
    /\ nextPacketPtr' = Vector[1].i
    /\ epktcnt' = PktDec(epktcnt)
    /\ erxrdpt' = setERXRDPT(Vector[1].i)
    /\ regs' = Accesses(regs, <<1, 0, 0>>)
    /\ mem' = RingOnly(mem, Vector[1].i, erxwrpt)
    /\ UNCHANGED <<erxwrpt, blocks, receivePkt, inPacket, held, spilled,
                   wrong, started>>

\* The packet this tick works on: the one kept from an earlier tick, or the
\* one receivePacket takes.
Taken ==
    IF inPacket
    THEN [pkt |-> receivePkt, next |-> nextPacketPtr, count |-> epktcnt,
          regs |-> Access(regs, 0)]
    ELSE [pkt |-> [begin |-> ReadPtr, size |-> Vector[2].len - CrcLen],
          next |-> Vector[1].i, count |-> PktDec(epktcnt),
          regs |-> Accesses(regs, <<1, 0, 0>>)]

CanTake ==
    Running /\ (inPacket \/ (epktcnt > 0 /\ Vector[2].tag # 0))

\* readPacket puts the headers into uip_buf.  The stack goes on only with an
\* IP packet, whose headers are then the ones some frame came with.
Recognised(pkt) ==
    {f \in Frames : HeaderOf(f) = Cells(mem, pkt.begin, HeaderLen)}
\* What chksum sums up and what copyPacket copies: the bytes behind the
\* headers, found with setReadPtr.
Body(pkt, n) == Cells(mem, Wrap(pkt.begin + HeaderLen), n)

\* Mutant of ChecksumOk: the sum is not compared.
ChecksumIgnored(f, pkt) == TRUE

\* A UDP header may say that there is no checksum.
ChecksumOk(f, pkt) == f.kind # "udp0" => Body(pkt, f.len) = Payload(f)

\* freePacket; receivePkt, which nothing reads any more, is not kept.
NoPkt == [begin |-> 0, size |-> 0]
Freed(t) ==
    /\ inPacket' = FALSE
    /\ receivePkt' = NoPkt
    /\ erxrdpt' = setERXRDPT(t.next)

\* A packet that is not IP, or whose checksum is wrong, is freed at once.
TickDrop ==
    /\ CanTake
    /\ \E t \in {Taken} :
          /\ \A f \in Recognised(t.pkt) : ~ChecksumOk(f, t.pkt)
          /\ nextPacketPtr' = t.next /\ epktcnt' = t.count
          /\ Freed(t)
          /\ regs' = Accesses(t.regs, <<0, 0>>)
          /\ mem' = RingOnly(mem, t.next, erxwrpt)
    /\ UNCHANGED <<erxwrpt, blocks, held, spilled, wrong, started>>

\* An application call takes the payload into a new block.  Without one, a
\* datagram is dropped and a TCP segment is kept for a later tick.  The
\* segment's acknowledgement is sent in either case.
InBlocks(a, bytes) ==
    IF a.handle = NOBLOCK \/ Spills(a) THEN a.mem
    ELSE Stored(a.mem, a.blocks[a.handle].begin, bytes)
Answer(f, a, m) ==
    IF f.kind = "tcp" /\ ~Spills(a) THEN network_send(a.blocks, m, NOBLOCK)
    ELSE [blocks |-> a.blocks, mem |-> m, spills |-> Spills(a)]
TickDeliver(f) ==
    /\ CanTake
    /\ \E t \in {Taken} :
          /\ f \in Recognised(t.pkt) /\ ChecksumOk(f, t.pkt)
          /\ \E a \in {allocBlock(blocks, mem, f.len)}, bytes \in {Body(t.pkt, f.len)} :
             \E ack \in {Answer(f, a, InBlocks(a, bytes))} :
                /\ nextPacketPtr' = t.next /\ epktcnt' = t.count
                /\ IF a.handle # NOBLOCK \/ f.kind # "tcp" THEN Freed(t)
                   ELSE inPacket' = TRUE /\ receivePkt' = t.pkt /\ UNCHANGED erxrdpt
                /\ regs' = Accesses(t.regs, <<0, 0>>)
                /\ spilled' = ack.spills
                /\ IF spilled' THEN UNCHANGED <<mem, blocks, held, wrong>>
                   ELSE /\ blocks' = ack.blocks
                        /\ mem' = PoolOnly(IF inPacket' THEN ack.mem
                                           ELSE RingOnly(ack.mem, t.next, erxwrpt), ack.blocks)
                        /\ held' = IF a.handle = NOBLOCK THEN held
                                   ELSE [held EXCEPT ![a.handle] =
                                            [owner |-> "in", bytes |-> bytes]]
                        /\ wrong' = Note("delivered",
                                         a.handle # NOBLOCK => bytes = Payload(f))
    /\ UNCHANGED <<erxwrpt, started>>

-----------------------------------------------------------------------------
(* The sockets.                                                            *)

\* TcpClient::recv and UdpSocket::read: a block read to its end is freed, a
\* block read in part loses its first n bytes.
Read(h, n) ==
    LET left == SubSeq(held[h].bytes, n + 1, Len(held[h].bytes))
    IN  /\ Running /\ held[h].owner = "in" /\ n \in 1 .. Len(held[h].bytes)
        /\ blocks' = IF n = blockSize(blocks, h) THEN freeBlock(blocks, h)
                     ELSE resizeBlock(blocks, h, n)
        /\ mem' = PoolOnly(mem, blocks')
        /\ held' = [held EXCEPT ![h] =
                      IF left = <<>> THEN NotHeld ELSE [held[h] EXCEPT !.bytes = left]]
        /\ UNCHANGED <<erxrdpt, erxwrpt, epktcnt, regs, nextPacketPtr,
                       receivePkt, inPacket, spilled, wrong, started>>

\* TcpClient::_write and UdpSocket::beginPacket and write: a block of the
\* full size, of which the first bytes are written.
Write(w) ==
    /\ Running
    /\ \E a \in {allocBlock(blocks, mem, UIP_SOCKET_DATALEN)} :
          /\ spilled' = Spills(a)
          /\ IF spilled' THEN UNCHANGED <<mem, blocks, held>>
             ELSE /\ blocks' = a.blocks
                  /\ mem' = PoolOnly(InBlocks(a, Written(w)), a.blocks)
                  /\ held' = IF a.handle = NOBLOCK THEN held
                             ELSE [held EXCEPT ![a.handle] =
                                      [owner |-> "out", bytes |-> Written(w)]]
    /\ UNCHANGED <<erxrdpt, erxwrpt, epktcnt, regs, nextPacketPtr, receivePkt,
                   inPacket, wrong, started>>

\* The poll of a connection: the block is cut to what was written and sent.
Send(h) ==
    /\ Running /\ held[h].owner = "out"
    /\ \E s \in {network_send(cutBlock(blocks, h, Len(held[h].bytes)), mem, h)} :
          /\ spilled' = s.spills
          /\ IF spilled' THEN UNCHANGED <<mem, blocks, wrong>>
             ELSE /\ blocks' = s.blocks
                  /\ mem' = PoolOnly(s.mem, s.blocks)
                  /\ wrong' = Note("sent", s.ok => s.frame = OutHeader \o held[h].bytes)
    /\ regs' = Access(regs, 0)
    /\ UNCHANGED <<erxrdpt, erxwrpt, epktcnt, nextPacketPtr, receivePkt, inPacket,
                   held, started>>

\* The peer's acknowledgement, or the end of the connection: _eatBlock,
\* _flushBlocks.
Done(h) ==
    /\ Running /\ held[h].owner # "none"
    /\ blocks' = freeBlock(blocks, h)
    /\ held' = [held EXCEPT ![h] = NotHeld]
    /\ mem' = PoolOnly(mem, blocks')
    /\ UNCHANGED <<erxrdpt, erxwrpt, epktcnt, regs, nextPacketPtr,
                   receivePkt, inPacket, spilled, wrong, started>>

-----------------------------------------------------------------------------

Init ==
    /\ mem = [a \in 0 .. TXEND_INIT |-> Zero]
    /\ erxrdpt = RXSTART_INIT /\ erxwrpt = RXSTART_INIT /\ epktcnt = 0
    /\ regs = [bank |-> 255, chip |-> 0, missed |-> FALSE]
    /\ blocks = NoBlocks
    /\ nextPacketPtr = RXSTART_INIT
    /\ receivePkt = NoPkt
    /\ inPacket = FALSE
    /\ held = [h \in Handles |-> NotHeld]
    /\ spilled = FALSE /\ wrong = {} /\ started = FALSE

Tick == TickIdle \/ TickBadStatus \/ TickDrop \/ (\E f \in Frames : TickDeliver(f))

Next ==
    \/ init
    \/ \E f \in Frames : Arrive(f, 1)
    \/ Arrive(CHOOSE f \in Frames : TRUE, 0)    \* its contents do not matter
    \/ Tick
    \/ \E h \in Handles, n \in {f.len : f \in Frames} : Read(h, n)
    \/ \E w \in Writes : Write(w)
    \/ \E h \in Handles : Send(h) \/ Done(h)

Spec == Init /\ [][Next]_vars

-----------------------------------------------------------------------------
(* Properties.                                                             *)

InUse == {h \in Handles : blocks[h].size > 0}

\* The frames the driver will find, from nextPacketPtr for EPKTCNT frames, and
\* where the one after them will be.
Walk[n \in 0 .. epktcnt] == IF n = 0 THEN nextPacketPtr ELSE mem[Walk[n - 1]].i

\* The types, and that driver and chip are in step: the pointers stay inside the
\* receive ring and lead from frame to frame to where the chip will store the
\* next one (receivePacket, setERXRDPT); every register access reaches the bank
\* the register is in, also after the soft reset of a second init, of which
\* the driver's copy knows nothing.
TypeOK ==
    /\ {erxrdpt, erxwrpt, nextPacketPtr, receivePkt.begin} \subseteq RXSTART_INIT .. RXEND_INIT
    /\ epktcnt \in Nat /\ receivePkt.size \in Nat
    /\ regs.bank \in {0, 1, 2, 3, 255} /\ regs.chip \in 0 .. 3 /\ regs.missed \in BOOLEAN
    /\ \A h \in Handles :
          /\ blocks[h].size \in 0 .. MEMPOOL_SIZE
          /\ blocks[h].nextblock \in {NOBLOCK} \cup Handles
    /\ inPacket \in BOOLEAN /\ spilled \in BOOLEAN
    /\ wrong \subseteq {"delivered", "sent"}
    /\ started \in BOOLEAN
    /\ Walk[epktcnt] = erxwrpt
    /\ \A n \in 0 .. epktcnt - 1 : mem[Walk[n]].kind = "next"
    /\ ~regs.missed

\* The pool is sound: the list reaches exactly the descriptors in use, in
\* address order and without overlap, and each of them is held by a socket,
\* so that no block is lost (MemPool.cpp, and every caller that frees).
PoolSound ==
    LET chain == Chain(blocks)
    IN  /\ Range(chain) = {POOLSTART} \cup InUse
        /\ \A i \in 1 .. Len(chain) - 1 :
              End(blocks[chain[i]]) <= blocks[chain[i + 1]].begin
        /\ InUse = {h \in Handles : held[h].owner # "none"}

\* A block holds what its owner put there, whatever the collections of
\* allocBlock moved and the control bytes of sendPacket overwrote meanwhile.
ContentsKept ==
    \A h \in Handles : held[h].owner # "none" =>
        LET want == held[h].bytes
        IN  Linear(mem, blocks[h].begin, Len(want)) = want

\* Where every frame has a checksum (TCP's, and UDP's of a sender that sums),
\* the bytes handed to a socket are the payload of the frame whose headers were
\* read, although the driver looks for them one byte too far where the ring
\* wraps: the checksum is then wrong (chksum, copyPacket).  A UDP frame without
\* one is taken with the wrong bytes.  A frame on the wire is a header and the
\* bytes a socket wrote (appcall, network_send, sendPacket).
FramesIntact == wrong = {}

\* allocBlock gives no block only when there is no descriptor left or the
\* unused bytes of the pool, taken together, do not suffice.
Unallocated ==
    LET chain == Chain(blocks) IN MEMPOOL_SIZE - Lengths(blocks, chain)[Len(chain) + 1]
RoomIsFound ==
    InUse # Handles =>
        \A n \in 1 .. Unallocated : allocBlock(blocks, mem, n).handle # NOBLOCK

\* The pool lies in the memory that enc28j60.h reserves for it, up to
\* TXEND_INIT, the end of the memory.
PoolInMemory == ~spilled
=============================================================================
