# GatewayLoRa: a TLA+ verification project

The firmware in `src/` runs on an mbed board. It takes the messages of LoRa
trackers, acknowledges them on the radio, wraps each one in a hash-chained
record and hands the record to a server, over Ethernet when that works and over
the mobile network when it does not. This directory models that firmware, from
the main loop down to the packet memory of the Ethernet chip, model-checks the
models with TLC and proves with TLAPS, for every value of the constants, the safety
of the main state machine and its refinement, of the LoRa reception and acknowledgement,
of the mobile network's connection and exchange, of the modem's power, of the network set-up
and of the Ethernet chip with its packet memory.

Paths below are relative to `src/Modules/`; `[N]` names a line.

## 1. Inventory

There are no threads. `main` calls `Gateway::update()` for ever; `update()`
calls the ten handlers of the current state object and kicks a 5 s watchdog.
Everything below is polled from there, except the timer interrupt behind
`NonBlockingDelay`. Concurrency is therefore between the loop and the devices:
the modem on its UART, the radio, the Ethernet controller and the network behind
it, the timer, and the watchdog that can cut any blocking call short.

| Component | State it keeps | Operations | Talks to |
|---|---|---|---|
| `Gateway/` and the classes of `GatewayState/` | current state object, status handed on, received fields, sequence number, previous and current chain hash, statics of several handlers | `update`, one handler per state, setters of the parsed fields, `progressOnHashChain`, `increaseSequenceNumber` | everything |
| `GatewayState/WaitingForMessage` with `MessageHandler/` (checksum, HMAC, decrypter) | `accumulatedBuffer`, `fullMessage`, `stringInsertCount`, flags, all static | read a packet, search the delimiter, verify, parse | `LoRaModule`, Gateway's fields |
| `GatewayState/SendingAck` with the generators of `MessageHandler/` | static text buffer, sending counter, position in the text | encode in place, cut into radio packets, paced by a delay | `LoRaModule`, `NonBlockingDelay` |
| `LoRaModule` | SX127x mode, I/Q polarity, FIFO | `begin`, `parsePacket`, `beginPacket`, `endPacket` | radio |
| `Non_Blocking_Delay` | start tick, duration, running flag; tick counter written in an interrupt | `restart`, `read`, `write` | every state object |
| `CellularModule/TransceiverState` | PDP, SSL, POST, deactivation state objects; statics of `PostHTTP` | `enableTransceiver`, `exchangeMessages` | modem UART, `ExchangingMessages` |
| `CellularModule/ConnectionState` | SIM, signal, operator, packet-switch attachment, time; attempts per object | `connectToMobileNetwork` | modem UART, `ConnectingToMobileNetwork` |
| `PowerManager`, `PowerState` | power state object, one shared timer, three lines, statics | `startStopUpdate`, `turnOn`, `turnOff`, `measureBattery`, `goToSleep`, `awake`, `reboot` | modem UART and power pins |
| `GNSSModule`, `GeopositioningState` | GNSS state object, tries | `retrivGeopositioning`, `enableGNSS` | modem UART |
| `UIPEthernet/utility` Enc28j60Eth, MemPool | receive ring pointers, bank, block list | `receivePacket`, `sendPacket`, `allocBlock`, `freeBlock`, `copyPacket` | ENC28J60 over SPI |
| `UIPEthernet` uIP TCP, TcpClient | `uip_conns`, `all_data`, the frame kept in the chip | `connect`, `send`, `recv`, `close`, `tick` | driver, Ethernet states |
| `UIPEthernet` UDP, ARP, DHCP, DNS | socket, ARP table, lease, transaction ids | `sendto`, `recvfrom`, `connect` (lease), `getHostByName` | driver, Ethernet states |
| `AES` | key schedule, carry vector | `encrypt`, `decrypt` in place | message handlers |
| `JWTModule` (JWTManager, CustomJWT, Base64URL) | heap blocks of the token | `encodeJWT`, `decodeJWT` | record and reply text |

What is hard here, and so what the properties are for:

- *The chain is moved in pieces.* A record names its predecessor when it is
  formatted, its hash becomes current then, and the chain advances when a reply
  is read, possibly several times, possibly not, possibly just before the connection
  fails and the same message is formatted again for the mobile network.
- *Statics outlive the objects.* Received fields, the transceiver flag, the LoRa
  buffers, the acknowledgement's buffer, the power states' counters and the flags
  of `PostHTTP` survive their state objects, so each way out has to leave them right.
- *Modem lines carry no mark.* A line is taken for the answer to the last
  command, whichever it answers; commands are repeated after a timeout.
- *One delay has several readers.* `read()` reports an elapsed time once, to
  whoever asks first, and starts a delay that was stopped.
- *The radio loses and mixes packets*; one buffer collects those of all trackers.
- *The network loses, repeats and reorders frames*, also into a later exchange
  whose sockets reuse the entries of an earlier one.
- *Two parties write one memory.* The chip fills the receive ring; the driver
  moves and lends the bytes of the blocks above it while sockets hold them.
- *The watchdog* resets the board in the middle of an exchange.

`PROJECT.json` lists these as hazards, each at its line, with the properties that
cover it or the reason none does.

## 2. Modules

Each module is one component; a variable carries the source's name where it has
one, and an action is one handler, call or loop iteration.

**`Gateway`** is `class Gateway` and the classes of `GatewayState/`. `state` is the
class of `currentState`, `status` the value handed from object to object. There
is one action per handler, with the handler's name. `rx[f]` is the message the
field `f` was last parsed from, which is all that matters of its content:
`sscanf` writes some fields directly and others through locals, so a malformed
message (`WaitForMessageUnparsed`) leaves a mixture. The hash of the n-th record
is n: the hashed text holds the time, so SHA-256 values are taken as distinct. The
blocking Ethernet exchange is split into connect, send, each `recv()`, give up and
disconnect, because the watchdog may strike between any two and because the chain
moves at each `recv()`. The power, GNSS and connection modules appear as the
outcome of one handler each. `Reset` is the watchdog or a power cut: RAM starts
again, what reached the server stays.

**`Forwarder`** says what the gateway promises in five actions: take a message,
acknowledge it, deliver it on a channel, finish, or crash and forget it. Its `Fairness`
is the promise that it does not keep a message, which the gateway can give only if its
mobile exchanges end.
**`GatewayRefinement`** maps the gateway to it: `Stage` from the class of the state
object, `InHand` from the parsed fields, `AtServer` from the records that reached
the server.

**`LoRaReception`** is the inside of the state `WaitingForMessage`. A frame is a
body of pieces and the two bars of the delimiter, cut into packets of `ChunkSize`.
Packets are lost, and those of two trackers are read in any order. An HMAC is raw bytes,
so a body may contain the delimiter (`InnerDelimiter`). The read after
`MAX_INSERTS` (51 in the code) without a delimiter clears the buffer. A text that
is not a whole body fails the checksum or the HMAC. The verification happens in a
later pass than the split, and only `messageReceived` is taken back when it fails.

**`LoRaAck`** is `sendAcknowledgement` over several acknowledgements, with
**`NonBlockingDelay`** for the delay it is handed. Text, HMAC, cipher, Base64 and
checksum are applied to one buffer cell by cell. A cell of a coded text remembers
the plain cells it was made from, so that bytes an earlier acknowledgement left
behind are seen when the cipher takes in the rest of its last block. The chunking
keeps `stringIndex` and the repetition counter of the code. The radio may finish
a packet or hang, in which case the watchdog ends the wait.

**`CellularTransceiver`** is one exchange over the mobile network after another:
`TransceiverUnavailable`, `ConfigurePDPForHTTP`, `ConfigureSSL`, `PostHTTP`,
`DeactivatePDP`. `step` is the class and its `currentStatus`. A poll of the code
may send, then read one character, then look at the refresh time. Since a poll
completes at most one line, `Send`, the reads and the timeouts are actions of
their own without losing an order of events the code has. The modem is external: it
answers, refuses or ignores a command, holds at most one further command while it
is busy, swallows text in data mode, and reports a POST after the server has it, or
reports a failure although the server has it. When an exchange begins the UART is
empty or holds one OK of the connection chain, which polls the same UART until
its last answer. `DeactivatePDP.cpp` reads `transmissionWasASuccess` after the
object was deleted; the model lets it keep its value.

**`CellularConnection`** is the chain of `ConnectionState` objects behind
`ConnectingToMobileNetwork`, from `IdleState` to `ConnectedState`, over several
attempts. The nine classes have one shape (send, read the data if there is any to
read, read the OK, count timeouts), so the actions are the parts of that shape,
and where a class differs the definition says so: the limit, what a timeout takes
back, what a failure leaves, the second command, the weak signal, the SIM switch, the
power-down command of `reboot` when there is no SIM.
An attempt that fails leaves the object where it is; `BeginAttempt` is then the next
round's. The modem answers in order with data and OK, data whose OK is lost, poor
data, or an error; it may ignore a command.

**`PowerManager`** is the manager with the four classes of `PowerState`, every
operation of each. Members of a state object die with it; the statics of the
operations are in `statics`, per class. The one timer all operations share is
read by whoever asks first. **`Positioning`** composes it with `GNSSModule`, the
chain of `GeopositioningState` and the calls the gateway makes around them in one
pass of `update()`. `call` orders those calls; modem, delays and the power button
act between any two. `OtherCalls` adds `goToSleep`, `awake` and `reboot`, which the
classes offer and no gateway state calls.

**`MemPool`** is the allocator as operators on the descriptor list: best fit, the
two sides of a free, resize, the collection that moves blocks down. **`Enc28j60`** is
the driver and the chip. The chip's memory is one function from addresses to
cells; frames are stored in the ring with their status vector, wrap around its end
and are read back through `setReadPtr` as the code computes it. The two register
copies of the bank (driver's and chip's) differ after a soft reset. Sockets are the
owners of blocks: they read, write, send and free.

**`UipTcp`** is one exchange after another of `SendingMessageThroughEthernet`: the
socket (`TcpClient`), the stack (`uip_process` for a client, `uip_timer`,
`uip_poll`) and `tick()`, which runs the stack from inside every call. One data
block is one unit of sequence space. `sent` is the set of segments ever sent that
could still tell the other side something, so each may arrive late, twice, in any
order or never. The server is external. The frame the socket has no place or no block
for stays in the chip (`held`) and is fed to the stack again at the next tick. By then
the stack has advanced `rcv_nxt` past it, so it fails the sequence check and its data
is lost; `unstored` remembers the data for which there was no block.

**`UdpSocket`** is a UDP socket over uIP with the ARP table, as operators on one
record; **`EthernetSetup`** is what runs on it before a message can be sent: bringing
the stack up, the DHCP client, two name lookups and the time query. Several DHCP
servers may answer, also to an earlier transaction.

**`AES`** is block cipher, CBC and ciphertext stealing in place, in the code's loop,
scaled down to two-bit bytes and two-byte blocks over an arbitrary key schedule.
**`Base64URL`** is the encoder and the decoder byte for byte. **`Codecs`** runs both:
messages through the cipher and back, and tokens through `JWTManager` and
`CustomJWT`, with the heap blocks the object holds and loses. A token is the sequence
of parts between its dots, empty ones included, and the network may change, cut or
lengthen a part, sign with another key, insert dots or take one away. Where the code
writes past an array (a payload longer than its block, a signature shorter than the
computed one) the token's job ends as `undefined`.

`MC*.tla` give constants that a cfg cannot write; the other cfgs name a component
directly. The theorems about a module `M` are in `MProofs`: `GatewayProofs` (with
the refinement), `LoRaReceptionProofs`, `LoRaAckProofs`, `CellularTransceiverProofs`,
`CellularConnectionProofs`, `PositioningProofs`, `EthernetSetupProofs` and `Enc28j60Proofs`
(with the pool).

In each module a definition called *Mutant of X* is a wrong version of `X`, kept
beside it. Substituting it must break the property that `PROJECT.json` pairs it
with; nothing else uses it.

## 3. Runs

`gateway`: two messages, one of each type, two receptions, one reset, two pieces of
reply, two connection attempts.
- `SeqIdentifiesLink`: within a boot, equal sequence numbers and equal predecessors
  are the same thing.
- `AnsweredLink`: a record continues nothing, or an earlier record of the same boot
  for which a reply was read.
- `WholeAndAcknowledged`: a record holds the fields of one message, the one whose
  tracker was acknowledged in this round.
- `OneRecordPerChannel`: a record travels on the channel its audience claim names,
  and one reception gives at most one record per channel.
- `FallbackLinks`: the mobile record takes the Ethernet record's place in the chain,
  or continues it if a reply to it was read.
- `ImplementsForwarder`: the whole implements `Forwarder!Spec`. The server sees only
  the message in hand, after its acknowledgement, once a channel and Ethernet before
  mobile. And if no mobile exchange goes on for ever (`MobileExchangesEnd`), it has
  `Forwarder!Fairness` too: every message taken is acknowledged and let go of. The
  condition is needed, since the polled exchange kicks the watchdog on every pass and
  its retries have no limit (`CellularTransceiver!RetriesEnd`).

`lora_reception`: two trackers, five frames of three messages, a delimiter cut by the
packet boundary, a packet that begins with a bar of its body, a message that does not
parse, one whose HMAC contains the delimiter, a buffer limit of three reads; trackers
are interchangeable.
- `TypeOK`: the count of reads stays below its limit. And (`BufferLimited`) until a frame
  with the delimiter inside is transmitted, the limit of reads is one of the buffer, and no
  backlog builds up although each read is searched once: what stays behind has no
  delimiter but, at its very end, that of one frame. This happens when a frame's last
  packet begins with a bar of its body, after a frame that was lost between its two bars.
- `TakenAtMostOnce`: no transmission is taken twice.
- `Resynchronises`: after any losses, and after frames with the delimiter inside, three
  intact frames in a row suffice; the bound is tight. A frame counts as intact when its
  packets are read in order with no other between and no backlog waiting, and it has no
  delimiter inside: such a frame is never accepted, and each one may leave as much as a
  message behind, which the reads after it work off one delimiter at a time.

`ack`: two acknowledgements of different length and the same number of blocks, frames
of 17 cells in chunks of 7, 17 (which divides the frame) and 20, failed preparations.
- `TypeOK`: the radio listens with the trackers' polarity whatever it sent before.
- `AckUnderstood`: the gateway goes on only after three whole sendings, with a flight
  time between packets, each of which decodes to this acknowledgement, whatever
  padding the decrypter finds in the bytes an earlier one left.
- `AckEnds`: an acknowledgement ends, by itself or by the watchdog.

`transceiver`: two exchanges, so that statics left by the first are met by the second,
and up to four unread lines; replies may be empty.
- `DataMeansPosted`: data handed to the gateway, which moves the chain, means this
  message reached the server; SEND_OK too, when the exchange began with its statics clean.
- `DuplicatesBounded`: the server gets a message at most `MAXATTEMPTS` times.
- `ExchangeEnds`: where the modem and the server do what the code leaves to them
  (`ModemObliges`: the modem's jobs end, one deactivation out of endlessly many is
  accepted, the responses are not empty for ever), every exchange ends.

`connection`: three attempts with lost, late and refused answers.
- `StoredFresh`: signal, IMEI, SIM and registration are used only in the attempt that
  received them.
- `FullBudget`: past `IdleState`, giving up takes this attempt's full number of timeouts.
- `AttemptEnds`.

`positioning`: rounds without end, one button press, a modem that is silent, late or
loses power.
- `SupplyFollowsState`: the gateway waits for messages with the modem off and its
  supply cut, whichever way it was switched off.
- `TurningOffEnds`: it always gets there.

`nic`: a ring of ten bytes and a pool of eight, so that frames wrap and blocks are moved;
three descriptors; TCP and UDP frames; the chip may be initialised again.
- `TypeOK`: driver and chip agree where the next frame is and which bank is selected.
- `PoolSound`: the list holds the blocks in use in order, without overlap, each owned.
- `ContentsKept`: a block holds what its owner put there, whatever was moved or lent.
- `FramesIntact`: no wrong byte is handed to a socket or put on the wire, where every
  frame has a checksum.
- `RoomIsFound`: an allocation fails only without a descriptor or without the bytes.

`tcp`: two exchanges, two connections, a reply as long as the socket's queue, and a pool with
a block for every place of the queues, as in this build, or with two blocks for all, so that
data arrives for which there is none (`TcpClient.cpp` [529]) and frames find none either.
- `TypeOK`: no entry of `all_data` is left behind.
- `ReplyInOrder`: what the exchange reads is its reply from the start, in order and once, but
  for the data there was no block for.
- `NothingAckedIsLost`: what the stack acknowledged and had a block for the exchange can still
  read, as long as its connection is open: `rcv_nxt` moves before the socket is asked for a
  place, so the peer must be stopped one segment early. (A connection that closes itself over
  what an exchange before it left in `all_data` throws its data away, as any close does.) Data
  without a block is acknowledged and lost: the frame kept for it, fed to the stack again,
  fails the sequence check. In this build it does not come to that: the pool's 6145 bytes
  hold the ten blocks of 512 of a socket and a frame.
- `DeliveredMeansReceived`: an exchange that counts as delivered put exactly its own
  request on the server.
- `ExchangeEnds`, without the help of the watchdog.

`netup`: two DHCP servers, one of them router and DNS server, an ARP table of two
entries, a pool of two blocks, a host on the network that asks for us, two rounds.
- `TypeOK`: no block leaks.
- `LeaseAcknowledged`: the address used is one a server acknowledged.
- `SentOnceToNextHop`: a request leaves once, to the MAC address of its next hop.
- `SetupEnds`: with the time, with the mobile network in its place, or with a reset.

`codecs`: all messages up to two blocks and a half in both modes; payloads of every length
modulo three, some too long for their block; three tokens on one object.
- `CipherRoundTrip`.
- `TokenRoundTrip`: a token is accepted exactly when its parts are the three `encodeJWT`
  wrote, and gives the payload back. Dots inserted anywhere do not matter, because `strtok`
  skips empty parts; any other alteration is refused. The heap blocks lost are the four of
  each refused token (`OnlyRefusalsLose`).

Violated; each states what a comment of the code says:

- `gateway_sequence`: `SeqCountsAnswered`. The sequence number is said to grow "with
  every messages succefully sent"; it grows with every `recv()` of a reply.
- `transceiver_send_ok`: `SendOkMeansPosted`. `watingForResponse`, static, makes the
  exchange after a failed one report SEND_OK with nothing posted.

Other statements that do not hold of the code stand at the end of their modules, with
the comment they are taken from, and bound what the passing properties say:

- `CellularTransceiver!RetriesEnd`: `maxAttempts` is the "Maximum number of retry attempts",
  but reading an empty response takes the count back and asks for the response again, for
  ever. `DataIsServerReply`: the CONNECT of a repeated POST is read as the start of the
  response and the modem's ERROR handed on as data.
- `CellularConnection!IdleBudget`: `IdleState` keeps its count when it gives up, so the
  next attempt gives up at its first timeout. `TimeIsCurrent`: `RetrievingTimeAndDate`
  keeps its flag over timeouts, and the clock may be set to an earlier round's time.
- `Positioning!LossDetected`: `PowerONState` counts readings of "off" in a static and
  compares it with `==`. A modem that loses its power again before the new object has
  read "on" once carries the count past the limit: the loss is never noticed and the
  battery is asked for again for ever.
- `Enc28j60!PoolInMemory`: `MEMPOOL_SIZE` expands a macro without parentheses; the pool
  reaches two bytes past the memory. The model stops there (`spilled`).
- `UipTcp!GivesUpInTime`: waiting is given up after more than the watchdog's 5 s.
  `OpensUnclosed`: `connect()` can wait for a connection the gateway is closing.

Three more bound the passing properties themselves. In `LoRaReception` an HMAC that contains
the delimiter is split, each retransmission leaves its tail in the buffer, and the counter
that would clear it is set to 0 at each delimiter; what may pile up has no bound. In
`Codecs` a reply that `decodeJWT` refuses loses its four heap blocks (`lost`). And
`setReadPtr` wraps one byte
too far; `FramesIntact` holds because the checksum, read the same way, is then wrong. A
UDP frame without checksum (`udp0`, `Unchecked` in `MCEnc28j60`) is taken with the wrong bytes.

*Bounds.* A round of the gateway touches at most two records, and the next round depends
on earlier ones only through the chain variables and the received fields; two receptions
give a round that starts from each kind of leftover, one reset gives records of two
boots. `GatewayProofs` shows the invariants for all bounds. For reception, five frames
are enough to fill the buffer with leftovers, overflow it and still hear three intact
frames, after one with the delimiter inside too. For the transceiver, attempts of 3 and 2
instead of 20 and 5 leave both a retry and a give-up at every step; the count is only
compared with its limit. Four lines hold the late answers of both a command and its
repetition; at the cap the modem waits for the reader. For the connection, limits of 2, 3
and 2 leave a retry before each failure and keep the three limits apart. For the
acknowledgement, a buffer of one frame already holds everything an earlier one can leave.
For the power states the limits are the smallest that keep "before", "at" and "past"
apart; the rounds themselves are not bounded. For the chip, the ring holds two frames and
the pool a packet and two socket blocks: a collection happens with blocks on both sides
of the hole. For TCP there are two connections, so that the second exchange may meet the
first one's late segments on a new entry or on its own; a queue of
three and a reply of three take its last place; seven blocks, like the build's twelve, never
run out, and two do before the queue is full. A request is no longer than the pool can send
(`AskedLen`): otherwise it stays in its queue until the exchange gives up. Timers of 1 to 3 periods let every retransmission both happen and run out. For the
set-up, waits of one poll let an answer be in time, late, or meet the next transaction;
at most one frame is on its way to the gateway at a time, which may be one of the round
before; `Foreign` servers, whose identifier the request garbles, pass too (`{"B"}`).
Bytes of two bits keep the field arithmetic of AES; what its loop does depends only on
how the length stands to the block.

Deadlock checking is off where the behaviour ends because a bound on frames,
exchanges, attempts or rounds is used up. It is on for `gateway`, `ack` and
`positioning`.

*Fairness.*
- `Gateway`: weak fairness of the handlers outside the mobile exchange (`LimitedHandler`),
  since `main` calls `update()` for ever and each blocking device call ends or is cut by
  the watchdog; none on the polled mobile exchange, on receptions or on resets.
- `LoRaAck`: weak fairness of the pass, the tick, and "the radio is done or the
  watchdog bites".
- `CellularTransceiver`: weak fairness of the polls; strong fairness of reading, because a
  poll comes every pass and timeouts are seconds apart. Nothing of the modem or the server:
  what they must do for an exchange to end is the hypothesis of `ExchangeEnds`, and without
  it an exchange need not end (`RetriesEnd`).
- `CellularConnection`: weak fairness of the polls, which include the timeout; nothing is
  asked of the modem.
- `Positioning`: weak fairness of the loop and of the two delays; nothing of the modem.
- `UipTcp`: the exchange's loops keep ticking and the clock goes on, stated as "idle again
  and again, or period after period passes"; nothing of server, network or watchdog.
- `EthernetSetup`: weak fairness of each call's own step and of the watchdog; nothing of
  the network.

## 4. Proofs

`GatewayProofs` proves, for every set of messages, every number of retries and
every bound, `TypeCorrect`, `SeqLinkCorrect`, `ChainCorrect`, `RecordsCorrect`,
`ChannelCorrect` and `FallbackCorrect`: `Spec => []P` for `TypeOK` and the five
invariants. The only assumption is `GatewayAssumption`.

None of the five is inductive. They follow from `IInvariance`, `Spec => []IInv`,
where `IInv` adds:

- `RouteInv`: the route each state is created with. Without it the branch in
  which a fallback does nothing, and a wrong audience, could not be excluded.
- `HashInv`: hashes are at most `nrec` and a record is newer than its predecessor.
  So a new record's hash is fresh.
- `CurrentInv`: while a record is on its way, the buffer, the current hash and
  the newest record are the same. So `progressOnHashChain` moves to the record that was answered.
- `ChainInv`, `LinkInv`: how the records of this boot stand to the next record's
  sequence number and predecessor. These are `SeqIdentifiesLink` and `AnsweredLink` one
  record ahead.
- `FieldsInv`: between reception and the end of the round every field the record
  will use comes from the acknowledged message.
- `RoundInv`: which records this round has made, and what the chain looks like to
  the second one. These give `OneRecordPerChannel` and `FallbackLinks`.

Each part has a step lemma by cases over the actions. Frame lemmas (`ChainFrame`,
`SendingFrame`, `FieldsFrame`, `RoundFrame`, `DeliveredFrame`) carry the actions
that leave the part's variables alone.

`CellularConnectionProofs` proves `TypeCorrect`, `FreshnessCorrect` and `BudgetCorrect`,
`Spec => []P` for `TypeOK`, `StoredFresh` and `FullBudget`, for any limits of attempts and any
bounds, from `ConnectionAssumption`. The inductive invariant adds two parts:

- `FreshInv`: a flag that is set but not from this attempt belongs to one of the two
  classes that keep it, or stands for a weak signal, with which no class ends.
  `StoredFresh` speaks of the data already stored and says nothing of the flag that will
  let the next be stored.
- `BudgetInv`: past `IdleState` the count is at most the timeouts of this attempt, and 0
  between attempts. So a count at its limit means that many timeouts.

`GatewayProofs` also proves `Refinement`: `Spec => F!Spec`, where `F` is `Forwarder`
under the mapping of `GatewayRefinement`, the safety half of `ImplementsForwarder`. From `IInv` and
`MapInv` every action is one step of `Forwarder` or none. `MapInv` has what `IInv` leaves
open and the mapping reads: `HashesDistinct` (a delivered hash leads to one record),
`AckedInv` (a reception is acknowledged for one message) and `UnsentInv` (the record that
waits to be sent has not been seen by the server, so sending it is a delivery and not a
repetition). `StageStep` says how the message in hand moves, once for all actions.

`LoRaReceptionProofs` proves `TypeCorrect`, `LimitCorrect`, `TakenOnce` and `ResyncCorrect` for
any trackers and messages, any packet size, any limit of reads that a frame fits in and any
number of frames, from `LoRaAssumption`: an HMAC may contain anything, the delimiter too.
`TakenOnce` alone has a hypothesis, `OwnPieces`: some piece of each message occurs in no
other. This is what the HMAC stands for: without it two halves of different frames could
make up a third.

The last three need different arguments.
`LimitInv` (`BufferInv` until a frame with the delimiter inside is transmitted, and `SentInv`:
what is on the air has been counted): what a read leaves behind lies in the packet it read, so the buffer is
never longer than the reads counted and one packet, and has no delimiter but at its end.
`TokenInv`: the copies of a message's own piece, in the buffer, in the message waiting to
be verified and in what the trackers have still to send, plus the times the message was
taken, are at most the times it was sent. A read only moves pieces: `TokensRead` gives an
injection from the copies after it to those before it.
`SyncInv`, with `HeardInv`: what the buffer looks like inside and after the first, second
and third intact frame. After one it is empty, a single bar, or one whole frame
(`AfterFirst`); after two, empty or about to be taken; inside the second it holds the
frame's beginning, after one bar at most. `HeardInv` keeps the history variables apart
when frames of several trackers mix. `SyncInv` speaks only of reads without a backlog, so
it needs to know nothing of how earlier frames with a delimiter inside were taken apart.
The attempt to prove `Resynchronises` as it was first stated, with no delimiter left behind,
failed on a packet that begins with a bar. TLC then found the frame kept in the buffer;
statement and instance were corrected.

`LoRaAckProofs` proves `TypeCorrect` and `AckCorrect`, `Spec => []P` for `TypeOK` and
`AckUnderstood`, for any lengths of texts, cipher blocks, HMAC and checksum, any packet
size, number of repetitions and delays, from `AckAssumption`, whose one hypothesis of
substance is that all texts take the same number of cipher blocks (an IMEI of 15
digits and a message number always take two). `AckUnderstood` speaks of the moment the
gateway goes on; the invariant says how it gets there:

- `BufferOK`: whatever was in the buffer, no byte of an HMAC is where the next text's last
  block will be (`Usable`), because Base64 is longer than what it encodes. So the last plain
  byte is never taken for padding. From `messageFormatted` on, the buffer holds the frame,
  which decodes to this acknowledgement (`Coded`).
- `CellsOK`: the cells sent are the repetitions counted and the part before `stringIndex`,
  and the packet at hand while it is in the air; each is the frame's cell at its place.
- `AirOK`: while a packet is out the delay runs for a flight time and has not run longer than
  the time since that packet. So an elapsed delay means the packets are far enough apart,
  also across repetitions, although `firstChunkSent` is never reset.
- `StaticsAgree`: what the static locals are at each place, since they outlive the object.

The lemmas on the coding (`FormattedFacts` to `PreparedUsable`) hold for any usable buffer.
That is why a failed preparation, which leaves its HMAC behind, does no harm.

`CellularTransceiverProofs` proves `TypeCorrect`, `DataPosted` and `BoundedDuplicates` for
any limits of attempts and any number of lines, from `TransceiverAssumption`. The invariant:

- `ResultInv`: whoever has the result of a POST (the modem about to print it, a line in
  the UART, the steps after it was read) has it from a server that got the message.
- `FlagInv`: the same for the flags. `watingForResponse` is static, so it is said only of
  an exchange that did not begin with it set (`stale`).
- `OutcomeInv`: what an ended exchange reported.
- `PendingInv`: POSTs that arrived, that the modem is carrying out and that wait behind it
  are together at most the POST commands sent. Counting only those that arrived is not
  inductive, since one that waits may still arrive.

`PositioningProofs` proves `TypeCorrect` and `SupplyFollows` for any limits and without a
bound on rounds, from `PowerAssumption` and `GNSSAssumption`. `SupplyInv` relates the class
of the power object to the supply line: under an object that takes the modem to be on, the
supply is cut only by a hard switch-off in progress, which is a static. `CallInv` ties the
calls of an iteration to the gateway's state, `TriesInv` the tries to the GNSS class.

`EthernetSetupProofs` proves `TypeCorrect`, `LeaseIsAcknowledged` and `RequestsAreDirected` for
any hosts, servers, ARP table, pool and waits, from `UdpAssumption` and `SetupAssumption`.
These ask for two blocks in the pool (the code has three for each UDP connection), for hosts
that are neither the zero nor the broadcast address, and for a wait of the time query that is
no longer than that of a lookup (1 s and 5 s). `SetupInv` is `LeaseInv` (an acknowledgement under way,
waiting or being parsed is its server's, of its own address), `NetworkInv` (what a frame on
the way can be) and `LocalInv`: the stack (`StackInv`: the blocks in use are those the socket
holds, the ARP table maps local hosts to themselves, a request goes to its next hop), the
waits, the client, and what the socket holds at each place of the gateway (`PlaceInv`).
`Once` says that a request was sent or is held and will be. Lemmas say what each call of
the socket (`tick`, `flush`, `parsePacket` and the rest) keeps of `StackInv`.

`Enc28j60Proofs` proves `TypeCorrect`, `PoolCorrect`, `ContentsCorrect` and `RoomCorrect`,
`Spec => []P` for `TypeOK`, `PoolSound`, `ContentsKept` and `RoomIsFound`, for any ring, pool,
header and vector lengths, frames and writes, from `MemoryAssumption` and `FrameAssumption`: the
ring ends at an odd address, as `enc28j60.h` asks, and nothing is empty. `FramesCorrect` gives
`FramesIntact` where every frame has a checksum (`AllSummed`), the condition without which
it is false. The invariant `Inv` has three parts of substance:

- `Sound`: there is a list from the anchor through exactly the descriptors in use, in address
  order and without overlap (`PoolOK`: `Lists` and `InOrder`; naming the list spares every later
  proof the recursion of `Chain`); each block lies in the memory, has a holder and holds what
  that one put there (`HoldsAt`). Each operation of the pool has a lemma on the list and one
  on which blocks it carries over with their bytes (`Carried`), so that a step of the driver is a
  chain of such lemmas. `CollectedBlocks` and those after it say that the collection moves
  blocks only down, with their bytes, and leaves one gap of all that was unused (`RoomLemma`).
- `RingOK`: there are offsets from `nextPacketPtr`, even and at least a status vector apart, at
  which the frames not yet taken begin and the chip will store the next one (`RingAt`). `lead`
  is how far ERXRDPT is behind `nextPacketPtr`; `lead` and the last offset together are at most
  `RXEND_INIT`. The room the chip sees ends before ERXRDPT, so a frame that fits overwrites
  none of them. Even, because a packet kept over a second `init` is freed in a ring that has
  started again: ERXRDPT is then at the next packet, the chip has used the whole room, and
  freeing takes one byte of it back. Frames take even numbers of bytes and the room is odd.
- `RegsOK`: the driver's copy of the bank is the chip's bank, or 255, with which every access selects.
  `init` begins with a soft reset that the copy does not follow; what it accesses first is in
  bank 0, where the reset has left the chip. `RegsInit` follows its accesses.
- `PacketOK`: what is in the ring shows that vector and header together are shorter than it. So
  the address of `setReadPtr`, which wraps one byte too far, still lies in the ring; the bytes
  there may be wrong ones, which the checksum tells.

Only model-checked:

- The liveness properties, the second half of `ImplementsForwarder` among them: out of the
  prover's reach.
- `AES`, `Base64URL` and so `Codecs`: what recursive operators compute needs induction over data.
- `UipTcp`: no theorem. Its steps merge records (`@@`) and the room left in the pool is a fold
  over all queues, neither of which the provers take as it stands; section 6 says what an
  invariant has to hold.

## 5. Not modelled

- The TCP socket states of `TransceiverState`: `enableTransceiver` never enters them.
- Decrypter and Encrypter without Base64: not instantiated.
- SHA-256, HMAC, CRC and the key schedule: a digest is determined by what it covers and
  distinct for distinct texts.
- JSON text, time formatting, logging; lengths of text buffers, but for the token's, and
  what happens after an array was written past its end.
- A torn read of the 64-bit tick counter and the several Tickers that advance it.
- Registers of the SX127x that `begin` sets once; `receive()` with its interrupt, which is
  not used; power-down and clock output of the ENC28J60.
- Of uIP: listening sockets, ICMP, IPv6, reassembly, urgent data. The gateway only opens
  connections, and the rest is compiled out or answered without any state.
- `TcpServer`, `DhcpClient::checkLease`: never called. `IpAddress`, `SocketAddress`, `nsapi`:
  parsing and formatting of addresses, and declarations.
- Seconds: the 5 s wait of the Ethernet exchange and the 5 s of the watchdog are counts of
  the same order in `UipTcp`, and in `Gateway` a choice between `EthernetGivesUp` and `Reset`.
- The components run apart. `Gateway` takes from each any result its code can return; only
  power, GNSS and the gateway's round, chip and pool, stack and socket are composed.

## 6. Plan

Every component that the program uses has its module. What is left to prove:

1. `UipTcp`: `TypeOK` and `ReplyInOrder`. The invariant has to say which segments of `sent`
   can still match a connection, and that a reused entry's sequence numbers keep the
   others out.
2. `UipTcp`: `NothingAckedIsLost`, from the place of each acknowledged block: queue,
   `unstored`, or already read.
