# Models and proofs of the Mira toolkit

TLA+ models of the two libraries of this repository, `mtk_broadcast` (network
wide broadcast over trickle timers) and `mtk_bulk_data_collection` (transfer of
large packets in sub-packets), with the TLC runs that check them on small
instances and TLAPS proofs for all instances. Paths are relative to `src/`.

## 1. The system

Everything runs in the single-threaded event loop of the Mira platform: UDP
callbacks, ctimer callbacks and Contiki processes run to their next wait without
interruption. One action of a model is therefore one callback or one stretch of
a process between two waits. What is concurrent is the nodes, the network, the
timers, and the events that wait in a queue while other callbacks run.

| Component | State | Operations | Talks to |
| --- | --- | --- | --- |
| Trickle timer, `mtk_broadcast/mtk_trickle_timer.[ch]` | interval `i_cur`, its start, consistency counter, a ctimer | config, set, stop, consistency, inconsistency = reset_event, ctimer callbacks `fire` and `double_interval` | calls the protocol's callback; asks `clock_time` |
| Broadcast worker, `mtk_broadcast/mtk_broadcast_worker.[ch]` | per data set: id, version, data, timer; list of contexts; the UDP connection | init_net, register, update, pause, resume, UDP callback, trickle callback | other nodes by link-local multicast; the application's update handler |
| Broadcast API, `mtk_broadcast/mtk_broadcast.[ch]` | table of contexts and its fill level | init, register, update, pause, resume | the worker |
| Bulk data collection, `mtk_bulk_data_collection/mtk_bulk_data_collection.[ch]` | per packet: mask, length, payload; a busy flag; the etimer and the retries of the receive process | init, register_tx, send, mask and size helpers, send process, receive process, UDP callback | the handlers below; the application by events |
| Handlers, `mtk_bulk_data_collection/mtk_bdc_{signal,request,subpacket}.[ch]` | one static event record each | init, send, handle_data | post events with a pointer to the record |
| Wire formats, the `pack`/`unpack` functions and `mtk_bdc_utils.h` | none | encode, decode | the handlers |
| Platform and application (external) | event queue, timers, network | | everything |

What is hard in it:

- *trickle timer*: the clock wraps around, callbacks run late, the start of an
  interval may be dated back (drift compensation), the protocol may stop the
  timer inside its own callback, inconsistencies arrive without end;
- *broadcast*: messages are lost, delayed and reordered; nodes restart without
  data; the version is a 32-bit serial number in which 0 means "no data"; an
  update, a pause and the reception of a newer version meet in any order;
- *configuration*: an Imax that does not fit the clock is lowered by counting
  leading zeros, in three flavours;
- *bulk*: a second message overwrites the static record whose event still waits;
  the queue may be full; the timeout races late sub-packets; sub-packets of an
  earlier packet arrive during the next; a re-request meets the transmission it
  complains about; a send may be refused half way; init may be called again under a
  transmission or with events in the queue;
- *wire formats*: fields of different widths, lengths checked in 8 or 16 bits, or
  after the fields were loaded.

What makes each correct:

- *trickle timer*: a running timer never loses its ctimer; the callback is due
  inside [I/2, I) of its interval; it is made again and again; the interval
  reaches Imax. Users rely on `TimerContract`.
- *configuration*: the Imax used is the one asked for or the largest that fits, or
  one less.
- *worker*: one version, one content; no node goes back; every node reads the data
  in the order it was written (`OrderedBroadcast`); all that listen agree in the
  end.
- *API*: the calls of the application and the messages of the network act on the
  same context.
- *bulk*: what is delivered is one packet, whole and unmixed, its length right;
  no requested bit is lost; receptions and transmissions end; with few enough
  faults the reception of a network's only packet succeeds. The application relies
  on `BulkCopy`.
- *wire formats*: what is packed is unpacked by exactly one handler, and nothing
  else is.

`PROJECT.json` lists the hazards line by line with the properties aimed at them.

## 2. Modules

    Powers (used by TrickleConfig, WireFormats)     PowersProofs
    TrickleConfig <-- TrickleTimer                  TrickleConfigProofs
                        |  refines                  TrickleTimerProofs
                      TimerContract
                        |  (is the timer of)
    Broadcast <-- BroadcastHistory                  BroadcastProofs
       |                |  refines                  BroadcastHistoryProofs
    MCBroadcast       OrderedBroadcast
       `--- MCBroadcastHistory
    BroadcastApi   (the contexts of one node)       BroadcastApiProofs
    BulkPacket <-- BulkCollection                   BulkCollectionProofs
                        |  refines
    MCBulkCollection  BulkCopy
    WireFormats <-- MCWireFormats                   WireFormatsProofs

**Powers** is the shift of the code: `x << n` is `x * Pow(2, n)`.

**TrickleConfig** is the arithmetic of `mtk_trickle_timer_config`: the tests of
Imin and of the pair, `max_imax` in its generic and in its fixed-width flavours
(an argument), and the shifts, all modulo the width of the clock.

**TrickleTimer** is one timer. `clock`, `i_cur`, `i_start`, `c` are the fields of the
struct, `cfg` those that config sets; `cb` says whether the protocol's callback is
known, which it is from the first `Set` on; `ct` is the ctimer as its callback and the
ticks left, negative when the callback is overdue; `call` records what the protocol
was told in the last step. `build` has the two build options, drift compensation and
the flavour of `max_imax`, chosen in the initial state. `Plus` and `Minus` are the
unsigned sums of `clock_time_t`, and `InFuture` is the test against `CLOCK_MAX >> 1`.
Actions: `Config`, `Tick` (time), `Fire` and `DoubleInterval` (the ctimer callbacks),
`Consistency`, `Inconsistency`, `Set`, `Stop`. Random choices (`get_t`, the first
interval) are existential. A rejected configuration leaves the old one, and `Set`
needs a configuration. `Inconsistency` is enabled when the timer is stopped because
the update path calls it then; it starts a timer that was configured and never set,
too, and that one runs through its intervals without telling anybody
(`mtk_trickle_timer.c:266`). The protocol's callback leaves the timer alone or stops
it; the worker's leaves it alone.

**TimerContract** is the same timer without time: stopped, waiting or called
(`mode`), whether the interval is Imin, because an inconsistency does nothing then,
whether the protocol has given its callback, and whether the last step made it.

**Broadcast** is one data set on a set of nodes. `version`, `data` and `timer` are the
fields of each node's context; `timer` has `mode` and `atMin` of the contract, for an
Imax above Imin (`mtk_broadcast_worker.c:36-37`); registering sets the timer, so the
callback is always known. Actions are the API's calls, the timer's two callbacks
(`Transmit`/`TransmitNothing`, `NextInterval`), `Receive` for
`broadcast_udp_callback`, `Lose`, and `Reboot`, which leaves nothing.
`TransmitNothing` is also the node that is not associated and the send that fails. The
redundancy counter is absent because `broadcast_trickle_callback` ignores the
suppression flag. An update handler that calls the API is `Receive` followed by that
call: the handler is the last thing `broadcast_udp_callback` does.

**BroadcastHistory** adds one history variable, the local updates in their order.
It serves the refinement of **OrderedBroadcast**, which is what a reader is
promised: a writer writes values one after the other, every node moves through
them forward and holds the one it has got to, and only a restart forgets. The
mapping takes a node's version to the update it comes from (`UpdateOf`).

**BroadcastApi** is the table of `mtk_broadcast.c` and the worker's list, two
structures over the same contexts that are searched from opposite ends. The
application uses a unique id, not 0, per data set. A registration that the worker
refuses, because the network is not initialised, keeps its place in the table
(`mtk_broadcast.c:63`): after as many failures as there are places every further
registration gets NO_MEMORY with no data set registered. The model does this too.

**BulkPacket** has the arithmetic of masks and sub-packets, **BulkCollection** the
protocol. A mask is a set of bits; `LowBits` is the shift that makes one, of no use
for the whole width, where the code avoids it. `lp` is the packet being received, with the
owner of every received piece in place of its bytes; `tx` and `txMask` are the
send process, the busy flag, the connection and the packets' masks; `sigEvent`,
`spEvent`, `reqEvent` are the static event records, written at delivery and read at
dispatch; `queue` is the receiver's event queue, in which the announcement of a complete packet
takes a place, too. On the sender only requests
matter, so their number stands for its queue. `receive_proc` looks at its etimer
first whatever event woke it, so `DispatchSignal` and `DispatchSub` may take the
timeout branch. `SenderDispatch` is the application's answer to a request: store
the mask and call `send`; `DispatchSignal` its answer to a signal: start the
receive process when it is not running, and request. `Discard` is
`FAULT_RATE_PERCENT`. `SenderInit` and `ReceiverInit` are
`mtk_bulk_data_collection_init` called again at any time: the processes go on, the
busy flag is cleared under a running transmission, and events in the queue keep
their old numbers and mean nothing any more ("stale"). At the sender init may fail,
which leaves it without a connection and the flag as it was. `faults` bounds what
the network and the platform do wrong.

**BulkCopy** is what the receiving application is promised: pieces of one packet
at a time, each once; the packet is handed over whole or not at all.

**WireFormats** is one datagram at a time: a message is packed into bytes, or some
other program sends bytes of its own, and the UDP callback offers them to all
handlers. A byte has `ByteMod` values and the fields have the code's widths in
bytes, the mask's and the broadcast's being parameters; `Offsets` has the position of
`buffer` before each field. `beyond` is what a handler
reads behind a datagram shorter than the fields it loads, any value. `Room` is the
size of the buffer a payload is copied to: the 330 bytes of `mtk_bdc_subpacket.c:113`
or the application's data. The copying does not look at it (`Copied`): of a payload
that is longer the bytes behind the buffer are arbitrary, and `overrun` remembers that
there was one. The toolkit's own senders keep to the same sizes (`Payloads`).

Definitions whose comment starts with "Mutant" are not part of the models: each is
a plausible bug in the definition that follows it, and a property that the bug
violates is named in `PROJECT.json`.

## 3. Runs

| Run | Shows | Instance |
| --- | --- | --- |
| `timer` | `TypeOK`, `ArmedIffRunning`, `FireInWindow`, `EndOnTime`, `AdjustsImax`, `CallsBack`, `SlowsDown`, `KeepsContract` (refinement of TimerContract) | 4-bit clock, with and without drift compensation, both kinds of flavours of `max_imax`, arguments of config that are accepted, adjusted and rejected, callbacks up to Imin late, timers set and never set |
| `timer_suppressed` | violation, see 6 | as the first |
| `broadcast_live` | `SameVersionSameData`, `ReadsInOrder` (refinement of OrderedBroadcast), `Converges` | three nodes in a line, the relay between the others restarts; two updates, two contents, one message in flight on a link |
| `broadcast_wrap` | `TypeOK`, `NoRollback` | two nodes that both update, one restarts; 10 versions, four updates of 2 or 3: the version wraps; two messages in flight on a link, in any order |
| `broadcast_pause`, `broadcast_half` | violations, see 6 | two nodes |
| `api_table` | `TypeOK`, `LookupsAgree` | three ids, three contexts |
| `bulk_one` | `TypeOK`, `LenMatches`, `NoBitLost`, `CopiesPackets` (refinement of BulkCopy), `ReceptionEnds`, `TransmissionEnds` | one packet of two pieces, the last one short, whole and partial requests, one fault, one init, one re-request, queue of two |
| `bulk_two` | `ReceivedIntact`, `LenMatches`, `DeliveredWhole` | two packets of one sender, one with a short and one with a full last piece, the longer one fills the mask |
| `bulk_patient` | `ReceptionCompletes` | one packet whose three pieces fill the mask, four re-requests as in the code (`mtk_bulk_data_collection.c:54`), at most two faults and inits together |
| `bulk_stale` | violation, see 6 | two packets |
| `wire` | `ReceivedAsSent`, `OnlyFormats` | bytes of two values, every message, buffers of two bytes for a sub-packet and three for a broadcast, every datagram of at most 11 bytes, and longer ones that start as a signal does |

The bounds. The timer's clock wraps many times, and its Imin and Imax include pairs
whose first, random interval is not Imin times a power of two, so intervals that start
at random, at Imin and by doubling all meet the wrap. A network of two nodes already
has every pair of concurrent calls and messages; the third adds the relay. Ten
versions and four updates put the serial comparison at its boundary. With one fault,
one init and one re-request every single failure meets every state of the transfer; a
queue of two fills, so events are dropped and records overwritten without any fault.
With bytes of two values a payload of two or three bytes needs the second byte of
`payload_len`, foreign datagrams of 11 bytes have payloads longer than the buffers,
and tails of up to 10 bytes pass the length that `LenMod` = 9 hides. Cardinalities
beyond these are left to the proofs. The bounds `MaxUpdates`, `MaxUpsets`,
`MaxInFlight`, `MaxSignals`, `MaxFaults`, `MaxInits`, `MaxNoise` and `MaxTail` are
guards or input sets of the actions they limit. `MaxInFlight` bounds the messages on
each link, which only their sender adds to and which fairness empties, so that it
never keeps a node from transmitting for ever; a bound on all messages together would
let old messages on one link silence the rest of the network. Reordering on a link
needs two messages: `broadcast_wrap` and `broadcast_half` have them; in
`broadcast_live` messages overtake each other on different links.

Deadlock is checked except in the bulk runs: when the bounded number of signals is
used up and the transfer is over, that system really has nothing left to do.

Fairness. *Timer*: the clock runs and the event loop runs due callbacks. Nothing
is assumed of messages or applications. *Broadcast*: timers run, as TimerContract
promises and `KeepsContract` shows; a node that is called again and again is
associated some of the times (strong fairness of `Transmit`), and a link that is
used again and again delivers something (strong fairness of `ReceiveOn`) - without
that no retransmitting protocol can promise anything. *Bulk*: weak fairness of the
processes, of the delivery of what was not lost, and of the timeout.
`ReceptionCompletes` is stated for `PatientSpec`, in which the timeout, ten sender
periods in the code, expires only when nothing is under way, and no init of the
sender fails; without that the re-requests can be used up by a slow network
and the property is false. It also needs enough requests (`FewMishaps`). Of what a
request brings, a single sub-packet may survive, because the others overwrite each
other's record or find the queue full, and every fault and every init may spoil a
whole request; so the sub-packets, the faults and the inits together must not exceed
one request and the re-requests. With one mishap more the property fails. The code's
four re-requests guarantee five of them: a packet of three pieces and two mishaps, as
in the run. A larger packet completes in practice because a round brings more than one
piece, which the code does not promise. The run has one packet: with several, a late
sub-packet ends a reception (`bulk_stale`).

## 4. Proofs

All proofs are for arbitrary constants under the named assumptions of the modules.

**PowersProofs** has only lemmas: what every other proof about shifts and digits rests
on. The provers have no rule for induction, but they can use a set: that the naturals
are well founded (`NatLessThanWellFounded`, `WFMin` of the library) gives a least
number of every set (`LeastNatural`), so a set that holds 0 and every successor of its
numbers holds all numbers (`NaturalsByInduction`), and a start with a step defines a
function (`RecursiveFunction`). A recursive definition is a CHOOSE of a function that
satisfies its equation; that there is one has to be shown before anything can be said
of it. `PowRecursion` does so for `Pow`; `PowSum` adds shifts up; `Digit` is the step
from `x % p` to `x % (p * b)`.

**TrickleConfigProofs**: `ConfigFits`, for clocks of 4, 8, 16 and 32 bits and both
kinds of flavour: the longest interval is Imin doubled without a lost bit and at most
half the clock, and it is the one asked for when that fits. When it does not, one
doubling more would not fit in the generic flavour; in those for one width the
interval is at least a quarter of the clock, so two more would not. The lemmas say
what `LeadingZeros` counts and that the test of the pair is the test against half the
clock.

**TrickleTimerProofs**: `TypeCorrect`, `NeverLost`, `TransmitsInWindow`,
`EndsOnTime` and `ConfigAdjusts`, for all builds. The invariant is the conjunction of the first
four properties and of what config guarantees: the type bound on the ctimer's
remaining ticks follows only from the window it lies in, and the window at the start
of an interval only from the previous interval having ended on time. The lemmas on
`Plus`, `Minus` and `InFuture` reduce wrapping ticks to ordinary differences:
`Remaining` says that the code's test for "in the past" is right while both moments
are within half a clock period, which is what `ConfigFits` gives. From the same invariant
follow `CallsOncePerInterval`, the safety of `TimerContract` (`Contract!Safety`), whose
fairness only TLC checks, and `IntervalsGrow`, the bound on the number of steps of
`SlowsDown`: undisturbed, every change of the interval at least doubles it or reaches
the longest.

**BroadcastProofs**: `TypeCorrect` and `NeverBack` (`NoRollback`) hold for every
topology and set of updaters, over restarts and wrap-around: a newer version and the
version of an update are both ahead by less than half the range (`NewerIsAhead`,
`BumpIsAhead`), which needs twice the increment to be less than that half.
`VersionsMeanData` (`SameVersionSameData`) needs two assumptions that the code does
not enforce: `OneUpdater` - a single node updates the data set and never restarts -
and `BelowHalf` - its versions stay in the lower half of the range. The inductive
invariant adds `Newest`: the updater's version is at least that of every other copy
and at most `updates * Step`. So a new version is new to all copies, and the
updater itself never takes a late message for a newer one. All other steps only
copy or forget (`RestCopies`). `LaterIsAdopted` follows from the same invariant: a
listening node takes every message with a later version than its own and no other,
a node without data any. It is the safety half of `Converges`, and what is lost past
half the range (`broadcast_half`).

**BroadcastHistoryProofs**: `Refines` (`ReadsInOrder`) under the same two
assumptions. The invariant adds `Written`: the versions of the updates grow, and
every copy that is not empty is one of the updates. So a version stands for one
place in the history, and below half the range a newer version is a later place.

**BroadcastApiProofs**: `TypeCorrect` and `LookupsCorrect` (`LookupsAgree`), for
every number of contexts and data sets. The invariant says that the list holds every
registered context, and holds it once; that contexts taken in vain have no id; and
that ids differ.

**BulkCollectionProofs**: `TypeCorrect`, and under `UniqueIds` and `MasksInRange`
`IntactCorrect`, `LenCorrect`, `ContentCorrect` (`ReceivedIntact`, `LenMatches`,
`DeliveredWhole`) and `Refines` (`CopiesPackets`). The invariant says where content
can come from: every sub-packet in flight or in the event record is cut as its owner
cuts it, and every request, event record and mask has only bits of the packet. It
also says that a queued event has its record set, without which the handlers would
read nothing. Without `UniqueIds` the receiver mixes packets of two senders
(`mtk_bdc_subpacket.c:106-108` says so, and the id is the only thing compared at
`mtk_bulk_data_collection.c:236`); without `MasksInRange` the sender sends empty
sub-packets 0 for bits that do not exist, and does not end. `BitsKept`
(`NoBitLost`) needs neither: only that a request event is one for a packet of the
sender that has it.

**WireFormatsProofs**: `SentIsReceived` (`ReceivedAsSent`) and `OnlyEncodedBytes`
(`OnlyFormats`), for bytes, masks, ids and payloads of any size, up to the first
payload that is longer than its buffer: after that neither says anything, nor does
`OnlyEncodedBytes` of that payload's own record. `FittingIsKept` says that other
payloads are copied as they are. `LoadOfStore` and
`StoreOfLoad` say that storing and loading a field are inverse to each other: after i
bytes, what has been loaded is `v % Pow(ByteMod, i)`. `FlattenPieces` says where the
fields are in the buffer, by induction over their number, so that `PackEncodes` can
describe a packed message by the position of its parts (`Encodes`), and `EncodesOnce`
says that these leave no byte open. `HandleSent` and `HandleOthers` follow in one
direction, `HandleMade` and `RecordIsFormat` in the other: a length that is accepted
keeps every field inside the datagram, so the memory behind it has no part in the
record. The invariant adds that what is in flight is a packed message on the port of
its kind, or the bytes of another program. The assumptions on the constants that matter
are that headers differ, that payload_len's two bytes hold every payload's length, and
that the sizes compared in 8 bits are below `LenMod`.

Model-checked only: liveness, that is `CallsBack`, `SlowsDown`, `Converges`,
`ReceptionEnds`, `TransmissionEnds`, `ReceptionCompletes` and the fairness in
`KeepsContract`, because the prover has no rules for fairness or ENABLED. Every safety
property of a passing run is proved.

## 5. Plan

Done, in this order: TrickleTimer with its contract and proofs; BulkPacket,
BulkCollection, BulkCopy and proofs; Broadcast and its first proofs; BroadcastApi;
TrickleConfig, which replaced an assumption about the configuration by a proof;
WireFormats; repeated initialisation of the bulk collection; the refinements
`CopiesPackets` and `ReadsInOrder`; the proofs of all safety properties, the last ones
those of WireFormats with the induction they need.

Left:

1. The bounds on which the liveness of the bulk transfer rests, as `IntervalsGrow` is
   one for the timer: the retries of a reception and the bits of a transmission.
2. A protocol callback that restarts its own timer inside `fire`; the toolkit's own
   callback does not.
3. An init of the bulk receiver that fails.
4. What several updaters, or one that restarts, may rely on. The code randomises the
   version increment to make two contents under one version unlikely
   (`mtk_broadcast_worker.c:246-249`), which is a statement about probabilities.

## 6. Where code and documents differ

- `timer_suppressed`: `mtk_trickle_timer.h:63-65` says that a suppressed callback is
  not made; `fire` always makes it and passes a flag, which the broadcast worker
  ignores. Broadcasts are never suppressed.
- `broadcast_pause`: `mtk_broadcast.h:102` says that pausing prevents sending and
  receiving; an update starts the timer again (`mtk_broadcast_worker.c:257`).
- `broadcast_half`: version 0 stands for "no data", but is compared like any other
  (`mtk_broadcast_worker.c:104`): once the network's version is past 2^31 - about
  22 000 updates - a node that joins or restarts never gets the data.
  `Converges` is the property that holds in `broadcast_live` and fails here.
- `bulk_stale`: a late sub-packet of an earlier packet makes the receive process
  exit with re-requests left (`mtk_bulk_data_collection.c:242`).

Smaller ones, met while modelling, which no run is about: the 16- and 32-bit flavours of
`max_imax` lack the decrement of the generic one (`mtk_trickle_timer.c:105` and `116`),
so for an Imin that is a power of two config lowers Imax by one doubling more than
the "maximum permitted value" of `mtk_trickle_timer.h:408-409` (so `AdjustsImax` asks
of these flavours for a quarter of the clock only); config rejects k = 0
although `mtk_trickle_timer.h:398-399` describes it as infinite redundancy; the
comment at `mtk_trickle_timer.c:331-334` allows an Imin of half the clock, which the
code rejects; `payload_len` has 8 bits in the comment at
`mtk_bdc_subpacket.c:149` and 16 in the code; the length of a received sub-packet's
payload is compared with the datagram but not with the 330 bytes of the buffer it is
copied to (`mtk_bdc_subpacket.c:113`, `217`), so that what is claimed of the wire
formats ends with the first payload that does not fit.

## 7. Not modelled

The build of the timer without error checking; an Imax whose shift is as wide as the
clock, which C leaves undefined (`ArgumentsAssumption`); the actual random
distributions. DTLS, addresses of messages and the sizes of broadcast data beyond what
WireFormats says of lengths; data id 0. A `mtk_trickle_timer_set` without a callback,
which is rejected. What is behind a buffer that a foreign payload overruns: WireFormats
leaves its bytes open and claims nothing afterwards, the other modules assume that it
does not happen. In the bulk transfer, an init of the receiver
that fails; `delivered` is what was announced, whether or not an init of the receiver
then made the announcement stale. The period in ticks: with a period below the
clock's resolution the timeout is 0 ticks (`mtk_bulk_data_collection.c:209`), which the
model covers as a timeout that may expire at any moment. Exhausting the platform's event
numbers by repeated inits. The logging macros, and the build and formatting files,
which have no behaviour.
