--------------------------- MODULE BulkCollection ---------------------------
(***************************************************************************)
(* Bulk data collection: senders that hold large packets, one receiver,    *)
(* and the network between them.                                           *)
(*                                                                         *)
(* A sender signals a packet; the receiver's application starts reception  *)
(* and requests it; the sender's application hands the request's mask to   *)
(* send(), whose process sends one sub-packet per period; the receiver's   *)
(* process collects them and, when none comes for ten periods, requests    *)
(* what is missing, at most MaxRetries times.                              *)
(*                                                                         *)
(* UDP callbacks do not act on a message: they copy it into a static       *)
(* record, one per kind, and post an event to a bounded queue.  The        *)
(* processes see the record as it is when the event is dispatched.         *)
(*                                                                         *)
(* Either side may be initialised again at any time, which leaves its      *)
(* processes running and gives the events new numbers.                     *)
(***************************************************************************)
EXTENDS BulkPacket, Sequences, FiniteSets

CONSTANTS
  Packet,      \* large packets, each registered by one sender
  Sender,
  Owner,       \* [Packet -> Sender]
  PacketId,    \* [Packet -> ids]; the ids on the wire say nothing of the sender
  PacketLen,   \* [Packet -> length in bytes]
  None,
  MaxRetries,  \* LP_MAX_NUM_RETRANSMISSION_REQUESTS
  QueueSize,   \* events the platform's queue can hold
  AppMasks,    \* masks the receiver's application asks for besides whole packets
  MaxSignals,  \* bound: signals sent per packet
  MaxFaults,   \* bound: messages lost, duplicated, refused or discarded, and
               \* initialisations that fail
  MaxInits     \* bound: initialisations after the first

ASSUME PacketAssumption ==
  /\ Owner \in [Packet -> Sender]
  /\ PacketLen \in [Packet -> Nat]
  /\ \A p \in Packet : CanRegister(PacketLen[p]) /\ p \in DOMAIN PacketId
  /\ \A p, q \in Packet : Owner[p] = Owner[q] /\ PacketId[p] = PacketId[q] => p = q

ASSUME BoundAssumption ==
  /\ MaxRetries \in Nat /\ QueueSize \in Nat \ {0}
  /\ AppMasks \subseteq SUBSET Bit
  /\ MaxSignals \in Nat /\ MaxFaults \in Nat /\ MaxInits \in Nat

VARIABLES
  txMask,    \* sender: the packet's mask, bits still to send
  tx,        \* sender: its send_proc: sending, the packet, the last send's status;
             \* busy: large_packet_currently_sending; open: it has a connection
  reqEvent,  \* sender: the static data of the request event
  reqQueued, \* sender: request events in the queue
  reqStale,  \* sender: how many of these are from before the last initialisation
  rx,        \* receiver: its receive_proc: running, etimer, requests left
  lp,        \* receiver: the packet being received
  queue,     \* receiver: event queue
  sigEvent,  \* receiver: the static data of the signal event
  spEvent,   \* receiver: the static data of the sub-packet event
  net,       \* messages in flight
  signals,   \* signals sent, by packet
  faults,    \* faults that may still happen
  inits,     \* initialisations that may still happen
  delivered  \* history: what the receiver had when it posted event_bdc_received

senderVars == <<txMask, tx, reqEvent, reqQueued, reqStale>>
eventVars == <<queue, sigEvent, spEvent>>
receiverVars == <<rx, lp, eventVars, delivered>>
vars == <<senderVars, receiverVars, net, signals, faults, inits>>

Num(p) == NumSubpackets(PacketLen[p])

Signal(p) == [type |-> "signal", pkt |-> p]
Request(p, mask) == [type |-> "request", pkt |-> p, mask |-> mask]
Sub(p, i, len) == [type |-> "sub", pkt |-> p, index |-> i, len |-> len]

(***************************************************************************)
(* The sub-packet pick_next_to_send takes: the lowest requested one, or,   *)
(* when no requested bit is one of the packet's, index 0 with no payload.  *)
(***************************************************************************)
NextToSend(p, mask) ==
  IF Requested(Num(p), mask) = {}
  THEN {Sub(p, 0, 0)}
  ELSE {Sub(p, i, SubpacketLen(PacketLen[p], i)) : i \in Lowest(Requested(Num(p), mask))}

Signals == [type : {"signal"}, pkt : Packet]
Requests == [type : {"request"}, pkt : Packet, mask : SUBSET Bit]
Subs == [type : {"sub"}, pkt : Packet, index : Bit, len : 0 .. SubpacketMaxBytes]
Message == Signals \cup Requests \cup Subs

\* No packet yet, no event data yet.
ASSUME NoneAssumption == None \notin Packet \cup Message

\* A stale event has a number that nobody waits for any more.
Event == {"signal", "sub", "timer", "received", "stale"}

EmptyPayload == [b \in Bit |-> None]

Init ==
  /\ txMask = [p \in Packet |-> {}]
  /\ tx = [s \in Sender |->
             [sending |-> FALSE, busy |-> FALSE, open |-> TRUE, pkt |-> None, ok |-> TRUE]]
  /\ reqEvent = [s \in Sender |-> None]
  /\ reqQueued = [s \in Sender |-> 0]
  /\ reqStale = [s \in Sender |-> 0]
  /\ rx = [running |-> FALSE, timer |-> "off", retries |-> 0]
  /\ lp = [pkt |-> None, mask |-> {}, len |-> 0, payload |-> EmptyPayload]
  /\ queue = <<>>
  /\ sigEvent = None
  /\ spEvent = None
  /\ net = {}
  /\ signals = [p \in Packet |-> 0]
  /\ faults = MaxFaults
  /\ inits = MaxInits
  /\ delivered = {}

-----------------------------------------------------------------------------
(***************************************************************************)
(* The network and the UDP callbacks.                                      *)
(***************************************************************************)

\* Take m from the network, or deliver it and keep a duplicate in flight.
Consume(m) ==
  \/ net' = net \ {m} /\ UNCHANGED faults
  \/ faults > 0 /\ faults' = faults - 1 /\ UNCHANGED net

Lose ==
  /\ faults > 0
  /\ \E m \in net : net' = net \ {m}
  /\ faults' = faults - 1
  /\ UNCHANGED <<senderVars, receiverVars, signals, inits>>

\* Mutant: the queue grows without bound.
PostAlways(e) == queue' = Append(queue, e)

\* process_post: an event that finds the queue full is dropped.
Post(e) == queue' = IF Len(queue) < QueueSize THEN Append(queue, e) ELSE queue

DeliverSignal ==
  /\ \E m \in net : m.type = "signal" /\ Consume(m) /\ sigEvent' = m
  /\ Post("signal")
  /\ UNCHANGED <<senderVars, rx, lp, spEvent, delivered, signals, inits>>

DeliverSub ==
  /\ \E m \in net : m.type = "sub" /\ Consume(m) /\ spEvent' = m
  /\ Post("sub")
  /\ UNCHANGED <<senderVars, rx, lp, sigEvent, delivered, signals, inits>>

\* Nobody hears a request while its sender has no connection.
DeliverRequest ==
  /\ \E m \in net :
       /\ m.type = "request" /\ Consume(m)
       /\ IF tx[Owner[m.pkt]].open
          THEN /\ reqEvent' = [reqEvent EXCEPT ![Owner[m.pkt]] = m]
               /\ reqQueued' = [reqQueued EXCEPT
                    ![Owner[m.pkt]] = IF @ < QueueSize THEN @ + 1 ELSE @]
          ELSE UNCHANGED <<reqEvent, reqQueued>>
  /\ UNCHANGED <<txMask, tx, reqStale, receiverVars, signals, inits>>

-----------------------------------------------------------------------------
(***************************************************************************)
(* The sender.                                                             *)
(***************************************************************************)

\* The application announces a registered packet.
AppSignal(p) ==
  /\ tx[Owner[p]].open
  /\ signals[p] < MaxSignals
  /\ signals' = [signals EXCEPT ![p] = @ + 1]
  /\ net' = net \cup {Signal(p)}
  /\ UNCHANGED <<senderVars, receiverVars, faults, inits>>

(***************************************************************************)
(* init() at a sender: the old connection is closed.  When a new one can   *)
(* be opened the events get new numbers and the busy flag is cleared, also *)
(* under a transmission, which goes on; when not, neither happens.         *)
(***************************************************************************)
SenderInit(s) ==
  /\ inits > 0 /\ inits' = inits - 1
  /\ \/ /\ tx' = [tx EXCEPT ![s].busy = FALSE, ![s].open = TRUE]
        /\ reqStale' = [reqStale EXCEPT ![s] = reqQueued[s]]
        /\ UNCHANGED faults
     \/ /\ faults > 0 /\ faults' = faults - 1
        /\ tx' = [tx EXCEPT ![s].open = FALSE]
        /\ UNCHANGED reqStale
  /\ UNCHANGED <<txMask, reqEvent, reqQueued, receiverVars, net, signals>>

Sending(s, p, status) ==
  tx' = [tx EXCEPT ![s].sending = TRUE, ![s].busy = TRUE, ![s].pkt = p, ![s].ok = status]

Idle(s) == tx' = [tx EXCEPT ![s].sending = FALSE, ![s].busy = FALSE]

\* Without a connection every send fails.
Refuse(s) ==
  /\ UNCHANGED net
  /\ IF tx[s].open THEN faults > 0 /\ faults' = faults - 1 ELSE UNCHANGED faults

\* Mutant: the bit is cleared whether or not the sub-packet was sent.
SendNextClearsAlways(s, p, mask) ==
  \E sp \in NextToSend(p, mask) :
    /\ txMask' = [txMask EXCEPT ![p] = mask \ {sp.index}]
    /\ \/ tx[s].open /\ net' = net \cup {sp} /\ Sending(s, p, TRUE) /\ UNCHANGED faults
       \/ Refuse(s) /\ Sending(s, p, FALSE)

\* Mutant: the bit of a sub-packet that was sent is not cleared.
SendNextKeepsBit(s, p, mask) ==
  /\ \E sp \in NextToSend(p, mask) : net' = net \cup {sp}
  /\ txMask' = [txMask EXCEPT ![p] = mask]
  /\ Sending(s, p, TRUE)
  /\ UNCHANGED faults

(***************************************************************************)
(* One turn of send_proc's loop: the bit of the sub-packet is cleared only *)
(* when it has been handed to the network; a refused send ends the loop at *)
(* the next turn, with the bits left as they are.                          *)
(***************************************************************************)
SendNext(s, p, mask) ==
  \E sp \in NextToSend(p, mask) :
    \/ /\ tx[s].open
       /\ net' = net \cup {sp}
       /\ txMask' = [txMask EXCEPT ![p] = mask \ {sp.index}]
       /\ Sending(s, p, TRUE)
       /\ UNCHANGED faults
    \/ /\ Refuse(s)
       /\ txMask' = [txMask EXCEPT ![p] = mask]
       /\ Sending(s, p, FALSE)

(***************************************************************************)
(* The application takes a request: it sets the mask of the packet asked   *)
(* for and calls send(), which refuses while the busy flag is set and ends *)
(* a transmission that still runs when it is not.  The mask is the one the *)
(* running transmission reads if it is of this packet.                     *)
(***************************************************************************)
SenderDispatch(s) ==
  LET p == reqEvent[s].pkt
      mask == reqEvent[s].mask
  IN  /\ reqQueued[s] > 0 /\ reqStale[s] = 0
      /\ reqQueued' = [reqQueued EXCEPT ![s] = @ - 1]
      /\ IF tx[s].busy \/ mask = {}
         THEN /\ txMask' = [txMask EXCEPT ![p] = mask]
              /\ IF tx[s].busy THEN UNCHANGED tx ELSE Idle(s)
              /\ UNCHANGED <<net, faults>>
         ELSE SendNext(s, p, mask)
      /\ UNCHANGED <<reqEvent, reqStale, receiverVars, signals, inits>>

\* The application does not know a stale event; it has lost a request.
SenderDispatchStale(s) ==
  /\ reqStale[s] > 0
  /\ reqStale' = [reqStale EXCEPT ![s] = @ - 1]
  /\ reqQueued' = [reqQueued EXCEPT ![s] = @ - 1]
  /\ UNCHANGED <<txMask, tx, reqEvent, receiverVars, net, signals, faults, inits>>

\* The period has passed: the next sub-packet, or the end of the transmission.
SenderTick(s) ==
  LET p == tx[s].pkt
  IN  /\ tx[s].sending
      /\ IF txMask[p] # {} /\ tx[s].ok
         THEN SendNext(s, p, txMask[p])
         ELSE Idle(s) /\ UNCHANGED <<txMask, net, faults>>
      /\ UNCHANGED <<reqEvent, reqQueued, reqStale, receiverVars, signals, inits>>

-----------------------------------------------------------------------------
(***************************************************************************)
(* The receiver.  receive_proc looks at its etimer first, whatever event   *)
(* woke it: a sub-packet dispatched after the etimer expired is ignored.   *)
(***************************************************************************)
\* init() at the receiver: the events in the queue lose their meaning.
ReceiverInit ==
  /\ inits > 0 /\ inits' = inits - 1
  /\ queue' = [k \in 1 .. Len(queue) |-> IF queue[k] = "timer" THEN "timer" ELSE "stale"]
  /\ UNCHANGED <<senderVars, rx, lp, sigEvent, spEvent, delivered, net, signals, faults>>

Expired == rx.running /\ rx.timer = "expired"

Dispatch(e) ==
  /\ queue # <<>> /\ Head(queue) = e
  /\ queue' = Tail(queue)

\* The etimer is marked expired when its event is in the queue, not before.
TimerExpires ==
  /\ rx.timer = "running"
  /\ Len(queue) < QueueSize
  /\ rx' = [rx EXCEPT !.timer = "expired"]
  /\ Post("timer")
  /\ UNCHANGED <<senderVars, lp, sigEvent, spEvent, delivered, net, signals, faults, inits>>

Exit == rx' = [rx EXCEPT !.running = FALSE, !.timer = "off"]

\* Mutant: the re-requests are not counted.
TimeOutForever ==
  /\ net' = net \cup {Request(lp.pkt, MissingMask(Num(lp.pkt), lp.mask))}
  /\ rx' = [rx EXCEPT !.timer = "running"]

TimeOut ==
  \/ /\ rx.retries > 0
     /\ net' = net \cup {Request(lp.pkt, MissingMask(Num(lp.pkt), lp.mask))}
     /\ rx' = [rx EXCEPT !.timer = "running", !.retries = @ - 1]
  \/ /\ rx.retries = 0
     /\ Exit
     /\ UNCHANGED net

\* Whatever event it does not wait for wakes the process, too.
DispatchTimer ==
  /\ Dispatch("timer") \/ Dispatch("stale") \/ Dispatch("received")
  /\ IF Expired THEN TimeOut ELSE UNCHANGED <<rx, net>>
  /\ UNCHANGED <<senderVars, lp, sigEvent, spEvent, delivered, signals, faults, inits>>

(***************************************************************************)
(* The application starts a reception when none runs, and asks for the     *)
(* whole packet or for a mask of its own.                                  *)
(***************************************************************************)
Begin(p) ==
  /\ lp' = [pkt |-> p, mask |-> {}, len |-> 0, payload |-> EmptyPayload]
  /\ rx' = [running |-> TRUE, timer |-> "running", retries |-> MaxRetries]
  /\ \E mask \in {WholeMask(Num(p))} \cup AppMasks : net' = net \cup {Request(p, mask)}

DispatchSignal ==
  /\ Dispatch("signal")
  /\ CASE ~rx.running \/ (Expired /\ rx.retries = 0) -> Begin(sigEvent.pkt)
       [] Expired /\ rx.retries > 0 -> TimeOut /\ UNCHANGED lp
       [] OTHER -> UNCHANGED <<rx, lp, net>>
  /\ UNCHANGED <<senderVars, sigEvent, spEvent, delivered, signals, faults, inits>>

\* The next turn of the loop sets the etimer again.
Restart == rx' = [rx EXCEPT !.timer = "running"]

Discard ==
  /\ faults > 0 /\ faults' = faults - 1
  /\ Restart /\ queue' = Tail(queue) /\ UNCHANGED <<lp, delivered>>

Store(m) == [lp EXCEPT
  !.mask = @ \cup {m.index},
  !.len = @ + m.len,
  !.payload[m.index] = IF m.len > 0 THEN m.pkt ELSE @]

\* Mutant: the id of the sub-packet is not looked at.
IsAnyPacket(m) == TRUE

\* The id alone decides; the source of the message is not compared.
IsOfPacket(m) == PacketId[m.pkt] = PacketId[lp.pkt]

\* Mutant: only a repetition of the first sub-packet counts as a duplicate.
IsDuplicateOfFirst(m) == m.index \in lp.mask \cap {0}

IsDuplicate(m) == m.index \in lp.mask

\* Mutant: the packet is taken for whole when its last sub-packet arrives.
CompletesAtLast(m) == m.index = Num(m.pkt) - 1

\* Judged by the number of sub-packets the arriving one announces.
Completes(m) == lp.mask \cup {m.index} = WholeMask(Num(m.pkt))

(***************************************************************************)
(* A sub-packet of another packet ends the reception, a duplicate is       *)
(* dropped, any other is stored; the one that completes the mask ends the  *)
(* reception and is announced by an event, for which there is room: the    *)
(* event of the sub-packet has just left the queue.                        *)
(***************************************************************************)
Collect(m) ==
  \/ /\ ~IsOfPacket(m)
     /\ Exit /\ queue' = Tail(queue) /\ UNCHANGED <<lp, delivered>>
  \/ /\ IsOfPacket(m) /\ IsDuplicate(m)
     /\ Restart /\ queue' = Tail(queue) /\ UNCHANGED <<lp, delivered>>
  \/ /\ IsOfPacket(m) /\ ~IsDuplicate(m)
     /\ lp' = Store(m)
     /\ IF Completes(m)
        THEN /\ Exit
             /\ queue' = Append(Tail(queue), "received")
             /\ delivered' = delivered \cup {Store(m)}
        ELSE Restart /\ queue' = Tail(queue) /\ UNCHANGED delivered

DispatchSub ==
  /\ queue # <<>> /\ Head(queue) = "sub"
  /\ IF rx.running /\ ~Expired
     THEN (Discard \/ (Collect(spEvent) /\ UNCHANGED faults)) /\ UNCHANGED net
     ELSE /\ queue' = Tail(queue)
          /\ IF Expired THEN TimeOut ELSE UNCHANGED <<rx, net>>
          /\ UNCHANGED <<lp, delivered, faults>>
  /\ UNCHANGED <<senderVars, sigEvent, spEvent, signals, inits>>

-----------------------------------------------------------------------------
Next ==
  \/ Lose \/ DeliverSignal \/ DeliverSub \/ DeliverRequest
  \/ \E p \in Packet : AppSignal(p)
  \/ \E s \in Sender :
       SenderInit(s) \/ SenderDispatch(s) \/ SenderDispatchStale(s) \/ SenderTick(s)
  \/ ReceiverInit
  \/ TimerExpires \/ DispatchTimer \/ DispatchSignal \/ DispatchSub

Spec == Init /\ [][Next]_vars

(***************************************************************************)
(* The event loops run, the periods pass, and what the network has not     *)
(* lost arrives.  Nothing is assumed of the applications' signals and      *)
(* initialisations.                                                        *)
(***************************************************************************)
Fairness ==
  /\ WF_vars(DeliverSignal) /\ WF_vars(DeliverSub) /\ WF_vars(DeliverRequest)
  /\ WF_vars(DispatchTimer) /\ WF_vars(DispatchSignal) /\ WF_vars(DispatchSub)
  /\ \A s \in Sender : /\ WF_vars(SenderDispatch(s)) /\ WF_vars(SenderDispatchStale(s))
                        /\ WF_vars(SenderTick(s))

FairSpec == Spec /\ Fairness /\ WF_vars(TimerExpires)

(***************************************************************************)
(* The timeout is ten periods of the sender, so while nothing is delayed   *)
(* that long it expires only when nothing is under way.  An initialisation *)
(* that fails would leave the sender without a connection.  Of what a      *)
(* request brings, the receiver may see a single sub-packet, when the rest *)
(* overwrite each other or find the queue full, and each fault and each    *)
(* initialisation may spoil a request: there have to be enough of them.    *)
(***************************************************************************)
Quiet ==
  /\ net = {} /\ queue = <<>>
  /\ \A s \in Sender : ~tx[s].sending /\ reqQueued[s] = 0

FewMishaps ==
  \A p \in Packet : Num(p) + (MaxFaults - faults) + (MaxInits - inits) <= 1 + MaxRetries

PatientTimer == TimerExpires /\ Quiet

PatientNext ==
  /\ Next
  /\ rx'.timer = "expired" => rx.timer = "expired" \/ Quiet
  /\ \A s \in Sender : tx'[s].open
  /\ FewMishaps'

PatientSpec == Init /\ [][PatientNext]_vars /\ Fairness /\ WF_vars(PatientTimer)

-----------------------------------------------------------------------------
Reception == [pkt : Packet \cup {None}, mask : SUBSET Bit, len : Nat,
              payload : [Bit -> Packet \cup {None}]]

Transmission == [sending : BOOLEAN, busy : BOOLEAN, open : BOOLEAN,
                 pkt : Packet \cup {None}, ok : BOOLEAN]

SenderTypeOK ==
  /\ txMask \in [Packet -> SUBSET Bit]
  /\ tx \in [Sender -> Transmission]
  /\ \A s \in Sender : tx[s].sending => tx[s].pkt \in Packet
  /\ reqEvent \in [Sender -> Requests \cup {None}]
  /\ reqQueued \in [Sender -> 0 .. QueueSize]
  /\ reqStale \in [Sender -> 0 .. QueueSize]
  /\ \A s \in Sender : reqStale[s] <= reqQueued[s]

ReceiverTypeOK ==
  /\ rx \in [running : BOOLEAN, timer : {"off", "running", "expired"},
             retries : 0 .. MaxRetries]
  /\ lp \in Reception
  /\ queue \in Seq(Event) /\ Len(queue) <= QueueSize
  /\ sigEvent \in Signals \cup {None} /\ spEvent \in Subs \cup {None}
  /\ delivered \subseteq Reception

NetTypeOK ==
  /\ net \subseteq Message
  /\ signals \in [Packet -> 0 .. MaxSignals]
  /\ faults \in 0 .. MaxFaults
  /\ inits \in 0 .. MaxInits

TypeOK == SenderTypeOK /\ ReceiverTypeOK /\ NetTypeOK

Intact(r) == \A i \in r.mask : r.payload[i] = r.pkt

Whole(r) == r.mask = 0 .. Num(r.pkt) - 1 /\ r.len = PacketLen[r.pkt]

(***************************************************************************)
(* What a received bit stands for is the sub-packet of the packet asked    *)
(* for, whatever was in flight or in the static event record from earlier  *)
(* receptions.  Packet ids must be unique in the network for this.         *)
(***************************************************************************)
ReceivedIntact == Intact(lp)

\* The bytes of the sub-packets of packet p in mask.
MaskLen(p, mask) ==
  Cardinality(mask) * SubpacketMaxBytes
    - IF Num(p) - 1 \in mask THEN Num(p) * SubpacketMaxBytes - PacketLen[p] ELSE 0

(***************************************************************************)
(* lp.len counts every received sub-packet once, however often duplicates, *)
(* re-requests and overwritten event records brought it.                   *)
(***************************************************************************)
LenMatches == lp.pkt # None => lp.len = MaskLen(lp.pkt, lp.mask)

(***************************************************************************)
(* The application is told only of whole and unmixed packets.              *)
(***************************************************************************)
DeliveredWhole == \A r \in delivered : Whole(r) /\ Intact(r)

(***************************************************************************)
(* The receiver side as a whole is the abstract copy of BulkCopy.          *)
(***************************************************************************)
Copy == INSTANCE BulkCopy WITH
  Source <- Packet,
  Pieces <- [p \in Packet |-> 0 .. Num(p) - 1],
  source <- IF rx.running THEN lp.pkt ELSE None,
  copied <- IF rx.running THEN {i \in lp.mask : lp.payload[i] = lp.pkt} ELSE {},
  got <- {r.pkt : r \in delivered}
CopiesPackets == Copy!Spec

(***************************************************************************)
(* A sub-packet leaves the sender's mask only by being sent or by a newer  *)
(* request: a send the network refuses, one without a connection and an    *)
(* initialisation in the middle of a transmission lose no bit.             *)
(***************************************************************************)
NoBitLost ==
  [][\A p \in Packet : \A i \in txMask[p] \ txMask'[p] :
       \/ \E m \in net' : m.type = "sub" /\ m.pkt = p /\ m.index = i
       \/ reqQueued'[Owner[p]] < reqQueued[Owner[p]]]_vars

(***************************************************************************)
(* A reception that runs comes to an end, complete or given up: nothing    *)
(* keeps its timeout from expiring for ever.                               *)
(***************************************************************************)
ReceptionEnds == rx.running ~> ~rx.running

(***************************************************************************)
(* A transmission ends, and with it the refusal of every other one, also   *)
(* when the sender was initialised under it: the busy flag is never left   *)
(* set without a process that will clear it.                               *)
(***************************************************************************)
TransmissionEnds ==
  \A s \in Sender : (tx[s].sending \/ tx[s].busy) ~> ~(tx[s].sending \/ tx[s].busy)

(***************************************************************************)
(* The re-requests make up for sub-packets and requests that are lost, for *)
(* sub-packets overwritten before they were dispatched, for a full queue,  *)
(* for a refused send and for the events an initialisation makes stale:    *)
(* every reception that starts completes, when the timeouts are not        *)
(* premature and there are requests, the first one and the re-requests,    *)
(* for every sub-packet, every fault and every initialisation.  With       *)
(* several packets GivesUpOnlyAfterRetries says why this is not promised.  *)
(***************************************************************************)
ReceptionCompletes == rx.running ~> \E r \in delivered : r.pkt = lp.pkt

(***************************************************************************)
(* README.md:3-5, 19-22: missing sub-packets are re-requested.  A late     *)
(* sub-packet of an earlier packet ends the reception instead, with        *)
(* re-requests left.                                                       *)
(***************************************************************************)
GivesUpOnlyAfterRetries ==
  [][rx.running /\ ~rx'.running => rx.retries = 0 \/ Whole(lp')]_vars
=============================================================================
