----------------------- MODULE BulkCollectionProofs -------------------------
(***************************************************************************)
(* Safety of bulk data collection for any number of senders and packets,   *)
(* any packet and sub-packet sizes, queue size and number of retries, and  *)
(* any number of lost, duplicated and reordered messages.                  *)
(***************************************************************************)
EXTENDS BulkCollection, FiniteSetTheorems, TLAPS

-----------------------------------------------------------------------------
(***************************************************************************)
(* Sizes and masks.                                                        *)
(***************************************************************************)

\* A packet of register_tx: n - 1 full sub-packets and a last one, not empty,
\* n no more than a mask has bits; its mask has one bit for each.
LEMMA Cutting ==
  ASSUME NEW p \in Packet
  PROVE  /\ Num(p) \in 1 .. MaxSubpackets /\ PacketLen[p] \in Nat
         /\ WholeMask(Num(p)) = 0 .. Num(p) - 1 /\ WholeMask(Num(p)) \subseteq Bit
         /\ SubpacketLen(PacketLen[p], Num(p) - 1)
              = SubpacketMaxBytes - (Num(p) * SubpacketMaxBytes - PacketLen[p])
<1> DEFINE len == PacketLen[p]
           B == SubpacketMaxBytes
<1>1. len \in Nat /\ 0 < len /\ len <= B * MaxSubpackets /\ B \in Nat /\ 0 < B
      /\ MaxSubpackets \in Nat
  BY PacketAssumption, SizeAssumption DEF CanRegister
<1>2. PICK q \in Int, r \in Int : q = len \div B /\ r = len % B
  BY <1>1
<1> HIDE DEF len, B
<1>3. len = q * B + r /\ r \in 0 .. B - 1 /\ q >= 0
  BY <1>1, <1>2
<1>4. Num(p) = q + IF r # 0 THEN 1 ELSE 0
  BY <1>2 DEF Num, NumSubpackets, len, B
<1>5. Num(p) \in 1 .. MaxSubpackets
  <2>1. CASE r = 0
    <3>1. q * B <= B * MaxSubpackets /\ 0 < q * B
      BY <1>1, <1>3, <2>1
    <3>2. q <= MaxSubpackets /\ 0 < q
      BY <1>1, <1>3, <3>1
    <3> QED
      BY <1>1, <1>4, <2>1, <3>2
  <2>2. CASE r # 0
    <3>1. q * B < B * MaxSubpackets
      BY <1>1, <1>3, <2>2
    <3>2. q < MaxSubpackets
      BY <1>1, <1>3, <3>1
    <3> QED
      BY <1>1, <1>3, <1>4, <2>2, <3>2
  <2> QED
    BY <2>1, <2>2
<1>6. WholeMask(Num(p)) = 0 .. Num(p) - 1 /\ WholeMask(Num(p)) \subseteq Bit
  BY <1>1, <1>5 DEF WholeMask, LowBits, Bit
<1>7. SubpacketLen(len, Num(p) - 1) = IF r # 0 THEN r ELSE B
  BY <1>2 DEF SubpacketLen, Num, len, B
<1>8. Num(p) * B - len = IF r # 0 THEN B - r ELSE 0
  <2>1. CASE r = 0
    BY <1>1, <1>3, <1>4, <2>1
  <2>2. CASE r # 0
    <3>1. Num(p) * B = q * B + B
      BY <1>1, <1>3, <1>4, <2>2
    <3>2. q * B \in Int
      BY <1>1
    <3> QED
      BY <1>1, <1>3, <2>2, <3>1, <3>2
  <2> QED
    BY <2>1, <2>2
<1>9. SubpacketLen(len, Num(p) - 1) = B - (Num(p) * B - len)
  BY <1>1, <1>3, <1>7, <1>8
<1> QED
  BY <1>1, <1>5, <1>6, <1>9 DEF len, B

\* The length pick_next_to_send computes is never 0 nor above the maximum.
LEMMA SubpacketLenRange ==
  ASSUME NEW len \in Nat, NEW i \in Int
  PROVE  SubpacketLen(len, i) \in 1 .. SubpacketMaxBytes
<1>1. len % SubpacketMaxBytes \in 0 .. SubpacketMaxBytes - 1
  BY SizeAssumption
<1> QED
  BY <1>1, SizeAssumption DEF SubpacketLen

\* The same of every bit of a mask.
LEMMA BitLenRange ==
  ASSUME NEW len \in Nat
  PROVE  \A i \in Bit : SubpacketLen(len, i) \in 1 .. SubpacketMaxBytes
<1> SUFFICES ASSUME NEW i \in Bit PROVE SubpacketLen(len, i) \in 1 .. SubpacketMaxBytes
  OBVIOUS
<1>1. i \in Int
  BY SizeAssumption DEF Bit
<1> QED
  BY <1>1, SubpacketLenRange

\* What next_sub_packet_send hands to the network is a well-formed sub-packet.
LEMMA NextToSendTyped ==
  ASSUME NEW p \in Packet, NEW mask \in SUBSET Bit, NEW sp \in NextToSend(p, mask)
  PROVE  sp \in Subs /\ sp.index \in Bit
<1>1. PacketLen[p] \in Nat /\ 0 \in Bit /\ 0 \in 0 .. SubpacketMaxBytes
  BY PacketAssumption, SizeAssumption DEF Bit
<1>2. \A i \in Bit : SubpacketLen(PacketLen[p], i) \in 0 .. SubpacketMaxBytes
  BY <1>1, BitLenRange, SizeAssumption
<1>3. Requested(Num(p), mask) \subseteq Bit
  BY DEF Requested
<1>4. PICK i \in Bit, l \in 0 .. SubpacketMaxBytes : sp = Sub(p, i, l)
  <2>1. CASE Requested(Num(p), mask) = {}
    BY <1>1, <2>1 DEF NextToSend
  <2>2. CASE Requested(Num(p), mask) # {}
    <3>1. PICK i \in Requested(Num(p), mask) : sp = Sub(p, i, SubpacketLen(PacketLen[p], i))
      BY <2>2 DEF NextToSend, Lowest
    <3> QED
      BY <1>2, <1>3, <3>1
  <2> QED
    BY <2>1, <2>2
<1> QED
  BY <1>4 DEF Sub, Subs

\* A packet with something left to send never sends an empty sub-packet.
LEMMA NextToSendCarriesData ==
  ASSUME NEW p \in Packet, NEW mask \in SUBSET WholeMask(Num(p)), mask # {},
         NEW sp \in NextToSend(p, mask)
  PROVE  sp.len > 0
<1>1. PacketLen[p] \in Nat
  BY PacketAssumption
<1>2. \A i \in Bit : SubpacketLen(PacketLen[p], i) > 0
  BY <1>1, BitLenRange, SizeAssumption
<1>3. Requested(Num(p), mask) = mask /\ mask \subseteq Bit
  BY Cutting DEF Requested
<1>4. PICK i \in mask : sp = Sub(p, i, SubpacketLen(PacketLen[p], i))
  BY <1>3 DEF NextToSend, Lowest
<1> QED
  BY <1>2, <1>3, <1>4 DEF Sub

\* The request for missing sub-packets names sub-packets of the packet only.
LEMMA MissingMaskRange ==
  ASSUME NEW p \in Packet, NEW received
  PROVE  MissingMask(Num(p), received) \in SUBSET WholeMask(Num(p))
<1>1. Num(p) \in 1 .. MaxSubpackets /\ MaxSubpackets \in Nat
  BY Cutting, SizeAssumption
<1> QED
  BY <1>1 DEF MissingMask, WholeMask

-----------------------------------------------------------------------------
(***************************************************************************)
(* The event queue.                                                        *)
(***************************************************************************)

\* An event posted keeps the queue within its size and adds only itself.
LEMMA PostKeepsQueue ==
  ASSUME NEW e \in Event, queue \in Seq(Event), Len(queue) <= QueueSize, Post(e)
  PROVE  /\ queue' \in Seq(Event) /\ Len(queue') <= QueueSize
         /\ \A k \in 1 .. Len(queue') :
              queue'[k] = e \/ \E j \in 1 .. Len(queue) : queue'[k] = queue[j]
<1>1. CASE Len(queue) < QueueSize
  BY <1>1, BoundAssumption DEF Post
<1>2. CASE ~(Len(queue) < QueueSize)
  BY <1>2 DEF Post
<1> QED
  BY <1>1, <1>2

\* A dispatched event was in the queue, and the others remain.
LEMMA DispatchKeepsQueue ==
  ASSUME NEW e, queue \in Seq(Event), Len(queue) <= QueueSize, Dispatch(e)
  PROVE  /\ queue' \in Seq(Event) /\ Len(queue') <= QueueSize
         /\ \E j \in 1 .. Len(queue) : queue[j] = e
         /\ \A k \in 1 .. Len(queue') : \E j \in 1 .. Len(queue) : queue'[k] = queue[j]
<1>1. queue' = Tail(queue) /\ Len(queue) > 0 /\ queue[1] = e
  BY DEF Dispatch
<1>2. Len(queue') = Len(queue) - 1 /\ \A k \in 1 .. Len(queue') : queue'[k] = queue[k + 1]
  BY <1>1
<1> QED
  BY <1>1, <1>2, BoundAssumption

-----------------------------------------------------------------------------
(***************************************************************************)
(* Type correctness.  An event in the queue has its static data set, and a *)
(* reception that runs is of a packet: without these the fields the        *)
(* handlers read have no type.                                             *)
(***************************************************************************)
QueuedReady ==
  \A k \in 1 .. Len(queue) :
    /\ queue[k] = "sub" => spEvent \in Subs
    /\ queue[k] = "signal" => sigEvent \in Signals

RequestReady == \A s \in Sender : reqQueued[s] > 0 => reqEvent[s] \in Requests

ReceivesPacket == rx.running => lp.pkt \in Packet

TInv == TypeOK /\ QueuedReady /\ RequestReady /\ ReceivesPacket

\* The kind of a message is told by its header.
LEMMA MessageKinds ==
  ASSUME NEW m \in Message
  PROVE  /\ m.type = "signal" => m \in Signals
         /\ m.type = "request" => m \in Requests
         /\ m.type = "sub" => m \in Subs
BY DEF Message, Signals, Requests, Subs

LEMMA ConsumeTyped ==
  ASSUME NEW m \in net, NetTypeOK, Consume(m), UNCHANGED <<signals, inits>>
  PROVE  NetTypeOK' /\ net' \subseteq net
BY BoundAssumption DEF NetTypeOK, Consume

\* A message sent keeps the network well-formed.
LEMMA SendTyped ==
  ASSUME NEW m \in Message, NetTypeOK, net' = net \cup {m}, UNCHANGED <<signals, faults, inits>>
  PROVE  NetTypeOK'
BY DEF NetTypeOK

\* Posting an event whose data is in place keeps every queued event's in place.
LEMMA PostReady ==
  ASSUME NEW e \in Event, ReceiverTypeOK, QueuedReady, Post(e),
         spEvent' = spEvent \/ spEvent' \in Subs,
         sigEvent' = sigEvent \/ sigEvent' \in Signals,
         e = "sub" => spEvent' \in Subs, e = "signal" => sigEvent' \in Signals
  PROVE  QueuedReady' /\ queue' \in Seq(Event) /\ Len(queue') <= QueueSize
<1>1. queue \in Seq(Event) /\ Len(queue) <= QueueSize
  BY DEF ReceiverTypeOK
<1> QED
  BY <1>1, PostKeepsQueue DEF QueuedReady

LEMMA DispatchReady ==
  ASSUME NEW e, ReceiverTypeOK, QueuedReady, Dispatch(e), UNCHANGED <<sigEvent, spEvent>>
  PROVE  /\ QueuedReady' /\ queue' \in Seq(Event) /\ Len(queue') <= QueueSize
         /\ e = "sub" => spEvent \in Subs
         /\ e = "signal" => sigEvent \in Signals
<1>1. queue \in Seq(Event) /\ Len(queue) <= QueueSize
  BY DEF ReceiverTypeOK
<1> QED
  BY <1>1, DispatchKeepsQueue DEF QueuedReady

\* The same of receive_proc's own event, which may be followed by its announcement.
LEMMA DispatchSubReady ==
  ASSUME ReceiverTypeOK, QueuedReady, DispatchSub
  PROVE  QueuedReady' /\ queue' \in Seq(Event) /\ Len(queue') <= QueueSize /\ spEvent \in Subs
<1>1. /\ queue \in Seq(Event) /\ Len(queue) <= QueueSize /\ Len(queue) \in Nat /\ Len(queue) > 0
      /\ queue[1] = "sub" /\ UNCHANGED <<sigEvent, spEvent>>
  BY DEF ReceiverTypeOK, DispatchSub
<1>2. queue' = Tail(queue) \/ queue' = Append(Tail(queue), "received")
  BY DEF DispatchSub, Discard, Collect
<1>3. /\ Tail(queue) \in Seq(Event) /\ Len(Tail(queue)) = Len(queue) - 1
      /\ \A k \in 1 .. Len(Tail(queue)) : Tail(queue)[k] = queue[k + 1]
  BY <1>1
<1>4. CASE queue' = Tail(queue)
  BY <1>1, <1>3, <1>4, BoundAssumption DEF QueuedReady
<1>5. CASE queue' = Append(Tail(queue), "received")
  <2>1. /\ queue' \in Seq(Event) /\ Len(queue') = Len(queue)
        /\ \A k \in 1 .. Len(queue') :
             queue'[k] = "received" \/ \E j \in 1 .. Len(queue) : queue'[k] = queue[j]
    <3> DEFINE t == Tail(queue)
    <3>1. t \in Seq(Event) /\ Len(t) \in Nat /\ Len(t) + 1 = Len(queue) /\ "received" \in Event
      BY <1>1, <1>3 DEF Event
    <3>2. \A k \in 1 .. Len(t) : \E j \in 1 .. Len(queue) : t[k] = queue[j]
      BY <1>1, <1>3
    <3>3. queue' = Append(t, "received")
      BY <1>5
    <3> HIDE DEF t
    <3>4. /\ queue' \in Seq(Event) /\ Len(queue') = Len(t) + 1
          /\ \A k \in 1 .. Len(t) + 1 : queue'[k] = IF k <= Len(t) THEN t[k] ELSE "received"
      BY <3>1, <3>3
    <3> QED
      BY <3>1, <3>2, <3>4
  <2> QED
    BY <1>1, <2>1 DEF QueuedReady
<1> QED
  BY <1>2, <1>4, <1>5

LEMMA InitTInv == Init => TInv
<1> SUFFICES ASSUME Init PROVE TInv
  OBVIOUS
<1>1. SenderTypeOK /\ RequestReady
  BY BoundAssumption, PacketAssumption DEF Init, SenderTypeOK, RequestReady, Transmission
<1>2. ReceiverTypeOK /\ QueuedReady /\ ReceivesPacket
  BY BoundAssumption
     DEF Init, ReceiverTypeOK, QueuedReady, ReceivesPacket, Reception, EmptyPayload
<1>3. NetTypeOK
  BY BoundAssumption DEF Init, NetTypeOK
<1> QED
  BY <1>1, <1>2, <1>3 DEF TInv, TypeOK

\* The network and the UDP callbacks keep the types.
LEMMA NetworkTInv ==
  ASSUME TInv, Lose \/ DeliverSignal \/ DeliverSub \/ DeliverRequest
               \/ \E p \in Packet : AppSignal(p)
  PROVE  TInv'
<1> USE DEF TInv, TypeOK
<1>1. CASE Lose
  BY <1>1, BoundAssumption
     DEF Lose, senderVars, receiverVars, eventVars, SenderTypeOK, ReceiverTypeOK, NetTypeOK,
         QueuedReady, RequestReady, ReceivesPacket
<1>2. CASE DeliverSignal
  <2>1. PICK m \in net : m.type = "signal" /\ Consume(m) /\ sigEvent' = m
    BY <1>2 DEF DeliverSignal
  <2>2. m \in Signals
    BY <2>1, MessageKinds DEF NetTypeOK
  <2>3. NetTypeOK'
    BY <1>2, <2>1, ConsumeTyped DEF DeliverSignal
  <2>4. QueuedReady' /\ queue' \in Seq(Event) /\ Len(queue') <= QueueSize
    BY <1>2, <2>1, <2>2, PostReady DEF DeliverSignal, Event
  <2> QED
    BY <1>2, <2>1, <2>2, <2>3, <2>4
       DEF DeliverSignal, senderVars, SenderTypeOK, ReceiverTypeOK, RequestReady, ReceivesPacket
<1>3. CASE DeliverSub
  <2>1. PICK m \in net : m.type = "sub" /\ Consume(m) /\ spEvent' = m
    BY <1>3 DEF DeliverSub
  <2>2. m \in Subs
    BY <2>1, MessageKinds DEF NetTypeOK
  <2>3. NetTypeOK'
    BY <1>3, <2>1, ConsumeTyped DEF DeliverSub
  <2>4. QueuedReady' /\ queue' \in Seq(Event) /\ Len(queue') <= QueueSize
    BY <1>3, <2>1, <2>2, PostReady DEF DeliverSub, Event
  <2> QED
    BY <1>3, <2>1, <2>2, <2>3, <2>4
       DEF DeliverSub, senderVars, SenderTypeOK, ReceiverTypeOK, RequestReady, ReceivesPacket
<1>4. CASE DeliverRequest
  <2>1. PICK m \in net :
          /\ m.type = "request" /\ Consume(m)
          /\ \/ /\ reqEvent' = [reqEvent EXCEPT ![Owner[m.pkt]] = m]
                /\ reqQueued' = [reqQueued EXCEPT
                     ![Owner[m.pkt]] = IF @ < QueueSize THEN @ + 1 ELSE @]
             \/ UNCHANGED <<reqEvent, reqQueued>>
    BY <1>4 DEF DeliverRequest
  <2>2. m \in Requests
    BY <2>1, MessageKinds DEF NetTypeOK
  <2>3. NetTypeOK'
    BY <1>4, <2>1, ConsumeTyped DEF DeliverRequest
  <2>4. CASE UNCHANGED <<reqEvent, reqQueued>>
    BY <1>4, <2>3, <2>4
       DEF DeliverRequest, SenderTypeOK, RequestReady, receiverVars, eventVars, ReceiverTypeOK,
           QueuedReady, ReceivesPacket
  <2>5. CASE /\ reqEvent' = [reqEvent EXCEPT ![Owner[m.pkt]] = m]
             /\ reqQueued' = [reqQueued EXCEPT
                  ![Owner[m.pkt]] = IF @ < QueueSize THEN @ + 1 ELSE @]
    <3> DEFINE o == Owner[m.pkt]
    <3>1. o \in Sender
      BY <2>2, PacketAssumption DEF Requests
    <3>2. reqEvent' \in [Sender -> Requests \cup {None}] /\ reqEvent'[o] = m
      BY <2>2, <2>5, <3>1 DEF SenderTypeOK
    <3>3. /\ reqQueued' \in [Sender -> 0 .. QueueSize]
          /\ \A s \in Sender : reqQueued[s] <= reqQueued'[s]
      BY <2>5, <3>1, BoundAssumption DEF SenderTypeOK
    <3>4. \A s \in Sender : s # o => reqQueued'[s] = reqQueued[s] /\ reqEvent'[s] = reqEvent[s]
      BY <2>5, <3>1 DEF SenderTypeOK
    <3>5. RequestReady'
      BY <2>2, <3>2, <3>4 DEF RequestReady
    <3>6. reqStale' = reqStale /\ \A s \in Sender : reqStale[s] <= reqQueued'[s]
      BY <1>4, <3>3, BoundAssumption DEF DeliverRequest, SenderTypeOK
    <3>7. SenderTypeOK'
      BY <1>4, <3>2, <3>3, <3>6 DEF DeliverRequest, SenderTypeOK
    <3> QED
      BY <1>4, <2>3, <3>5, <3>7
         DEF DeliverRequest, receiverVars, eventVars, ReceiverTypeOK, QueuedReady, ReceivesPacket
  <2> QED
    BY <2>1, <2>4, <2>5
<1>5. ASSUME NEW p \in Packet, AppSignal(p) PROVE TInv'
  <2>1. Signal(p) \in Message
    BY DEF Signal, Message, Signals
  <2>2. NetTypeOK'
    <3>1. net' \subseteq Message /\ faults' \in 0 .. MaxFaults
      BY <1>5, <2>1 DEF AppSignal, NetTypeOK
    <3>2. signals[p] + 1 \in 0 .. MaxSignals
      BY <1>5, BoundAssumption DEF AppSignal, NetTypeOK
    <3>3. signals' \in [Packet -> 0 .. MaxSignals]
      BY <1>5, <3>2 DEF AppSignal, NetTypeOK
    <3>4. inits' \in 0 .. MaxInits
      BY <1>5 DEF AppSignal, NetTypeOK
    <3> QED
      BY <3>1, <3>3, <3>4 DEF NetTypeOK
  <2> QED
    BY <1>5, <2>2
       DEF AppSignal, senderVars, receiverVars, eventVars, SenderTypeOK, ReceiverTypeOK,
           QueuedReady, RequestReady, ReceivesPacket
<1> QED
  BY <1>1, <1>2, <1>3, <1>4, <1>5

\* A change of one sender's process that keeps it a transmission of a packet.
LEMMA TransmissionTyped ==
  ASSUME SenderTypeOK, NEW s \in Sender, NEW t \in Transmission,
         t.sending => t.pkt \in Packet, tx' = [tx EXCEPT ![s] = t]
  PROVE  /\ tx' \in [Sender -> Transmission]
         /\ \A r \in Sender : tx'[r].sending => tx'[r].pkt \in Packet
<1>1. tx' \in [Sender -> Transmission]
  BY DEF SenderTypeOK
<1>2. tx'[s] = t /\ \A r \in Sender : r # s => tx'[r] = tx[r]
  BY DEF SenderTypeOK
<1> QED
  BY <1>1, <1>2 DEF SenderTypeOK

\* send_proc has ended.
LEMMA IdleTyped ==
  ASSUME SenderTypeOK, NEW s \in Sender, Idle(s)
  PROVE  /\ tx' \in [Sender -> Transmission]
         /\ \A r \in Sender : tx'[r].sending => tx'[r].pkt \in Packet
<1> DEFINE t == [tx[s] EXCEPT !.sending = FALSE, !.busy = FALSE]
<1>1. tx[s] \in Transmission
  BY DEF SenderTypeOK
<1>2. t \in Transmission /\ ~t.sending
  BY <1>1 DEF Transmission
<1>3. tx' = [tx EXCEPT ![s] = t]
  BY DEF Idle, SenderTypeOK
<1> HIDE DEF t
<1> QED
  BY <1>2, <1>3, TransmissionTyped

\* One sub-packet handed to the network, or refused by it.
LEMMA SendNextTyped ==
  ASSUME TInv, NEW s \in Sender, NEW p \in Packet, NEW mask \in SUBSET Bit,
         SendNext(s, p, mask), UNCHANGED <<signals, inits>>
  PROVE  /\ NetTypeOK'
         /\ txMask' \in [Packet -> SUBSET Bit]
         /\ tx' \in [Sender -> Transmission]
         /\ \A r \in Sender : tx'[r].sending => tx'[r].pkt \in Packet
<1> USE DEF TInv, TypeOK
<1>1. PICK sp \in NextToSend(p, mask) :
        \/ /\ net' = net \cup {sp}
           /\ txMask' = [txMask EXCEPT ![p] = mask \ {sp.index}]
           /\ Sending(s, p, TRUE)
           /\ UNCHANGED faults
        \/ /\ Refuse(s)
           /\ txMask' = [txMask EXCEPT ![p] = mask]
           /\ Sending(s, p, FALSE)
  BY DEF SendNext
<1>2. sp \in Message
  BY NextToSendTyped DEF Message
<1>3. NetTypeOK'
  <2>1. net' \subseteq Message
    BY <1>1, <1>2 DEF NetTypeOK, Refuse
  <2>2. faults' = faults \/ (faults > 0 /\ faults' = faults - 1)
    BY <1>1 DEF Refuse
  <2>3. faults' \in 0 .. MaxFaults
    BY <2>2, BoundAssumption DEF NetTypeOK
  <2> QED
    BY <2>1, <2>3 DEF NetTypeOK
<1>4. txMask' \in [Packet -> SUBSET Bit]
  BY <1>1 DEF SenderTypeOK
<1>5. PICK ok \in BOOLEAN : Sending(s, p, ok)
  BY <1>1
<1> DEFINE t == [tx[s] EXCEPT !.sending = TRUE, !.busy = TRUE, !.pkt = p, !.ok = ok]
<1>6. tx[s] \in Transmission
  BY DEF SenderTypeOK
<1>7. t \in Transmission /\ t.pkt \in Packet
  BY <1>6 DEF Transmission
<1>8. tx' = [tx EXCEPT ![s] = t]
  BY <1>5 DEF Sending, SenderTypeOK
<1> HIDE DEF t
<1>9. /\ tx' \in [Sender -> Transmission]
      /\ \A r \in Sender : tx'[r].sending => tx'[r].pkt \in Packet
  BY <1>7, <1>8, TransmissionTyped
<1> QED
  BY <1>3, <1>4, <1>9

\* A request event taken from the queue of a sender.
LEMMA TakenTyped ==
  ASSUME SenderTypeOK, RequestReady, NEW s \in Sender, reqQueued[s] > 0, UNCHANGED reqEvent,
         reqQueued' = [reqQueued EXCEPT ![s] = @ - 1],
         \/ reqStale[s] = 0 /\ UNCHANGED reqStale
         \/ reqStale[s] > 0 /\ reqStale' = [reqStale EXCEPT ![s] = @ - 1]
  PROVE  /\ reqQueued' \in [Sender -> 0 .. QueueSize] /\ reqStale' \in [Sender -> 0 .. QueueSize]
         /\ \A r \in Sender : reqStale'[r] <= reqQueued'[r]
         /\ RequestReady'
<1>1. /\ reqQueued \in [Sender -> 0 .. QueueSize] /\ reqStale \in [Sender -> 0 .. QueueSize]
      /\ \A r \in Sender : reqStale[r] <= reqQueued[r]
  BY DEF SenderTypeOK
<1>2. reqQueued' \in [Sender -> 0 .. QueueSize] /\ reqQueued'[s] = reqQueued[s] - 1
  BY <1>1, BoundAssumption
<1>3. reqStale' \in [Sender -> 0 .. QueueSize] /\ reqStale'[s] <= reqQueued'[s]
  BY <1>1, <1>2, BoundAssumption
<1>4. \A r \in Sender : r # s => reqQueued'[r] = reqQueued[r] /\ reqStale'[r] = reqStale[r]
  BY <1>1
<1>5. \A r \in Sender : reqStale'[r] <= reqQueued'[r]
  BY <1>1, <1>3, <1>4
<1>6. RequestReady'
  BY <1>4 DEF RequestReady
<1> QED
  BY <1>2, <1>3, <1>5, <1>6

\* init() at a sender keeps the types.
LEMMA SenderInitTInv ==
  ASSUME TInv, NEW s \in Sender, SenderInit(s)
  PROVE  TInv'
<1> USE DEF TInv, TypeOK
<1>1. PICK busy \in BOOLEAN, open \in BOOLEAN :
        tx' = [tx EXCEPT ![s] = [tx[s] EXCEPT !.busy = busy, !.open = open]]
  <2>1. tx[s] \in Transmission /\ tx \in [Sender -> Transmission]
    BY DEF SenderTypeOK
  <2>2. CASE tx' = [tx EXCEPT ![s].busy = FALSE, ![s].open = TRUE]
    BY <2>1, <2>2
  <2>3. CASE tx' = [tx EXCEPT ![s].open = FALSE]
    <3>1. tx[s].busy \in BOOLEAN
      BY <2>1 DEF Transmission
    <3>2. [tx[s] EXCEPT !.busy = tx[s].busy, !.open = FALSE] = [tx[s] EXCEPT !.open = FALSE]
      BY <2>1 DEF Transmission
    <3> QED
      BY <2>1, <2>3, <3>1, <3>2
  <2> QED
    BY <2>2, <2>3 DEF SenderInit
<1> DEFINE t == [tx[s] EXCEPT !.busy = busy, !.open = open]
<1>2. tx[s] \in Transmission /\ (tx[s].sending => tx[s].pkt \in Packet)
  BY DEF SenderTypeOK
<1>3. t \in Transmission /\ (t.sending => t.pkt \in Packet)
  BY <1>2 DEF Transmission
<1>4. tx' = [tx EXCEPT ![s] = t]
  BY <1>1
<1> HIDE DEF t
<1>5. /\ tx' \in [Sender -> Transmission]
      /\ \A r \in Sender : tx'[r].sending => tx'[r].pkt \in Packet
  BY <1>3, <1>4, TransmissionTyped
<1>6. /\ reqStale' \in [Sender -> 0 .. QueueSize]
      /\ \A r \in Sender : reqStale'[r] <= reqQueued[r]
  <2>1. reqStale' = reqStale \/ reqStale' = [reqStale EXCEPT ![s] = reqQueued[s]]
    BY DEF SenderInit
  <2> QED
    BY <2>1, BoundAssumption DEF SenderTypeOK
<1>7. NetTypeOK'
  <2>1. faults' = faults \/ (faults > 0 /\ faults' = faults - 1)
    BY DEF SenderInit
  <2>2. faults' \in 0 .. MaxFaults /\ inits' \in 0 .. MaxInits
    BY <2>1, BoundAssumption DEF SenderInit, NetTypeOK
  <2> QED
    BY <2>2 DEF SenderInit, NetTypeOK
<1>8. SenderTypeOK' /\ RequestReady'
  BY <1>5, <1>6 DEF SenderInit, SenderTypeOK, RequestReady
<1> QED
  BY <1>7, <1>8
     DEF SenderInit, receiverVars, eventVars, ReceiverTypeOK, QueuedReady, ReceivesPacket

\* The sender's application and its process keep the types.
LEMMA SenderTInv ==
  ASSUME TInv, NEW s \in Sender, SenderDispatch(s) \/ SenderDispatchStale(s) \/ SenderTick(s)
  PROVE  TInv'
<1> USE DEF TInv, TypeOK
<1>1. CASE SenderDispatch(s)
  <2> DEFINE p == reqEvent[s].pkt
             mask == reqEvent[s].mask
  <2>1. p \in Packet /\ mask \in SUBSET Bit
    BY <1>1 DEF SenderDispatch, RequestReady, Requests
  <2>2. /\ reqQueued' \in [Sender -> 0 .. QueueSize] /\ reqStale' \in [Sender -> 0 .. QueueSize]
        /\ \A r \in Sender : reqStale'[r] <= reqQueued'[r]
        /\ RequestReady'
    BY <1>1, TakenTyped DEF SenderDispatch
  <2>3. /\ NetTypeOK'
        /\ txMask' \in [Packet -> SUBSET Bit]
        /\ tx' \in [Sender -> Transmission]
        /\ \A r \in Sender : tx'[r].sending => tx'[r].pkt \in Packet
    <3>1. CASE tx[s].busy \/ mask = {}
      <4>1. UNCHANGED tx \/ Idle(s)
        BY <1>1, <3>1 DEF SenderDispatch
      <4>2. /\ tx' \in [Sender -> Transmission]
            /\ \A r \in Sender : tx'[r].sending => tx'[r].pkt \in Packet
        BY <4>1, IdleTyped DEF SenderTypeOK
      <4> QED
        BY <1>1, <2>1, <3>1, <4>2 DEF SenderDispatch, SenderTypeOK, NetTypeOK
    <3>2. CASE ~(tx[s].busy \/ mask = {})
      <4>1. SendNext(s, p, mask) /\ UNCHANGED <<signals, inits>>
        BY <1>1, <3>2 DEF SenderDispatch
      <4> QED
        BY <2>1, <4>1, SendNextTyped
    <3> QED
      BY <3>1, <3>2
  <2>4. SenderTypeOK'
    BY <1>1, <2>2, <2>3 DEF SenderDispatch, SenderTypeOK
  <2> QED
    BY <1>1, <2>2, <2>3, <2>4
       DEF SenderDispatch, receiverVars, eventVars, ReceiverTypeOK, QueuedReady, ReceivesPacket
<1>2. CASE SenderTick(s)
  <2> DEFINE p == tx[s].pkt
  <2>1. p \in Packet /\ txMask[p] \in SUBSET Bit
    BY <1>2 DEF SenderTick, SenderTypeOK
  <2>2. /\ NetTypeOK'
        /\ txMask' \in [Packet -> SUBSET Bit]
        /\ tx' \in [Sender -> Transmission]
        /\ \A r \in Sender : tx'[r].sending => tx'[r].pkt \in Packet
    <3>1. CASE txMask[p] # {} /\ tx[s].ok
      <4>1. SendNext(s, p, txMask[p]) /\ UNCHANGED <<signals, inits>>
        BY <1>2, <3>1 DEF SenderTick
      <4> QED
        BY <2>1, <4>1, SendNextTyped
    <3>2. CASE ~(txMask[p] # {} /\ tx[s].ok)
      <4>1. Idle(s) /\ UNCHANGED <<txMask, net, faults, signals, inits>>
        BY <1>2, <3>2 DEF SenderTick
      <4> QED
        BY <4>1, IdleTyped DEF SenderTypeOK, NetTypeOK
    <3> QED
      BY <3>1, <3>2
  <2>3. SenderTypeOK'
    BY <1>2, <2>2 DEF SenderTick, SenderTypeOK
  <2> QED
    BY <1>2, <2>2, <2>3
       DEF SenderTick, RequestReady, receiverVars, eventVars, ReceiverTypeOK, QueuedReady,
           ReceivesPacket
<1>3. CASE SenderDispatchStale(s)
  <2>1. reqQueued[s] > 0
    BY <1>3, BoundAssumption DEF SenderDispatchStale, SenderTypeOK
  <2>2. /\ reqQueued' \in [Sender -> 0 .. QueueSize] /\ reqStale' \in [Sender -> 0 .. QueueSize]
        /\ \A r \in Sender : reqStale'[r] <= reqQueued'[r]
        /\ RequestReady'
    BY <1>3, <2>1, TakenTyped DEF SenderDispatchStale
  <2>3. SenderTypeOK' /\ NetTypeOK'
    BY <1>3, <2>2 DEF SenderDispatchStale, SenderTypeOK, NetTypeOK
  <2> QED
    BY <1>3, <2>2, <2>3
       DEF SenderDispatchStale, receiverVars, eventVars, ReceiverTypeOK, QueuedReady,
           ReceivesPacket
<1> QED
  BY <1>1, <1>2, <1>3

\* A timeout of receive_proc: a re-request of what is missing, or its exit.
LEMMA TimeOutTyped ==
  ASSUME TInv, rx.running, TimeOut, UNCHANGED <<signals, faults, inits, lp>>
  PROVE  /\ NetTypeOK' /\ ReceivesPacket'
         /\ rx' \in [running : BOOLEAN, timer : {"off", "running", "expired"},
                     retries : 0 .. MaxRetries]
<1> USE DEF TInv, TypeOK
<1>1. lp.pkt \in Packet
  BY DEF ReceivesPacket
<1>2. CASE rx.retries > 0
  <2>1. Request(lp.pkt, MissingMask(Num(lp.pkt), lp.mask)) \in Message
    BY <1>1 DEF Request, MissingMask, Message, Requests
  <2>2. /\ net' = net \cup {Request(lp.pkt, MissingMask(Num(lp.pkt), lp.mask))}
        /\ rx' = [rx EXCEPT !.timer = "running", !.retries = @ - 1]
    BY <1>2 DEF TimeOut
  <2>3. rx.retries - 1 \in 0 .. MaxRetries
    BY <1>2, BoundAssumption DEF ReceiverTypeOK
  <2>4. rx' = [running |-> rx.running, timer |-> "running", retries |-> rx.retries - 1]
    BY <2>2 DEF ReceiverTypeOK
  <2> QED
    BY <1>1, <2>1, <2>2, <2>3, <2>4 DEF NetTypeOK, ReceivesPacket, ReceiverTypeOK
<1>3. CASE ~(rx.retries > 0)
  BY <1>1, <1>3 DEF TimeOut, Exit, NetTypeOK, ReceivesPacket, ReceiverTypeOK
<1> QED
  BY <1>2, <1>3

LEMMA BeginTyped ==
  ASSUME TInv, NEW p \in Packet, Begin(p), UNCHANGED <<signals, faults, inits>>
  PROVE  /\ NetTypeOK' /\ ReceivesPacket' /\ lp' \in Reception
         /\ rx' \in [running : BOOLEAN, timer : {"off", "running", "expired"},
                     retries : 0 .. MaxRetries]
<1>1. PICK mask \in {WholeMask(Num(p))} \cup AppMasks : net' = net \cup {Request(p, mask)}
  BY DEF Begin
<1>2. Request(p, mask) \in Message
  BY BoundAssumption, Cutting DEF Request, Message, Requests
<1>3. NetTypeOK'
  BY <1>1, <1>2 DEF TInv, TypeOK, NetTypeOK
<1>4. lp' \in Reception
  BY DEF Begin, Reception, EmptyPayload
<1> QED
  BY <1>3, <1>4, BoundAssumption DEF Begin, ReceivesPacket

\* What receive_proc makes of a sub-packet has the right types.
LEMMA CollectTyped ==
  ASSUME TInv, rx.running, NEW m \in Subs, Discard \/ (Collect(m) /\ UNCHANGED faults)
  PROVE  /\ lp' \in Reception /\ delivered' \subseteq Reception
         /\ faults' \in 0 .. MaxFaults /\ lp'.pkt = lp.pkt
         /\ rx' \in [running : BOOLEAN, timer : {"off", "running", "expired"},
                     retries : 0 .. MaxRetries]
<1> USE DEF TInv, TypeOK
<1>1. Store(m) \in Reception /\ Store(m).pkt = lp.pkt
  <2>1. lp \in Reception /\ m.index \in Bit /\ m.len \in 0 .. SubpacketMaxBytes /\ m.pkt \in Packet
    BY DEF ReceiverTypeOK, Subs
  <2>2. lp.len + m.len \in Nat
    BY <2>1, SizeAssumption DEF Reception
  <2>3. [lp.payload EXCEPT ![m.index] = IF m.len > 0 THEN m.pkt ELSE @]
          \in [Bit -> Packet \cup {None}]
    BY <2>1 DEF Reception
  <2> QED
    BY <2>1, <2>2, <2>3 DEF Store, Reception
<1>2. faults' \in 0 .. MaxFaults
  BY BoundAssumption DEF Discard, Collect, NetTypeOK
<1>3. lp' \in {lp, Store(m)} /\ delivered' \subseteq delivered \cup {Store(m)}
  BY DEF Discard, Collect
<1>4. rx' = [rx EXCEPT !.running = FALSE, !.timer = "off"] \/ rx' = [rx EXCEPT !.timer = "running"]
  BY DEF Discard, Collect, Exit, Restart
<1>5. rx' \in [running : BOOLEAN, timer : {"off", "running", "expired"}, retries : 0 .. MaxRetries]
  BY <1>4 DEF ReceiverTypeOK
<1> QED
  BY <1>1, <1>2, <1>3, <1>5 DEF ReceiverTypeOK

LEMMA TimerTInv ==
  ASSUME TInv, TimerExpires \/ DispatchTimer
  PROVE  TInv'
<1> USE DEF TInv, TypeOK
<1>1. CASE TimerExpires
  <2>1. QueuedReady' /\ queue' \in Seq(Event) /\ Len(queue') <= QueueSize
    BY <1>1, PostReady DEF TimerExpires, Event
  <2>2. rx' \in [running : BOOLEAN, timer : {"off", "running", "expired"}, retries : 0 .. MaxRetries]
    BY <1>1 DEF TimerExpires, ReceiverTypeOK
  <2>3. rx'.running = rx.running
    BY <1>1 DEF TimerExpires, ReceiverTypeOK
  <2> QED
    BY <1>1, <2>1, <2>2, <2>3
       DEF TimerExpires, senderVars, SenderTypeOK, ReceiverTypeOK, NetTypeOK, RequestReady,
           ReceivesPacket
<1>2. CASE DispatchTimer
  <2>1. QueuedReady' /\ queue' \in Seq(Event) /\ Len(queue') <= QueueSize
    <3>1. ASSUME NEW e, Dispatch(e)
          PROVE  QueuedReady' /\ queue' \in Seq(Event) /\ Len(queue') <= QueueSize
      BY <1>2, <3>1, DispatchReady DEF DispatchTimer
    <3> QED
      BY <1>2, <3>1 DEF DispatchTimer
  <2>2. /\ NetTypeOK' /\ ReceivesPacket'
        /\ rx' \in [running : BOOLEAN, timer : {"off", "running", "expired"},
                    retries : 0 .. MaxRetries]
    <3>1. CASE Expired
      BY <1>2, <3>1, TimeOutTyped DEF DispatchTimer, Expired
    <3>2. CASE ~Expired
      BY <1>2, <3>2 DEF DispatchTimer, NetTypeOK, ReceivesPacket, ReceiverTypeOK
    <3> QED
      BY <3>1, <3>2
  <2> QED
    BY <1>2, <2>1, <2>2
       DEF DispatchTimer, senderVars, SenderTypeOK, ReceiverTypeOK, RequestReady
<1> QED
  BY <1>1, <1>2

\* init() at the receiver renumbers the events in the queue.
LEMMA ReceiverInitTInv ==
  ASSUME TInv, ReceiverInit
  PROVE  TInv'
<1> USE DEF TInv, TypeOK
<1>1. queue \in Seq(Event) /\ Len(queue) \in Nat /\ Len(queue) <= QueueSize
  BY DEF ReceiverTypeOK
<1>2. queue' = [k \in 1 .. Len(queue) |-> IF queue[k] = "timer" THEN "timer" ELSE "stale"]
  BY DEF ReceiverInit
<1>3. queue' \in Seq(Event) /\ Len(queue') = Len(queue)
  BY <1>1, <1>2 DEF Event
<1>4. \A k \in 1 .. Len(queue') : queue'[k] \in {"timer", "stale"}
  BY <1>2, <1>3
<1>5. QueuedReady'
  BY <1>4 DEF QueuedReady
<1>6. NetTypeOK'
  BY BoundAssumption DEF ReceiverInit, NetTypeOK
<1> QED
  BY <1>1, <1>3, <1>5, <1>6
     DEF ReceiverInit, senderVars, SenderTypeOK, ReceiverTypeOK, RequestReady, ReceivesPacket

LEMMA DispatchTInv ==
  ASSUME TInv, DispatchSignal \/ DispatchSub
  PROVE  TInv'
<1> USE DEF TInv, TypeOK
<1>1. CASE DispatchSignal
  <2>1. /\ QueuedReady' /\ queue' \in Seq(Event) /\ Len(queue') <= QueueSize
        /\ sigEvent \in Signals
    BY <1>1, DispatchReady DEF DispatchSignal
  <2>2. /\ NetTypeOK' /\ ReceivesPacket' /\ lp' \in Reception
        /\ rx' \in [running : BOOLEAN, timer : {"off", "running", "expired"},
                    retries : 0 .. MaxRetries]
    <3>1. CASE ~rx.running \/ (Expired /\ rx.retries = 0)
      <4>1. sigEvent.pkt \in Packet /\ Begin(sigEvent.pkt) /\ UNCHANGED <<signals, faults, inits>>
        BY <1>1, <2>1, <3>1 DEF DispatchSignal, Signals, Expired
      <4> QED
        BY <4>1, BeginTyped
    <3>2. CASE rx.running /\ Expired /\ rx.retries > 0
      <4>1. TimeOut /\ UNCHANGED <<lp, signals, faults, inits>>
        BY <1>1, <3>2 DEF DispatchSignal, Expired
      <4> QED
        BY <3>2, <4>1, TimeOutTyped DEF ReceiverTypeOK
    <3>3. CASE rx.running /\ ~Expired
      BY <1>1, <3>3 DEF DispatchSignal, NetTypeOK, ReceivesPacket, ReceiverTypeOK
    <3>4. rx.retries = 0 \/ rx.retries > 0
      BY DEF ReceiverTypeOK
    <3> QED
      BY <3>1, <3>2, <3>3, <3>4
  <2> QED
    BY <1>1, <2>1, <2>2
       DEF DispatchSignal, senderVars, SenderTypeOK, ReceiverTypeOK, RequestReady
<1>2. CASE DispatchSub
  <2>1. /\ QueuedReady' /\ queue' \in Seq(Event) /\ Len(queue') <= QueueSize
        /\ spEvent \in Subs
    BY <1>2, DispatchSubReady
  <2>2. /\ NetTypeOK' /\ ReceivesPacket' /\ lp' \in Reception /\ delivered' \subseteq Reception
        /\ rx' \in [running : BOOLEAN, timer : {"off", "running", "expired"},
                    retries : 0 .. MaxRetries]
    <3>1. CASE rx.running /\ ~Expired
      <4>1. /\ Discard \/ (Collect(spEvent) /\ UNCHANGED faults)
            /\ UNCHANGED <<net, signals, inits>>
        BY <1>2, <3>1 DEF DispatchSub
      <4> QED
        BY <2>1, <3>1, <4>1, CollectTyped DEF NetTypeOK, ReceivesPacket
    <3>2. CASE Expired
      BY <1>2, <3>2, TimeOutTyped DEF DispatchSub, Expired, ReceiverTypeOK
    <3>3. CASE ~rx.running
      BY <1>2, <3>3 DEF DispatchSub, Expired, NetTypeOK, ReceivesPacket, ReceiverTypeOK
    <3> QED
      BY <3>1, <3>2, <3>3
  <2> QED
    BY <1>2, <2>1, <2>2
       DEF DispatchSub, senderVars, SenderTypeOK, ReceiverTypeOK, RequestReady
<1> QED
  BY <1>1, <1>2

LEMMA NextTInv == TInv /\ [Next]_vars => TInv'
<1> SUFFICES ASSUME TInv, [Next]_vars PROVE TInv'
  OBVIOUS
<1>1. CASE Next
  BY <1>1, NetworkTInv, SenderInitTInv, SenderTInv, ReceiverInitTInv, TimerTInv, DispatchTInv
     DEF Next
<1>2. CASE UNCHANGED vars
  BY <1>2
     DEF vars, senderVars, receiverVars, eventVars, TInv, TypeOK, SenderTypeOK, ReceiverTypeOK,
         NetTypeOK, QueuedReady, RequestReady, ReceivesPacket
<1> QED
  BY <1>1, <1>2

THEOREM TypedInvariance == Spec => []TInv
BY InitTInv, NextTInv, PTL DEF Spec

(***************************************************************************)
(* Types, for every instance: no event queue outgrows its size, lp.len     *)
(* stays a sum of lengths, and no handler reads event data that is unset.  *)
(***************************************************************************)
THEOREM TypeCorrect == Spec => []TypeOK
BY TypedInvariance, PTL DEF TInv

-----------------------------------------------------------------------------
(***************************************************************************)
(* Content.  The toolkit tells packets apart by their ids alone and never  *)
(* checks that a requested bit is one of the packet's.  What it promises   *)
(* of the content rests on these two conditions on the applications.       *)
(***************************************************************************)
UniqueIds == \A p, q \in Packet : PacketId[p] = PacketId[q] => p = q

MasksInRange == \A mask \in AppMasks, p \in Packet : mask \subseteq WholeMask(Num(p))

\* A new sub-packet adds its length to the bytes of a mask.
LEMMA MaskLenStep ==
  ASSUME NEW p \in Packet, NEW mask \in SUBSET Bit, NEW i \in WholeMask(Num(p)), i \notin mask
  PROVE  MaskLen(p, mask \cup {i}) = MaskLen(p, mask) + SubpacketLen(PacketLen[p], i)
<1> DEFINE n == Cardinality(mask)
           short == Num(p) * SubpacketMaxBytes - PacketLen[p]
<1>1. IsFiniteSet(mask)
  <2>1. 0 \in Int /\ MaxSubpackets - 1 \in Int
    BY SizeAssumption
  <2>2. IsFiniteSet(Bit)
    BY <2>1, FS_Interval DEF Bit
  <2> QED
    BY <2>2, FS_Subset
<1>2. n \in Nat /\ Cardinality(mask \cup {i}) = n + 1
  BY <1>1, FS_CardinalityType, FS_AddElement
<1>3. short \in Int /\ SubpacketMaxBytes \in Nat
  BY Cutting, SizeAssumption
<1>4. (n + 1) * SubpacketMaxBytes = n * SubpacketMaxBytes + SubpacketMaxBytes
      /\ n * SubpacketMaxBytes \in Int
  BY <1>2, <1>3
<1>5. CASE i = Num(p) - 1
  <2>1. MaskLen(p, mask) = n * SubpacketMaxBytes - 0
    BY <1>5 DEF MaskLen
  <2>2. MaskLen(p, mask \cup {i}) = (n + 1) * SubpacketMaxBytes - short
    BY <1>2, <1>5 DEF MaskLen
  <2>3. SubpacketLen(PacketLen[p], i) = SubpacketMaxBytes - short
    BY <1>5, Cutting
  <2> HIDE DEF n, short
  <2> QED
    BY <1>2, <1>3, <1>4, <2>1, <2>2, <2>3
<1>6. CASE i # Num(p) - 1
  <2> DEFINE less == IF Num(p) - 1 \in mask THEN short ELSE 0
  <2>1. MaskLen(p, mask) = n * SubpacketMaxBytes - less
    BY DEF MaskLen
  <2>2. MaskLen(p, mask \cup {i}) = (n + 1) * SubpacketMaxBytes - less
    BY <1>2, <1>6 DEF MaskLen
  <2>3. SubpacketLen(PacketLen[p], i) = SubpacketMaxBytes
    BY <1>6 DEF SubpacketLen, Num
  <2>4. less \in Int
    BY <1>3
  <2> HIDE DEF n, short, less
  <2> QED
    BY <1>2, <1>3, <1>4, <2>1, <2>2, <2>3, <2>4
<1> QED
  BY <1>5, <1>6

\* Nothing received is no bytes, and all sub-packets are the whole packet.
LEMMA MaskLenEnds ==
  ASSUME NEW p \in Packet
  PROVE  MaskLen(p, {}) = 0 /\ MaskLen(p, WholeMask(Num(p))) = PacketLen[p]
<1>1. Num(p) \in Nat /\ Num(p) >= 1 /\ PacketLen[p] \in Nat /\ SubpacketMaxBytes \in Nat
  BY Cutting, SizeAssumption
<1>2. Cardinality({}) = 0 /\ Cardinality(0 .. Num(p) - 1) = Num(p)
  BY <1>1, FS_EmptySet, FS_Interval
<1>3. MaskLen(p, {}) = 0 * SubpacketMaxBytes - 0
  BY <1>2 DEF MaskLen
<1>4. Num(p) - 1 \in 0 .. Num(p) - 1
  BY <1>1
<1>5. MaskLen(p, WholeMask(Num(p)))
        = Num(p) * SubpacketMaxBytes - (Num(p) * SubpacketMaxBytes - PacketLen[p])
  BY <1>2, <1>4, Cutting DEF MaskLen
<1>6. Num(p) * SubpacketMaxBytes \in Int
  BY <1>1
<1> QED
  BY <1>1, <1>3, <1>5, <1>6

-----------------------------------------------------------------------------
WellCut(m) ==
  m.index \in WholeMask(Num(m.pkt)) /\ m.len = SubpacketLen(PacketLen[m.pkt], m.index)

InRange(m) == m.mask \subseteq WholeMask(Num(m.pkt))

(***************************************************************************)
(* The part of the invariant about messages: a sub-packet, in flight or in *)
(* the event record, is cut as the packet's owner cuts it, and a request   *)
(* and the mask it becomes have no bit beyond the packet's last.           *)
(***************************************************************************)
NetInv == \A m \in net : (m \in Subs => WellCut(m)) /\ (m \in Requests => InRange(m))

EventInv ==
  /\ spEvent \in Subs => WellCut(spEvent)
  /\ \A s \in Sender : reqEvent[s] \in Requests => InRange(reqEvent[s])

MaskInv == \A p \in Packet : txMask[p] \subseteq WholeMask(Num(p))

ContentInv == ReceivedIntact /\ LenMatches /\ DeliveredWhole

IInv == TInv /\ NetInv /\ EventInv /\ MaskInv /\ ContentInv

LEMMA NextToSendWellCut ==
  ASSUME NEW p \in Packet, NEW mask \in SUBSET WholeMask(Num(p)), mask # {},
         NEW sp \in NextToSend(p, mask)
  PROVE  sp \in Subs /\ WellCut(sp)
<1>1. Requested(Num(p), mask) = mask /\ mask \in SUBSET Bit
  BY Cutting DEF Requested
<1>2. PICK i \in mask : sp = Sub(p, i, SubpacketLen(PacketLen[p], i))
  BY <1>1 DEF NextToSend, Lowest
<1> QED
  BY <1>1, <1>2, NextToSendTyped DEF Sub, WellCut

\* The kinds of message exclude one another.
LEMMA KindsDiffer ==
  /\ \A m \in Subs : m \notin Requests
  /\ \A m \in Requests : m \notin Subs
  /\ \A m \in Signals : m \notin Subs /\ m \notin Requests
BY DEF Subs, Requests, Signals

\* A kept network, or one with a well-formed message more, keeps its invariant.
LEMMA NetInvGrows ==
  ASSUME NetInv, NEW m, net' \subseteq net \cup {m},
         (m \in Subs => WellCut(m)) /\ (m \in Requests => InRange(m))
  PROVE  NetInv'
BY DEF NetInv, WellCut, InRange

LEMMA NetInvKept ==
  ASSUME NetInv, net' \subseteq net
  PROVE  NetInv'
BY DEF NetInv, WellCut, InRange

\* Event data copied from messages in flight is as good as they are.
LEMMA EventInvKept ==
  ASSUME NetInv, EventInv, spEvent' = spEvent \/ spEvent' \in net,
         \A s \in Sender : reqEvent'[s] = reqEvent[s] \/ reqEvent'[s] \in net
  PROVE  EventInv'
BY DEF NetInv, EventInv, WellCut, InRange

LEMMA RequestInRange ==
  ASSUME NEW p \in Packet, NEW mask \in SUBSET WholeMask(Num(p))
  PROVE  /\ Request(p, mask) \in Requests /\ Request(p, mask) \notin Subs
         /\ InRange(Request(p, mask))
BY Cutting DEF Request, Requests, Subs, InRange

LEMMA InitIInv == Init => IInv
<1> SUFFICES ASSUME Init PROVE IInv
  OBVIOUS
<1>1. NetInv /\ MaskInv
  BY DEF Init, NetInv, MaskInv
<1>2. None \notin Subs /\ None \notin Requests
  BY NoneAssumption DEF Message
<1>3. EventInv
  BY <1>2 DEF Init, EventInv
<1>4. ContentInv
  BY DEF Init, ContentInv, ReceivedIntact, Intact, LenMatches, DeliveredWhole
<1> QED
  BY <1>1, <1>3, <1>4, InitTInv DEF IInv

\* The network and the callbacks copy messages; the content is untouched.
LEMMA NetworkIInv ==
  ASSUME IInv, Lose \/ DeliverSignal \/ DeliverSub \/ DeliverRequest
               \/ \E p \in Packet : AppSignal(p)
  PROVE  NetInv' /\ EventInv' /\ MaskInv' /\ ContentInv'
<1>1. UNCHANGED <<txMask, lp, delivered>>
  BY DEF Lose, DeliverSignal, DeliverSub, DeliverRequest, AppSignal, senderVars, receiverVars
<1>2. MaskInv' /\ ContentInv'
  BY <1>1 DEF IInv, MaskInv, ContentInv, ReceivedIntact, LenMatches, DeliveredWhole
<1>3. ASSUME NEW p \in Packet, AppSignal(p) PROVE NetInv' /\ EventInv'
  <2>1. Signal(p) \in Signals
    BY DEF Signal, Signals
  <2>2. NetInv'
    BY <1>3, <2>1, NetInvGrows, KindsDiffer DEF AppSignal, IInv
  <2> QED
    BY <1>3, <2>2 DEF AppSignal, IInv, EventInv, senderVars, receiverVars, eventVars
<1>4. CASE Lose
  <2>1. net' \subseteq net /\ UNCHANGED <<spEvent, reqEvent>>
    BY <1>4 DEF Lose, senderVars, receiverVars, eventVars
  <2> QED
    BY <1>2, <2>1, NetInvKept, EventInvKept DEF IInv
<1>5. ASSUME NEW m \in net, Consume(m) PROVE NetInv'
  BY <1>5, NetInvKept DEF Consume, IInv
<1>6. CASE DeliverSignal
  <2>1. NetInv' /\ UNCHANGED <<spEvent, reqEvent>>
    BY <1>5, <1>6 DEF DeliverSignal, senderVars
  <2> QED
    BY <1>2, <2>1, EventInvKept DEF IInv
<1>7. CASE DeliverSub
  <2>1. NetInv' /\ spEvent' \in net /\ UNCHANGED reqEvent
    BY <1>5, <1>7 DEF DeliverSub, senderVars
  <2> QED
    BY <1>2, <2>1, EventInvKept DEF IInv
<1>8. CASE DeliverRequest
  <2>1. PICK m \in net :
          /\ m.type = "request" /\ Consume(m)
          /\ \/ reqEvent' = [reqEvent EXCEPT ![Owner[m.pkt]] = m]
             \/ UNCHANGED reqEvent
    BY <1>8 DEF DeliverRequest
  <2>2. \A s \in Sender : reqEvent'[s] = reqEvent[s] \/ reqEvent'[s] \in net
    BY <2>1 DEF IInv, TInv, TypeOK, SenderTypeOK
  <2>3. UNCHANGED spEvent
    BY <1>8 DEF DeliverRequest, receiverVars, eventVars
  <2>4. EventInv'
    BY <2>2, <2>3, EventInvKept DEF IInv
  <2> QED
    BY <1>2, <1>5, <2>1, <2>4
<1> QED
  BY <1>2, <1>3, <1>4, <1>6, <1>7, <1>8

LEMMA SendNextIInv ==
  ASSUME IInv, NEW s \in Sender, NEW p \in Packet, NEW mask \in SUBSET WholeMask(Num(p)),
         mask # {}, SendNext(s, p, mask)
  PROVE  NetInv' /\ MaskInv'
<1>1. PICK sp \in NextToSend(p, mask) :
        \/ net' = net \cup {sp} /\ txMask' = [txMask EXCEPT ![p] = mask \ {sp.index}]
        \/ net' = net /\ txMask' = [txMask EXCEPT ![p] = mask]
  BY DEF SendNext, Refuse
<1>2. NetInv'
  BY <1>1, NextToSendWellCut, NetInvGrows, KindsDiffer DEF IInv
<1>3. MaskInv'
  BY <1>1 DEF IInv, MaskInv, TInv, TypeOK, SenderTypeOK
<1> QED
  BY <1>2, <1>3

\* The sender turns the bits of requests in range into well-cut sub-packets.
LEMMA SenderIInv ==
  ASSUME IInv, NEW s \in Sender,
         SenderInit(s) \/ SenderDispatch(s) \/ SenderDispatchStale(s) \/ SenderTick(s)
  PROVE  NetInv' /\ EventInv' /\ MaskInv' /\ ContentInv'
<1>1. UNCHANGED <<reqEvent, spEvent, lp, delivered>>
  BY DEF SenderInit, SenderDispatch, SenderDispatchStale, SenderTick, receiverVars, eventVars
<1>2. EventInv'
  BY <1>1, EventInvKept DEF IInv
<1>3. ContentInv'
  BY <1>1 DEF IInv, ContentInv, ReceivedIntact, LenMatches, DeliveredWhole
<1>4. CASE SenderDispatch(s)
  <2> DEFINE p == reqEvent[s].pkt
             mask == reqEvent[s].mask
  <2>1. p \in Packet /\ mask \in SUBSET WholeMask(Num(p))
    BY <1>4 DEF SenderDispatch, IInv, TInv, RequestReady, EventInv, Requests, InRange
  <2> HIDE DEF p, mask
  <2>2. CASE txMask' = [txMask EXCEPT ![p] = mask] /\ net' = net
    <3>1. NetInv'
      BY <2>2, NetInvKept DEF IInv
    <3>2. MaskInv'
      BY <2>1, <2>2 DEF IInv, MaskInv, TInv, TypeOK, SenderTypeOK
    <3> QED
      BY <1>2, <1>3, <3>1, <3>2
  <2>3. CASE mask # {} /\ SendNext(s, p, mask)
    BY <1>2, <1>3, <2>1, <2>3, SendNextIInv
  <2> QED
    BY <1>4, <2>2, <2>3 DEF SenderDispatch, p, mask
<1>5. CASE SenderTick(s)
  <2> DEFINE p == tx[s].pkt
  <2>1. p \in Packet /\ txMask[p] \in SUBSET WholeMask(Num(p))
    BY <1>5 DEF SenderTick, IInv, TInv, TypeOK, SenderTypeOK, MaskInv
  <2> HIDE DEF p
  <2>2. CASE txMask[p] # {} /\ SendNext(s, p, txMask[p])
    BY <1>2, <1>3, <2>1, <2>2, SendNextIInv
  <2>3. CASE UNCHANGED <<txMask, net>>
    BY <1>2, <1>3, <2>3, NetInvKept DEF IInv, MaskInv
  <2> QED
    BY <1>5, <2>2, <2>3 DEF SenderTick, p
<1>6. CASE SenderInit(s) \/ SenderDispatchStale(s)
  <2>1. UNCHANGED <<txMask, net>>
    BY <1>6 DEF SenderInit, SenderDispatchStale
  <2> QED
    BY <1>2, <1>3, <2>1, NetInvKept DEF IInv, MaskInv
<1> QED
  BY <1>4, <1>5, <1>6

\* A re-request asks for sub-packets of the packet.
LEMMA TimeOutNetInv ==
  ASSUME IInv, rx.running, TimeOut
  PROVE  NetInv'
<1>1. lp.pkt \in Packet
  BY DEF IInv, TInv, ReceivesPacket
<1>2. MissingMask(Num(lp.pkt), lp.mask) \in SUBSET WholeMask(Num(lp.pkt))
  BY <1>1, MissingMaskRange
<1>3. CASE net' = net \cup {Request(lp.pkt, MissingMask(Num(lp.pkt), lp.mask))}
  BY <1>1, <1>2, <1>3, RequestInRange, NetInvGrows DEF IInv
<1>4. CASE net' = net
  BY <1>4, NetInvKept DEF IInv
<1> QED
  BY <1>3, <1>4 DEF TimeOut

\* A reception starts empty.
LEMMA BeginIInv ==
  ASSUME IInv, MasksInRange, NEW p \in Packet, Begin(p), UNCHANGED delivered
  PROVE  NetInv' /\ ContentInv'
<1>1. PICK mask \in SUBSET WholeMask(Num(p)) : net' = net \cup {Request(p, mask)}
  BY DEF Begin, MasksInRange
<1>2. NetInv'
  BY <1>1, RequestInRange, NetInvGrows DEF IInv
<1>3. lp' = [pkt |-> p, mask |-> {}, len |-> 0, payload |-> EmptyPayload]
  BY DEF Begin
<1>4. ReceivedIntact'
  BY <1>3 DEF ReceivedIntact, Intact
<1>5. LenMatches'
  BY <1>3, MaskLenEnds DEF LenMatches, MaskLen
<1>6. DeliveredWhole'
  BY DEF IInv, ContentInv, DeliveredWhole, Whole, Intact
<1> QED
  BY <1>2, <1>4, <1>5, <1>6 DEF ContentInv

\* Storing a new well-cut sub-packet of the packet keeps the content right.
LEMMA StoreContent ==
  ASSUME IInv, NEW m \in Subs, WellCut(m), m.pkt = lp.pkt, m.index \notin lp.mask
  PROVE  LET r == Store(m)
         IN  /\ Intact(r) /\ r.pkt = lp.pkt /\ r.mask = lp.mask \cup {m.index}
             /\ r.len = MaskLen(r.pkt, r.mask)
<1>1. /\ lp \in Reception /\ m.pkt \in Packet /\ m.index \in Bit
      /\ m.index \in WholeMask(Num(m.pkt)) /\ m.len = SubpacketLen(PacketLen[m.pkt], m.index)
  BY DEF IInv, TInv, TypeOK, ReceiverTypeOK, Subs, WellCut
<1>2. m.len > 0
  <2>1. PacketLen[m.pkt] \in Nat
    BY <1>1, Cutting
  <2>2. SubpacketLen(PacketLen[m.pkt], m.index) \in 1 .. SubpacketMaxBytes
    BY <1>1, <2>1, BitLenRange
  <2> QED
    BY <1>1, <2>2, SizeAssumption
<1>3. lp.len = MaskLen(lp.pkt, lp.mask)
  BY <1>1, NoneAssumption DEF IInv, ContentInv, LenMatches
<1> DEFINE r == Store(m)
<1>4. /\ r.pkt = lp.pkt /\ r.mask = lp.mask \cup {m.index} /\ r.len = lp.len + m.len
      /\ r.payload = [lp.payload EXCEPT ![m.index] = m.pkt]
  BY <1>1, <1>2 DEF Store, Reception
<1>5. Intact(r)
  BY <1>1, <1>4 DEF IInv, ContentInv, ReceivedIntact, Intact, Reception
<1>6. MaskLen(lp.pkt, lp.mask \cup {m.index}) = MaskLen(lp.pkt, lp.mask) + m.len
  BY <1>1, MaskLenStep DEF Reception
<1> QED
  BY <1>3, <1>4, <1>5, <1>6

\* What receive_proc makes of a well-cut sub-packet keeps the content right.
LEMMA CollectContent ==
  ASSUME IInv, UniqueIds, rx.running, NEW m \in Subs, WellCut(m), Discard \/ Collect(m)
  PROVE  ContentInv'
<1>1. lp.pkt \in Packet /\ m.pkt \in Packet
  BY DEF IInv, TInv, ReceivesPacket, Subs
<1>2. CASE UNCHANGED <<lp, delivered>>
  BY <1>2 DEF IInv, ContentInv, ReceivedIntact, LenMatches, DeliveredWhole
<1>3. CASE /\ IsOfPacket(m) /\ ~IsDuplicate(m) /\ lp' = Store(m)
           /\ \/ Completes(m) /\ delivered' = delivered \cup {Store(m)}
              \/ delivered' = delivered
  <2>1. m.pkt = lp.pkt /\ m.index \notin lp.mask
    BY <1>1, <1>3 DEF IsOfPacket, IsDuplicate, UniqueIds
  <2>2. /\ Intact(lp') /\ lp'.pkt = lp.pkt /\ lp'.mask = lp.mask \cup {m.index}
        /\ lp'.len = MaskLen(lp'.pkt, lp'.mask)
    BY <1>3, <2>1, StoreContent
  <2>3. ReceivedIntact' /\ LenMatches'
    BY <2>2 DEF ReceivedIntact, LenMatches, Intact, MaskLen
  <2>4. Completes(m) => Whole(lp')
    BY <1>1, <2>1, <2>2, MaskLenEnds, Cutting DEF Completes, Whole
  <2>5. \A r \in delivered' : Whole(r) /\ Intact(r)
    BY <1>3, <2>2, <2>4 DEF IInv, ContentInv, DeliveredWhole
  <2>6. DeliveredWhole'
    BY <2>5 DEF DeliveredWhole, Whole, Intact
  <2> QED
    BY <2>3, <2>6 DEF ContentInv
<1> QED
  BY <1>2, <1>3 DEF Discard, Collect

\* The receiver keeps the invariant whichever event it takes.
LEMMA ReceiverIInv ==
  ASSUME IInv, UniqueIds, MasksInRange,
         ReceiverInit \/ TimerExpires \/ DispatchTimer \/ DispatchSignal \/ DispatchSub
  PROVE  NetInv' /\ EventInv' /\ MaskInv' /\ ContentInv'
<1>1. UNCHANGED <<senderVars, spEvent>>
  BY DEF ReceiverInit, TimerExpires, DispatchTimer, DispatchSignal, DispatchSub
<1>2. EventInv' /\ MaskInv'
  BY <1>1, EventInvKept DEF IInv, MaskInv, senderVars
<1>3. ASSUME UNCHANGED <<lp, delivered>> PROVE ContentInv'
  BY <1>3 DEF IInv, ContentInv, ReceivedIntact, LenMatches, DeliveredWhole
<1>4. CASE TimerExpires \/ ReceiverInit
  BY <1>2, <1>3, <1>4, NetInvKept DEF TimerExpires, ReceiverInit, IInv
<1>5. CASE DispatchTimer
  <2>1. CASE Expired
    BY <1>2, <1>3, <1>5, <2>1, TimeOutNetInv DEF DispatchTimer, Expired
  <2>2. CASE ~Expired
    BY <1>2, <1>3, <1>5, <2>2, NetInvKept DEF DispatchTimer, IInv
  <2> QED
    BY <2>1, <2>2
<1>6. CASE DispatchSignal
  <2>1. sigEvent.pkt \in Packet
    <3>1. sigEvent \in Signals
      BY <1>6, DispatchReady DEF DispatchSignal, IInv, TInv, TypeOK
    <3> QED
      BY <3>1 DEF Signals
  <2>2. CASE ~rx.running \/ (Expired /\ rx.retries = 0)
    <3>1. Begin(sigEvent.pkt) /\ UNCHANGED delivered
      BY <1>6, <2>2 DEF DispatchSignal, Expired
    <3> QED
      BY <1>2, <2>1, <3>1, BeginIInv
  <2>3. CASE rx.running /\ Expired /\ rx.retries > 0
    <3>1. TimeOut /\ UNCHANGED <<lp, delivered>>
      BY <1>6, <2>3 DEF DispatchSignal, Expired
    <3> QED
      BY <1>2, <1>3, <2>3, <3>1, TimeOutNetInv
  <2>4. CASE rx.running /\ ~Expired
    <3>1. UNCHANGED <<net, lp, delivered>>
      BY <1>6, <2>4 DEF DispatchSignal, Expired
    <3> QED
      BY <1>2, <1>3, <3>1, NetInvKept DEF IInv
  <2>5. rx.retries = 0 \/ rx.retries > 0
    BY DEF IInv, TInv, TypeOK, ReceiverTypeOK
  <2> QED
    BY <2>2, <2>3, <2>4, <2>5
<1>7. CASE DispatchSub
  <2>1. spEvent \in Subs /\ WellCut(spEvent)
    BY <1>7, DispatchSubReady DEF IInv, TInv, TypeOK, EventInv
  <2>2. CASE rx.running /\ ~Expired
    <3>1. (Discard \/ Collect(spEvent)) /\ UNCHANGED net
      BY <1>7, <2>2 DEF DispatchSub
    <3> QED
      BY <1>2, <2>1, <2>2, <3>1, CollectContent, NetInvKept DEF IInv
  <2>3. CASE Expired
    <3>1. TimeOut /\ UNCHANGED <<lp, delivered>>
      BY <1>7, <2>3 DEF DispatchSub
    <3> QED
      BY <1>2, <1>3, <2>3, <3>1, TimeOutNetInv DEF Expired
  <2>4. CASE ~rx.running
    <3>1. UNCHANGED <<net, lp, delivered>>
      BY <1>7, <2>4 DEF DispatchSub, Expired
    <3> QED
      BY <1>2, <1>3, <3>1, NetInvKept DEF IInv
  <2> QED
    BY <2>2, <2>3, <2>4
<1> QED
  BY <1>4, <1>5, <1>6, <1>7

LEMMA NextIInv ==
  ASSUME UniqueIds, MasksInRange, IInv, [Next]_vars
  PROVE  IInv'
<1>1. TInv'
  BY NextTInv DEF IInv
<1>2. CASE Next
  <2>1. NetInv' /\ EventInv' /\ MaskInv' /\ ContentInv'
    BY <1>2, NetworkIInv, SenderIInv, ReceiverIInv DEF Next
  <2> QED
    BY <1>1, <2>1 DEF IInv
<1>3. CASE UNCHANGED vars
  <2>1. UNCHANGED <<net, txMask, reqEvent, spEvent, lp, delivered>>
    BY <1>3 DEF vars, senderVars, receiverVars, eventVars
  <2>2. NetInv' /\ EventInv' /\ MaskInv'
    BY <2>1, NetInvKept, EventInvKept DEF IInv, MaskInv
  <2>3. ContentInv'
    BY <2>1 DEF IInv, ContentInv, ReceivedIntact, LenMatches, DeliveredWhole
  <2> QED
    BY <1>1, <2>2, <2>3 DEF IInv
<1> QED
  BY <1>2, <1>3

(***************************************************************************)
(* When ids are unique in the network and applications request existing    *)
(* sub-packets only, what is received is the packet asked for, its length  *)
(* counts every sub-packet once, and only whole packets are handed over,   *)
(* under any loss, duplication, reordering, overwriting and timing.        *)
(***************************************************************************)
THEOREM ContentInvariance ==
  ASSUME UniqueIds, MasksInRange
  PROVE  Spec => []IInv
<1>1. Init => IInv
  BY InitIInv
<1>2. IInv /\ [Next]_vars => IInv'
  BY NextIInv
<1> QED
  BY <1>1, <1>2, PTL DEF Spec

\* Every received bit is a sub-packet of the packet asked for.
THEOREM IntactCorrect ==
  ASSUME UniqueIds, MasksInRange
  PROVE  Spec => []ReceivedIntact
<1>1. IInv => ReceivedIntact
  BY DEF IInv, ContentInv
<1> QED
  BY <1>1, ContentInvariance, PTL

\* The length received is that of the sub-packets received.
THEOREM LenCorrect ==
  ASSUME UniqueIds, MasksInRange
  PROVE  Spec => []LenMatches
<1>1. IInv => LenMatches
  BY DEF IInv, ContentInv
<1> QED
  BY <1>1, ContentInvariance, PTL

\* The application is told of whole and unmixed packets only.
THEOREM ContentCorrect ==
  ASSUME UniqueIds, MasksInRange
  PROVE  Spec => []DeliveredWhole
<1>1. IInv => DeliveredWhole
  BY DEF IInv, ContentInv
<1> QED
  BY <1>1, ContentInvariance, PTL

-----------------------------------------------------------------------------
(***************************************************************************)
(* The receiver implements BulkCopy.                                       *)
(***************************************************************************)
LEMMA CopyInit == Init => Copy!Init
<1> SUFFICES ASSUME Init PROVE Copy!Init
  OBVIOUS
<1>1. rx.running = FALSE /\ delivered = {}
  BY DEF Init
<1> QED
  BY <1>1 DEF Copy!Init

\* While a reception runs, all it has is of the packet it is about.
LEMMA CopiedIsMask ==
  ASSUME IInv
  PROVE  {i \in lp.mask : lp.payload[i] = lp.pkt} = lp.mask
BY DEF IInv, ContentInv, ReceivedIntact, Intact

\* Steps that neither begin nor end a reception nor store anything.
LEMMA CopyStutters ==
  ASSUME rx'.running = rx.running, UNCHANGED <<lp, delivered>>
  PROVE  UNCHANGED Copy!vars
BY DEF Copy!vars

\* A reception given up.
LEMMA CopyGivesUp ==
  ASSUME IInv, rx.running, Exit, UNCHANGED delivered
  PROVE  Copy!GiveUp
<1>1. lp.pkt # None
  BY NoneAssumption DEF IInv, TInv, ReceivesPacket
<1>2. rx'.running = FALSE
  BY DEF Exit, IInv, TInv, TypeOK, ReceiverTypeOK
<1> QED
  BY <1>1, <1>2 DEF Copy!GiveUp

LEMMA CopyTimeOut ==
  ASSUME IInv, rx.running, TimeOut, UNCHANGED <<lp, delivered>>
  PROVE  [Copy!Next]_(Copy!vars)
<1>1. CASE Exit
  BY <1>1, CopyGivesUp DEF Copy!Next
<1>2. CASE rx' = [rx EXCEPT !.timer = "running", !.retries = @ - 1]
  <2>1. rx'.running = rx.running
    BY <1>2 DEF IInv, TInv, TypeOK, ReceiverTypeOK
  <2> QED
    BY <2>1, CopyStutters
<1> QED
  BY <1>1, <1>2 DEF TimeOut

\* A new reception, also in place of one that has just timed out.
LEMMA CopyBegins ==
  ASSUME NEW p \in Packet, Begin(p), UNCHANGED delivered
  PROVE  Copy!Begin(p)
<1>1. rx'.running = TRUE /\ lp'.pkt = p /\ lp'.mask = {}
  BY DEF Begin
<1> QED
  BY <1>1 DEF Copy!Begin

(***************************************************************************)
(* A stored sub-packet is one piece copied; with the last one the packet   *)
(* is handed over.                                                         *)
(***************************************************************************)
LEMMA CopyStores ==
  ASSUME IInv, IInv', rx.running, NEW m \in Subs, WellCut(m), m.pkt = lp.pkt, ~IsDuplicate(m),
         lp' = Store(m),
         IF Completes(m)
         THEN Exit /\ delivered' = delivered \cup {Store(m)}
         ELSE Restart /\ UNCHANGED delivered
  PROVE  Copy!Next
<1>1. lp.pkt \in Packet /\ lp.pkt # None
  BY NoneAssumption DEF IInv, TInv, ReceivesPacket
<1>2. m.index \in WholeMask(Num(lp.pkt)) /\ m.index \notin lp.mask
  BY DEF WellCut, IsDuplicate
<1>3. Store(m).pkt = lp.pkt /\ Store(m).mask = lp.mask \cup {m.index}
  BY <1>2, StoreContent
<1> DEFINE pieces == [p \in Packet |-> 0 .. Num(p) - 1]
           source == IF rx.running THEN lp.pkt ELSE None
           copied == IF rx.running THEN {i \in lp.mask : lp.payload[i] = lp.pkt} ELSE {}
           got == {r.pkt : r \in delivered}
<1>4. source = lp.pkt /\ copied = lp.mask /\ pieces[source] = WholeMask(Num(lp.pkt))
  BY <1>1, CopiedIsMask, Cutting
<1>5. CASE Completes(m)
  <2>1. copied \cup {m.index} = pieces[source]
    BY <1>4, <1>5 DEF Completes
  <2>2. rx'.running = FALSE
    BY <1>5 DEF Exit, IInv, TInv, TypeOK, ReceiverTypeOK
  <2>3. source' = None /\ copied' = {}
    BY <2>2
  <2>4. got' = got \cup {source}
    BY <1>3, <1>4, <1>5
  <2>5. Copy!Copy(m.index)
    <3> HIDE DEF source, copied, got, pieces
    <3>1. source # None /\ m.index \in pieces[source] \ copied
      BY <1>1, <1>2, <1>4
    <3> QED
      BY <2>1, <2>3, <2>4, <3>1 DEF Copy!Copy, source, copied, got, pieces
  <2> QED
    BY <1>1, <1>2, <1>4, <2>5 DEF Copy!Next
<1>6. CASE ~Completes(m)
  <2>1. copied \cup {m.index} # pieces[source]
    BY <1>4, <1>6 DEF Completes
  <2>2. rx'.running = TRUE
    BY <1>6 DEF Restart, IInv, TInv, TypeOK, ReceiverTypeOK
  <2>3. {i \in lp'.mask : lp'.payload[i] = lp'.pkt} = lp'.mask
    BY DEF IInv, ContentInv, ReceivedIntact, Intact
  <2>4. source' = source /\ copied' = copied \cup {m.index}
    BY <1>3, <1>4, <2>2, <2>3
  <2>5. got' = got
    BY <1>6
  <2>6. Copy!Copy(m.index)
    <3> HIDE DEF source, copied, got, pieces
    <3>1. source # None /\ m.index \in pieces[source] \ copied
      BY <1>1, <1>2, <1>4
    <3> QED
      BY <2>1, <2>4, <2>5, <3>1 DEF Copy!Copy, source, copied, got, pieces
  <2> QED
    BY <1>1, <1>2, <1>4, <2>6 DEF Copy!Next
<1> QED
  BY <1>5, <1>6

LEMMA CopyCollects ==
  ASSUME UniqueIds, IInv, IInv', rx.running, NEW m \in Subs, WellCut(m), Discard \/ Collect(m)
  PROVE  [Copy!Next]_(Copy!vars)
<1>1. ASSUME Restart, UNCHANGED <<lp, delivered>> PROVE UNCHANGED Copy!vars
  <2>1. rx'.running = rx.running
    BY <1>1 DEF Restart, IInv, TInv, TypeOK, ReceiverTypeOK
  <2> QED
    BY <1>1, <2>1, CopyStutters
<1>2. CASE Exit /\ UNCHANGED <<lp, delivered>>
  BY <1>2, CopyGivesUp DEF Copy!Next
<1>3. CASE /\ IsOfPacket(m) /\ ~IsDuplicate(m) /\ lp' = Store(m)
           /\ IF Completes(m)
              THEN Exit /\ delivered' = delivered \cup {Store(m)}
              ELSE Restart /\ UNCHANGED delivered
  <2>1. m.pkt = lp.pkt
    BY <1>3 DEF IsOfPacket, UniqueIds, IInv, TInv, ReceivesPacket, Subs
  <2> QED
    BY <1>3, <2>1, CopyStores
<1> QED
  BY <1>1, <1>2, <1>3 DEF Discard, Collect

\* Every step of the system is a step of the copy or leaves it alone.
LEMMA CopyStep ==
  ASSUME UniqueIds, MasksInRange, IInv, IInv', [Next]_vars
  PROVE  [Copy!Next]_(Copy!vars)
<1>1. ASSUME UNCHANGED <<rx, lp, delivered>> PROVE UNCHANGED Copy!vars
  BY <1>1, CopyStutters
<1>2. CASE UNCHANGED vars
  BY <1>1, <1>2 DEF vars, receiverVars
<1>3. CASE Lose \/ DeliverSignal \/ DeliverSub \/ DeliverRequest \/ ReceiverInit
           \/ \E p \in Packet : AppSignal(p)
  BY <1>1, <1>3
     DEF Lose, DeliverSignal, DeliverSub, DeliverRequest, ReceiverInit, AppSignal, receiverVars
<1>4. CASE \E s \in Sender :
             SenderInit(s) \/ SenderDispatch(s) \/ SenderDispatchStale(s) \/ SenderTick(s)
  BY <1>1, <1>4 DEF SenderInit, SenderDispatch, SenderDispatchStale, SenderTick, receiverVars
<1>5. CASE TimerExpires
  <2>1. rx'.running = rx.running
    BY <1>5 DEF TimerExpires, IInv, TInv, TypeOK, ReceiverTypeOK
  <2> QED
    BY <1>5, <2>1, CopyStutters DEF TimerExpires
<1>6. CASE DispatchTimer
  <2>1. CASE Expired
    BY <1>6, <2>1, CopyTimeOut DEF DispatchTimer, Expired
  <2>2. CASE ~Expired
    BY <1>1, <1>6, <2>2 DEF DispatchTimer
  <2> QED
    BY <2>1, <2>2
<1>7. CASE DispatchSignal
  <2>1. sigEvent \in Signals /\ sigEvent.pkt \in Packet
    <3>1. sigEvent \in Signals
      BY <1>7, DispatchReady DEF DispatchSignal, IInv, TInv, TypeOK
    <3> QED
      BY <3>1 DEF Signals
  <2>2. CASE Begin(sigEvent.pkt)
    <3>1. PICK p \in Packet : p = sigEvent.pkt
      BY <2>1
    <3>2. Begin(p) /\ UNCHANGED delivered
      BY <1>7, <2>2, <3>1 DEF DispatchSignal, Begin
    <3>3. Copy!Begin(p)
      BY <3>2, CopyBegins
    <3> QED
      BY <3>3 DEF Copy!Next
  <2>3. CASE Expired /\ TimeOut /\ UNCHANGED lp
    BY <1>7, <2>3, CopyTimeOut DEF DispatchSignal, Expired
  <2>4. CASE UNCHANGED <<rx, lp, net>>
    BY <1>1, <1>7, <2>4 DEF DispatchSignal
  <2> QED
    BY <1>7, <2>2, <2>3, <2>4 DEF DispatchSignal
<1>8. CASE DispatchSub
  <2>1. spEvent \in Subs /\ WellCut(spEvent)
    BY <1>8, DispatchSubReady DEF IInv, TInv, TypeOK, EventInv
  <2>2. CASE rx.running /\ ~Expired
    BY <1>8, <2>1, <2>2, CopyCollects DEF DispatchSub
  <2>3. CASE Expired
    BY <1>8, <2>3, CopyTimeOut DEF DispatchSub, Expired
  <2>4. CASE ~rx.running
    BY <1>1, <1>8, <2>4 DEF DispatchSub, Expired
  <2> QED
    BY <2>2, <2>3, <2>4
<1> QED
  BY <1>2, <1>3, <1>4, <1>5, <1>6, <1>7, <1>8 DEF Next

(***************************************************************************)
(* Refinement: to the application the receiver is the abstract copy, which *)
(* takes every piece once and hands over whole packets only, for any       *)
(* packets, masks, faults and initialisations.                             *)
(***************************************************************************)
THEOREM Refines ==
  ASSUME UniqueIds, MasksInRange
  PROVE  Spec => CopiesPackets
<1>1. Init => Copy!Init
  BY CopyInit
<1>2. IInv /\ IInv' /\ [Next]_vars => [Copy!Next]_(Copy!vars)
  BY CopyStep
<1> QED
  BY <1>1, <1>2, ContentInvariance, PTL DEF Spec, CopiesPackets, Copy!Spec

-----------------------------------------------------------------------------
(***************************************************************************)
(* The masks of the sender.  A request event is one for a packet of the    *)
(* sender that has it.                                                     *)
(***************************************************************************)
RequestOwned ==
  \A s \in Sender : reqEvent[s] \in Requests => Owner[reqEvent[s].pkt] = s

LEMMA NextRequestOwned ==
  ASSUME TInv, RequestOwned, [Next]_vars
  PROVE  RequestOwned'
<1>1. CASE UNCHANGED reqEvent
  BY <1>1 DEF RequestOwned
<1>2. CASE DeliverRequest
  <2>1. PICK m \in net :
          /\ m.type = "request"
          /\ \/ reqEvent' = [reqEvent EXCEPT ![Owner[m.pkt]] = m]
             \/ UNCHANGED reqEvent
    BY <1>2 DEF DeliverRequest
  <2>2. \A s \in Sender : reqEvent'[s] = reqEvent[s] \/ (reqEvent'[s] = m /\ s = Owner[m.pkt])
    BY <2>1 DEF TInv, TypeOK, SenderTypeOK
  <2> QED
    BY <2>2 DEF RequestOwned
<1>3. CASE UNCHANGED vars
  BY <1>1, <1>3 DEF vars, senderVars
<1> QED
  BY <1>1, <1>2, <1>3
     DEF Next, Lose, DeliverSignal, DeliverSub, AppSignal, SenderInit, SenderDispatch,
         SenderDispatchStale, SenderTick, ReceiverInit, TimerExpires, DispatchTimer,
         DispatchSignal, DispatchSub, senderVars

\* Where a bit of a sender's mask may go.
BitKept(p, i) ==
  \/ \E m \in net' : m.type = "sub" /\ m.pkt = p /\ m.index = i
  \/ reqQueued'[Owner[p]] < reqQueued[Owner[p]]

\* send_proc clears only the bit of the sub-packet it has sent.
LEMMA SendNextKeepsBits ==
  ASSUME TInv, NEW s \in Sender, NEW q \in Packet, SendNext(s, q, txMask[q]),
         NEW p \in Packet, NEW i \in txMask[p] \ txMask'[p]
  PROVE  \E m \in net' : m.type = "sub" /\ m.pkt = p /\ m.index = i
<1>1. txMask \in [Packet -> SUBSET Bit]
  BY DEF TInv, TypeOK, SenderTypeOK
<1>2. PICK sp \in NextToSend(q, txMask[q]) :
        \/ net' = net \cup {sp} /\ txMask' = [txMask EXCEPT ![q] = txMask[q] \ {sp.index}]
        \/ txMask' = [txMask EXCEPT ![q] = txMask[q]]
  BY DEF SendNext
<1>3. p = q /\ i = sp.index /\ net' = net \cup {sp}
  BY <1>1, <1>2
<1>4. sp.type = "sub" /\ sp.pkt = q
  BY DEF NextToSend, Sub
<1> QED
  BY <1>3, <1>4

LEMMA StepKeepsBits ==
  ASSUME TInv, RequestOwned, Next, NEW p \in Packet, NEW i \in txMask[p] \ txMask'[p]
  PROVE  BitKept(p, i)
<1>1. txMask \in [Packet -> SUBSET Bit]
  BY DEF TInv, TypeOK, SenderTypeOK
<1>2. ~UNCHANGED txMask
  BY <1>1
<1>3. PICK s \in Sender : SenderDispatch(s) \/ SenderTick(s)
  BY <1>2
     DEF Next, Lose, DeliverSignal, DeliverSub, DeliverRequest, AppSignal, SenderInit,
         SenderDispatchStale, ReceiverInit, TimerExpires, DispatchTimer, DispatchSignal,
         DispatchSub, senderVars
<1>4. CASE SenderTick(s)
  <2>1. tx[s].pkt \in Packet /\ SendNext(s, tx[s].pkt, txMask[tx[s].pkt])
    BY <1>2, <1>4 DEF SenderTick, TInv, TypeOK, SenderTypeOK
  <2> QED
    BY <2>1, SendNextKeepsBits DEF BitKept
<1>5. CASE SenderDispatch(s)
  <2> DEFINE q == reqEvent[s].pkt
  <2>1. reqEvent[s] \in Requests
    BY <1>5 DEF SenderDispatch, TInv, RequestReady
  <2>2. q \in Packet /\ Owner[q] = s
    BY <2>1 DEF Requests, RequestOwned
  <2>3. \E mask : txMask' = [txMask EXCEPT ![q] = mask]
    BY <1>5 DEF SenderDispatch, SendNext
  <2>4. p = q
    BY <1>1, <2>2, <2>3
  <2>5. reqQueued' = [reqQueued EXCEPT ![s] = @ - 1] /\ reqQueued[s] \in Nat
    BY <1>5, BoundAssumption DEF SenderDispatch, TInv, TypeOK, SenderTypeOK
  <2>6. reqQueued'[s] < reqQueued[s]
    BY <2>5 DEF TInv, TypeOK, SenderTypeOK
  <2> QED
    BY <2>2, <2>4, <2>6 DEF BitKept
<1> QED
  BY <1>3, <1>4, <1>5

(***************************************************************************)
(* No bit of a sender's mask is lost: not by a refused send, nor by a      *)
(* lost connection, nor by an initialisation in the middle of a            *)
(* transmission.                                                           *)
(***************************************************************************)
THEOREM BitsKept == Spec => NoBitLost
<1>1. Init => RequestOwned
  <2>1. None \notin Requests
    BY NoneAssumption DEF Message
  <2> QED
    BY <2>1 DEF Init, RequestOwned
<1>2. TInv /\ RequestOwned /\ [Next]_vars => RequestOwned'
  BY NextRequestOwned
<1>3. TInv /\ RequestOwned /\ [Next]_vars
        => [\A p \in Packet : \A i \in txMask[p] \ txMask'[p] :
              \/ \E m \in net' : m.type = "sub" /\ m.pkt = p /\ m.index = i
              \/ reqQueued'[Owner[p]] < reqQueued[Owner[p]]]_vars
  BY StepKeepsBits DEF BitKept
<1> QED
  BY <1>1, <1>2, <1>3, TypedInvariance, PTL DEF Spec, NoBitLost
=============================================================================
