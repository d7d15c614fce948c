---------------------------- MODULE WireFormats -----------------------------
(***************************************************************************)
(* The datagrams of the toolkit: how the three bulk messages and the       *)
(* broadcast are packed into bytes, and what the UDP callbacks make of the *)
(* bytes that arrive on their port, be they from this toolkit or not.      *)
(***************************************************************************)
EXTENDS Powers, Sequences, SequencesExt

CONSTANTS
  ByteMod,     \* number of values of a byte (256)
  MaskBytes,   \* width of a request's mask (8)
  WordBytes,   \* width of a broadcast's id and version (4)
  LenMod,      \* number of values of unpack's uint8_t len (256)
  Header,      \* [BulkKinds -> two bytes]
  Room,        \* bytes of the buffer a payload is copied to: SUBPACKET_MAX_BYTES
               \* (330), or the application's data
  MaxNoise,    \* bound: bytes in a datagram that is not from the toolkit
  MaxTail      \* bound: bytes behind a signal in such a datagram

BulkKinds == {"signal", "request", "sub"}
Byte == 0 .. ByteMod - 1

ASSUME WireAssumption ==
  /\ ByteMod \in Nat /\ ByteMod >= 2
  /\ Header \in [BulkKinds -> Seq(Byte)] /\ IsInjective(Header)
  /\ \A kind \in BulkKinds : Len(Header[kind]) = 2
  /\ Room \in [{"sub", "broadcast"} -> Nat] /\ Room["sub"] < Pow(ByteMod, 2)
  /\ MaxNoise \in Nat /\ MaxTail \in Nat
  /\ MaskBytes \in Nat /\ WordBytes \in Nat
  /\ LenMod \in Nat /\ LenMod > 6 + MaskBytes  \* the longest size that unpack compares with

VARIABLES
  port,      \* of the datagram in flight: "bulk" or "broadcast"; "none" when
             \* there is no datagram, "read" when it has been received
  datagram,  \* its bytes
  sent,      \* the message it was packed from, None when it was not
  events,    \* the records made of the last datagram
  overrun    \* whether an earlier payload was longer than its buffer

vars == <<port, datagram, sent, events, overrun>>

None == [kind |-> "none"]

\* Where buffer points to before each field, and behind the last one.
Offsets(kind) ==
  CASE kind = "signal" -> <<2, 4, 5>>                        \* packet_id, n_sub_packets
    [] kind = "request" -> <<2, 4, 4 + MaskBytes, 6 + MaskBytes>>
                                                 \* packet_id, mask, period_ms
    [] kind = "sub" -> <<2, 4, 5, 6, 8>>         \* packet_id, index, n, payload_len
    [] kind = "broadcast" -> <<0, WordBytes, 2 * WordBytes>>   \* id, version

HeaderOf(kind) == IF kind = "broadcast" THEN <<>> ELSE Header[kind]

Msg(kind, fields, payload) == [kind |-> kind, fields |-> fields, payload |-> payload]

Size(kind) == Last(Offsets(kind))

\* Mutant: the most significant byte first.
StoreBigEndian(v, width) ==
  [i \in 1 .. width |-> (v \div Pow(ByteMod, width - i)) % ByteMod]

Store(v, width) == [i \in 1 .. width |-> (v \div Pow(ByteMod, i - 1)) % ByteMod]

Load(bytes) ==
  LET loaded[i \in 0 .. Len(bytes)] ==
        IF i = 0 THEN 0 ELSE loaded[i - 1] + bytes[i] * Pow(ByteMod, i - 1)
  IN  loaded[Len(bytes)]

Pack(m) ==
  LET at == Offsets(m.kind)
      stored == [i \in 1 .. Len(at) - 1 |-> Store(m.fields[i], at[i + 1] - at[i])]
  IN  HeaderOf(m.kind) \o FlattenSeq(stored) \o m.payload

\* The fields of a message of this kind at the start of a buffer.
Fields(kind, buffer) ==
  LET at == Offsets(kind)
  IN  [i \in 1 .. Len(at) - 1 |-> Load(SubSeq(buffer, at[i] + 1, at[i + 1]))]

\* Mutant: a datagram may be longer than its payload_len says.
LengthIsLoose(kind, fields, len) ==
  CASE kind = "sub" -> len >= Size(kind) + Last(fields)
    [] kind = "broadcast" -> len >= Size(kind)
    [] OTHER -> len % LenMod = Size(kind)

(***************************************************************************)
(* The unpackers of signals and requests get the length in a uint8_t, that *)
(* of sub-packets compares it with the payload_len it has already loaded.  *)
(***************************************************************************)
LengthIsRight(kind, fields, len) ==
  CASE kind = "sub" -> len = Size(kind) + Last(fields)
    [] kind = "broadcast" -> len >= Size(kind)
    [] OTHER -> len % LenMod = Size(kind)

\* A sub-packet says where its payload ends; a broadcast's data is the rest.
PayloadEnd(kind, fields, len) ==
  CASE kind = "sub" -> Size(kind) + Last(fields)
    [] kind = "broadcast" -> len
    [] OTHER -> 0

(***************************************************************************)
(* One unpacker: the message it finds in a datagram, or nothing.  beyond   *)
(* is what it reads past the end of a datagram that is too short.          *)
(***************************************************************************)
Handle(kind, bytes, beyond) ==
  LET buffer == bytes \o [i \in 1 .. Size(kind) |-> beyond]
      fields == Fields(kind, buffer)
  IN  IF /\ SubSeq(bytes, 1, Len(HeaderOf(kind))) = HeaderOf(kind)
         /\ LengthIsRight(kind, fields, Len(bytes))
      THEN {Msg(kind, fields,
                SubSeq(buffer, Size(kind) + 1, PayloadEnd(kind, fields, Len(bytes))))}
      ELSE {}

Fits(m) == \A i \in 1 .. Len(m.payload) : i <= Room[m.kind]

(***************************************************************************)
(* The record of a message: its payload is copied to a static buffer, or   *)
(* to the application's data, without a look at its length.  What lies     *)
(* behind that buffer is other data, so that anything may be read there.   *)
(***************************************************************************)
Copied(m, behind) ==
  [m EXCEPT !.payload = [i \in 1 .. Len(@) |-> IF i <= Room[m.kind] THEN @[i] ELSE behind]]

-----------------------------------------------------------------------------
Init ==
  /\ port = "none" /\ datagram = <<>> /\ sent = None /\ events = {}
  /\ overrun = FALSE

Transmit(p, bytes, m) ==
  /\ port = "none"
  /\ port' = p /\ datagram' = bytes /\ sent' = m /\ events' = {}
  /\ UNCHANGED overrun

Values(width) == 0 .. Pow(ByteMod, width) - 1
Ids == Values(2)
Words == Values(WordBytes)

\* A sender has the same limits: a longer sub-packet is not sent, and the
\* nodes register a data set with the same size.
Payloads(kind) == UNION {[1 .. n -> Byte] : n \in 0 .. Room[kind]}

Bulk(kind, fields, payload) ==
  LET m == Msg(kind, fields, payload) IN Transmit("bulk", Pack(m), m)

SendSignal == \E id \in Ids, n \in Byte : Bulk("signal", <<id, n>>, <<>>)

SendRequest ==
  \E id \in Ids, mask \in Values(MaskBytes), period \in Ids :
    Bulk("request", <<id, mask, period>>, <<>>)

SendSub ==
  \E id \in Ids, index \in Byte, n \in Byte, payload \in Payloads("sub") :
    Bulk("sub", <<id, index, n, Len(payload)>>, payload)

SendBroadcast ==
  \E id \in Words, version \in Words, data \in Payloads("broadcast") :
    LET m == Msg("broadcast", <<id, version>>, data) IN Transmit("broadcast", Pack(m), m)

\* Some other program uses the port, and may send long datagrams.
LongNoise ==
  \E id \in Ids, n \in Byte, tail \in 1 .. MaxTail :
    Transmit("bulk", Pack(Msg("signal", <<id, n>>, <<>>)) \o [i \in 1 .. tail |-> 0], None)

Noise ==
  \E p \in {"bulk", "broadcast"}, n \in 0 .. MaxNoise :
    \E bytes \in [1 .. n -> Byte] : Transmit(p, bytes, None)

ReceiveBulk ==
  /\ port = "bulk"
  /\ \E beyond \in Byte, behind \in Byte :
       events' = IF Len(datagram) < 2
                 THEN {}
                 ELSE {Copied(m, behind) :
                         m \in UNION {Handle(kind, datagram, beyond) : kind \in BulkKinds}}
  /\ port' = "read"
  /\ UNCHANGED <<datagram, sent, overrun>>

ReceiveBroadcast ==
  /\ port = "broadcast"
  /\ \E behind \in Byte :
       events' = {Copied(m, behind) : m \in Handle("broadcast", datagram, 0)}
  /\ port' = "read"
  /\ UNCHANGED <<datagram, sent, overrun>>

\* The processes have taken the records.
Dispatched ==
  /\ port = "read"
  /\ overrun' = (overrun \/ \E m \in events : ~Fits(m))
  /\ port' = "none" /\ datagram' = <<>> /\ sent' = None /\ events' = {}

Next ==
  \/ SendSignal \/ SendRequest \/ SendSub \/ SendBroadcast \/ Noise \/ LongNoise
  \/ ReceiveBulk \/ ReceiveBroadcast \/ Dispatched

Spec == Init /\ [][Next]_vars

-----------------------------------------------------------------------------
(***************************************************************************)
(* What one node packs, exactly one handler of another makes the same      *)
(* message of: the two sides agree on widths, order, length and the size   *)
(* of the buffers, although one comment gives payload_len eight bits.      *)
(* Once a payload has gone over the end of its buffer this is not claimed. *)
(***************************************************************************)
ReceivedAsSent == port = "read" /\ sent # None /\ ~overrun => events = {sent}

(***************************************************************************)
(* Of a datagram that no toolkit packs, cut short, too long or of another  *)
(* program, no record is made whatever lies behind it in memory: a record  *)
(* whose payload fits its buffer is only ever made of the bytes that       *)
(* encode it.  Signals and requests may have a tail, of a length that the  *)
(* unpackers' uint8_t does not see.                                        *)
(***************************************************************************)
OnlyFormats ==
  ~overrun => \A m \in events : Fits(m) =>
    /\ IsPrefix(Pack(m), datagram)
    /\ IF m.kind \in {"signal", "request"}
       THEN (Len(datagram) - Len(Pack(m))) % LenMod = 0
       ELSE datagram = Pack(m)
=============================================================================
