----------------------------- MODULE BulkPacket -----------------------------
(***************************************************************************)
(* How a large packet is cut into sub-packets, and the bit masks that name *)
(* sets of them.  A mask is the set of its bits.                           *)
(***************************************************************************)
EXTENDS Integers

CONSTANTS
  SubpacketMaxBytes,  \* MTK_BULK_DATA_COLLECTION_SUBPACKET_MAX_BYTES
  MaxSubpackets       \* MTK_BULK_DATA_COLLECTION_MAX_NUMBER_OF_SUBPACKETS, and
                      \* the bits of a mask (64)

ASSUME SizeAssumption ==
  /\ SubpacketMaxBytes \in Nat \ {0}
  /\ MaxSubpackets \in Nat \ {0}

Bit == 0 .. MaxSubpackets - 1

\* register_tx refuses empty packets and those that need more sub-packets.
CanRegister(len) == 0 < len /\ len <= SubpacketMaxBytes * MaxSubpackets

NumSubpackets(len) ==
  len \div SubpacketMaxBytes + IF len % SubpacketMaxBytes # 0 THEN 1 ELSE 0

(***************************************************************************)
(* (1 << n) - 1.  C leaves a shift by the whole width undefined, and with  *)
(* processors that take the count modulo the width it makes an empty mask: *)
(* a full mask has to be made without it.                                  *)
(***************************************************************************)
LowBits(n) == IF n < MaxSubpackets THEN 0 .. n - 1 ELSE {}

WholeMask(n) == IF n = MaxSubpackets THEN Bit ELSE LowBits(n)

\* Mutant: the full mask is made by the shift, too.
MissingMaskShifted(n, received) == (Bit \ received) \cap LowBits(n)

\* The bits of a request for what is missing of n sub-packets.
MissingMask(n, received) ==
  (Bit \ received) \cap IF n < MaxSubpackets THEN LowBits(n) ELSE Bit

\* Mutant: a last sub-packet of the full size is sent empty.
SubpacketLenModulo(len, i) ==
  IF i = NumSubpackets(len) - 1 THEN len % SubpacketMaxBytes ELSE SubpacketMaxBytes

\* The last sub-packet carries the rest, which is never empty.
SubpacketLen(len, i) ==
  IF i = NumSubpackets(len) - 1 /\ len % SubpacketMaxBytes # 0
  THEN len % SubpacketMaxBytes
  ELSE SubpacketMaxBytes

\* The bits of a request that name sub-packets of a packet of n.
Requested(n, mask) == {i \in mask : i < n}

\* The lowest bit of a mask, as a set.
Lowest(mask) == {i \in mask : \A j \in mask : i <= j}
=============================================================================
