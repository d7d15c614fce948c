--------------------------- MODULE MCWireFormats ----------------------------
(***************************************************************************)
(* WireFormats with bytes of two values: payload_len needs its second      *)
(* byte, all short datagrams can be enumerated, and some of their payloads *)
(* are longer than the buffers.                                            *)
(***************************************************************************)
EXTENDS WireFormats

Headers ==
  [kind \in BulkKinds |->
     CASE kind = "signal" -> <<0, 1>> [] kind = "request" -> <<1, 1>> [] OTHER -> <<1, 0>>]

Buffers == [kind \in {"sub", "broadcast"} |-> IF kind = "sub" THEN 2 ELSE 3]
=============================================================================
