--------------------------- MODULE MCUdpTransfer ---------------------------
(* UdpTransfer and its inductive invariant, for TLC. *)
EXTENDS UdpTransferInv
=============================================================================
