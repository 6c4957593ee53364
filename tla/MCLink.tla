------------------------------- MODULE MCLink -------------------------------
(* Every sequence of landing regions over a handful of bytes.               *)
EXTENDS Link

CONSTANTS b1, b2, b3

L1Bytes == {b1, b2, b3}
=============================================================================
