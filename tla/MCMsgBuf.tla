------------------------------ MODULE MCMsgBuf ------------------------------
(* Model checking of MsgBuf: two byte values, an array that can double      *)
(* twice, and chunks of one to three bytes.                                 *)
EXTENDS MsgBuf

CONSTANTS b1, b2, junk

MCByte  == {b1, b2}
MCChunk == {<<b1>>, <<b2>>, <<b1, b2>>, <<b2, b2, b1>>}
=============================================================================
