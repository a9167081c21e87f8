---------------------------- MODULE MCConnection ----------------------------
(* Connection on a small instance: every stream of up to 8 bytes, records of *)
(* 1 to 3 bytes, buffers of 2 and 3 records, a kernel queue of 3 bytes.       *)
EXTENDS Connection

MCRecordSizes == 1..3
MCBufferLengths == 2..3
=============================================================================
