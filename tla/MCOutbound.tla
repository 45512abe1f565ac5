----------------------------- MODULE MCOutbound -----------------------------
(* A counter of 3 values, batches of two packets and two children: a batch   *)
(* is cut by the wrap, by a replacement of the codec and by a cancellation.  *)
EXTENDS EspOutbound

ByteLimit == [packets |-> 0, bytes |-> 5]
=============================================================================
