------------------------- MODULE MC_ConsumeMessage -------------------------
(* Two nodes share the partition; messages may also have no key.  Four     *)
(* messages are enough for one to be passed over between two others.       *)
EXTENDS ConsumeMessage

CONSTANTS n1, n2
=============================================================================
