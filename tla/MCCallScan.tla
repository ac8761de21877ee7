------------------------------ MODULE MCCallScan ------------------------------
(* An image of three words; symbols in it, before it and after it.  The    *)
(* second tool places the image one word below the mapping of the first.   *)
EXTENDS CallScan

MCAddresses == 0..4
=============================================================================
