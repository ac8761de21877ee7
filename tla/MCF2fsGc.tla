------------------------------ MODULE MCF2fsGc ------------------------------
(* Two sections of two segments: a section can be emptied in part, and a   *)
(* call that retries can empty a second one.                               *)
EXTENDS F2fsGc

CONSTANTS s1, s2, s3, s4, NatError

MCSegments == {s1, s2, s3, s4}
MCPairs == {{s1, s2}, {s3, s4}}
MCErrors == {NatError}
=============================================================================
