---------------------------- MODULE MCNodeManager ----------------------------
(* Two segments, reasons with and without the discard bit, two inodes of   *)
(* one node each: the node of the inode synced and one of another.         *)
EXTENDS NodeManager

CONSTANTS s1, s2, Gc, NatError, WriteError, n1, n2, i1, i2

MCSegments == {s1, s2}
MCCallers == {Gc}
MCReasons == {{}, {1}}
MCErrors == {NatError}
MCNodes == {n1, n2}
MCInodes == {i1, i2}
MCInoOf == [nid \in {n1, n2} |-> IF nid = n1 THEN i1 ELSE i2]
MCSyncErrors == {WriteError}
=============================================================================
