--------------------------- MODULE MCPowerDisplay ---------------------------
(* Two systems that share nothing, checked side by side in one run: the    *)
(* initialisation with errors that or to others, and the display bridge    *)
(* with two threads that notify, blank and unblank.                        *)
EXTENDS PowerStack, DisplayBridge

CONSTANTS SignBit, b0, b1, Fb, Drm, Blank, Unblank

MCCodes == {{}, {b0}, {SignBit, b0}, {SignBit, b1}}
MCNotifiers == {Fb, Drm}
MCEvents == {Blank, Unblank}

Init == PowerInit /\ DisplayInit
Next == \/ PowerNext /\ UNCHANGED displayVars
        \/ DisplayNext /\ UNCHANGED powerVars
Spec == Init /\ [][Next]_<<powerVars, displayVars>>
=============================================================================
