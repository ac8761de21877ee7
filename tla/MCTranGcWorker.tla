--------------------------- MODULE MCTranGcWorker ---------------------------
(* Any number of runs and of collector calls, with counters that wrap, and *)
(* the memory behind them.                                                 *)
EXTENDS VendorBlock

CONSTANT Done

MCModes == {0, 1}
MCOneResult == {Done}
MCChargerTypes == {0, 1}
=============================================================================
