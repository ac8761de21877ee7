----------------------------- MODULE PowerStack -----------------------------
(***************************************************************************)
(* x683_power_stack_init(): seven initialisers in a row, none of them      *)
(* skipped when an earlier one fails, their results or-ed into one.  An    *)
(* int is the set of its bits; it is negative if the sign bit is set.      *)
(***************************************************************************)
EXTENDS Naturals, Sequences

CONSTANTS
  Codes,    (* what an initialiser may return, 0 as the empty set        *)
  Sign      (* the sign bit                                              *)

VARIABLES
  powerStep,   (* initialisers that have returned                        *)
  powerRet,    (* local ret                                              *)
  outcome      (* history: what they reported, at its worst              *)

powerVars == <<powerStep, powerRet, outcome>>

Initialisers ==
  <<"_mt_cpufreq_pdrv_init", "mtk_cpuidle_init", "ppm_platform_init",
    "eem_init", "pbm_module_init", "spm_fs_init",
    "mtk_thermal_platform_init">>

PowerInit == powerStep = 0 /\ powerRet = {} /\ outcome = "fine"

Worse(code) ==
  CASE Sign \in code \/ outcome = "negative" -> "negative"
    [] code = {} -> outcome
    [] OTHER -> "positive"

(* A faulty variant keeps the last result only.                            *)
BugAssign(code) == code
Gathered(code) == powerRet \union code

RunInitialiser(code) ==
  /\ powerStep < Len(Initialisers)
  /\ powerStep' = powerStep + 1
  /\ powerRet' = Gathered(code)
  /\ outcome' = Worse(code)

PowerNext == \E code \in Codes : RunInitialiser(code)
PowerSpec == PowerInit /\ [][PowerNext]_powerVars
-----------------------------------------------------------------------------
PowerTypeOK ==
  /\ powerStep \in 0..Len(Initialisers)
  /\ powerRet \subseteq UNION Codes
  /\ outcome \in {"fine", "positive", "negative"}

(* The stack's result is 0 only if every initialiser succeeded, whichever  *)
(* of them failed and whatever came after it, and it is negative exactly   *)
(* if one of them reported a negative error: or-ing never makes failures   *)
(* cancel.  (Two errors may well or to a third, so nothing more is sure.)  *)
InitReportsFailures ==
  /\ powerRet = {} <=> outcome = "fine"
  /\ Sign \in powerRet <=> outcome = "negative"
=============================================================================
