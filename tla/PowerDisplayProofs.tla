------------------------- MODULE PowerDisplayProofs -------------------------
(***************************************************************************)
(* The power stack for any error codes, and the display bridge for any     *)
(* number of notifying threads and any events.  The two have nothing to do *)
(* with each other; the theorems are each about one of them.               *)
(***************************************************************************)
EXTENDS PowerStack, DisplayBridge, TLAPS

(* Before the first initialiser there is nothing to report.                *)
LEMMA ReportInit == PowerInit => InitReportsFailures
  BY DEF PowerInit, InitReportsFailures

(* A result or-ed in keeps what was reported and adds what it reports.     *)
LEMMA ReportNext ==
  ASSUME InitReportsFailures, [PowerNext]_powerVars
  PROVE  InitReportsFailures'
<1>1. ASSUME NEW code \in Codes, RunInitialiser(code)
      PROVE  InitReportsFailures'
  <2>1. CASE Sign \in code
    BY <1>1, <2>1 DEF RunInitialiser, Gathered, Worse, InitReportsFailures
  <2>2. CASE Sign \notin code /\ outcome = "negative"
    BY <1>1, <2>2 DEF RunInitialiser, Gathered, Worse, InitReportsFailures
  <2>3. CASE Sign \notin code /\ outcome # "negative"
    BY <1>1, <2>3 DEF RunInitialiser, Gathered, Worse, InitReportsFailures
  <2>4. QED
    BY <2>1, <2>2, <2>3
<1>2. CASE UNCHANGED powerVars
  BY <1>2 DEF powerVars, InitReportsFailures
<1>3. QED
  BY <1>1, <1>2 DEF PowerNext

(* No failure of an initialiser is lost, and none is made up.              *)
THEOREM FailuresReported == PowerSpec => []InitReportsFailures
<1>1. InitReportsFailures /\ [PowerNext]_powerVars => InitReportsFailures'
  BY ReportNext
<1>2. QED
  BY <1>1, ReportInit, PTL DEF PowerSpec

(* Type correctness: the result has bits of the codes only.                *)
THEOREM PowerTypeCorrect == PowerSpec => []PowerTypeOK
<1>1. PowerInit => PowerTypeOK
  BY DEF PowerInit, PowerTypeOK, Initialisers
<1>2. PowerTypeOK /\ [PowerNext]_powerVars => PowerTypeOK'
  BY DEF PowerTypeOK, PowerNext, RunInitialiser, Gathered, Worse, powerVars,
         Initialisers
<1>3. QED
  BY <1>1, <1>2, PTL DEF PowerSpec

-----------------------------------------------------------------------------
(* The strengthening: a notification under way carries a recent event.     *)
CatchUpInv ==
  /\ DisplayTypeOK
  /\ PoliciesCatchUp
  /\ \A notifier \in Notifiers :
       notifyPc[notifier] # "idle" => event[notifier] \in recent

(* At first every policy holds the only event there was.                   *)
LEMMA CatchUpInit == DisplayInit => CatchUpInv
  BY DEF DisplayInit, CatchUpInv, DisplayTypeOK, PoliciesCatchUp, Passed,
         NotifyPoints, Policies

(* Each step of a notification, overlapping others or not.                 *)
LEMMA CatchUpNext ==
  ASSUME CatchUpInv, [DisplayNext]_displayVars
  PROVE  CatchUpInv'
<1> USE DEF CatchUpInv, DisplayTypeOK, PoliciesCatchUp, NotifyPoints
<1>1. ASSUME NEW policy \in Policies, Register(policy) \/ Unregister(policy)
      PROVE  CatchUpInv'
  BY <1>1 DEF Register, Unregister, Passed, Quiet
<1>2. ASSUME NEW notifier \in Notifiers, NEW val \in Events,
             NotifyBegin(notifier, val)
      PROVE  CatchUpInv'
  BY <1>2 DEF NotifyBegin, Passed, Quiet, Policies
<1>3. ASSUME NEW notifier \in Notifiers, NEW policy \in Policies,
             ChainCall(notifier, policy)
      PROVE  CatchUpInv'
  BY <1>3 DEF ChainCall, Deliver, Passed, Quiet
<1>4. ASSUME NEW notifier \in Notifiers, ChainReturns(notifier)
      PROVE  CatchUpInv'
  BY <1>4 DEF ChainReturns, AfterChain, Passed, Quiet, Policies
<1>5. ASSUME NEW notifier \in Notifiers, DirectCall(notifier)
      PROVE  CatchUpInv'
  BY <1>5 DEF DirectCall, Deliver, After, Passed, Quiet, Policies
<1>6. ASSUME NEW notifier \in Notifiers, NotifyReturns(notifier)
      PROVE  CatchUpInv'
  BY <1>6 DEF NotifyReturns, Passed, Quiet, Policies
<1>7. CASE UNCHANGED displayVars
  BY <1>7 DEF displayVars, Passed, Quiet
<1>8. QED
  BY <1>1, <1>2, <1>3, <1>4, <1>5, <1>6, <1>7 DEF DisplayNext

(* Types and events hold together.                                         *)
LEMMA CatchUpAlways == DisplaySpec => []CatchUpInv
<1>1. CatchUpInv /\ [DisplayNext]_displayVars => CatchUpInv'
  BY CatchUpNext
<1>2. QED
  BY <1>1, CatchUpInit, PTL DEF DisplaySpec

(* No policy is left behind by the display.                                *)
THEOREM NoPolicyLeftBehind == DisplaySpec => []PoliciesCatchUp
<1>1. CatchUpInv => PoliciesCatchUp
  BY DEF CatchUpInv
<1>2. QED
  BY <1>1, CatchUpAlways, PTL

(* Type correctness: no step leaves the points of a notification.          *)
THEOREM DisplayTypeCorrect == DisplaySpec => []DisplayTypeOK
<1>1. CatchUpInv => DisplayTypeOK
  BY DEF CatchUpInv
<1>2. QED
  BY <1>1, CatchUpAlways, PTL
=============================================================================
