---------------------------- MODULE DisplayBridge ----------------------------
(***************************************************************************)
(* x683_display_notify(): a display event goes through the framebuffer     *)
(* notifier chain, where any client may stop it, and then straight to PPM, *)
(* GED and the CM manager, which may be clients of the chain as well.      *)
(* Several threads may notify at once, and passes of the chain overlap;    *)
(* clients come and go while no pass is under way.                         *)
(***************************************************************************)
CONSTANTS
  Notifiers,   (* threads that notify                                    *)
  Events       (* display events                                         *)

VARIABLES
  chain,       (* the policies registered in the chain                   *)
  seen,        (* the event that each policy was called with last        *)
  notifyPc,    (* where each notifier stands                             *)
  event,       (* its argument event                                     *)
  left,        (* clients its pass has yet to call                       *)
  recent       (* history: events since the display was last quiet       *)

displayVars == <<chain, seen, notifyPc, event, left, recent>>

Policies == {"ppm", "ged", "cm_mgr"}
NotifyPoints == {"idle", "chain", "dvfs"} \union Policies

(* The direct calls, in the order of the code.                             *)
After(point) ==
  CASE point = "ppm" -> "ged" [] point = "ged" -> "cm_mgr"
    [] point = "cm_mgr" -> "dvfs"

(* The direct call of the policy lies behind the notifier.                 *)
Passed(notifier, policy) ==
  \/ notifyPc[notifier] = "dvfs"
  \/ notifyPc[notifier] = "cm_mgr" /\ policy # "cm_mgr"
  \/ notifyPc[notifier] = "ged" /\ policy = "ppm"

Quiet == \A notifier \in Notifiers : notifyPc[notifier] = "idle"

DisplayInit ==
  /\ chain \in SUBSET Policies
  /\ \E first \in Events :
       /\ seen = [policy \in Policies |-> first]
       /\ event = [notifier \in Notifiers |-> first]
       /\ recent = {first}
  /\ notifyPc = [notifier \in Notifiers |-> "idle"]
  /\ left = [notifier \in Notifiers |-> {}]

(* The chain is changed only while nobody goes through it.                 *)
ChainFree == \A notifier \in Notifiers : notifyPc[notifier] # "chain"

Register(policy) ==
  /\ ChainFree
  /\ chain' = chain \union {policy}
  /\ UNCHANGED <<seen, notifyPc, event, left, recent>>

Unregister(policy) ==
  /\ ChainFree
  /\ chain' = chain \ {policy}
  /\ UNCHANGED <<seen, notifyPc, event, left, recent>>

NotifyBegin(notifier, val) ==
  /\ notifyPc[notifier] = "idle"
  /\ notifyPc' = [notifyPc EXCEPT ![notifier] = "chain"]
  /\ event' = [event EXCEPT ![notifier] = val]
  /\ left' = [left EXCEPT ![notifier] = chain]
  /\ recent' = IF Quiet THEN {val} ELSE recent \union {val}
  /\ UNCHANGED <<chain, seen>>

Deliver(notifier, policy) == seen' = [seen EXCEPT ![policy] = event[notifier]]

ChainCall(notifier, policy) ==
  /\ notifyPc[notifier] = "chain" /\ policy \in left[notifier]
  /\ Deliver(notifier, policy)
  /\ left' = [left EXCEPT ![notifier] = @ \ {policy}]
  /\ UNCHANGED <<chain, notifyPc, event, recent>>

(* A faulty variant takes a stopped chain for the end of the event.        *)
BugStopEndsAll(notifier) == IF left[notifier] = {} THEN "ppm" ELSE "idle"
AfterChain(notifier) == "ppm"

(* The end of the chain, or a client that returned NOTIFY_STOP.            *)
ChainReturns(notifier) ==
  /\ notifyPc[notifier] = "chain"
  /\ notifyPc' = [notifyPc EXCEPT ![notifier] = AfterChain(notifier)]
  /\ left' = [left EXCEPT ![notifier] = {}]
  /\ UNCHANGED <<chain, seen, event, recent>>

DirectCall(notifier) ==
  /\ notifyPc[notifier] \in Policies
  /\ Deliver(notifier, notifyPc[notifier])
  /\ notifyPc' = [notifyPc EXCEPT ![notifier] = After(@)]
  /\ UNCHANGED <<chain, event, left, recent>>

(* ged_dvfs_trigger_fb_dvfs(), and the return of what the chain returned.  *)
NotifyReturns(notifier) ==
  /\ notifyPc[notifier] = "dvfs"
  /\ notifyPc' = [notifyPc EXCEPT ![notifier] = "idle"]
  /\ UNCHANGED <<chain, seen, event, left, recent>>

DisplayNext ==
  \/ \E policy \in Policies : Register(policy) \/ Unregister(policy)
  \/ \E notifier \in Notifiers :
       \/ \E val \in Events : NotifyBegin(notifier, val)
       \/ \E policy \in Policies : ChainCall(notifier, policy)
       \/ ChainReturns(notifier) \/ DirectCall(notifier)
       \/ NotifyReturns(notifier)

DisplaySpec == DisplayInit /\ [][DisplayNext]_displayVars
-----------------------------------------------------------------------------
DisplayTypeOK ==
  /\ chain \subseteq Policies
  /\ seen \in [Policies -> Events]
  /\ notifyPc \in [Notifiers -> NotifyPoints]
  /\ event \in [Notifiers -> Events]
  /\ left \in [Notifiers -> SUBSET Policies]
  /\ recent \subseteq Events

(* No policy is left behind: once any notification has passed a policy,    *)
(* and whenever the display is quiet, that policy holds an event of the    *)
(* last busy period, registered or not, stopped chain or not.  So after a  *)
(* notification that nobody overlapped all three agree on its event.       *)
PoliciesCatchUp ==
  \A policy \in Policies :
    Quiet \/ (\E notifier \in Notifiers : Passed(notifier, policy))
      => seen[policy] \in recent
=============================================================================
