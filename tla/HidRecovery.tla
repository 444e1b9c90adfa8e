----------------------------- MODULE HidRecovery -----------------------------
(***************************************************************************)
(* How the virtual HID comes back: two scheduled tasks that run              *)
(* ensure_virtual_hid.ps1 and may overlap (install_hid_recovery_task.ps1),   *)
(* the creator they call (native/swdevice_creator/main.cpp), and the         *)
(* controller that asks for the second task (virtual_hid_recovery.py, tick).  *)
(* Left out: the removal of absent devices with other instance ids, which    *)
(* touches no state kept here, and logs.                                     *)
(***************************************************************************)
EXTENDS Naturals

CONSTANTS None, MaxFaults, MaxReboots  \* bounds: failures and restarts of Windows

ASSUME BoundAssumption == MaxFaults \in Nat /\ MaxReboots \in Nat

VARIABLES
  node,    \* the stable SWD: "none", "stale", "new" (no HID yet) or "working"
  kept,    \* its lifetime is that of its parent
  owner,   \* the task whose creator holds its HSWDEVICE, or None
  tombed,  \* the stable id is reserved until Windows restarts
  pc,      \* where each task is
  due,     \* tasks whose trigger has come and that have not started
  ctl,     \* tick(): "probe", or "ask" once it has seen no HID
  faults, reboots

vars == <<node, kept, owner, tombed, pc, due, ctl, faults, reboots>>
devVars == <<node, kept, owner, tombed>>

Tasks == {"system", "user"}

\* Windows after a restart: a device of an earlier session is at most a ghost.
Ghosts == {"none", "stale"}

Init ==
  /\ node \in Ghosts /\ kept = FALSE /\ owner = None /\ tombed = FALSE
  /\ pc = [t \in Tasks |-> "off"] /\ due = Tasks /\ ctl = "probe" /\ faults = 0 /\ reboots = 0

Reboot ==
  /\ reboots < MaxReboots /\ reboots' = reboots + 1
  /\ node' \in Ghosts /\ kept' = FALSE /\ owner' = None /\ tombed' = FALSE
  /\ pc' = [t \in Tasks |-> "off"] /\ due' = Tasks /\ ctl' = "probe" /\ UNCHANGED faults

Goes(t, to) == pc' = [pc EXCEPT ![t] = to]
Sound == UNCHANGED faults
Fault == faults < MaxFaults /\ faults' = faults + 1

\* MultipleInstances IgnoreNew: a task that runs is not started again.
Run(t) == pc' = [pc EXCEPT ![t] = IF @ = "off" THEN "check" ELSE @]

\* The start-up and the log-on trigger.
Trigger(t) ==
  /\ t \in due /\ due' = due \ {t} /\ Run(t) /\ UNCHANGED <<devVars, ctl, faults, reboots>>

-----------------------------------------------------------------------------
(* ensure_virtual_hid.ps1 *)

Check(t) ==
  /\ pc[t] = "check" /\ Goes(t, IF node = "working" THEN "off" ELSE "lookup")
  /\ UNCHANGED <<devVars, due, ctl, faults, reboots>>

FoundX == FALSE
Found == node # "none"

\* Any node with the stable id counts as stale here, a new one of the other task too.
Lookup(t) ==
  /\ pc[t] = "lookup" /\ Goes(t, IF Found THEN "remove" ELSE "create")
  /\ UNCHANGED <<devVars, due, ctl, faults, reboots>>

\* pnputil removes the node, whatever it is now, and the id is free or "can remain
\* tombstoned until reboot" (main.cpp:48); or it asks for a restart (3010), until which
\* the node stays and nothing takes its id; or it fails.
Remove(t) ==
  /\ pc[t] = "remove"
  /\ \/ /\ node' = "none" /\ kept' = FALSE /\ owner' = None
        /\ tombed' \in {tombed, TRUE} /\ Goes(t, "create") /\ Sound
     \/ tombed' = TRUE /\ Goes(t, "create") /\ Sound /\ UNCHANGED <<node, kept, owner>>
     \/ Fault /\ Goes(t, "off") /\ UNCHANGED devVars
  /\ UNCHANGED <<due, ctl, reboots>>

\* The wait for the HID ends; with a device that is about to come only by a fault.
Await(t) ==
  /\ pc[t] = "wait" /\ Goes(t, "off")
  /\ IF node = "new" THEN Fault ELSE Sound
  /\ UNCHANGED <<devVars, due, ctl, reboots>>

-----------------------------------------------------------------------------
(* The creator, and Windows. *)

\* The handle is closed: the node goes with it unless it has its parent's lifetime.
Closed(t) ==
  /\ owner' = IF owner = t THEN None ELSE owner
  /\ node' = IF owner = t /\ ~kept THEN "stale" ELSE node
  /\ UNCHANGED <<kept, tombed>>

\* SwDeviceCreate, which takes no id that is in use or reserved.
Create(t) ==
  /\ pc[t] = "create"
  /\ \/ /\ node = "none" /\ ~tombed /\ node' = "new" /\ owner' = t
        /\ Goes(t, "callback") /\ Sound /\ UNCHANGED <<kept, tombed>>
     \/ (node # "none" \/ tombed) /\ Goes(t, "off") /\ Sound /\ UNCHANGED devVars
     \/ Fault /\ Goes(t, "off") /\ UNCHANGED devVars
  /\ UNCHANGED <<due, ctl, reboots>>

\* CreatedCallback in time; or it is late or reports an error, and the handle is closed.
Callback(t) ==
  /\ pc[t] = "callback"
  /\ \/ Goes(t, "lifetime") /\ Sound /\ UNCHANGED devVars
     \/ Fault /\ Closed(t) /\ Goes(t, "off")
  /\ UNCHANGED <<due, ctl, reboots>>

\* SwDeviceSetLifetime fails for a node that was removed meanwhile.
SetLifetime(t) ==
  /\ pc[t] = "lifetime"
  /\ \/ owner = t /\ kept' = TRUE /\ Goes(t, "close") /\ Sound /\ UNCHANGED <<node, owner, tombed>>
     \/ (IF owner = t THEN Fault ELSE Sound) /\ Closed(t) /\ Goes(t, "off")
  /\ UNCHANGED <<due, ctl, reboots>>

Close(t) ==
  /\ pc[t] = "close" /\ Closed(t) /\ Goes(t, "wait") /\ UNCHANGED <<due, ctl, faults, reboots>>

\* The time limit of the task ends it, and its creator with it.
Limit(t) ==
  /\ pc[t] # "off" /\ Fault /\ Closed(t) /\ Goes(t, "off") /\ UNCHANGED <<due, ctl, reboots>>

\* Plug and Play starts the HID of a new node, or leaves it with a problem code.
Enumerate ==
  /\ node = "new"
  /\ \/ node' = "working" /\ Sound
     \/ node' = "stale" /\ Fault
  /\ UNCHANGED <<kept, owner, tombed, pc, due, ctl, reboots>>

-----------------------------------------------------------------------------
(* The controller, with Codex and a SpaceMouse there. *)

Probe ==
  /\ ctl = "probe" /\ ctl' = IF node = "working" THEN "probe" ELSE "ask"
  /\ UNCHANGED <<devVars, pc, due, faults, reboots>>

\* request_virtual_hid_recovery; the next tick() that may ask comes 5 s later.
Ask ==
  /\ ctl = "ask" /\ ctl' = "probe"
  /\ \/ Run("user") /\ Sound
     \/ Fault /\ UNCHANGED pc
  /\ UNCHANGED <<devVars, due, reboots>>

Step(t) ==
  \/ Trigger(t) \/ Check(t) \/ Lookup(t) \/ Remove(t) \/ Await(t)
  \/ Create(t) \/ Callback(t) \/ SetLifetime(t) \/ Close(t)

Next ==
  \/ \E t \in Tasks : Step(t) \/ Limit(t)
  \/ Enumerate \/ Probe \/ Ask \/ Reboot

\* Tasks and the monitor go on, and Windows starts devices; nothing has to fail.
FairSpec ==
  /\ Init /\ [][Next]_vars
  /\ \A t \in Tasks : WF_vars(Step(t))
  /\ WF_vars(Enumerate) /\ WF_vars(Probe) /\ WF_vars(Ask)

-----------------------------------------------------------------------------
\* Unless the stable id stays reserved, a virtual HID that a restart has taken away
\* comes back and stays, through overlapping tasks that remove each other's node,
\* failures of any step and time limits, as long as they are finitely many
\* (ensure_virtual_hid.ps1, release_controller.py:238-240).
HidSettles == <>[](node = "working") \/ <>[]tombed

=============================================================================
