-------------------------- MODULE MappingAppProofs --------------------------
(***************************************************************************)
(* Theorems about MappingApp, for any mappings, bridge threads and queue   *)
(* size: its types, that "saved" is never said of another file, and that   *)
(* a bridge has a window that can stop it.                                 *)
(***************************************************************************)
EXTENDS MappingApp, TLAPS

-----------------------------------------------------------------------------
(* Types                                                                   *)

Stations == {"gone", "ensure", "load", "loop", "write", "drain", "dialog"}

\* The parts of the types.
EditorTypes ==
  /\ file \in Valid \cup {"partial", "absent"} /\ ui \in Valid \cup Invalid
  /\ config \in Valid /\ active \in Valid /\ saved \in BOOLEAN
  /\ kpc \in Stations
  /\ starting \in BOOLEAN /\ editOn \in BOOLEAN /\ startOn \in BOOLEAN
  /\ refresh \in BOOLEAN /\ closing \in BOOLEAN

BridgeTypes ==
  /\ thread \in Workers \cup {None} /\ stop \in BOOLEAN
  /\ wpc \in [Workers -> Lives \cup {"free"}]
  /\ lostStop \in BOOLEAN /\ raced \in BOOLEAN

QueueTypes == messages \in Seq(Kinds) /\ Len(messages) <= QueueSize

LEMMA TypeParts == TypeOK <=> EditorTypes /\ BridgeTypes /\ QueueTypes
BY DEF TypeOK, EditorTypes, BridgeTypes, QueueTypes, Stations

LEMMA InitTypes == Init => TypeOK
<1> SUFFICES ASSUME Init PROVE EditorTypes /\ BridgeTypes /\ QueueTypes
  BY TypeParts
<1>1. EditorTypes
  BY MappingAssumption DEF Init, EditorTypes, Stations
<1>2. BridgeTypes
  BY DEF Init, BridgeTypes
<1>3. QueueTypes
  BY MappingAssumption DEF Init, QueueTypes
<1> QED
  BY <1>1, <1>2, <1>3

\* put_nowait keeps the queue within its size, and adds at most its message.
LEMMA PutMessageSteps ==
  ASSUME QueueTypes, NEW k \in Kinds, PutMessage(k)
  PROVE  /\ QueueTypes'
         /\ \A i \in 1..Len(messages') :
              messages'[i] = k \/ (i \in 1..Len(messages) /\ messages'[i] = messages[i])
<1>1. CASE Full
  BY <1>1 DEF QueueTypes, PutMessage
<1>2. CASE ~Full
  <2>1. messages' = Append(messages, k) /\ messages \in Seq(Kinds)
    BY <1>2 DEF QueueTypes, PutMessage
  <2>2. Len(messages) < QueueSize /\ Len(messages) \in Nat
    BY <1>2, MappingAssumption DEF QueueTypes, Full
  <2>3. /\ messages' \in Seq(Kinds) /\ Len(messages') = Len(messages) + 1
        /\ \A i \in 1..Len(messages) : messages'[i] = messages[i]
        /\ messages'[Len(messages) + 1] = k
    BY <2>1
  <2>4. QueueTypes'
    BY <2>2, <2>3, MappingAssumption DEF QueueTypes
  <2>5. ASSUME NEW i \in 1..Len(messages')
        PROVE  messages'[i] = k \/ (i \in 1..Len(messages) /\ messages'[i] = messages[i])
    <3>1. CASE i = Len(messages) + 1
      BY <2>3, <3>1
    <3>2. CASE i # Len(messages) + 1
      <4>1. i \in 1..Len(messages)
        BY <2>2, <2>3, <3>2
      <4> QED
        BY <2>3, <4>1
    <3> QED
      BY <3>1, <3>2
  <2> QED
    BY <2>4, <2>5
<1> QED
  BY <1>1, <1>2

\* get_nowait takes the first message.
LEMMA TakeSteps ==
  ASSUME QueueTypes, Take
  PROVE  /\ QueueTypes'
         /\ \A i \in 1..Len(messages') : i + 1 \in 1..Len(messages)
                                         /\ messages'[i] = messages[i + 1]
  BY MappingAssumption DEF QueueTypes, Take

\* What the steps do with the queue.
LEMMA QueueSteps ==
  ASSUME [Next]_vars
  PROVE  messages' = <<>> \/ UNCHANGED messages \/ Take \/ \E k \in Kinds : PutMessage(k)
<1>1. Launch \/ EnsureConfig \/ Edit \/ ResetDefaults \/ Reload \/ Save \/ StartBridge \/ SaveFails
        \/ StopBridge \/ Close \/ Refresh \/ DismissError \/ FinishSave \/ DrainEnds
        => UNCHANGED messages
  BY DEF Launch, EnsureConfig, Edit, ResetDefaults, Reload, Save, StartBridge, BeginSave, SaveFails,
     StopBridge, Close, Refresh, DismissError, FinishSave, DrainEnds, bridgeVars
<1>2. OpenWindow \/ Crash => messages' = <<>>
  BY DEF OpenWindow, Crash
<1>3. DrainOther \/ DrainError \/ DrainStopped => Take
  BY DEF DrainOther, DrainError, DrainStopped
<1>4. ASSUME NEW w \in Workers, WorkerStep(w) \/ Observe(w) \/ RunFails(w)
      PROVE  UNCHANGED messages \/ \E k \in Kinds : PutMessage(k)
  BY <1>4 DEF WorkerStep, BeginRun, Connected, Observe, LeaveLoop, RunFails, ReportError,
     ReportStopped, EndRun, Kinds
<1>5. UNCHANGED vars => UNCHANGED messages
  BY DEF vars, bridgeVars
<1> QED
  BY <1>1, <1>2, <1>3, <1>4, <1>5 DEF Next, TkStep

LEMMA QueueTypesNext == QueueTypes /\ [Next]_vars => QueueTypes'
<1> SUFFICES ASSUME QueueTypes, [Next]_vars PROVE QueueTypes'
  OBVIOUS
<1>1. CASE messages' = <<>>
  BY <1>1, MappingAssumption DEF QueueTypes
<1>2. CASE UNCHANGED messages
  BY <1>2 DEF QueueTypes
<1>3. CASE Take
  BY <1>3, TakeSteps
<1>4. CASE \E k \in Kinds : PutMessage(k)
  BY <1>4, PutMessageSteps
<1> QED
  BY <1>1, <1>2, <1>3, <1>4, QueueSteps

\* The steps of the bridge threads do not touch the window.
LEMMA WorkerSteps ==
  ASSUME NEW w \in Workers, WorkerStep(w) \/ Observe(w) \/ RunFails(w)
  PROVE  /\ UNCHANGED <<fileVars, windowVars, thread, active, stop, raced>>
         /\ \/ wpc' = wpc /\ wpc[w] = "loop"
            \/ \E to \in (Lives \cup {"free"}) \ {"created"} :
                  wpc[w] # "free" /\ wpc' = [wpc EXCEPT ![w] = to]
  BY DEF WorkerStep, BeginRun, Connected, Observe, LeaveLoop, RunFails, ReportError,
     ReportStopped, EndRun, WorkerGoes, Running, Lives

LEMMA EditorTypesNext == EditorTypes /\ [Next]_vars => EditorTypes'
<1> SUFFICES ASSUME EditorTypes, [Next]_vars PROVE EditorTypes'
  OBVIOUS
<1> USE MappingAssumption
<1>1. ASSUME Launch \/ EnsureConfig \/ Crash PROVE EditorTypes'
  BY <1>1 DEF Launch, EnsureConfig, Crash, fileVars, windowVars, bridgeVars, EditorTypes, Stations
<1>2. ASSUME OpenWindow PROVE EditorTypes'
  BY <1>2 DEF OpenWindow, Loaded, Loads, EditorTypes, Stations
<1>3. ASSUME Edit \/ ResetDefaults \/ Reload PROVE EditorTypes'
  BY <1>3 DEF Edit, Edited, ResetDefaults, Reload, Loads, windowVars, bridgeVars, EditorTypes
<1>4. ASSUME NEW start \in BOOLEAN, BeginSave(start) PROVE EditorTypes'
  BY <1>4 DEF BeginSave, Validates, bridgeVars, EditorTypes, Stations
<1>5. ASSUME SaveFails PROVE EditorTypes'
  BY <1>5 DEF SaveFails, Validates, bridgeVars, EditorTypes, Stations
<1>6. ASSUME FinishSave PROVE EditorTypes'
  BY <1>6 DEF FinishSave, Written, Locked, EditorTypes, Stations
<1>7. ASSUME NEW w \in Workers, WorkerStep(w) \/ Observe(w) \/ RunFails(w) PROVE EditorTypes'
  BY <1>7, WorkerSteps DEF fileVars, windowVars, EditorTypes
<1>8. ASSUME StopBridge \/ Close \/ Refresh \/ DismissError PROVE EditorTypes'
  BY ZenonT(30), <1>8 DEF StopBridge, Close, Refresh, DismissError, fileVars, windowVars, bridgeVars,
     EditorTypes, Stations
<1>9. ASSUME DrainOther \/ DrainError \/ DrainStopped \/ DrainEnds PROVE EditorTypes'
  BY <1>9 DEF DrainOther, DrainError, DrainStopped, DrainEnds, fileVars, bridgeVars,
     EditorTypes, Stations
<1>10. UNCHANGED vars => EditorTypes'
  BY DEF vars, fileVars, windowVars, bridgeVars, EditorTypes
<1> QED
  BY <1>1, <1>2, <1>3, <1>4, <1>5, <1>6, <1>7, <1>8, <1>9, <1>10 DEF Next, TkStep, Save, StartBridge

LEMMA BridgeTypesNext == BridgeTypes /\ QueueTypes /\ [Next]_vars => BridgeTypes'
<1> SUFFICES ASSUME BridgeTypes, QueueTypes, [Next]_vars PROVE BridgeTypes'
  OBVIOUS
<1>1. ASSUME UNCHANGED <<thread, stop, wpc, lostStop, raced>> PROVE BridgeTypes'
  BY <1>1 DEF BridgeTypes
<1>2. Launch \/ EnsureConfig \/ Edit \/ ResetDefaults \/ Reload \/ Save \/ StartBridge \/ SaveFails
        \/ Refresh \/ DismissError \/ DrainOther \/ DrainError \/ DrainEnds \/ UNCHANGED vars
        => UNCHANGED <<thread, stop, wpc, lostStop, raced>>
  BY DEF Launch, EnsureConfig, Edit, ResetDefaults, Reload, Save, StartBridge, BeginSave, SaveFails,
     Refresh, DismissError, DrainOther, DrainError, DrainEnds, vars, bridgeVars
<1>3. ASSUME OpenWindow \/ Crash \/ StopBridge \/ Close \/ DrainStopped PROVE BridgeTypes'
  BY <1>3 DEF OpenWindow, Crash, StopBridge, Close, Stops, DrainStopped, bridgeVars, BridgeTypes
<1>4. ASSUME FinishSave PROVE BridgeTypes'
  BY <1>4 DEF FinishSave, BridgeTypes, Lives
<1>5. ASSUME NEW w \in Workers, WorkerStep(w) \/ Observe(w) \/ RunFails(w) PROVE BridgeTypes'
  <2>1. UNCHANGED <<thread, stop, raced>> /\ wpc' \in [Workers -> Lives \cup {"free"}]
    BY <1>5, WorkerSteps DEF BridgeTypes
  <2>2. lostStop' \in BOOLEAN
    BY <1>5 DEF WorkerStep, BeginRun, Connected, Observe, LeaveLoop, RunFails, ReportError,
       ReportStopped, EndRun, PutMessage, BridgeTypes
  <2> QED
    BY <2>1, <2>2 DEF BridgeTypes
<1> QED
  BY <1>1, <1>2, <1>3, <1>4, <1>5 DEF Next, TkStep

LEMMA NextTypes == TypeOK /\ [Next]_vars => TypeOK'
<1> SUFFICES ASSUME TypeOK, [Next]_vars PROVE TypeOK'
  OBVIOUS
<1>1. EditorTypes' /\ BridgeTypes' /\ QueueTypes'
  BY TypeParts, EditorTypesNext, BridgeTypesNext, QueueTypesNext
<1> QED
  BY <1>1 DEF TypeOK, EditorTypes, BridgeTypes, QueueTypes, Stations

\* Every field has its type through edits, saves, bridge runs and kills: the queue never
\* holds more than its size, and a configuration in memory is one that validates.
THEOREM MappingTypeCorrect == Spec => []TypeOK
<1> QED
  BY InitTypes, NextTypes, PTL DEF Spec

-----------------------------------------------------------------------------
(* The label "saved"                                                       *)

\* What the file holds while a window is there and while it is written.
FileKnown ==
  /\ kpc # "gone" => file \in Valid \cup {"partial"}
  /\ kpc = "write" => file = "partial" /\ config = ui
  /\ saved /\ kpc \in {"loop", "drain", "dialog"} => file \in {ui, "partial"}

LEMMA FileKnownNext == TypeOK /\ FileKnown /\ [Next]_vars => FileKnown'
<1> SUFFICES ASSUME TypeOK, FileKnown, [Next]_vars PROVE FileKnown'
  OBVIOUS
<1>0. EditorTypes
  BY TypeParts
<1> USE MappingAssumption
\* A step that leaves the file and its label alone only has to keep the window.
<1>1. ASSUME UNCHANGED fileVars, kpc' \in {"gone", kpc} \/ {kpc, kpc'} \subseteq {"loop", "drain", "dialog"}
      PROVE  FileKnown'
  BY <1>1 DEF FileKnown, fileVars
<1>2. ASSUME Launch \/ EnsureConfig PROVE FileKnown'
  BY <1>0, <1>2 DEF Launch, EnsureConfig, FileKnown, EditorTypes
<1>3. ASSUME OpenWindow PROVE FileKnown'
  BY <1>3 DEF OpenWindow, Loaded, Loads, FileKnown
<1>4. ASSUME Crash \/ StopBridge \/ Close \/ Refresh \/ DismissError PROVE FileKnown'
  BY <1>1, <1>4 DEF Crash, StopBridge, Close, Event, Refresh, DismissError, windowVars
<1>5. ASSUME Edit \/ ResetDefaults \/ Reload PROVE FileKnown'
  BY <1>5 DEF Edit, Edited, ResetDefaults, Reload, Event, Loads, windowVars, FileKnown
<1>6. ASSUME NEW start, BeginSave(start) PROVE FileKnown'
  BY <1>6 DEF BeginSave, FileKnown
<1>7. ASSUME SaveFails PROVE FileKnown'
  BY <1>7 DEF SaveFails, Event, FileKnown
<1>8. ASSUME FinishSave PROVE FileKnown'
  BY <1>0, <1>8 DEF FinishSave, Written, FileKnown, EditorTypes
<1>9. ASSUME NEW w \in Workers, WorkerStep(w) \/ Observe(w) \/ RunFails(w) PROVE FileKnown'
  BY <1>1, <1>9, WorkerSteps DEF windowVars
<1>10. ASSUME DrainOther \/ DrainError \/ DrainStopped \/ DrainEnds PROVE FileKnown'
  BY <1>1, <1>10 DEF DrainOther, DrainError, DrainStopped, DrainEnds, Take, Drains, Event
<1>11. UNCHANGED vars => FileKnown'
  BY <1>1 DEF vars, windowVars
<1> QED
  BY <1>2, <1>3, <1>4, <1>5, <1>6, <1>7, <1>8, <1>9, <1>10, <1>11
     DEF Next, TkStep, Save, StartBridge

\* The label "saved" never stands beside a file that holds another mapping, whatever
\* sequence of edits, reloads, defaults, failed saves and restarts came before it.
THEOREM SavedMeansOnDiskHolds == Spec => []SavedMeansOnDisk
<1>1. Init => FileKnown
  BY DEF Init, FileKnown
<1>2. FileKnown => SavedMeansOnDisk
  BY DEF FileKnown, SavedMeansOnDisk
<1> QED
  BY InitTypes, NextTypes, FileKnownNext, <1>1, <1>2, PTL DEF Spec

-----------------------------------------------------------------------------
(* The bridge and its window                                               *)

\* From its creation to its "stopped" a bridge thread is the one of the window.
Active == {"created", "open", "loop", "failed", "finally"}

NoStopped == \A i \in 1..Len(messages) : messages[i] # "stopped"

Serves(w) ==
  /\ thread = w /\ kpc \in {"loop", "drain", "dialog"} /\ ~editOn /\ active = file /\ NoStopped

WindowServes == ~raced => \A w \in Workers : wpc[w] \in Active => Serves(w)

\* Nothing of an earlier process runs while one begins.
BeginsAlone == kpc \in {"ensure", "load"} => \A w \in Workers : wpc[w] = "free"

LEMMA BeginsAloneNext == TypeOK /\ BeginsAlone /\ [Next]_vars => BeginsAlone'
<1> SUFFICES ASSUME TypeOK, BeginsAlone, [Next]_vars PROVE BeginsAlone'
  OBVIOUS
<1>1. ASSUME UNCHANGED wpc, kpc' \in {"ensure", "load"} => kpc \in {"ensure", "load"}
      PROVE  BeginsAlone'
  BY <1>1 DEF BeginsAlone
<1>2. ASSUME Launch PROVE BeginsAlone'
  BY <1>2 DEF Launch, bridgeVars, BeginsAlone
<1>3. ASSUME \/ EnsureConfig \/ OpenWindow \/ Edit \/ ResetDefaults \/ Reload \/ Save \/ StartBridge
             \/ SaveFails
      PROVE  BeginsAlone'
  BY <1>1, <1>3 DEF EnsureConfig, OpenWindow, Edit, ResetDefaults, Reload, Save, StartBridge,
     BeginSave, SaveFails, windowVars, bridgeVars
<1>4. ASSUME StopBridge \/ Close \/ Refresh \/ DismissError \/ UNCHANGED vars PROVE BeginsAlone'
  BY <1>1, <1>4 DEF StopBridge, Close, Refresh, DismissError, vars, windowVars, bridgeVars
<1>5. ASSUME DrainOther \/ DrainError \/ DrainStopped \/ DrainEnds PROVE BeginsAlone'
  BY <1>1, <1>5 DEF DrainOther, DrainError, DrainStopped, DrainEnds, bridgeVars
<1>6. ASSUME Crash \/ FinishSave PROVE BeginsAlone'
  BY <1>6 DEF Crash, FinishSave, BeginsAlone
<1>7. ASSUME NEW w \in Workers, WorkerStep(w) \/ Observe(w) \/ RunFails(w) PROVE BeginsAlone'
  <2>1. UNCHANGED kpc /\ wpc[w] # "free"
    BY <1>7, WorkerSteps DEF windowVars
  <2> QED
    BY <2>1 DEF BeginsAlone
<1> QED
  BY <1>2, <1>3, <1>4, <1>5, <1>6, <1>7 DEF Next, TkStep

LEMMA WindowServesNext ==
  TypeOK /\ BeginsAlone /\ WindowServes /\ [Next]_vars => WindowServes'
<1> SUFFICES ASSUME TypeOK, BeginsAlone, WindowServes, [Next]_vars PROVE WindowServes'
  OBVIOUS
<1>0. EditorTypes /\ BridgeTypes /\ QueueTypes
  BY TypeParts
<1>a. messages \in Seq(Kinds) /\ wpc \in [Workers -> Lives \cup {"free"}]
  BY <1>0 DEF BridgeTypes, QueueTypes
\* While no bridge thread is active, nothing is asked of the window.
<1>1. ASSUME \A w \in Workers : wpc'[w] \notin Active PROVE WindowServes'
  BY <1>1 DEF WindowServes
<1>2. ASSUME UNCHANGED raced, \A w \in Workers : wpc'[w] \in Active => wpc[w] \in Active,
             \A w \in Workers : wpc'[w] \in Active /\ Serves(w) => Serves(w)'
      PROVE  WindowServes'
  BY <1>2 DEF WindowServes
\* A step of the window that leaves the file and the bridge alone.
<1>3. ASSUME UNCHANGED <<raced, wpc, thread, active, file, editOn>>,
             kpc \in {"loop", "drain", "dialog"} => kpc' \in {"loop", "drain", "dialog"},
             NoStopped => NoStopped'
      PROVE  WindowServes'
  BY <1>2, <1>3 DEF Serves
<1>4. UNCHANGED messages => (NoStopped => NoStopped')
  BY DEF NoStopped
<1>5. Take => (NoStopped => NoStopped')
  BY <1>0, TakeSteps DEF NoStopped
<1>6. ASSUME Launch \/ EnsureConfig \/ OpenWindow PROVE WindowServes'
  BY <1>1, <1>6 DEF Launch, EnsureConfig, OpenWindow, bridgeVars, BeginsAlone, Active
<1>7. ASSUME Crash PROVE WindowServes'
  BY <1>1, <1>7 DEF Crash, Active
<1>8. ASSUME Edit \/ ResetDefaults \/ Reload PROVE WindowServes'
  BY <1>3, <1>4, <1>8 DEF Edit, ResetDefaults, Reload, windowVars, bridgeVars
\* A save begins only without a bridge: its buttons are off, or it is alive.
<1>9. ASSUME Save \/ StartBridge PROVE WindowServes'
  <2>1. editOn \/ ~IsAlive(thread)
    BY <1>9 DEF Save, StartBridge
  <2>2. UNCHANGED <<raced, wpc, editOn>>
    BY <1>9 DEF Save, StartBridge, BeginSave, bridgeVars
  <2>3. ASSUME NEW w \in Workers, wpc[w] \in Active, Serves(w) PROVE FALSE
    <3>1. IsAlive(w)
      BY <2>3, MappingAssumption DEF IsAlive, Lives, Running, Active
    <3> QED
      BY <2>1, <2>3, <3>1 DEF Serves
  <2> QED
    BY <2>2, <2>3 DEF WindowServes
<1>10. ASSUME SaveFails PROVE WindowServes'
  BY <1>3, <1>4, <1>10 DEF SaveFails, bridgeVars
\* The next bridge thread is given what the file holds now.
<1>11. ASSUME FinishSave PROVE WindowServes'
  <2>1. kpc = "write" /\ kpc' = "loop" /\ file' = config /\ UNCHANGED messages
    BY <1>11 DEF FinishSave, Written
  <2>2. ~raced => \A w \in Workers : wpc[w] \notin Active
    BY <2>1 DEF WindowServes, Serves
  <2>3. CASE ~starting
    BY <1>11, <2>2, <2>3 DEF FinishSave, WindowServes
  <2>4. CASE starting
    <3>1. PICK w \in Workers :
             /\ wpc' = [wpc EXCEPT ![w] = "created"] /\ thread' = w
             /\ active' = config /\ editOn' = FALSE
             /\ raced' = (raced \/ \E i \in DOMAIN messages : messages[i] = "stopped")
      BY <1>11, <2>4 DEF FinishSave, Locked
    <3>2. DOMAIN messages = 1..Len(messages)
      BY <1>a
    <3>3. ~raced' => NoStopped'
      BY <2>1, <3>1, <3>2 DEF NoStopped
    <3>4. ~raced' => Serves(w)' /\ \A v \in Workers : v # w => wpc'[v] \notin Active
      BY <1>a, <2>1, <2>2, <3>1, <3>3 DEF Serves
    <3> QED
      BY <3>4 DEF WindowServes
  <2> QED
    BY <2>3, <2>4
<1>12. ASSUME NEW w \in Workers, WorkerStep(w) \/ Observe(w) \/ RunFails(w) PROVE WindowServes'
  <2>1. /\ UNCHANGED <<raced, thread, active, file, editOn, kpc>>
        /\ \/ wpc' = wpc /\ wpc[w] = "loop"
           \/ \E to \in (Lives \cup {"free"}) \ {"created"} :
                 wpc[w] # "free" /\ wpc' = [wpc EXCEPT ![w] = to]
    BY <1>12, WorkerSteps DEF fileVars, windowVars
  <2>2. CASE ReportStopped(w)
    <3>1. wpc[w] = "finally" /\ wpc' = [wpc EXCEPT ![w] = "end"]
      BY <2>2 DEF ReportStopped, WorkerGoes
    <3>2. ~raced => \A v \in Workers : v # w => wpc[v] \notin Active
      BY <3>1 DEF WindowServes, Serves, Active
    <3>3. ~raced' => \A v \in Workers : wpc'[v] \notin Active
      BY <1>a, <2>1, <3>1, <3>2 DEF Active
    <3> QED
      BY <3>3 DEF WindowServes
  <2>3. CASE ~ReportStopped(w)
    <3>1. NoStopped => NoStopped'
      <4>1. \/ UNCHANGED messages
            \/ \E k \in Kinds \ {"stopped"} : PutMessage(k)
        BY <1>12, <2>3 DEF WorkerStep, BeginRun, Connected, Observe, LeaveLoop, RunFails,
           ReportError, EndRun, Kinds
      <4> QED
        BY <1>0, <1>4, <4>1, PutMessageSteps DEF NoStopped
    <3>2. \A v \in Workers : wpc'[v] \in Active => wpc[v] \in Active
      BY <1>12, <1>a, <2>3 DEF WorkerStep, BeginRun, Connected, Observe, LeaveLoop, RunFails,
         ReportError, EndRun, WorkerGoes, Running, Active
    <3> QED
      BY <1>2, <2>1, <3>1, <3>2 DEF Serves
  <2> QED
    BY <2>2, <2>3
<1>13. ASSUME StopBridge \/ Refresh \/ DismissError \/ UNCHANGED vars PROVE WindowServes'
  BY <1>3, <1>4, <1>13 DEF StopBridge, Refresh, DismissError, vars, fileVars, windowVars, bridgeVars
\* The window goes when its bridge has ended.
<1>14. ASSUME Close PROVE WindowServes'
  <2>1. UNCHANGED <<raced, wpc, thread, active, file, editOn, messages>>
    BY <1>14 DEF Close, fileVars
  <2>2. CASE IsAlive(thread)
    BY <1>3, <1>4, <1>14, <2>1, <2>2 DEF Close
  <2>3. CASE ~IsAlive(thread)
    <3>1. ASSUME NEW w \in Workers, wpc[w] \in Active, Serves(w) PROVE FALSE
      BY <2>3, <3>1, MappingAssumption DEF IsAlive, Lives, Running, Active, Serves
    <3> QED
      BY <2>1, <3>1 DEF WindowServes
  <2> QED
    BY <2>2, <2>3
<1>15. ASSUME DrainOther \/ DrainError \/ DrainEnds PROVE WindowServes'
  <2>1. /\ UNCHANGED <<raced, wpc, thread, active, file, editOn>>
        /\ kpc' \in {"loop", "drain", "dialog"}
        /\ Take \/ UNCHANGED messages
    BY <1>15 DEF DrainOther, DrainError, DrainEnds, fileVars, bridgeVars
  <2> QED
    BY <1>3, <1>4, <1>5, <2>1
\* There is no "stopped" to drain while a bridge thread is active.
<1>16. ASSUME DrainStopped PROVE WindowServes'
  <2>1. messages # <<>> /\ messages[1] = "stopped" /\ UNCHANGED <<raced, wpc>>
    BY <1>16, <1>a DEF DrainStopped, Take
  <2>2. ~NoStopped
    BY <1>a, <2>1 DEF NoStopped
  <2> QED
    BY <2>1, <2>2 DEF WindowServes, Serves
<1> QED
  BY <1>6, <1>7, <1>8, <1>9, <1>10, <1>11, <1>12, <1>13, <1>14, <1>15, <1>16 DEF Next, TkStep

\* While a bridge of the window runs, the window is there to stop it, its widgets are
\* locked and the file holds the mapping the bridge was given, unless the next start
\* came before the last "stopped" was drained: a bridge thread holds the window from
\* its creation to its "stopped", and only a "stopped" unlocks it.
THEOREM BridgeHasWindowHolds == Spec => []BridgeHasWindow
<1>1. Init => BeginsAlone /\ WindowServes
  BY DEF Init, BeginsAlone, WindowServes, Active
<1>2. WindowServes => BridgeHasWindow
  BY DEF WindowServes, Serves, Active, Running, BridgeHasWindow
<1> QED
  BY InitTypes, NextTypes, BeginsAloneNext, WindowServesNext, <1>1, <1>2, PTL DEF Spec
=============================================================================
