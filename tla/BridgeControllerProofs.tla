----------------------- MODULE BridgeControllerProofs -----------------------
(***************************************************************************)
(* Proofs about BridgeController, for every set of workers and sessions,   *)
(* every debounce limit, every bound on the calls and every choice of      *)
(* faults.                                                                 *)
(***************************************************************************)
EXTENDS BridgeController, TLAPS

\* The tuples that group the variables are only abbreviations.
USE DEF vars, ctl, flags, retry, own, signals, mon, wrk, adv, ui, fin, driver, env

-----------------------------------------------------------------------------
(* Types                                                                   *)

LEMMA MStepTypes ==
  ASSUME MonTypes, NEW from, NEW to \in MonitorSteps, MStep(from, to)
  PROVE  MonTypes'
  BY DEF MonTypes, MStep, Sight, NoSight

LEMMA WStepTypes ==
  ASSUME WrkTypes, NEW w \in Workers, NEW from, NEW to \in WorkerSteps, WStep(w, from, to)
  PROVE  wpc' \in [Workers -> WorkerSteps]
  BY DEF WrkTypes, WStep

LEMMA RaisesTypes ==
  ASSUME WrkTypes, NEW w \in Workers, NEW fails \in BOOLEAN, Raises(w, fails)
  PROVE  wl' \in [Workers -> Locals]
  BY DEF WrkTypes, Raises, Locals

LEMMA MayFailType == ASSUME NEW kind PROVE MayFail(kind) \subseteq BOOLEAN
  BY DEF MayFail

LEMMA DriverTypes ==
  ASSUME EnvTypes, ResumeDriver, UNCHANGED codexUp
  PROVE  EnvTypes'
  BY DEF EnvTypes, ResumeDriver

LEMMA StopTypes ==
  ASSUME CtlTypes, RequestBridgeStop
  PROVE  bridgeStop' \in BOOLEAN /\ status' \in Statuses
  BY DEF CtlTypes, RequestBridgeStop, Statuses

LEMMA TypeInit == Init => TypeOK
<1> SUFFICES ASSUME Init PROVE TypeOK
  OBVIOUS
<1>1. CtlTypes
  <2>1. status \in Statuses
    BY DEF Init, Statuses
  <2>2. misses \in 0..MissingLimit
    BY LimitAssumption DEF Init
  <2> QED
    BY <2>1, <2>2 DEF Init, CtlTypes
<1>2. MonTypes
  BY DEF Init, MonTypes, MonitorSteps, Sight, NoSight
<1>3. WrkTypes
  BY DEF Init, WrkTypes, WorkerSteps, Locals, NoLocals
<1>4. UiTypes /\ FinTypes
  <2>1. calls \in 0..MaxCalls
    BY BoundAssumption DEF Init
  <2>2. aref \in [Sessions -> Workers \cup {None}] /\ sref \in Workers \cup {None}
    BY DEF Init
  <2> QED
    BY <2>1, <2>2 DEF Init, UiTypes, FinTypes, UiSteps, SessionSteps, ExitSteps
<1>5. EnvTypes
  BY DEF Init, EnvTypes
<1> QED
  BY <1>1, <1>2, <1>3, <1>4, <1>5 DEF TypeOK

LEMMA TypeNext == TypeOK /\ [Next]_vars => TypeOK'
<1> SUFFICES ASSUME TypeOK, [Next]_vars PROVE TypeOK'
  OBVIOUS
<1> USE DEF TypeOK
<1>1. CASE Start
  <2>1. MonTypes'
    BY <1>1, MStepTypes DEF Start, MonitorSteps
  <2>2. EnvTypes'
    BY <1>1, DriverTypes DEF Start
  <2> QED
    BY <1>1, <2>1, <2>2 DEF Start, CtlTypes, WrkTypes, UiTypes, FinTypes
<1>2. CASE LoopCheck
  <2>1. MonTypes'
    BY <1>2, MStepTypes DEF LoopCheck, MonitorSteps
  <2> QED
    BY <1>2, <2>1 DEF LoopCheck, CtlTypes, WrkTypes, UiTypes, FinTypes, EnvTypes
<1>3. CASE TickProbe
  <2>1. seen' \in Sight
    <3>1. BridgeRunning \in BOOLEAN
      BY DEF BridgeRunning, Alive
    <3> QED
      BY <1>3, <3>1, MayFailType DEF TickProbe, CtlTypes, EnvTypes, Sight
  <2>2. mpc' \in MonitorSteps
    BY <1>3 DEF TickProbe, MonitorSteps
  <2> QED
    BY <1>3, <2>1, <2>2 DEF TickProbe, CtlTypes, MonTypes, WrkTypes, UiTypes, FinTypes, EnvTypes
<1>4. CASE TickObserve
  <2>1. MonTypes'
    BY <1>4, MStepTypes DEF TickObserve, MonitorSteps
  <2>2. CtlTypes'
    BY <1>4, LimitAssumption DEF TickObserve, CtlTypes, NextMisses, MonTypes, Sight
  <2> QED
    BY <1>4, <2>1, <2>2 DEF TickObserve, WrkTypes, UiTypes, FinTypes, EnvTypes
<1>5. CASE TickStop
  <2>1. MonTypes'
    BY <1>5, MStepTypes DEF TickStop, MonitorSteps
  <2>2. CtlTypes'
    BY <1>5, StopTypes DEF TickStop, CtlTypes
  <2> QED
    BY <1>5, <2>1, <2>2 DEF TickStop, WrkTypes, UiTypes, FinTypes, EnvTypes
<1>6. CASE TickDue
  <2>1. MonTypes'
    BY <1>6, MStepTypes DEF TickDue, MonitorSteps
  <2>2. CtlTypes'
    BY <1>6 DEF TickDue, CtlTypes
  <2> QED
    BY <1>6, <2>1, <2>2 DEF TickDue, WrkTypes, UiTypes, FinTypes, EnvTypes
<1>7. CASE TickDefer
  <2>1. MonTypes'
    BY <1>7, MStepTypes DEF TickDefer, MonitorSteps
  <2>2. CtlTypes'
    BY <1>7 DEF TickDefer, CtlTypes, Statuses
  <2> QED
    BY <1>7, <2>1, <2>2 DEF TickDefer, WrkTypes, UiTypes, FinTypes, EnvTypes
<1>8. CASE TickIdle
  <2>1. MonTypes'
    BY <1>8, MStepTypes DEF TickIdle, MonitorSteps
  <2>2. CtlTypes'
    BY <1>8 DEF TickIdle, CtlTypes, RestingStatus, Statuses
  <2> QED
    BY <1>8, <2>1, <2>2 DEF TickIdle, WrkTypes, UiTypes, FinTypes, EnvTypes
<1>9. CASE HealCheck
  <2>1. MonTypes'
    BY <1>9, MStepTypes DEF HealCheck, MonitorSteps
  <2> QED
    BY <1>9, <2>1 DEF HealCheck, CtlTypes, WrkTypes, UiTypes, FinTypes, EnvTypes
<1>10. CASE HealDriver
  <2>1. MonTypes'
    BY <1>10, MStepTypes DEF HealDriver, MonitorSteps
  <2>2. EnvTypes'
    BY <1>10, DriverTypes DEF HealDriver
  <2> QED
    BY <1>10, <2>1, <2>2 DEF HealDriver, CtlTypes, WrkTypes, UiTypes, FinTypes
<1>11. CASE StartBridge
  <2>1. MonTypes'
    BY <1>11, MStepTypes DEF StartBridge, MonitorSteps
  <2>2. CtlTypes'
    BY <1>11 DEF StartBridge, CtlTypes, NewEvent, Statuses
  <2>3. WrkTypes'
    BY <1>11 DEF StartBridge, WrkTypes, WorkerSteps
  <2> QED
    BY <1>11, <2>1, <2>2, <2>3 DEF StartBridge, UiTypes, FinTypes, EnvTypes
<1>12. CASE LaunchBridge
  <2>1. MonTypes'
    BY <1>12, MStepTypes DEF LaunchBridge, MonitorSteps
  <2>2. WrkTypes'
    BY <1>12 DEF LaunchBridge, WrkTypes, WorkerSteps
  <2> QED
    BY <1>12, <2>1, <2>2 DEF LaunchBridge, CtlTypes, UiTypes, FinTypes, EnvTypes
<1>13. CASE WakeUp
  <2>1. MonTypes'
    BY <1>13, MStepTypes DEF WakeUp, MonitorSteps
  <2> QED
    BY <1>13, <2>1 DEF WakeUp, CtlTypes, WrkTypes, UiTypes, FinTypes, EnvTypes
<1>14. CASE PollTimeout
  <2>1. MonTypes'
    BY <1>14, MStepTypes DEF PollTimeout, MonitorSteps
  <2> QED
    BY <1>14, <2>1 DEF PollTimeout, CtlTypes, WrkTypes, UiTypes, FinTypes, EnvTypes
<1>15. CASE ClearWake
  <2>1. MonTypes'
    BY <1>15, MStepTypes DEF ClearWake, MonitorSteps
  <2>2. CtlTypes'
    BY <1>15 DEF ClearWake, CtlTypes
  <2> QED
    BY <1>15, <2>1, <2>2 DEF ClearWake, WrkTypes, UiTypes, FinTypes, EnvTypes
<1>16. CASE \E w \in Workers : Load(w)
  <2> PICK w \in Workers : Load(w)
    BY <1>16
  <2>1. wpc' \in [Workers -> WorkerSteps]
    BY WStepTypes DEF Load, WorkerSteps
  <2>2. wl' \in [Workers -> Locals]
    BY RaisesTypes, MayFailType DEF Load
  <2> QED
    BY <2>1, <2>2 DEF Load, CtlTypes, MonTypes, WrkTypes, UiTypes, FinTypes, EnvTypes
<1>17. CASE \E w \in Workers : PauseCheck(w)
  <2> PICK w \in Workers : PauseCheck(w)
    BY <1>17
  <2>1. WrkTypes'
    BY WStepTypes DEF PauseCheck, WorkerSteps, WrkTypes
  <2> QED
    BY <2>1 DEF PauseCheck, CtlTypes, MonTypes, UiTypes, FinTypes, EnvTypes
<1>18. CASE \E w \in Workers : PauseDriver(w)
  <2> PICK w \in Workers : PauseDriver(w)
    BY <1>18
  <2>1. wpc' \in [Workers -> WorkerSteps]
    BY WStepTypes DEF PauseDriver, WorkerSteps
  <2>2. wl' \in [Workers -> Locals]
    BY RaisesTypes DEF PauseDriver, WrkTypes, Locals
  <2>3. EnvTypes'
    BY DEF PauseDriver, EnvTypes
  <2> QED
    BY <2>1, <2>2, <2>3 DEF PauseDriver, CtlTypes, MonTypes, WrkTypes, UiTypes, FinTypes
<1>19. CASE \E w \in Workers : OpenDevices(w)
  <2> PICK w \in Workers : OpenDevices(w)
    BY <1>19
  <2>1. wpc' \in [Workers -> WorkerSteps]
    BY WStepTypes DEF OpenDevices, WorkerSteps
  <2>2. wl' \in [Workers -> Locals]
    BY RaisesTypes, MayFailType DEF OpenDevices
  <2> QED
    BY <2>1, <2>2 DEF OpenDevices, CtlTypes, MonTypes, WrkTypes, UiTypes, FinTypes, EnvTypes
<1>20. CASE \E w \in Workers : Announce(w)
  <2> PICK w \in Workers : Announce(w)
    BY <1>20
  <2>1. WrkTypes'
    BY WStepTypes DEF Announce, WorkerSteps, WrkTypes
  <2>2. CtlTypes'
    BY DEF Announce, CtlTypes, Statuses
  <2> QED
    BY <2>1, <2>2 DEF Announce, MonTypes, UiTypes, FinTypes, EnvTypes
<1>21. CASE \E w \in Workers : LeaveLoop(w)
  <2> PICK w \in Workers : LeaveLoop(w)
    BY <1>21
  <2>1. WrkTypes'
    BY WStepTypes DEF LeaveLoop, WorkerSteps, WrkTypes
  <2> QED
    BY <2>1 DEF LeaveLoop, CtlTypes, MonTypes, UiTypes, FinTypes, EnvTypes
<1>22. CASE \E w \in Workers : LoopFails(w)
  <2> PICK w \in Workers : LoopFails(w)
    BY <1>22
  <2>1. wpc' \in [Workers -> WorkerSteps]
    BY WStepTypes DEF LoopFails, WorkerSteps
  <2>2. wl' \in [Workers -> Locals]
    BY RaisesTypes DEF LoopFails
  <2> QED
    BY <2>1, <2>2 DEF LoopFails, CtlTypes, MonTypes, WrkTypes, UiTypes, FinTypes, EnvTypes
<1>23. CASE \E w \in Workers : ReleaseInputs(w)
  <2> PICK w \in Workers : ReleaseInputs(w)
    BY <1>23
  <2>1. wpc' \in [Workers -> WorkerSteps]
    BY WStepTypes DEF ReleaseInputs, WorkerSteps
  <2>2. wl' \in [Workers -> Locals]
    BY RaisesTypes, MayFailType DEF ReleaseInputs
  <2> QED
    BY <2>1, <2>2 DEF ReleaseInputs, CtlTypes, MonTypes, WrkTypes, UiTypes, FinTypes, EnvTypes
<1>24. CASE \E w \in Workers : RestoreDriver(w)
  <2> PICK w \in Workers : RestoreDriver(w)
    BY <1>24
  <2>1. wpc' \in [Workers -> WorkerSteps]
    BY WStepTypes DEF RestoreDriver, WorkerSteps
  <2>2. EnvTypes'
    BY DriverTypes DEF RestoreDriver, EnvTypes
  <2>3. driverUp' \in BOOLEAN
    BY <2>2 DEF EnvTypes
  <2>4. wl' \in [Workers -> Locals]
    <3> DEFINE r == [failed |-> wl[w].failed \/ ~driverUp', paused |-> FALSE, asked |-> FALSE]
    <3>1. r \in Locals
      BY <2>3 DEF Locals, WrkTypes
    <3>2. wl' = wl \/ wl' = [wl EXCEPT ![w] = r]
      BY DEF RestoreDriver
    <3> HIDE DEF r
    <3> QED
      BY <3>1, <3>2 DEF WrkTypes
  <2> QED
    BY <2>1, <2>2, <2>3, <2>4 DEF RestoreDriver, CtlTypes, MonTypes, WrkTypes, UiTypes, FinTypes
<1>25. CASE \E w \in Workers : ReadRequested(w)
  <2> PICK w \in Workers : ReadRequested(w)
    BY <1>25
  <2>1. wpc' \in [Workers -> WorkerSteps]
    BY WStepTypes DEF ReadRequested, WorkerSteps
  <2>2. wl' \in [Workers -> Locals]
    BY DEF ReadRequested, WrkTypes, Locals, CtlTypes
  <2> QED
    BY <2>1, <2>2 DEF ReadRequested, CtlTypes, MonTypes, WrkTypes, UiTypes, FinTypes, EnvTypes
<1>26. CASE \E w \in Workers : Conclude(w)
  <2> PICK w \in Workers : Conclude(w)
    BY <1>26
  <2>1. wpc' \in [Workers -> WorkerSteps]
    BY WStepTypes DEF Conclude, WorkerSteps
  <2>2. wl' \in [Workers -> Locals]
    BY DEF Conclude, WrkTypes, Locals, NoLocals
  <2>3. status' \in Statuses
    BY DEF Conclude, RestingStatus, Statuses
  <2>4. CtlTypes'
    BY <2>3 DEF Conclude, CtlTypes
  <2> QED
    BY <2>1, <2>2, <2>3, <2>4 DEF Conclude, MonTypes, WrkTypes, UiTypes, FinTypes, EnvTypes
<1>27. CASE \E w \in Workers : EndWorker(w)
  <2> PICK w \in Workers : EndWorker(w)
    BY <1>27
  <2>1. WrkTypes'
    BY WStepTypes DEF EndWorker, WorkerSteps, WrkTypes
  <2>2. CtlTypes'
    BY DEF EndWorker, CtlTypes
  <2>3. UiTypes'
    BY DEF EndWorker, UiTypes
  <2>4. FinTypes'
    BY DEF EndWorker, FinTypes
  <2> QED
    BY <2>1, <2>2, <2>3, <2>4 DEF EndWorker, MonTypes, EnvTypes
<1>28. CASE SetEnabled
  <2>1. CtlTypes'
    BY <1>28 DEF SetEnabled, CtlTypes
  <2>2. UiTypes'
    BY <1>28, BoundAssumption DEF SetEnabled, Call, UiTypes, UiSteps
  <2> QED
    BY <1>28, <2>1, <2>2 DEF SetEnabled, MonTypes, WrkTypes, FinTypes, EnvTypes
<1>29. CASE ConnectNow
  <2>1. CtlTypes'
    BY <1>29, LimitAssumption DEF ConnectNow, CtlTypes
  <2>2. UiTypes'
    BY <1>29, BoundAssumption DEF ConnectNow, Call, UiTypes, UiSteps
  <2> QED
    BY <1>29, <2>1, <2>2 DEF ConnectNow, MonTypes, WrkTypes, FinTypes, EnvTypes
<1>30. CASE OpenAdvanced
  <2>1. CtlTypes'
    BY <1>30 DEF OpenAdvanced, CtlTypes
  <2>2. UiTypes'
    BY <1>30, BoundAssumption DEF OpenAdvanced, Call, UiTypes, UiSteps
  <2> QED
    BY <1>30, <2>1, <2>2 DEF OpenAdvanced, MonTypes, WrkTypes, FinTypes, EnvTypes
<1>31. CASE UiRequestStop
  <2>1. CtlTypes'
    BY <1>31, StopTypes DEF UiRequestStop, CtlTypes
  <2>2. UiTypes'
    BY <1>31 DEF UiRequestStop, UiTypes, UiSteps
  <2> QED
    BY <1>31, <2>1, <2>2 DEF UiRequestStop, MonTypes, WrkTypes, FinTypes, EnvTypes
<1>32. CASE UiWake
  <2>1. CtlTypes'
    BY <1>32 DEF UiWake, CtlTypes
  <2>2. UiTypes'
    BY <1>32 DEF UiWake, UiTypes, UiSteps, SessionSteps
  <2> QED
    BY <1>32, <2>1, <2>2 DEF UiWake, MonTypes, WrkTypes, FinTypes, EnvTypes
<1>33. CASE \E s \in Sessions : AdvancedRef(s)
  <2> PICK s \in Sessions : AdvancedRef(s)
    BY <1>33
  <2>1. UiTypes'
    BY DEF AdvancedRef, AStep, UiTypes, SessionSteps, CtlTypes
  <2> QED
    BY <2>1 DEF AdvancedRef, CtlTypes, MonTypes, WrkTypes, FinTypes, EnvTypes
<1>34. CASE \E s \in Sessions : AdvancedJoin(s)
  <2> PICK s \in Sessions : AdvancedJoin(s)
    BY <1>34
  <2>1. UiTypes'
    BY DEF AdvancedJoin, AStep, UiTypes, SessionSteps
  <2> QED
    BY <2>1 DEF AdvancedJoin, CtlTypes, MonTypes, WrkTypes, FinTypes, EnvTypes
<1>35. CASE \E s \in Sessions : AdvancedJoinTimeout(s)
  <2> PICK s \in Sessions : AdvancedJoinTimeout(s)
    BY <1>35
  <2>1. UiTypes'
    BY DEF AdvancedJoinTimeout, AStep, UiTypes, SessionSteps
  <2> QED
    BY <2>1 DEF AdvancedJoinTimeout, CtlTypes, MonTypes, WrkTypes, FinTypes, EnvTypes
<1>36. CASE \E s \in Sessions : Resume(s)
  <2> PICK s \in Sessions : Resume(s)
    BY <1>36
  <2>1. UiTypes'
    BY DEF Resume, AStep, UiTypes, SessionSteps
  <2>2. CtlTypes'
    BY DEF Resume, CtlTypes
  <2> QED
    BY <2>1, <2>2 DEF Resume, MonTypes, WrkTypes, FinTypes, EnvTypes
<1>37. CASE \E s \in Sessions : AdvancedWake(s)
  <2> PICK s \in Sessions : AdvancedWake(s)
    BY <1>37
  <2>1. UiTypes'
    BY DEF AdvancedWake, AStep, UiTypes, SessionSteps
  <2>2. CtlTypes'
    BY DEF AdvancedWake, CtlTypes
  <2> QED
    BY <2>1, <2>2 DEF AdvancedWake, MonTypes, WrkTypes, FinTypes, EnvTypes
<1>38. CASE RequestExit
  <2>1. UiTypes'
    BY <1>38, BoundAssumption DEF RequestExit, Call, UiTypes, UiSteps
  <2>2. FinTypes'
    BY <1>38 DEF RequestExit, SStep, FinTypes, ExitSteps
  <2> QED
    BY <1>38, <2>1, <2>2 DEF RequestExit, CtlTypes, MonTypes, WrkTypes, EnvTypes
<1>39. CASE ShutdownFlag
  <2>1. CtlTypes'
    BY <1>39 DEF ShutdownFlag, CtlTypes
  <2>2. FinTypes'
    BY <1>39 DEF ShutdownFlag, SStep, FinTypes, ExitSteps
  <2> QED
    BY <1>39, <2>1, <2>2 DEF ShutdownFlag, MonTypes, WrkTypes, UiTypes, EnvTypes
<1>40. CASE ShutdownStop
  <2>1. CtlTypes'
    BY <1>40, StopTypes DEF ShutdownStop, CtlTypes
  <2>2. FinTypes'
    BY <1>40 DEF ShutdownStop, SStep, FinTypes, ExitSteps
  <2> QED
    BY <1>40, <2>1, <2>2 DEF ShutdownStop, MonTypes, WrkTypes, UiTypes, EnvTypes
<1>41. CASE ShutdownRef
  <2>1. FinTypes'
    BY <1>41 DEF ShutdownRef, SStep, FinTypes, ExitSteps, CtlTypes
  <2> QED
    BY <1>41, <2>1 DEF ShutdownRef, CtlTypes, MonTypes, WrkTypes, UiTypes, EnvTypes
<1>42. CASE ShutdownJoin
  <2>1. FinTypes'
    BY <1>42 DEF ShutdownJoin, SStep, FinTypes, ExitSteps
  <2> QED
    BY <1>42, <2>1 DEF ShutdownJoin, CtlTypes, MonTypes, WrkTypes, UiTypes, EnvTypes
<1>43. CASE ShutdownJoinTimeout
  <2>1. FinTypes'
    BY <1>43 DEF ShutdownJoinTimeout, SStep, FinTypes, ExitSteps
  <2> QED
    BY <1>43, <2>1 DEF ShutdownJoinTimeout, CtlTypes, MonTypes, WrkTypes, UiTypes, EnvTypes
<1>44. CASE ShutdownResume
  <2>1. FinTypes'
    BY <1>44 DEF ShutdownResume, SStep, FinTypes, ExitSteps
  <2>2. EnvTypes'
    BY <1>44, DriverTypes DEF ShutdownResume
  <2> QED
    BY <1>44, <2>1, <2>2 DEF ShutdownResume, CtlTypes, MonTypes, WrkTypes, UiTypes
<1>45. CASE ShutdownMonitor
  <2>1. FinTypes'
    BY <1>45 DEF ShutdownMonitor, SStep, FinTypes, ExitSteps
  <2> QED
    BY <1>45, <2>1 DEF ShutdownMonitor, CtlTypes, MonTypes, WrkTypes, UiTypes, EnvTypes
<1>46. CASE ShutdownFinal
  <2>1. CtlTypes'
    BY <1>46 DEF ShutdownFinal, CtlTypes, Statuses
  <2>2. FinTypes'
    BY <1>46 DEF ShutdownFinal, SStep, FinTypes, ExitSteps
  <2> QED
    BY <1>46, <2>1, <2>2 DEF ShutdownFinal, MonTypes, WrkTypes, UiTypes, EnvTypes
<1>47. CASE ProcessExit
  <2>1. FinTypes'
    BY <1>47 DEF ProcessExit, SStep, FinTypes, ExitSteps
  <2> QED
    BY <1>47, <2>1 DEF ProcessExit, CtlTypes, MonTypes, WrkTypes, UiTypes, EnvTypes
<1>48. CASE CodexChanges
  <2>1. EnvTypes'
    BY <1>48 DEF CodexChanges, EnvTypes
  <2> QED
    BY <1>48, <2>1 DEF CodexChanges, CtlTypes, MonTypes, WrkTypes, UiTypes, FinTypes
<1>49. CASE RetryElapses
  <2>1. CtlTypes'
    BY <1>49 DEF RetryElapses, CtlTypes
  <2> QED
    BY <1>49, <2>1 DEF RetryElapses, MonTypes, WrkTypes, UiTypes, FinTypes, EnvTypes
<1>50. CASE Crash
  <2>1. status' \in Statuses
    BY <1>50 DEF Crash, Statuses
  <2>2. misses' \in 0..MissingLimit
    BY <1>50, LimitAssumption DEF Crash
  <2>3. CtlTypes'
    BY <1>50, <2>1, <2>2 DEF Crash, CtlTypes
  <2>4. MonTypes'
    BY <1>50 DEF Crash, MonTypes, MonitorSteps, Sight, NoSight
  <2>5. WrkTypes'
    BY <1>50 DEF Crash, WrkTypes, WorkerSteps, Locals, NoLocals
  <2>6. UiTypes'
    BY <1>50, BoundAssumption DEF Crash, UiTypes, UiSteps, SessionSteps
  <2>7. FinTypes'
    BY <1>50 DEF Crash, FinTypes, ExitSteps
  <2>8. EnvTypes'
    BY <1>50 DEF Crash, EnvTypes
  <2> QED
    BY <1>50, <2>1, <2>2, <2>3, <2>4, <2>5, <2>6, <2>7, <2>8 DEF Crash
<1>51. CASE \E s \in Sessions : AdvancedEnd(s)
  <2> PICK s \in Sessions : AdvancedEnd(s)
    BY <1>51
  <2>1. UiTypes'
    BY DEF AdvancedEnd, AStep, UiTypes, SessionSteps
  <2> QED
    BY <2>1 DEF AdvancedEnd, CtlTypes, MonTypes, WrkTypes, FinTypes, EnvTypes
<1>52. CASE UNCHANGED vars
  BY <1>52 DEF CtlTypes, MonTypes, WrkTypes, UiTypes, FinTypes, EnvTypes
<1> QED
  BY <1>1, <1>2, <1>3, <1>4, <1>5, <1>6, <1>7, <1>8, <1>9, <1>10, <1>11, <1>12, <1>13,
     <1>14, <1>15, <1>16, <1>17, <1>18, <1>19, <1>20, <1>21, <1>22, <1>23, <1>24, <1>25,
     <1>26, <1>27, <1>28, <1>29, <1>30, <1>31, <1>32, <1>33, <1>34, <1>35, <1>36, <1>37,
     <1>38, <1>39, <1>40, <1>41, <1>42, <1>43, <1>44, <1>45, <1>46, <1>47, <1>48, <1>49,
     <1>50, <1>51, <1>52
  DEF Next, MonitorStep, WorkerStep, SessionStep, ShutdownStep, Ended

\* Every field keeps a value the code can give it (BridgeController.__init__ and
\* every method that assigns one).
THEOREM TypeCorrect == Spec => []TypeOK
<1>1. Init => TypeOK
  BY TypeInit
<1>2. TypeOK /\ [Next]_vars => TypeOK'
  BY TypeNext
<1> QED
  BY <1>1, <1>2, PTL DEF Spec

-----------------------------------------------------------------------------
(* Ownership of the bridge                                                 *)

Running == WorkerSteps \ {"free", "created", "post"}

\* What a step can do to _bridge_thread, to the bridge threads, and to the window
\* between the publication and the start of a thread.
Quiet == UNCHANGED <<wpc, ref>> /\ (mpc = "launch" => mpc' = "launch")
Advances(w) ==
  /\ wpc[w] \in Running /\ UNCHANGED <<ref, mpc>>
  /\ \E s \in Running : wpc' = [wpc EXCEPT ![w] = s]

LEMMA StepKinds ==
  ASSUME TypeOK, [Next]_vars
  PROVE  \/ Quiet
         \/ \E w \in Workers : Advances(w) \/ Conclude(w) \/ EndWorker(w)
         \/ StartBridge \/ LaunchBridge \/ Crash
<1>1. MonitorStep => Quiet \/ StartBridge \/ LaunchBridge
  BY DEF Quiet, MonitorStep, MStep, Start, LoopCheck, TickProbe, TickObserve, TickStop,
     TickDue, TickDefer, TickIdle, HealCheck, HealDriver, WakeUp, ClearWake
<1>2. ASSUME NEW w \in Workers, WorkerStep(w) \/ LoopFails(w)
      PROVE  Advances(w) \/ Conclude(w) \/ EndWorker(w)
  <2>1. CASE Load(w)
    BY <2>1 DEF Load, Advances, Running, WorkerSteps, WStep
  <2>2. CASE PauseCheck(w)
    BY <2>2 DEF PauseCheck, Advances, Running, WorkerSteps, WStep
  <2>3. CASE PauseDriver(w)
    BY <2>3 DEF PauseDriver, Advances, Running, WorkerSteps, WStep
  <2>4. CASE OpenDevices(w)
    BY <2>4 DEF OpenDevices, Advances, Running, WorkerSteps, WStep
  <2>5. CASE Announce(w)
    BY <2>5 DEF Announce, Advances, Running, WorkerSteps, WStep
  <2>6. CASE LeaveLoop(w)
    BY <2>6 DEF LeaveLoop, Advances, Running, WorkerSteps, WStep
  <2>7. CASE LoopFails(w)
    BY <2>7 DEF LoopFails, Advances, Running, WorkerSteps, WStep
  <2>8. CASE ReleaseInputs(w)
    BY <2>8 DEF ReleaseInputs, Advances, Running, WorkerSteps, WStep
  <2>9. CASE RestoreDriver(w)
    BY <2>9 DEF RestoreDriver, Advances, Running, WorkerSteps, WStep
  <2>10. CASE ReadRequested(w)
    BY <2>10 DEF ReadRequested, Advances, Running, WorkerSteps, WStep
  <2> QED
    BY <1>2, <2>1, <2>2, <2>3, <2>4, <2>5, <2>6, <2>7, <2>8, <2>9, <2>10 DEF WorkerStep
<1>3. \A s \in Sessions : SessionStep(s) \/ AdvancedJoinTimeout(s) \/ AdvancedEnd(s) => Quiet
  BY DEF Quiet, SessionStep, AStep, AdvancedRef, AdvancedJoin, AdvancedJoinTimeout,
     AdvancedEnd, Resume, AdvancedWake
<1>4. ShutdownStep \/ ShutdownJoinTimeout \/ RequestExit => Quiet
  BY DEF Quiet, ShutdownStep, SStep, ShutdownFlag, ShutdownStop, ShutdownRef,
     ShutdownJoin, ShutdownJoinTimeout, ShutdownResume, ShutdownMonitor, ShutdownFinal,
     ProcessExit, RequestExit
<1>5. PollTimeout \/ SetEnabled \/ ConnectNow \/ OpenAdvanced \/ UiRequestStop \/ UiWake
        \/ CodexChanges \/ RetryElapses \/ UNCHANGED vars => Quiet
  BY DEF Quiet, MStep, PollTimeout, SetEnabled, ConnectNow, OpenAdvanced, UiRequestStop,
     UiWake, CodexChanges, RetryElapses
<1> QED
  BY <1>1, <1>2, <1>3, <1>4, <1>5 DEF Next, Ended

LEMMA RefSteps ==
  ASSUME [Next]_vars
  PROVE  ref' = ref \/ ref' = None \/ (StartBridge /\ MayStart)
  BY ZenonT(40) DEF
     Next, MonitorStep, WorkerStep, SessionStep, ShutdownStep, Ended, MStep, WStep, AStep,
     SStep, Call, Start, LoopCheck, TickProbe, TickObserve, TickStop, TickDue, TickDefer,
     TickIdle, HealCheck, HealDriver, StartBridge, LaunchBridge, WakeUp, PollTimeout,
     ClearWake, Load, PauseCheck, PauseDriver, OpenDevices, Announce, LeaveLoop,
     LoopFails, ReleaseInputs, RestoreDriver, ReadRequested, Conclude, EndWorker,
     SetEnabled, ConnectNow, OpenAdvanced, UiRequestStop, UiWake, AdvancedRef,
     AdvancedJoin, AdvancedJoinTimeout, AdvancedEnd, Resume, AdvancedWake, RequestExit,
     ShutdownFlag, ShutdownStop, ShutdownRef, ShutdownJoin, ShutdownJoinTimeout, ShutdownResume,
     ShutdownMonitor, ShutdownFinal, ProcessExit, CodexChanges, RetryElapses, Crash

\* The inductive invariant of ownership: _bridge_thread is the thread that is under
\* way, and a thread that was not started yet is about to be, by the monitor.
Owner ==
  /\ \A w \in Workers : Engaged(w) => ref = w
  /\ ref # None => Engaged(ref)
  /\ \A w \in Workers : wpc[w] = "created" => mpc = "launch"

LEMMA OwnerInit == Init => Owner
  BY DEF Init, Owner, Engaged

LEMMA OwnerNext == TypeOK /\ Owner /\ [Next]_vars => Owner'
<1> SUFFICES ASSUME TypeOK, Owner, [Next]_vars PROVE Owner'
  OBVIOUS
<1>1. wpc \in [Workers -> WorkerSteps] /\ ref \in Workers \cup {None}
  BY DEF TypeOK, WrkTypes, CtlTypes
<1>2. CASE Quiet
  BY <1>2 DEF Quiet, Owner, Engaged
<1>3. ASSUME NEW w \in Workers, Advances(w) PROVE Owner'
  BY <1>1, <1>3 DEF Advances, Running, Owner, Engaged
<1>4. ASSUME NEW w \in Workers, Conclude(w) PROVE Owner'
  \* The thread that concludes is the one in _bridge_thread: none is engaged after it.
  <2>1. ref = w
    BY <1>4 DEF Conclude, WStep, Owner, Engaged
  <2>2. wpc' = [wpc EXCEPT ![w] = "post"] /\ ref' = None /\ UNCHANGED mpc
    BY <1>4 DEF Conclude, WStep
  <2>3. \A v \in Workers : v # w => ~Engaged(v)
    BY <2>1 DEF Owner
  <2> QED
    BY <1>1, <2>2, <2>3 DEF Owner, Engaged
<1>5. ASSUME NEW w \in Workers, EndWorker(w) PROVE Owner'
  <2>1. wpc[w] = "post" /\ wpc' = [wpc EXCEPT ![w] = "free"] /\ UNCHANGED <<ref, mpc>>
    BY <1>5 DEF EndWorker, WStep
  <2> QED
    BY <1>1, <2>1 DEF Owner, Engaged
<1>6. CASE StartBridge
  \* MayStart found no live bridge, and no thread waits to be started outside "launch".
  <2>1. CASE MayStart
    <3>1. PICK w \in Workers : wpc[w] = "free" /\ wpc' = [wpc EXCEPT ![w] = "created"] /\ ref' = w
      BY <1>6, <2>1 DEF StartBridge
    <3>2. mpc = "start" /\ mpc' = "launch"
      BY <1>6, <2>1 DEF StartBridge, MStep
    <3>3. ref = None
      BY <1>1, <2>1, <3>2 DEF MayStart, BridgeRunning, Alive, Owner, Engaged
    <3>4. \A v \in Workers : ~Engaged(v)
      BY <3>3, WorkersAssumption DEF Owner
    <3> QED
      BY <1>1, <3>1, <3>2, <3>4 DEF Owner, Engaged
  <2>2. CASE ~MayStart
    BY <1>6, <2>2 DEF StartBridge, MStep, Owner, Engaged
  <2> QED
    BY <2>1, <2>2
<1>7. CASE LaunchBridge
  <2>1. PICK w \in Workers : wpc[w] = "created" /\ wpc' = [wpc EXCEPT ![w] = "load"]
    BY <1>7 DEF LaunchBridge
  <2>2. UNCHANGED ref
    BY <1>7 DEF LaunchBridge
  <2>3. \A v \in Workers : wpc[v] = "created" => v = w
    BY <2>1 DEF Owner, Engaged
  <2> QED
    BY <1>1, <2>1, <2>2, <2>3 DEF Owner, Engaged
<1>8. CASE Crash
  BY <1>8 DEF Crash, Owner, Engaged
<1> QED
  BY <1>2, <1>3, <1>4, <1>5, <1>6, <1>7, <1>8, StepKinds

\* _bridge_thread is None exactly when no bridge is engaged.
LEMMA RefNone == TypeOK /\ Owner => (NoBridge <=> ref = None)
  BY WorkersAssumption DEF Owner, NoBridge, TypeOK, CtlTypes

THEOREM OwnerInvariant == Spec => [](TypeOK /\ Owner)
<1>1. Init => TypeOK /\ Owner
  BY TypeInit, OwnerInit
<1>2. (TypeOK /\ Owner) /\ [Next]_vars => (TypeOK /\ Owner)'
  BY TypeNext, OwnerNext
<1> QED
  BY <1>1, <1>2, PTL DEF Spec

\* "Own exactly one bridge worker": _start_bridge makes no second one before
\* _bridge_worker has finished with the first.
THEOREM OneBridgeHolds == Spec => []OneBridge
<1>1. Owner => OneBridge
  BY DEF Owner, OneBridge
<1> QED
  BY <1>1, OwnerInvariant, PTL

LEMMA StopSteps ==
  ASSUME [Next]_vars, bridgeStop, ~bridgeStop'
  PROVE  (StartBridge /\ MayStart) \/ Crash
  BY ZenonT(40) DEF
     Next, MonitorStep, WorkerStep, SessionStep, ShutdownStep, Ended, MStep, WStep, AStep,
     SStep, Call, Start, LoopCheck, TickProbe, TickObserve, TickStop, TickDue, TickDefer,
     TickIdle, HealCheck, HealDriver, StartBridge, LaunchBridge, WakeUp, PollTimeout,
     ClearWake, Load, PauseCheck, PauseDriver, OpenDevices, Announce, LeaveLoop,
     LoopFails, ReleaseInputs, RestoreDriver, ReadRequested, Conclude, EndWorker,
     SetEnabled, ConnectNow, OpenAdvanced, UiRequestStop, UiWake, AdvancedRef,
     AdvancedJoin, AdvancedJoinTimeout, AdvancedEnd, Resume, AdvancedWake, RequestExit,
     ShutdownFlag, ShutdownStop, ShutdownRef, ShutdownJoin, ShutdownJoinTimeout, ShutdownResume,
     ShutdownMonitor, ShutdownFinal, ProcessExit, CodexChanges, RetryElapses, RequestBridgeStop

\* The Event that a worker polls stays set once it was set: _start_bridge replaces
\* _bridge_stop only when the worker has given _bridge_thread back.
THEOREM StopIsKeptHolds == Spec => StopIsKept
<1> DEFINE Kept ==
      \A w \in Workers : bridgeStop /\ Alive(w) /\ Engaged(w) /\ Engaged(w)' => bridgeStop'
<1>1. TypeOK /\ Owner /\ [Next]_vars => Kept
  <2> SUFFICES ASSUME TypeOK, Owner, [Next]_vars, NEW w \in Workers,
                      bridgeStop, Alive(w), Engaged(w), Engaged(w)', ~bridgeStop'
               PROVE  FALSE
    OBVIOUS
  <2>1. CASE StartBridge /\ MayStart
    BY <2>1, WorkersAssumption DEF MayStart, BridgeRunning, Owner
  <2>2. CASE Crash
    BY <2>2 DEF Crash, Engaged
  <2> QED
    BY <2>1, <2>2, StopSteps
<1> QED
  BY <1>1, OwnerInvariant, PTL DEF Spec, StopIsKept

-----------------------------------------------------------------------------
(* The idle heal                                                           *)

LEMMA HealSteps ==
  ASSUME [Next]_vars, mpc' = "healing"
  PROVE  HealCheck \/ (mpc = "healing" /\ ~StartBridge)
  BY DEF
     Next, MonitorStep, WorkerStep, SessionStep, ShutdownStep, Ended, MStep, WStep, AStep,
     SStep, Call, Start, LoopCheck, TickProbe, TickObserve, TickStop, TickDue, TickDefer,
     TickIdle, HealCheck, HealDriver, StartBridge, LaunchBridge, WakeUp, PollTimeout,
     ClearWake, Load, PauseCheck, PauseDriver, OpenDevices, Announce, LeaveLoop,
     LoopFails, ReleaseInputs, RestoreDriver, ReadRequested, Conclude, EndWorker,
     SetEnabled, ConnectNow, OpenAdvanced, UiRequestStop, UiWake, AdvancedRef,
     AdvancedJoin, AdvancedJoinTimeout, AdvancedEnd, Resume, AdvancedWake, RequestExit,
     ShutdownFlag, ShutdownStop, ShutdownRef, ShutdownJoin, ShutdownJoinTimeout, ShutdownResume,
     ShutdownMonitor, ShutdownFinal, ProcessExit, CodexChanges, RetryElapses, Crash

\* No bridge is engaged between the test of _heal_official_driver_if_idle and the
\* launch of 3DxWare, although they are not under the lock: only the monitor, which
\* is busy with the heal, starts bridges.
THEOREM HealMeetsNoBridgeHolds == Spec => []HealMeetsNoBridge
<1>1. Init => HealMeetsNoBridge
  BY DEF Init, HealMeetsNoBridge
<1>2. TypeOK /\ Owner /\ Owner' /\ HealMeetsNoBridge /\ [Next]_vars => HealMeetsNoBridge'
  <2> SUFFICES ASSUME TypeOK, Owner, Owner', HealMeetsNoBridge, [Next]_vars, mpc' = "healing"
               PROVE  ref' = None
    BY WorkersAssumption DEF HealMeetsNoBridge, NoBridge, Owner
  <2>1. CASE HealCheck
    \* A published thread is started already, for the monitor is not at "launch".
    <3>1. ~BridgeRunning /\ mpc = "heal" /\ UNCHANGED ref
      BY <2>1 DEF HealCheck, MStep
    <3> QED
      BY <3>1 DEF BridgeRunning, Alive, Owner, Engaged, TypeOK, CtlTypes
  <2>2. CASE mpc = "healing" /\ ~StartBridge
    BY <2>2, RefSteps, RefNone DEF HealMeetsNoBridge
  <2> QED
    BY <2>1, <2>2, HealSteps
<1> QED
  BY <1>1, <1>2, OwnerInvariant, PTL DEF Spec

-----------------------------------------------------------------------------
(* The shutdown                                                            *)

\* shutdown() keeps starts away from its first flag on; the thread it joins is the
\* only one there is; after the join there is none, unless the join timed out or raised.
ExitPhase ==
  /\ spc \in ExitSteps \ {"idle", "flag"} => shutdown
  /\ spc = "join" => ref = None \/ ref = sref
  /\ spc \in {"resume", "monitor", "final", "over", "exited"} => ref = None \/ gaveUp

\* The steps that change what ExitPhase speaks of, apart from _bridge_thread.
LEMMA ExitSteps1 ==
  ASSUME [Next]_vars
  PROVE  \/ UNCHANGED <<spc, sref, shutdown>> /\ (gaveUp => gaveUp')
         \/ \E w \in Workers : EndWorker(w)
         \/ RequestExit \/ ShutdownFlag \/ ShutdownStop \/ ShutdownRef \/ ShutdownJoin
         \/ ShutdownJoinTimeout \/ ShutdownResume \/ ShutdownMonitor \/ ShutdownFinal
         \/ ProcessExit \/ Crash
  BY ZenonT(40) DEF
     Next, MonitorStep, WorkerStep, SessionStep, ShutdownStep, Ended, MStep, WStep, AStep,
     SStep, Call, Start, LoopCheck, TickProbe, TickObserve, TickStop, TickDue, TickDefer,
     TickIdle, HealCheck, HealDriver, StartBridge, LaunchBridge, WakeUp, PollTimeout,
     ClearWake, Load, PauseCheck, PauseDriver, OpenDevices, Announce, LeaveLoop,
     LoopFails, ReleaseInputs, RestoreDriver, ReadRequested, Conclude, SetEnabled,
     ConnectNow, OpenAdvanced, UiRequestStop, UiWake, AdvancedRef, AdvancedJoin,
     AdvancedJoinTimeout, AdvancedEnd, Resume, AdvancedWake, CodexChanges, RetryElapses

LEMMA ExitPhaseNext == TypeOK /\ Owner /\ ExitPhase /\ [Next]_vars => ExitPhase'
<1> SUFFICES ASSUME TypeOK, Owner, ExitPhase, [Next]_vars PROVE ExitPhase'
  OBVIOUS
<1>1. CASE UNCHANGED <<spc, sref, shutdown>> /\ (gaveUp => gaveUp')
  \* Only a start gives _bridge_thread a new thread, and it needs ~shutdown.
  <2>1. CASE StartBridge /\ MayStart
    BY <1>1, <2>1 DEF MayStart, ExitPhase, ExitSteps
  <2>2. CASE ref' = ref \/ ref' = None
    BY <1>1, <2>2 DEF ExitPhase
  <2> QED
    BY <2>1, <2>2, RefSteps
<1>2. ASSUME NEW w \in Workers, EndWorker(w) PROVE ExitPhase'
  \* The thread that ends is not in _bridge_thread any more.
  <2>1. wpc[w] = "post" /\ UNCHANGED <<ref, spc, shutdown, gaveUp>>
    BY <1>2 DEF EndWorker, WStep
  <2>2. sref' = IF sref = w THEN None ELSE sref
    BY <1>2 DEF EndWorker
  <2>3. ref # w
    BY <2>1, WorkersAssumption DEF Owner, Engaged
  <2> QED
    BY <2>1, <2>2, <2>3 DEF ExitPhase
<1>3. CASE RequestExit
  BY <1>3 DEF RequestExit, SStep, ExitPhase
<1>4. CASE ShutdownFlag
  BY <1>4 DEF ShutdownFlag, SStep, ExitPhase
<1>5. CASE ShutdownStop
  BY <1>5 DEF ShutdownStop, SStep, ExitPhase, ExitSteps
<1>6. CASE ShutdownRef
  BY <1>6 DEF ShutdownRef, SStep, ExitPhase, ExitSteps
<1>7. CASE ShutdownJoin
  BY <1>7 DEF ShutdownJoin, SStep, ExitPhase, ExitSteps
<1>8. CASE ShutdownJoinTimeout
  BY <1>8 DEF ShutdownJoinTimeout, SStep, ExitPhase, ExitSteps
<1>9. CASE ShutdownResume
  BY <1>9 DEF ShutdownResume, SStep, ExitPhase, ExitSteps
<1>10. CASE ShutdownMonitor
  BY <1>10 DEF ShutdownMonitor, SStep, ExitPhase, ExitSteps
<1>11. CASE ShutdownFinal
  BY <1>11 DEF ShutdownFinal, SStep, ExitPhase, ExitSteps
<1>12. CASE ProcessExit
  BY <1>12 DEF ProcessExit, SStep, ExitPhase, ExitSteps
<1>13. CASE Crash
  BY <1>13 DEF Crash, ExitPhase
<1> QED
  BY <1>1, <1>2, <1>3, <1>4, <1>5, <1>6, <1>7, <1>8, <1>9, <1>10, <1>11, <1>12, <1>13,
     ExitSteps1

\* shutdown() launches 3DxWare only when no bridge is engaged, unless its join()
\* gave up: wait_for_bridge_stop returned because there was no thread or it was dead.
THEOREM ShutdownJoinedHolds == Spec => []ShutdownJoined
<1>1. Init => ExitPhase
  BY DEF Init, ExitPhase
<1>2. TypeOK /\ Owner /\ ExitPhase => ShutdownJoined
  BY RefNone DEF ExitPhase, ShutdownJoined
<1> QED
  BY <1>1, <1>2, ExitPhaseNext, OwnerInvariant, PTL DEF Spec

-----------------------------------------------------------------------------
(* The advanced settings                                                   *)

\* With one advanced-settings session at a time: the link is suspended from the
\* request to the end of the child process; the thread the session joins is the only
\* one there is, and while the child is open there is none.
SessionPhase ==
  /\ upc \in {"advStop", "advWake"} => suspended /\ \A s \in Sessions : apc[s] = "free"
  /\ \A s \in Sessions :
       /\ apc[s] \in {"wait", "join", "open", "over", "failed"} => suspended
       /\ apc[s] = "join" => ref = None \/ ref = aref[s]
       /\ apc[s] = "open" => ref = None

LEMMA SessionSteps1 ==
  ASSUME [Next]_vars
  PROVE  \/ UNCHANGED <<upc, apc, aref, suspended>>
         \/ UNCHANGED <<apc, aref, suspended, ref>> /\ upc' \in {"idle", "stop", "wake"}
         \/ OpenAdvanced \/ UiRequestStop \/ UiWake
         \/ \E w \in Workers : EndWorker(w)
         \/ \E s \in Sessions :
              \/ AdvancedRef(s) \/ AdvancedJoin(s) \/ AdvancedJoinTimeout(s)
              \/ AdvancedEnd(s) \/ Resume(s) \/ AdvancedWake(s)
         \/ Crash
  BY ZenonT(40) DEF
     Next, MonitorStep, WorkerStep, SessionStep, ShutdownStep, Ended, MStep, WStep, AStep,
     SStep, Call, Start, LoopCheck, TickProbe, TickObserve, TickStop, TickDue, TickDefer,
     TickIdle, HealCheck, HealDriver, StartBridge, LaunchBridge, WakeUp, PollTimeout,
     ClearWake, Load, PauseCheck, PauseDriver, OpenDevices, Announce, LeaveLoop,
     LoopFails, ReleaseInputs, RestoreDriver, ReadRequested, Conclude, SetEnabled,
     ConnectNow, RequestExit, ShutdownFlag, ShutdownStop, ShutdownRef, ShutdownJoin,
     ShutdownJoinTimeout, ShutdownResume, ShutdownMonitor, ShutdownFinal, ProcessExit,
     CodexChanges, RetryElapses

LEMMA SessionPhaseNext ==
  ASSUME \A r, s \in Sessions : r = s,
         TypeOK, Owner, SessionPhase, [Next]_vars
  PROVE  SessionPhase'
<1> USE DEF SessionPhase
<1>0. apc \in [Sessions -> SessionSteps] /\ aref \in [Sessions -> Workers \cup {None}]
  BY DEF TypeOK, UiTypes
<1>1. CASE UNCHANGED <<upc, apc, aref, suspended>>
  \* A start needs ~suspended.
  <2>1. CASE StartBridge /\ MayStart
    BY <1>1, <2>1 DEF MayStart
  <2>2. CASE ref' = ref \/ ref' = None
    BY <1>1, <2>2
  <2> QED
    BY <2>1, <2>2, RefSteps
<1>2. CASE UNCHANGED <<apc, aref, suspended, ref>> /\ upc' \in {"idle", "stop", "wake"}
  BY <1>2
<1>3. CASE OpenAdvanced
  BY <1>3 DEF OpenAdvanced, Call
<1>4. CASE UiRequestStop
  BY <1>4 DEF UiRequestStop
<1>5. CASE UiWake
  BY <1>0, <1>5 DEF UiWake
<1>6. ASSUME NEW w \in Workers, EndWorker(w) PROVE SessionPhase'
  <2>1. wpc[w] = "post" /\ UNCHANGED <<ref, upc, apc, suspended>>
    BY <1>6 DEF EndWorker, WStep
  <2>2. aref' = [s \in Sessions |-> IF aref[s] = w THEN None ELSE aref[s]]
    BY <1>6 DEF EndWorker
  <2>3. ref # w
    BY <2>1, WorkersAssumption DEF Owner, Engaged
  <2> QED
    BY <2>1, <2>2, <2>3
<1>7. ASSUME NEW s \in Sessions, AdvancedRef(s) PROVE SessionPhase'
  BY <1>0, <1>7 DEF AdvancedRef, AStep
<1>8. ASSUME NEW s \in Sessions, AdvancedJoin(s) PROVE SessionPhase'
  BY <1>0, <1>8 DEF AdvancedJoin, AStep
<1>9. ASSUME NEW s \in Sessions, AdvancedJoinTimeout(s) PROVE SessionPhase'
  BY <1>0, <1>9 DEF AdvancedJoinTimeout, AStep
<1>10. ASSUME NEW s \in Sessions, Resume(s) PROVE SessionPhase'
  BY <1>0, <1>10 DEF Resume, AStep
<1>11. ASSUME NEW s \in Sessions, AdvancedWake(s) PROVE SessionPhase'
  BY <1>0, <1>11 DEF AdvancedWake, AStep
<1>12. ASSUME NEW s \in Sessions, AdvancedEnd(s) PROVE SessionPhase'
  BY <1>0, <1>12 DEF AdvancedEnd, AStep
<1>13. CASE Crash
  BY <1>13 DEF Crash
<1> QED
  BY <1>1, <1>2, <1>3, <1>4, <1>5, <1>6, <1>7, <1>8, <1>9, <1>10, <1>11, <1>12, <1>13,
     SessionSteps1

\* One advanced-settings session at a time has the device for itself: this process
\* has no bridge and will not start one while the child of open_advanced is open.
THEOREM AdvancedExclusiveHolds ==
  ASSUME \A r, s \in Sessions : r = s
  PROVE  Spec => []AdvancedExclusive
<1>1. Init => SessionPhase
  BY DEF Init, SessionPhase
<1>2. TypeOK /\ Owner /\ SessionPhase /\ [Next]_vars => SessionPhase'
  BY SessionPhaseNext
<1>3. TypeOK /\ Owner /\ SessionPhase => AdvancedExclusive
  BY RefNone DEF SessionPhase, AdvancedExclusive, SettingsOpen
<1> QED
  BY <1>1, <1>2, <1>3, OwnerInvariant, PTL DEF Spec

-----------------------------------------------------------------------------
(* Who restores 3DxWare                                                    *)

\* Behind DriverOwed: 3DxWare is stopped by a worker that has not passed its restore, and
\* such a worker is inside the try block of temporarily_paused.  That the process still
\* runs, so that the restore does come, follows from Owner and ExitPhase.
Holding == {"open", "announce", "run", "release", "restore"}
StoppedByWorker == ~driverUp => stranded \/ \E w \in Workers : wl[w].paused
RestoreDue ==
  /\ StoppedByWorker
  /\ \A w \in Workers : wl[w].paused => wpc[w] \in Holding

\* The steps that start, stop or launch 3DxWare, or move the threads that may.
LEMMA DriverSteps ==
  ASSUME [Next]_vars
  PROVE  \/ UNCHANGED <<driver, wrk>>
         \/ ResumeDriver /\ UNCHANGED wrk
         \/ StartBridge \/ LaunchBridge
         \/ \E w \in Workers : WorkerStep(w) \/ LoopFails(w)
         \/ Crash
<1>1. MonitorStep => \/ UNCHANGED <<driver, wrk>>
                     \/ ResumeDriver /\ UNCHANGED wrk
                     \/ StartBridge
                     \/ LaunchBridge
  BY DEF MonitorStep, Start, LoopCheck, TickProbe, TickObserve, TickStop, TickDue,
     TickDefer, TickIdle, HealCheck, HealDriver, WakeUp, ClearWake
<1>2. \A s \in Sessions : SessionStep(s) \/ AdvancedJoinTimeout(s) \/ AdvancedEnd(s)
                            => UNCHANGED <<driver, wrk>>
  BY DEF SessionStep, AdvancedRef, AdvancedJoin, AdvancedJoinTimeout, AdvancedEnd, Resume,
     AdvancedWake
<1>3. ShutdownStep \/ ShutdownJoinTimeout \/ RequestExit
        => UNCHANGED <<driver, wrk>> \/ (ResumeDriver /\ UNCHANGED wrk)
  BY DEF ShutdownStep, ShutdownFlag, ShutdownStop, ShutdownRef, ShutdownJoin,
     ShutdownJoinTimeout, ShutdownResume, ShutdownMonitor, ShutdownFinal, ProcessExit,
     RequestExit
<1>4. PollTimeout \/ SetEnabled \/ ConnectNow \/ OpenAdvanced \/ UiRequestStop \/ UiWake
        \/ CodexChanges \/ RetryElapses \/ UNCHANGED vars => UNCHANGED <<driver, wrk>>
  BY DEF PollTimeout, SetEnabled, ConnectNow, OpenAdvanced, UiRequestStop, UiWake,
     CodexChanges, RetryElapses
<1> QED
  BY <1>1, <1>2, <1>3, <1>4 DEF Next, Ended

\* A worker that only goes on inside the try block, or outside of it, owes what it owed.
LEMMA GoesOn ==
  ASSUME TypeOK, RestoreDue, NEW w \in Workers, NEW to \in WorkerSteps,
         wl[w].paused => to \in Holding,
         wpc' = [wpc EXCEPT ![w] = to], \A v \in Workers : wl'[v].paused = wl[v].paused,
         UNCHANGED driver
  PROVE  RestoreDue'
  BY DEF RestoreDue, StoppedByWorker, TypeOK, WrkTypes

LEMMA RaisesOnly ==
  ASSUME TypeOK, NEW w \in Workers, NEW fails, Raises(w, fails)
  PROVE  \A v \in Workers : wl'[v].paused = wl[v].paused
  BY DEF Raises, TypeOK, WrkTypes, Locals

LEMMA RestoreDueInit == Init => RestoreDue
<1> SUFFICES ASSUME Init PROVE RestoreDue
  OBVIOUS
<1>1. \A w \in Workers : ~wl[w].paused
  BY DEF Init, NoLocals
<1>2. StoppedByWorker
  BY Zenon DEF Init, StoppedByWorker
<1> QED
  BY <1>1, <1>2 DEF RestoreDue

LEMMA RestoreDueNext == TypeOK /\ RestoreDue /\ [Next]_vars => RestoreDue'
<1> SUFFICES ASSUME TypeOK, RestoreDue, [Next]_vars PROVE RestoreDue'
  OBVIOUS
<1>0. wpc \in [Workers -> WorkerSteps] /\ wl \in [Workers -> Locals]
  BY DEF TypeOK, WrkTypes
<1>1. CASE UNCHANGED <<driver, wrk>>
  BY <1>1 DEF RestoreDue, StoppedByWorker
<1>2. CASE ResumeDriver /\ UNCHANGED wrk
  BY <1>2 DEF ResumeDriver, RestoreDue, StoppedByWorker
<1>3. CASE StartBridge \/ LaunchBridge
  \* A thread that is made or started has not paused anything.
  <2>1. UNCHANGED <<driver, wl>>
    BY <1>3 DEF StartBridge, LaunchBridge
  <2>2. wpc' = wpc \/ \E w \in Workers, to \in WorkerSteps :
                        wpc[w] \in {"free", "created"} /\ wpc' = [wpc EXCEPT ![w] = to]
    BY <1>3 DEF StartBridge, LaunchBridge, WorkerSteps
  <2> QED
    BY <1>0, <2>1, <2>2 DEF RestoreDue, StoppedByWorker, Holding
<1>4. ASSUME NEW w \in Workers, WorkerStep(w) \/ LoopFails(w) PROVE RestoreDue'
  <2>1. CASE Load(w)
    <3>1. PICK fails \in MayFail("config") :
            WStep(w, "load", IF fails THEN "finish" ELSE "pause") /\ Raises(w, fails)
      BY <2>1 DEF Load
    <3> QED
      BY <2>1, <3>1, RaisesOnly, GoesOn
      DEF Load, WStep, RestoreDue, Holding, WorkerSteps
  <2>2. CASE PauseCheck(w)
    BY <2>2, GoesOn DEF PauseCheck, WStep, RestoreDue, Holding, WorkerSteps
  <2>3. CASE PauseDriver(w)
    \* Either the worker takes the debt, or the failed command leaves 3DxWare stranded.
    <3>1. CASE WStep(w, "halt", "open") /\ wl' = [wl EXCEPT ![w].paused = TRUE]
      <4>1. wl'[w].paused /\ wpc'[w] = "open"
        BY <1>0, <3>1 DEF WStep, Locals
      <4>2. \A v \in Workers \ {w} : wl'[v] = wl[v] /\ wpc'[v] = wpc[v]
        BY <1>0, <3>1 DEF WStep
      <4> QED
        BY <4>1, <4>2 DEF RestoreDue, StoppedByWorker, Holding
    <3>2. CASE /\ WStep(w, "halt", "finish") /\ Raises(w, TRUE)
               /\ UNCHANGED driver \/ (~driverUp' /\ stranded')
      <4>1. \A v \in Workers : wl'[v].paused = wl[v].paused
        BY <3>2, RaisesOnly
      <4>2. ~wl[w].paused
        BY <3>2 DEF WStep, RestoreDue, Holding
      <4>3. \A v \in Workers : wpc'[v] = IF v = w THEN "finish" ELSE wpc[v]
        BY <1>0, <3>2 DEF WStep
      <4> QED
        BY <3>2, <4>1, <4>2, <4>3 DEF RestoreDue, StoppedByWorker
    <3> QED
      BY <2>3, <3>1, <3>2 DEF PauseDriver
  <2>4. CASE OpenDevices(w)
    <3>1. PICK fails \in MayFail("open") :
            WStep(w, "open", IF fails THEN "restore" ELSE "announce") /\ Raises(w, fails)
      BY <2>4 DEF OpenDevices
    <3> QED
      BY <2>4, <3>1, RaisesOnly, GoesOn DEF OpenDevices, WStep, Holding, WorkerSteps
  <2>5. CASE Announce(w)
    BY <2>5, GoesOn DEF Announce, WStep, Holding, WorkerSteps
  <2>6. CASE LeaveLoop(w)
    BY <2>6, GoesOn DEF LeaveLoop, WStep, Holding, WorkerSteps
  <2>7. CASE LoopFails(w)
    BY <2>7, RaisesOnly, GoesOn DEF LoopFails, WStep, Holding, WorkerSteps
  <2>8. CASE ReleaseInputs(w)
    BY <2>8, RaisesOnly, GoesOn DEF ReleaseInputs, WStep, Holding, WorkerSteps
  <2>9. CASE RestoreDriver(w)
    \* The debt is paid, or the failed launch leaves 3DxWare stranded.
    <3>1. CASE StoppedHere(w)
      <4>1. driverUp' \/ stranded'
        BY <2>9, <3>1 DEF RestoreDriver, ResumeDriver
      <4>2. ~wl'[w].paused
        BY <1>0, <2>9, <3>1 DEF RestoreDriver
      <4>3. \A v \in Workers \ {w} : wl'[v] = wl[v] /\ wpc'[v] = wpc[v]
        BY <1>0, <2>9, <3>1 DEF RestoreDriver, WStep
      <4> QED
        BY <4>1, <4>2, <4>3 DEF RestoreDue, StoppedByWorker
    <3>2. CASE ~StoppedHere(w)
      BY <2>9, <3>2, GoesOn DEF RestoreDriver, StoppedHere, WStep, WorkerSteps
    <3> QED
      BY <3>1, <3>2
  <2>10. CASE ReadRequested(w)
    <3>1. \A v \in Workers : wl'[v].paused = wl[v].paused
      BY <1>0, <2>10 DEF ReadRequested, Locals
    <3> QED
      BY <2>10, <3>1, GoesOn DEF ReadRequested, WStep, RestoreDue, Holding, WorkerSteps
  <2>11. CASE Conclude(w)
    <3>1. \A v \in Workers : wl'[v].paused = wl[v].paused
      BY <1>0, <2>11 DEF Conclude, WStep, RestoreDue, Holding, NoLocals, Locals
    <3> QED
      BY <2>11, <3>1, GoesOn DEF Conclude, WStep, RestoreDue, Holding, WorkerSteps
  <2>12. CASE EndWorker(w)
    BY <2>12, GoesOn DEF EndWorker, WStep, RestoreDue, Holding, WorkerSteps
  <2> QED
    BY <1>4, <2>1, <2>2, <2>3, <2>4, <2>5, <2>6, <2>7, <2>8, <2>9, <2>10, <2>11, <2>12
    DEF WorkerStep
<1>5. CASE Crash
  BY <1>5 DEF Crash, RestoreDue, StoppedByWorker, NoLocals
<1> QED
  BY <1>1, <1>2, <1>3, <1>4, <1>5, DriverSteps

\* Whenever 3DxWare is stopped, no command failed and no process was killed, the process
\* runs and a live worker of it has yet to restore 3DxWare: no interleaving of
\* temporarily_paused, the idle heal, a new start and the end of the process loses it, but
\* for an exit whose shutdown() did not wait for the worker it joined
\* (official_driver.py:104-123, release_controller.py:181-192, 359-365).
THEOREM DriverOwedHolds == Spec => []DriverOwed
<1>1. Init => ExitPhase
  BY DEF Init, ExitPhase
<1>2. TypeOK /\ RestoreDue /\ [Next]_vars => RestoreDue'
  BY RestoreDueNext
<1>3. TypeOK /\ Owner /\ ExitPhase /\ RestoreDue => DriverOwed
  \* The worker is the thread in _bridge_thread.  After the exit there is such a thread
  \* only when shutdown() gave up on it.
  <2> SUFFICES ASSUME TypeOK, Owner, ExitPhase, RestoreDue, ~driverUp, ~stranded,
                      Up \/ ~gaveUp
               PROVE  \E w \in Workers : Restores(w)
    BY DEF DriverOwed
  <2>1. PICK w \in Workers : wl[w].paused /\ wpc[w] \in Holding
    BY DEF RestoreDue, StoppedByWorker
  <2>2. Alive(w) /\ ref = w /\ ref # None
    BY <2>1, WorkersAssumption DEF Holding, Alive, Owner, Engaged
  <2>3. Up
    BY <2>2 DEF Up, ExitPhase
  <2> QED
    BY <2>1, <2>2, <2>3 DEF Restores
<1> QED
  BY RestoreDueInit, <1>1, <1>2, <1>3, OwnerInvariant, ExitPhaseNext, PTL DEF Spec

-----------------------------------------------------------------------------
(* The status "active"                                                     *)

\* Only a worker that reaches its loop makes the status active.
LEMMA ActiveSteps ==
  ASSUME [Next]_vars, status' = "active"
  PROVE  status = "active" \/ \E w \in Workers : Announce(w)
  BY DEF
     Next, MonitorStep, WorkerStep, SessionStep, ShutdownStep, Ended,
     Start, LoopCheck, TickProbe, TickObserve, TickStop, TickDue, TickDefer,
     TickIdle, HealCheck, HealDriver, StartBridge, LaunchBridge, WakeUp, PollTimeout,
     ClearWake, Load, PauseCheck, PauseDriver, OpenDevices, LeaveLoop,
     LoopFails, ReleaseInputs, RestoreDriver, ReadRequested, Conclude, EndWorker,
     SetEnabled, ConnectNow, OpenAdvanced, UiRequestStop, UiWake, AdvancedRef,
     AdvancedJoin, AdvancedJoinTimeout, AdvancedEnd, Resume, AdvancedWake, RequestExit,
     ShutdownFlag, ShutdownStop, ShutdownRef, ShutdownJoin, ShutdownJoinTimeout, ShutdownResume,
     ShutdownMonitor, ShutdownFinal, ProcessExit, CodexChanges, RetryElapses, Crash,
     RequestBridgeStop, RestingStatus

LEMMA ActiveNext == TypeOK /\ ActiveMeansRunning /\ [Next]_vars => ActiveMeansRunning'
<1> SUFFICES ASSUME TypeOK, ActiveMeansRunning, [Next]_vars, status' = "active"
             PROVE  \E w \in Workers : Alive(w)' /\ Engaged(w)'
  BY DEF ActiveMeansRunning
<1> USE DEF Alive, Engaged
<1>0. wpc \in [Workers -> WorkerSteps]
  BY DEF TypeOK, WrkTypes
<1>1. ASSUME NEW w \in Workers, Advances(w) PROVE Alive(w)' /\ Engaged(w)'
  BY <1>0, <1>1 DEF Advances, Running
<1>2. ASSUME \A w \in Workers : ~Announce(w)
      PROVE  \E w \in Workers : Alive(w) /\ Engaged(w)
  BY <1>2, ActiveSteps DEF ActiveMeansRunning
<1>3. CASE Quiet
  <2>1. \A w \in Workers : ~Announce(w)
    BY <1>0, <1>3 DEF Quiet, Announce, WStep
  <2> QED
    BY <1>2, <1>3, <2>1 DEF Quiet
<1>4. ASSUME NEW w \in Workers, Conclude(w) PROVE FALSE
  BY <1>4 DEF Conclude, RestingStatus
<1>5. ASSUME NEW w \in Workers, EndWorker(w)
      PROVE  \E v \in Workers : Alive(v)' /\ Engaged(v)'
  <2>1. wpc[w] = "post" /\ wpc' = [wpc EXCEPT ![w] = "free"] /\ status = "active"
    BY <1>5 DEF EndWorker, WStep
  <2>2. PICK v \in Workers : Alive(v) /\ Engaged(v)
    BY <2>1 DEF ActiveMeansRunning
  <2> QED
    BY <1>0, <2>1, <2>2
<1>6. CASE StartBridge
  \* A start that is carried out makes the status "starting".
  <2>1. status = "active" /\ UNCHANGED wpc
    BY <1>6 DEF StartBridge
  <2> QED
    BY <2>1 DEF ActiveMeansRunning
<1>7. CASE LaunchBridge
  <2>1. PICK w \in Workers : wpc' = [wpc EXCEPT ![w] = "load"]
    BY <1>7 DEF LaunchBridge
  <2> QED
    BY <1>0, <2>1
<1>8. CASE Crash
  BY <1>8 DEF Crash
<1> QED
  BY <1>1, <1>3, <1>4, <1>5, <1>6, <1>7, <1>8, StepKinds

\* "Codexに接続中" never outlives the bridge: whoever writes another status over it, and
\* in whatever order four threads do, the worker that wrote it is still there
\* (release_controller.py:323-341).
THEOREM ActiveMeansRunningHolds == Spec => []ActiveMeansRunning
<1>1. Init => ActiveMeansRunning
  BY DEF Init, ActiveMeansRunning
<1>2. TypeOK /\ ActiveMeansRunning /\ [Next]_vars => ActiveMeansRunning'
  BY ActiveNext
<1> QED
  BY <1>1, <1>2, TypeCorrect, PTL DEF Spec
=============================================================================
