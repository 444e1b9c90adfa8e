-------------------------- MODULE BridgeController --------------------------
(***************************************************************************)
(* The Codex-linked bridge of the released application:                    *)
(* spacemouse_input/release_controller.py (BridgeController and            *)
(* CodexLinkPolicy), the bridge worker as far as it touches the            *)
(* controller's state and the 3DxWare driver (runtime.py,                  *)
(* official_driver.py), and the threads of release_app.py that call it.    *)
(*                                                                         *)
(* Threads: the monitor (_monitor_loop), the bridge workers                *)
(* (_bridge_worker), the Tk thread (UI callbacks), the advanced-settings   *)
(* threads (_advanced_worker) and the shutdown thread (shutdown).  A step  *)
(* is one critical section of _lock, one unlocked access to a shared       *)
(* field, or one call that leaves the process.  Messages and log lines are *)
(* left out; snapshots are delivered by _emit_snapshot, which reads and    *)
(* writes none of the state kept here.  Operators whose name ends in X are *)
(* mutated forms of the definition after them, for validating properties.  *)
(***************************************************************************)
EXTENDS Naturals

CONSTANTS
  Workers,       \* identities for bridge threads; one is free again when its thread ended
  None,          \* Python's None
  Sessions,      \* advanced-settings threads that may exist at the same time
  MissingLimit,  \* CodexLinkPolicy.missing_limit
  Calls,         \* the UI callbacks of a run
  MaxCalls,      \* bound: UI callbacks and crashes in a behaviour
  Faults         \* what may fail in a run

CallNames  == {"enable", "disable", "connect", "advanced", "exit", "crash"}
FaultNames == {"probe", "unplug", "config", "pause", "halfpause", "open", "io",
               "release", "resume", "timeout"}

ASSUME WorkersAssumption == None \notin Workers
ASSUME LimitAssumption   == MissingLimit \in Nat \ {0}
ASSUME BoundAssumption   == MaxCalls \in Nat
ASSUME ChoiceAssumption  == Calls \subseteq CallNames /\ Faults \subseteq FaultNames

VARIABLES
  \* fields of BridgeController
  enabled,     \* _enabled
  suspended,   \* _suspended
  status,      \* _state
  retryDue,    \* monotonic() >= _next_retry
  misses,      \* policy.misses, which counts on past missing_limit without effect
  ref,         \* _bridge_thread
  bridgeStop,  \* _bridge_stop.is_set(), for the Event made by the latest start
  wake,        \* _wake.is_set()
  shutdown,    \* _shutdown.is_set()
  \* program counters and locals of the threads
  mpc, seen,   \* the monitor, and the locals of tick()
  wpc, wl,     \* the bridge workers, and their locals
  upc,         \* the Tk thread
  apc, aref,   \* _advanced_worker, and the thread its join() waits for
  child,       \* advanced_process: the session whose child process it is
  spc, sref,   \* shutdown(), and the thread its join() waits for
  \* outside the process
  codexUp,     \* a Codex process exists
  driverUp,    \* 3DxService.exe runs
  \* history
  stranded,    \* 3DxWare is stopped because a command failed or a process died
  gaveUp,      \* shutdown() went on, or died, with the thread it joined not ended
  calls        \* UI callbacks and crashes so far

flags   == <<enabled, suspended>>
retry   == <<retryDue, misses>>
own     == <<ref, bridgeStop>>
signals == <<wake, shutdown>>
ctl     == <<flags, status, retry, own, signals>>
mon     == <<mpc, seen>>
wrk     == <<wpc, wl>>
adv     == <<apc, aref, child>>
ui      == <<upc, adv, calls>>
fin     == <<spc, sref, gaveUp>>
driver  == <<driverUp, stranded>>
env     == <<codexUp, driver>>
vars    == <<ctl, mon, wrk, ui, fin, env>>

Statuses == {"disabled", "waiting", "starting", "active", "stopping",
             "suspended", "error", "stopped"}

\* Where a bridge thread is.  "free": no such thread; "created": the Thread
\* object exists and start() has not been called; "post": _bridge_thread has
\* been cleared and the thread has only its last snapshot and wake-up to do.
WorkerSteps  == {"free", "created", "load", "pause", "halt", "open", "announce", "run",
                 "release", "restore", "finish", "conclude", "post"}
MonitorSteps == {"off", "check", "tick", "observe", "stop", "due", "defer", "start",
                 "launch", "idle", "heal", "healing", "wait", "clear", "done"}
UiSteps      == {"idle", "stop", "wake", "advStop", "advWake"}
SessionSteps == {"free", "wait", "join", "open", "over", "failed", "wake", "dead"}
ExitSteps    == {"idle", "flag", "stop", "wait", "join", "resume", "monitor",
                 "final", "over", "exited"}

NoLocals == [failed |-> FALSE, paused |-> FALSE, asked |-> FALSE]
NoSight  == [codex |-> FALSE, devices |-> FALSE, enabled |-> FALSE,
             suspended |-> FALSE, running |-> FALSE]

\* Thread.is_alive(): False before start() and after the thread's function returned.
Alive(w) == wpc[w] \notin {"free", "created"}

\* bridge_running, 134-137; the same test stands in tick, _start_bridge and
\* _request_bridge_stop, each time under the lock.
BridgeRunningX == ref # None /\ Alive(ref) /\ ~bridgeStop
BridgeRunning == ref # None /\ Alive(ref)

\* The process runs until the Tk loop is left after shutdown().
Up == spc # "exited"

\* __init__, in a process without other threads.
Init ==
  /\ codexUp \in BOOLEAN /\ driverUp \in BOOLEAN
  /\ enabled \in BOOLEAN /\ suspended = FALSE
  /\ status = IF enabled THEN "waiting" ELSE "disabled"
  /\ retryDue = TRUE /\ misses = 0
  /\ ref = None /\ bridgeStop = FALSE
  /\ wake = FALSE /\ shutdown = FALSE
  /\ mpc = "off" /\ seen = NoSight
  /\ wpc = [w \in Workers |-> "free"] /\ wl = [w \in Workers |-> NoLocals]
  /\ upc = "idle"
  /\ apc = [s \in Sessions |-> "free"] /\ aref = [s \in Sessions |-> None] /\ child = None
  /\ spc = "idle" /\ sref = None /\ gaveUp = FALSE
  /\ stranded = ~driverUp
  /\ calls = 0

-----------------------------------------------------------------------------
(* Shared operations                                                       *)

\* The status of a controller without a bridge: _bridge_worker 323-334 and the
\* last branch of tick use the same order of tests.
RestingStatusX(su, en) ==
  IF su THEN "suspended" ELSE IF en THEN status ELSE "disabled"
RestingStatus(su, en) ==
  IF su THEN "suspended" ELSE IF en THEN "waiting" ELSE "disabled"

\* _request_bridge_stop(message)
RequestBridgeStop ==
  \/ BridgeRunning /\ bridgeStop' = TRUE /\ status' = "stopping"
  \/ ~BridgeRunning /\ UNCHANGED <<bridgeStop, status>>

\* resume_driver_if_installed(), and resume_driver(): launch 3DxService.exe
\* unless it runs; the launch may fail or be given up on after five seconds.
ResumeDriver ==
  \/ driverUp' = TRUE /\ stranded' = FALSE
  \/ "resume" \in Faults /\ ~driverUp /\ driverUp' = FALSE /\ stranded' = TRUE

MayFail(kind) == IF kind \in Faults THEN BOOLEAN ELSE {FALSE}

-----------------------------------------------------------------------------
(* The monitor thread                                                      *)

\* One step of the monitor; the locals of tick() end with it.
MStep(from, to) ==
  /\ mpc = from /\ mpc' = to
  /\ seen' = IF to = "wait" THEN NoSight ELSE seen

\* start(): _heal_official_driver_if_idle() before any other thread exists,
\* then the monitor thread.
Start ==
  /\ MStep("off", "check")
  /\ ResumeDriver
  /\ UNCHANGED <<ctl, wrk, ui, fin, codexUp>>

\* while not self._shutdown.is_set()
LoopCheck ==
  /\ MStep("check", IF shutdown THEN "done" ELSE "tick")
  /\ UNCHANGED <<ctl, wrk, ui, fin, env>>

\* The four probes, then the locked copy of the flags.  A probe that raises
\* reads as absent; "devices" is whether the SpaceMouse and the Codex HID are both
\* found.  What the 3DxWare probe sees is only displayed.
TickProbe ==
  /\ mpc = "tick" /\ mpc' = "observe"
  /\ \E missed \in MayFail("probe"), unplugged \in MayFail("unplug") :
       seen' = [codex |-> codexUp /\ ~missed, devices |-> ~unplugged,
                enabled |-> enabled, suspended |-> suspended, running |-> BridgeRunning]
  /\ UNCHANGED <<ctl, wrk, ui, fin, env>>

\* CodexLinkPolicy.observe(): the debounce counter and the two verdicts.
NextMisses ==
  IF seen.codex THEN 0 ELSE IF misses < MissingLimit THEN misses + 1 ELSE misses

WantsStopX(m) == seen.running /\ (~seen.enabled \/ seen.suspended)
WantsStop(m) ==
  /\ seen.running
  /\ ~seen.enabled \/ seen.suspended \/ (~seen.codex /\ m >= MissingLimit)

WantsStart == seen.enabled /\ ~seen.suspended /\ seen.codex /\ ~seen.running

TickObserve ==
  /\ misses' = NextMisses
  /\ \/ WantsStop(NextMisses) /\ MStep("observe", "stop")
     \/ WantsStart /\ MStep("observe", "due")
     \/ /\ ~WantsStop(NextMisses) /\ ~WantsStart
        /\ MStep("observe", IF seen.running THEN "wait" ELSE "idle")
  /\ UNCHANGED <<flags, status, retryDue, own, signals, wrk, ui, fin, env>>

TickStop ==
  /\ MStep("stop", "wait")
  /\ RequestBridgeStop
  /\ UNCHANGED <<flags, retry, ref, signals, wrk, ui, fin, env>>

\* action == "start" and monotonic() >= self._next_retry, read without the lock
TickDue ==
  /\ \/ retryDue /\ MStep("due", IF seen.devices THEN "start" ELSE "defer")
     \/ ~retryDue /\ MStep("due", "wait")
  /\ UNCHANGED <<flags, status, retryDue, misses, own, signals, wrk, ui, fin, env>>

\* A device is missing: _next_retry is pushed back without the lock, and for
\* the virtual HID the recovery task is requested.
TickDefer ==
  /\ MStep("defer", "wait")
  /\ retryDue' = FALSE /\ status' = "error"
  /\ UNCHANGED <<flags, misses, own, signals, wrk, ui, fin, env>>

\* The bridge is not running and is not to be started.
TickIdle ==
  /\ MStep("idle", IF seen.suspended THEN "wait" ELSE "heal")
  /\ status' = RestingStatus(seen.suspended, seen.enabled)
  /\ UNCHANGED <<flags, retry, own, signals, wrk, ui, fin, env>>

\* _heal_official_driver_if_idle(): the test, and then the call
HealCheckX == MStep("heal", "wait") /\ UNCHANGED <<ctl, wrk, ui, fin, env>>
HealCheck ==
  /\ MStep("heal", IF BridgeRunning THEN "wait" ELSE "healing")
  /\ UNCHANGED <<ctl, wrk, ui, fin, env>>

HealDriver ==
  /\ MStep("healing", "wait")
  /\ ResumeDriver
  /\ UNCHANGED <<ctl, wrk, ui, fin, codexUp>>

\* _start_bridge(): the tests of its critical section ...
MayStartX == enabled /\ ~shutdown /\ ~BridgeRunning
MayStartXX == enabled /\ ~suspended /\ ~BridgeRunning
MayStart == enabled /\ ~suspended /\ ~shutdown /\ ~BridgeRunning

\* ... self._bridge_stop = threading.Event() ...
NewEventX == UNCHANGED bridgeStop
NewEventXX == bridgeStop' = None
NewEvent  == bridgeStop' = FALSE

\* ... the section as a whole ...
StartBridge ==
  /\ \/ ~MayStart /\ MStep("start", "wait") /\ UNCHANGED <<own, status, wrk>>
     \/ /\ MayStart /\ MStep("start", "launch")
        /\ \E w \in Workers :
             /\ wpc[w] = "free" /\ wpc' = [wpc EXCEPT ![w] = "created"]
             /\ ref' = w
        /\ NewEvent
        /\ status' = "starting"
        /\ UNCHANGED wl
  /\ UNCHANGED <<flags, retry, signals, ui, fin, env>>

\* ... and thread.start(), after the lock was released.
LaunchBridge ==
  /\ MStep("launch", "wait")
  /\ \E w \in Workers : wpc[w] = "created" /\ wpc' = [wpc EXCEPT ![w] = "load"]
  /\ UNCHANGED <<ctl, wl, ui, fin, env>>

\* self._wake.wait(self.poll_interval) returns because of a wake-up or because
\* the interval is over; then self._wake.clear()
WakeUp ==
  /\ wake /\ MStep("wait", "clear")
  /\ UNCHANGED <<ctl, wrk, ui, fin, env>>

PollTimeout ==
  /\ ~wake /\ MStep("wait", "clear")
  /\ UNCHANGED <<ctl, wrk, ui, fin, env>>

ClearWake ==
  /\ MStep("clear", "check")
  /\ wake' = FALSE
  /\ UNCHANGED <<flags, status, retry, own, shutdown, wrk, ui, fin, env>>

MonitorStep ==
  \/ Start \/ LoopCheck \/ TickProbe \/ TickObserve \/ TickStop \/ TickDue \/ TickDefer
  \/ TickIdle \/ HealCheck \/ HealDriver \/ StartBridge \/ LaunchBridge
  \/ WakeUp \/ ClearWake

-----------------------------------------------------------------------------
(* A bridge worker: _bridge_worker, run_bridge and temporarily_paused      *)

WStep(w, from, to) == wpc[w] = from /\ wpc' = [wpc EXCEPT ![w] = to]

\* The exception of a step whose failure is `fails' is kept until the end.
Raises(w, fails) == wl' = [wl EXCEPT ![w].failed = @ \/ fails]

\* config_loader(), config.validate() and the two enumerations
Load(w) ==
  /\ \E fails \in MayFail("config") :
       WStep(w, "load", IF fails THEN "finish" ELSE "pause") /\ Raises(w, fails)
  /\ UNCHANGED <<ctl, mon, ui, fin, env>>

\* pause_driver(): was_running = driver_is_running()
PauseCheck(w) ==
  /\ WStep(w, "pause", IF driverUp THEN "halt" ELSE "open")
  /\ UNCHANGED <<ctl, mon, wl, ui, fin, env>>

\* pause_driver(): 3DxService -shutdown, awaited for five seconds.  An exception
\* leaves the driver running, or stopped when it went down after the wait, and
\* temporarily_paused has not entered its try block.
PauseDriver(w) ==
  /\ \/ /\ WStep(w, "halt", "open")
        /\ driverUp' = FALSE
        /\ wl' = [wl EXCEPT ![w].paused = TRUE]
        /\ UNCHANGED stranded
     \/ /\ WStep(w, "halt", "finish") /\ Raises(w, TRUE)
        /\ \/ "pause" \in Faults /\ UNCHANGED driver
           \/ "halfpause" \in Faults /\ driverUp' = FALSE /\ stranded' = TRUE
  /\ UNCHANGED <<ctl, mon, ui, fin, codexUp>>

\* SpaceMouseDevice and CodexMicroDevice are opened
OpenDevices(w) ==
  /\ \E fails \in MayFail("open") :
       WStep(w, "open", IF fails THEN "restore" ELSE "announce") /\ Raises(w, fails)
  /\ UNCHANGED <<ctl, mon, ui, fin, env>>

\* on_status("running") -> _bridge_status -> _set_status(STATE_ACTIVE, ...)
Announce(w) ==
  /\ WStep(w, "announce", "run")
  /\ status' = "active"
  /\ UNCHANGED <<flags, retry, own, signals, wl, mon, ui, fin, env>>

\* reports() ends because the Event it polls is set ...
LeaveLoop(w) ==
  /\ bridgeStop /\ WStep(w, "run", "release")
  /\ UNCHANGED <<ctl, mon, wl, ui, fin, env>>

\* ... or reading, or sending a report, raises.
LoopFails(w) ==
  /\ "io" \in Faults /\ WStep(w, "run", "release") /\ Raises(w, TRUE)
  /\ UNCHANGED <<ctl, mon, ui, fin, env>>

\* dispatcher.release_all(), then the devices are closed
ReleaseInputs(w) ==
  /\ WStep(w, "release", "restore")
  /\ \E fails \in MayFail("release") : Raises(w, fails)
  /\ UNCHANGED <<ctl, mon, ui, fin, env>>

\* temporarily_paused: resume_driver() only when this context stopped it
StoppedHereX(w) == wl[w].paused /\ ~wl[w].failed
StoppedHere(w)  == wl[w].paused

RestoreDriver(w) ==
  /\ WStep(w, "restore", "finish")
  /\ \/ /\ StoppedHere(w)
        /\ ResumeDriver
        /\ wl' = [wl EXCEPT ![w] = [failed |-> @.failed \/ ~driverUp', paused |-> FALSE,
                                 asked |-> FALSE]]
     \/ ~StoppedHere(w) /\ UNCHANGED <<wl, driver>>
  /\ UNCHANGED <<ctl, mon, ui, fin, codexUp>>

\* requested = ..., read before the lock is taken
ReadRequested(w) ==
  /\ WStep(w, "finish", "conclude")
  /\ wl' = [wl EXCEPT ![w].asked = bridgeStop \/ shutdown]
  /\ UNCHANGED <<ctl, mon, ui, fin, env>>

\* the critical section at the end of _bridge_worker
Conclude(w) ==
  /\ WStep(w, "conclude", "post")
  /\ ref' = None
  /\ LET unasked == wl[w].failed /\ ~wl[w].asked
     IN  \/ unasked /\ status' = "error" /\ retryDue' = FALSE
         \/ ~unasked /\ status' = RestingStatus(suspended, enabled) /\ UNCHANGED retryDue
  /\ wl' = [wl EXCEPT ![w] = NoLocals]
  /\ UNCHANGED <<flags, misses, bridgeStop, signals, mon, ui, fin, env>>

\* self._wake.set() and the end of the thread, which releases every join() on it:
\* None in aref and sref stands for a thread that is known to be dead.
EndWorker(w) ==
  /\ WStep(w, "post", "free")
  /\ wake' = TRUE
  /\ aref' = [s \in Sessions |-> IF aref[s] = w THEN None ELSE aref[s]]
  /\ sref' = IF sref = w THEN None ELSE sref
  /\ UNCHANGED <<flags, status, retry, own, shutdown, mon, wl, upc, apc, child, calls>>
  /\ UNCHANGED <<spc, gaveUp, env>>

WorkerStep(w) ==
  \/ Load(w) \/ PauseCheck(w) \/ PauseDriver(w) \/ OpenDevices(w) \/ Announce(w)
  \/ LeaveLoop(w) \/ ReleaseInputs(w) \/ RestoreDriver(w) \/ ReadRequested(w)
  \/ Conclude(w) \/ EndWorker(w)

-----------------------------------------------------------------------------
(* The Tk thread: callbacks run one at a time.  Each first changes the     *)
(* flags under the lock, then asks the bridge to stop, then wakes the      *)
(* monitor.                                                                *)

Call(kind, next) ==
  /\ kind \in Calls /\ calls < MaxCalls /\ calls' = calls + 1
  /\ mpc # "off" /\ upc = "idle" /\ upc' = next

\* set_enabled(enabled)
SetEnabled ==
  /\ \E on \in BOOLEAN :
       /\ Call(IF on THEN "enable" ELSE "disable", IF on THEN "wake" ELSE "stop")
       /\ enabled' = on
  /\ UNCHANGED <<suspended, status, retry, own, signals, mon, wrk, adv, fin, env>>

\* connect_now()
ConnectNow ==
  /\ Call("connect", "wake")
  /\ enabled' = TRUE /\ retryDue' = TRUE /\ misses' = 0
  /\ UNCHANGED <<suspended, status, own, signals, mon, wrk, adv, fin, env>>

\* open_advanced() and request_exit() refuse while advanced_process is a live child;
\* with two sessions it is the child of the one that came last, or nobody's.
ChildOpen == child # None /\ apc[child] = "open"

\* ReleaseDashboard.open_advanced() up to suspend()'s critical section
OpenAdvanced ==
  /\ Call("advanced", "advStop")
  /\ ~ChildOpen /\ \E s \in Sessions : apc[s] = "free"
  /\ suspended' = TRUE
  /\ UNCHANGED <<enabled, status, retry, own, signals, mon, wrk, adv, fin, env>>

UiRequestStop ==
  /\ \/ upc = "stop" /\ upc' = "wake"
     \/ upc = "advStop" /\ upc' = "advWake"
  /\ RequestBridgeStop
  /\ UNCHANGED <<flags, retry, ref, signals, mon, wrk, adv, calls, fin, env>>

\* _wake.set(); open_advanced then starts an _advanced_worker thread.
UiWakeX ==
  /\ upc = "wake" /\ upc' = "idle"
  /\ UNCHANGED <<ctl, mon, wrk, adv, calls, fin, env>>
UiWake ==
  /\ wake' = TRUE
  /\ upc' = "idle"
  /\ \/ upc = "wake" /\ UNCHANGED apc
     \/ /\ upc = "advWake"
        /\ \E s \in Sessions : apc[s] = "free" /\ apc' = [apc EXCEPT ![s] = "wait"]
  /\ UNCHANGED <<flags, status, retry, own, shutdown, mon, wrk, aref, child, calls, fin, env>>

-----------------------------------------------------------------------------
(* _advanced_worker: wait_for_bridge_stop(25.0), then the child process,   *)
(* then resume()                                                           *)

AStep(s, from, to) == apc[s] = from /\ apc' = [apc EXCEPT ![s] = to]

\* wait_for_bridge_stop: thread = self._bridge_thread under the lock
AdvancedRef(s) ==
  /\ AStep(s, "wait", "join")
  /\ aref' = [aref EXCEPT ![s] = ref]
  /\ UNCHANGED <<ctl, mon, wrk, upc, child, calls, fin, env>>

\* thread.join(timeout) comes back when the thread is dead, and the child process
\* opens or cannot be started (OSError); on a Thread that was not started it raises,
\* and this thread dies.
AdvancedJoin(s) ==
  /\ \/ aref[s] = None /\ AStep(s, "join", "open") /\ child' = s
     \/ aref[s] = None /\ AStep(s, "join", "over") /\ child' = None
     \/ aref[s] # None /\ ~Alive(aref[s]) /\ AStep(s, "join", "dead") /\ UNCHANGED child
  /\ aref' = [aref EXCEPT ![s] = None]
  /\ UNCHANGED <<ctl, mon, wrk, upc, calls, fin, env>>

AdvancedJoinTimeout(s) ==
  /\ "timeout" \in Faults
  /\ aref[s] # None /\ Alive(aref[s]) /\ AStep(s, "join", "failed")
  /\ aref' = [aref EXCEPT ![s] = None]
  /\ UNCHANGED <<ctl, mon, wrk, upc, child, calls, fin, env>>

\* The child process ends, and advanced_process is cleared, whichever child it is.
AdvancedEnd(s) ==
  /\ AStep(s, "open", "over")
  /\ child' = None
  /\ UNCHANGED <<ctl, mon, wrk, upc, aref, calls, fin, env>>

\* resume(), from the finally block or from _advanced_failed: the flag, and then the
\* wake-up.
Resume(s) ==
  /\ AStep(s, "over", "wake") \/ AStep(s, "failed", "wake")
  /\ suspended' = FALSE
  /\ UNCHANGED <<enabled, status, retry, own, signals, mon, wrk, upc, aref, child, calls>>
  /\ UNCHANGED <<fin, env>>

AdvancedWake(s) ==
  /\ AStep(s, "wake", "free")
  /\ wake' = TRUE
  /\ UNCHANGED <<flags, status, retry, own, shutdown, mon, wrk, upc, aref, child, calls>>
  /\ UNCHANGED <<fin, env>>

SessionStep(s) == AdvancedRef(s) \/ AdvancedJoin(s) \/ Resume(s) \/ AdvancedWake(s)

-----------------------------------------------------------------------------
(* shutdown(), on its own thread, and the end of the process               *)

SStep(from, to) == spc = from /\ spc' = to

\* ReleaseDashboard.request_exit()
RequestExit ==
  /\ Call("exit", "idle") /\ SStep("idle", "flag")
  /\ ~ChildOpen
  /\ UNCHANGED <<ctl, mon, wrk, adv, sref, gaveUp, env>>

\* _shutdown.set(), _wake.set()
ShutdownFlag ==
  /\ SStep("flag", "stop")
  /\ shutdown' = TRUE /\ wake' = TRUE
  /\ UNCHANGED <<flags, status, retry, own, mon, wrk, ui, sref, gaveUp, env>>

ShutdownStop ==
  /\ SStep("stop", "wait")
  /\ RequestBridgeStop
  /\ UNCHANGED <<flags, retry, ref, signals, mon, wrk, ui, sref, gaveUp, env>>

\* wait_for_bridge_stop(timeout): the reference, then the join, which ends the
\* shutdown thread with an exception when the thread was not started
ShutdownRef ==
  /\ SStep("wait", "join")
  /\ sref' = ref
  /\ UNCHANGED <<ctl, mon, wrk, ui, gaveUp, env>>

ShutdownJoin ==
  /\ \/ sref = None /\ SStep("join", "resume") /\ UNCHANGED gaveUp
     \/ sref # None /\ ~Alive(sref) /\ SStep("join", "over") /\ gaveUp' = TRUE
  /\ sref' = None
  /\ UNCHANGED <<ctl, mon, wrk, ui, env>>

ShutdownJoinTimeout ==
  /\ "timeout" \in Faults
  /\ sref # None /\ Alive(sref) /\ SStep("join", "resume")
  /\ sref' = None /\ gaveUp' = TRUE
  /\ UNCHANGED <<ctl, mon, wrk, ui, env>>

\* self.driver_resume(), whose exception is caught
ShutdownResume ==
  /\ SStep("resume", "monitor")
  /\ ResumeDriver
  /\ UNCHANGED <<ctl, mon, wrk, ui, sref, gaveUp, codexUp>>

\* monitor.join(min(timeout, 5.0))
ShutdownMonitor ==
  /\ SStep("monitor", "final")
  /\ mpc = "done" \/ "timeout" \in Faults
  /\ UNCHANGED <<ctl, mon, wrk, ui, sref, gaveUp, env>>

ShutdownFinal ==
  /\ SStep("final", "over")
  /\ status' = "stopped"
  /\ UNCHANGED <<flags, retry, own, signals, mon, wrk, ui, sref, gaveUp, env>>

\* _poll_shutdown sees that the thread has ended and leaves the Tk loop.  The
\* monitor, the workers and _advanced_worker are daemon threads: they stop where
\* they are.
ProcessExit ==
  /\ upc = "idle" /\ SStep("over", "exited")
  /\ UNCHANGED <<ctl, mon, wrk, ui, sref, gaveUp, env>>

ShutdownStep ==
  \/ ShutdownFlag \/ ShutdownStop \/ ShutdownRef \/ ShutdownJoin \/ ShutdownResume
  \/ ShutdownMonitor \/ ShutdownFinal \/ ProcessExit

-----------------------------------------------------------------------------
(* The environment                                                         *)

\* Codex is started or closed.
CodexChanges ==
  /\ codexUp' = ~codexUp
  /\ UNCHANGED <<ctl, mon, wrk, ui, fin, driver>>

\* monotonic() passes _next_retry.
RetryElapses ==
  /\ ~retryDue /\ retryDue' = TRUE
  /\ UNCHANGED <<flags, status, misses, own, signals, mon, wrk, ui, fin, env>>

\* The process is killed and a new one is made, which finds 3DxWare as the old one
\* left it.  Automatic linking is saved before it is switched, so either value of
\* it may be found.
Crash ==
  /\ "crash" \in Calls /\ calls < MaxCalls /\ calls' = calls + 1
  /\ upc' = "idle"
  /\ enabled' \in BOOLEAN /\ suspended' = FALSE
  /\ status' = IF enabled' THEN "waiting" ELSE "disabled"
  /\ retryDue' = TRUE /\ misses' = 0
  /\ ref' = None /\ bridgeStop' = FALSE
  /\ wake' = FALSE /\ shutdown' = FALSE
  /\ mpc' = "off" /\ seen' = NoSight
  /\ wpc' = [w \in Workers |-> "free"] /\ wl' = [w \in Workers |-> NoLocals]
  /\ apc' = [s \in Sessions |-> "free"] /\ aref' = [s \in Sessions |-> None] /\ child' = None
  /\ spc' = "idle" /\ sref' = None /\ gaveUp' = FALSE
  /\ stranded' = ~driverUp
  /\ UNCHANGED <<codexUp, driverUp>>

\* The program has ended.
Ended == ~Up /\ UNCHANGED vars

Next ==
  \/ /\ Up
     /\ \/ MonitorStep \/ PollTimeout
        \/ \E w \in Workers : WorkerStep(w) \/ LoopFails(w)
        \/ SetEnabled \/ ConnectNow \/ OpenAdvanced \/ UiRequestStop \/ UiWake
        \/ \E s \in Sessions : SessionStep(s) \/ AdvancedJoinTimeout(s) \/ AdvancedEnd(s)
        \/ RequestExit \/ ShutdownStep \/ ShutdownJoinTimeout
        \/ CodexChanges \/ RetryElapses \/ Crash
  \/ Ended

Spec == Init /\ [][Next]_vars

\* The threads of the process keep running, every call that leaves the process
\* returns (subprocesses are awaited for at most five seconds, device reads do not
\* block), and a join() returns when its thread is dead.  Nothing is assumed of the
\* user, of Codex, of failures or of timeouts.
FairSpec ==
  /\ Spec
  /\ WF_vars(Up /\ MonitorStep)
  /\ \A w \in Workers : WF_vars(Up /\ WorkerStep(w))
  /\ WF_vars(Up /\ (UiRequestStop \/ UiWake))
  /\ \A s \in Sessions : WF_vars(Up /\ SessionStep(s))
  /\ WF_vars(Up /\ ShutdownStep)

\* Time passes: Event.wait(timeout) returns, and monotonic() reaches _next_retry.
\* It is assumed only by the properties that name it.
Clocks == WF_vars(Up /\ PollTimeout) /\ WF_vars(Up /\ RetryElapses)

-----------------------------------------------------------------------------
(* Properties                                                              *)

Sight  == [codex : BOOLEAN, devices : BOOLEAN, enabled : BOOLEAN,
           suspended : BOOLEAN, running : BOOLEAN]
Locals == [failed : BOOLEAN, paused : BOOLEAN, asked : BOOLEAN]

CtlTypes ==
  /\ enabled \in BOOLEAN /\ suspended \in BOOLEAN /\ status \in Statuses
  /\ retryDue \in BOOLEAN /\ misses \in 0..MissingLimit
  /\ ref \in Workers \cup {None}
  /\ bridgeStop \in BOOLEAN /\ wake \in BOOLEAN /\ shutdown \in BOOLEAN
MonTypes == mpc \in MonitorSteps /\ seen \in Sight
WrkTypes == wpc \in [Workers -> WorkerSteps] /\ wl \in [Workers -> Locals]
UiTypes ==
  /\ upc \in UiSteps /\ calls \in 0..MaxCalls
  /\ apc \in [Sessions -> SessionSteps] /\ aref \in [Sessions -> Workers \cup {None}]
  /\ child \in Sessions \cup {None}
FinTypes == spc \in ExitSteps /\ sref \in Workers \cup {None} /\ gaveUp \in BOOLEAN
EnvTypes == codexUp \in BOOLEAN /\ driverUp \in BOOLEAN /\ stranded \in BOOLEAN

\* Every field has a value the code can give it.
TypeOK == CtlTypes /\ MonTypes /\ WrkTypes /\ UiTypes /\ FinTypes /\ EnvTypes

\* A bridge thread that was made and has not yet given _bridge_thread back.
Engaged(w) == wpc[w] \notin {"free", "post"}
NoBridge   == \A w \in Workers : ~Engaged(w)

\* "Own exactly one bridge worker" (release_controller.py:74): a second one is not
\* made before the first has released its inputs and restored 3DxWare.
OneBridge == \A v, w \in Workers : Engaged(v) /\ Engaged(w) => v = w

\* A worker that was told to stop is not given a new lease: no start replaces or
\* clears the Event it polls before it has finished.
StopIsKept ==
  [][\A w \in Workers :
       bridgeStop /\ Alive(w) /\ Engaged(w) /\ Engaged(w)' => bridgeStop']_vars

\* _heal_official_driver_if_idle tests for a bridge and then launches 3DxWare
\* without the lock: still no bridge can be using the device at that moment.
HealMeetsNoBridge == mpc = "healing" => NoBridge

\* While the advanced-settings process runs its own bridge, this process has none
\* and will not start one.
SettingsOpen == \E s \in Sessions : apc[s] = "open"
AdvancedExclusive == SettingsOpen => suspended /\ NoBridge

\* shutdown() launches 3DxWare only when the bridge is gone, unless its join timed out.
ShutdownJoined == spc \in {"resume", "monitor", "final"} /\ ~gaveUp => NoBridge

\* Whenever 3DxWare is stopped and no command failed and no process was killed, the
\* process runs and a thread of it is bound to restore 3DxWare.  So an exit never
\* leaves it stopped, but for the one whose shutdown() did not wait for the worker it
\* joined, because the join timed out or raised (ExitRestores).
Restores(w) == Up /\ Alive(w) /\ wl[w].paused
DriverOwed ==
  ~driverUp => stranded \/ (\E w \in Workers : Restores(w)) \/ (~Up /\ gaveUp)

\* "Codexに接続中" is shown only while there is a worker behind it.
ActiveMeansRunning ==
  status = "active" => \E w \in Workers : Alive(w) /\ Engaged(w)

\* A switched-off or suspended link has its bridge stopped without waiting for the
\* poll interval: no request and no wake-up is lost, whatever the bridge was doing.
StopHonoured == ~enabled \/ suspended ~> NoBridge \/ (enabled /\ ~suspended)

\* When Codex is gone for good the bridge ends, debounce and all.
CodexGoneStops == Clocks => (<>[]~codexUp => <>[]NoBridge)

\* "Codex終了後に公式3DxWareへ戻します" (BETA_README.md:4): when Codex is gone or the link
\* is off, 3DxWare ends up running, even if a pause command failed half-way or an
\* earlier process left it stopped.
DriverHealed ==
  Clocks => (<>[]((~codexUp \/ ~enabled) /\ ~suspended) => <>[]driverUp)

\* When the link stays on and Codex stays up the bridge ends up connected, whatever
\* stops, restarts and half-done pauses came before.
EventuallyActive ==
  Clocks => (<>[](codexUp /\ enabled /\ ~suspended) => <>[](status = "active"))

\* README.md:177-178: 3DxWare is paused only while the bridge runs, and is restored
\* when the application ends.
ExitRestores == ~Up /\ ~stranded => driverUp

=============================================================================
