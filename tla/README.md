# Verification of the SpaceMouse–Codex Micro bridge

TLA+ models of the application in `spacemouse_input/` and of its virtual HID
driver in `native/vhidmini2/`, checked with TLC on small instances and, where it
is said, proved with TLAPS for every value of the constants. Line numbers are
those of the commit the models were read from.

The application reads a SpaceMouse, turns its movements into the notifications
of a "Codex Micro" controller, and writes them to a virtual HID device from which
the Codex desktop program reads them. While it does so the vendor's 3DxWare
driver is stopped, and it is started again afterwards. The bridge is coupled to
the Codex process: it comes up when Codex does and goes away after Codex.

## 1. Inventory

| Component | State it keeps | Operations | Talks to |
|---|---|---|---|
| Bridge controller, `release_controller.py` | `_enabled`, `_suspended`, `_state`, `_next_retry`, policy misses, `_bridge_thread`, `_bridge_stop`, `_wake`, `_shutdown`, last snapshot | monitor loop and `tick`, `_start_bridge`, `_bridge_worker`, `set_enabled`, `connect_now`, `suspend`, `resume`, `wait_for_bridge_stop`, `shutdown` | dashboard (calls, snapshot callback), runtime (worker thread), 3DxWare control, probes |
| 3DxWare control, `official_driver.py` | none of its own; the process `3DxService.exe` is the state | `pause_driver`, `resume_driver`, `resume_driver_if_installed`, `temporarily_paused` | operating system |
| Bridge runtime, `runtime.py`, `device.py` | open devices | `run_bridge`: load, validate, pause, open, report loop, release, restore | mapping, detector, dispatcher, protocol |
| Input detector, `detector.py` | `_active`, `_active_axis_control`, candidate and its time | `update` | dispatcher |
| Action dispatcher, `bridge.py`, `actions.py` | `_held_codes`, `agent_index` | `dispatch`, `release_all` | protocol |
| Codex Micro protocol, `protocol.py` | device handles | `send_*`, `close` | virtual HID driver (feature reports) |
| Virtual HID driver, `vhidmini.c` | report ring, parked reads, RPC buffer | `ReadReport`, `WriteReport`, `SetFeature`, `SetOutputReport`, `TryCompleteInputReport` | hidclass.sys on both sides |
| Dashboard, `release_app.py` | snapshot queue, `advanced_process`, `shutdown_thread`, window | callbacks, `open_advanced`, `request_exit`, polls | controller, tray, named objects, child process |
| Tray icon, `wintray.py` | its thread and window, the icon, `title` | `start`, `update`, `stop`, clicks | Tk thread (calls in both directions), Explorer |
| Mapping window, `gui.py` | widgets, `config`, `active_config`, bridge thread, message queue, stop event, closing flag | edits, `save`, `reload`, `start_bridge`, `stop_bridge`, `_drain_messages`, `close` | runtime, mapping |
| Mapping, `mapping.py`, `paths.py` | `mapping.json` | `ensure_user_config`, load, validate, save | mapping window, runtime |
| Settings and start-up entry, `release_settings.py`, `startup.py` | `settings.json`, a value of the Run key | load, save, register | dashboard |
| Named objects, `winipc.py` | a mutex and three events | create, signal, `consume`, close | several processes of the application |
| Virtual HID recovery, `ensure_virtual_hid.ps1`, `swdevice_creator` | the software device and its lifetime | check, remove, create, wait | controller's recovery request, start-up and log-on task |
| Process probe, `process_monitor.py` | none | is Codex there | controller |
| Command line and logging; kernel driver in `vhf_codex/`; packaging | none that outlives a call | | |

What is hard in it:

* **Threads.** A monitor, a bridge worker, the Tk thread, the advanced-settings
  thread and the shutdown thread share the controller. `_lock` guards single
  sections, not the operations: flags are copied, probes run for seconds, a thread
  is published in one section and started after it.
* **Ownership of 3DxWare.** It has to be running exactly when no bridge is, through
  exceptions at every step of the worker, commands that fail half-way, join
  timeouts and a process that is killed.
* **The driver's queues.** A read request that was forwarded is no longer
  serialised with the handlers; the report ring overflows; RPC messages are put
  together from chunks of whoever writes.
* **Ordering of what is shown.** Statuses are written by four threads and
  delivered outside the lock.
* **Windows of two threads.** The tray thread waits for the Tk thread when the user clicks,
  and the Tk thread waits for the tray thread when it starts and when it ends; the mapping
  window hears of its bridge through a queue that drops messages.
* **Processes.** A second launch signals the first through events that may be set at any
  point of the poll, and every process may be killed.
* **Files and devices.** Saves that are cut short, and two recovery tasks that may remove
  each other's device.

What makes each part correct: one bridge at a time, a stop that is never lost,
3DxWare owed to somebody whenever it is stopped (controller); a lossy queue, no
report stranded beside a waiting read, no message spoiled but by one left unclosed or broken (driver); every pressed
code released, one active axis, no chatter (data path); the newest status
on the screen in the end and no icon left behind (display); a label "saved" that is true, a bridge that
always has a window, a window that can be closed (mapping window); one dashboard per
user that serves every signal, settings that survive a kill (processes); a device that comes back and
stays (recovery).

## 2. Plan

| | Modules | State |
|---|---|---|
| A | `BridgeController`, `BridgeControllerMC`, `BridgeControllerProofs` | written, checked, proved |
| B | `VirtualHid` implementing `LossyFifo`, `VirtualHidProofs` (ring and refinement), `VirtualHidDeliveryProofs` (handlers, messages, order) | written, checked, proved |
| C | `InputPath`, `InputPathMC`: reports, detector and dispatcher over the protocol, up to the keys that Codex believes pressed; `InputPathProofs` (detector), `InputPathCodesProofs` (dispatcher and Codex) | written, checked, proved |
| D | `StatusDisplay`: `_emit_snapshot` with its two producers, the bounded queue, the Tk reader and the tray thread; `StatusDisplayProofs` | written, checked, proved |
| E | `Instances`, `InstancesMC`: single instance, named events, exit, and the settings of two processes; `InstancesProofs` | written, checked, proved |
| F | `HidRecovery`: overlapping recovery tasks, the creator and the controller's request | written, checked (liveness only) |
| G | `MappingApp`: the mapping window, its file, its bridge thread, queue and close; `MappingAppProofs` | written, checked, proved |

The modules meet at narrow seams. C ends where B begins, at the report a notification is written in. D
takes from A that statuses change at any moment in two threads; E takes from it that
`open_advanced` becomes, sooner or later, an open settings process or nothing; G is what that
process is, with the same `run_bridge` seen as open, loop, fail and end; F is what
`request_virtual_hid_recovery` sets going. Each module keeps of its neighbours only what its
properties can tell apart, so that one instance per component answers its questions.

Every safety invariant and action property of the runs that pass is a theorem now
(section 6). Planned next: an abstract keyboard that `InputPath` implements; a safety
invariant of `HidRecovery` (a device that was made to stay goes only by a removal or a
restart); and whole responses of several chunks over a ring that overflows, in `VirtualHid`.

## 3. The modules and the code

Each action bears the name of its method or of the part of it that one step
covers, and the comment before it says which. In every module, an operator whose name ends
in `X` or `XX` is a plausible bug: the body that the definition after it would have
with a dropped guard, a missing reset or a swapped value. It is not used by the
specification; substituted for the definition, it makes the property that is
listed with it in `PROJECT.json` fail.

### 3.1 `BridgeController`

One program counter per thread: `mpc` (monitor: `_monitor_loop`, `tick`,
`_start_bridge`, `_heal_official_driver_if_idle`), `wpc[w]` (bridge workers:
`_bridge_worker`, `run_bridge`, `temporarily_paused`), `upc` (Tk thread), `apc[s]`
(`_advanced_worker`), `spc` (`shutdown`, and the end of the process). The other
variables are the fields of `BridgeController`, the two facts of the outside the program
probes (`codexUp`, `driverUp`), and history.

A step is one critical section of `_lock`, one unlocked access to a shared field, or
one call that leaves the process. So the copies that `tick` makes of the flags (`seen`),
the publication of a thread before `start()` and the heal outside the lock are
where the code has them.

| Code | Actions |
|---|---|
| `tick` | `TickProbe`, `TickObserve`, `TickStop`, `TickDue`, `TickDefer`, `TickIdle`, `HealCheck`, `HealDriver` |
| `_start_bridge` | `StartBridge` (under the lock), `LaunchBridge` (`thread.start()`) |
| `_monitor_loop` | `LoopCheck`, `WakeUp`, `PollTimeout`, `ClearWake` |
| `_bridge_worker`, `run_bridge` | `Load`, `PauseCheck`, `PauseDriver`, `OpenDevices`, `Announce`, `LeaveLoop`, `LoopFails`, `ReleaseInputs`, `RestoreDriver`, `ReadRequested`, `Conclude`, `EndWorker` |
| UI callbacks | `SetEnabled`, `ConnectNow`, `OpenAdvanced`, `UiRequestStop`, `UiWake`, `RequestExit` |
| `_advanced_worker` | `AdvancedRef`, `AdvancedJoin`, `AdvancedJoinTimeout`, `AdvancedEnd`, `Resume`, `AdvancedWake` |
| `shutdown`, `_poll_shutdown` | `Shutdown*`, `ProcessExit` |
| outside | `CodexChanges`, `RetryElapses`, `Crash` |

`Faults` names what may fail: a probe, an unplugged device, the configuration, `pause`
(nothing happened), `halfpause` (the command raised but 3DxService ended), opening,
reading, releasing, `resume`, and a join's timeout. Abstractions: `_next_retry` is the Boolean
"due"; a worker's identity can be used again when its thread has ended; `misses` stops counting
at `missing_limit`, above which the code only compares; the `Event` made by each start is
one variable, which is sound because `OneBridge` holds; the delivery of snapshots
(`_emit_snapshot`) is in `StatusDisplay`; and a session whose join found
an unstarted thread stays in "dead", with `_suspended` left on as the exception leaves it. `child` is
`advanced_process`: the session whose child it names, which a second session overwrites and which the first
child to end clears. `gaveUp` marks a `shutdown()` that went on, or died, although the worker it
joined had not ended. The locals of a worker stay in `wl` when the process ends, but nobody acts on them
then: daemon threads do not run their `finally`.

### 3.2 `VirtualHid` and `LossyFifo`

`ring`, `head`, `tail`, `count`, `rpc` are the device context's fields, `reads` the
requests in the manual queue. The default queue is sequential, so one write request
(`busy`) is handled at a time; a forwarded read request has left that queue, which is why
`ReadReport`'s own `TryCompleteInputReport` runs beside the next handler. `todo[t]` is what
a framework thread has still to call, `held[t]` a report that was taken under
`ReportLock` and whose request is completed after it.

| Code | Actions |
|---|---|
| `EnqueueInputReport`, `TryCompleteInputReport` | `Enqueue`, `Match` (under the lock), `Complete` (after it) |
| `ReadReport` | `ReadReport` |
| `WriteReport`, `SetFeature`, `SetOutputReport` | `Inject` |
| `HandleOutputReport` | `Notify`, `Overflow`, `Chunk`, `LastChunk` |
| `EvtIoDeviceControl` | `EndWrite` |
| a client | `Abandon` |

Bytes are counted in chunks of a report; the JSON of a message is its number, and how
many reports answer it is a choice. `RpcBuffer` has no owner, so any number of clients write into it:
`sent` is the set of messages under way, each with the chunks written and the chunks in all, and the
next write is a chunk of any of them or the first of another. `Chunk` keeps a full chunk that does not
end a line, also the last one of a message: 61 bytes without CR or LF are taken for unfinished
(line 1479). `LastChunk` is a shorter chunk or one that ends a line; it closes whatever is in the buffer, wherever it stands in its
message, and it may still fit where a full chunk does not. `Overflow` empties the buffer and fails the write; the client
may go on or go away (`Abandon`). Two histories say which messages are not in the buffer in one piece: `broken` (a chunk of
another client came between, a chunk before the last closed it, or a chunk met a full buffer) and `gone` (nothing more is written
of it although no chunk closed it: its client went away, or its last chunk was full).
The failures of `WdfIoQueueRetrieveNextRequest` other than an empty queue, of the copy
to a request's buffer and of forwarding are left out.

`LossyFifo` is what the input side promises: a bounded queue that drops the oldest.
`FifoSpec` is `LossyFifo` with `fifo` replaced by the ring read from its head.

### 3.3 `InputPath`

The loop of `run_bridge` over `InputDetector` and `ActionDispatcher`. One thread; a step is a
report with `update()` (which is not interrupted), one event given to `dispatch`, or one
notification, so that a failing write may fall between any two of them. `down` and `stick` are what Codex
believes; they outlive a run of the bridge, detector and dispatcher do not.

| Code | Actions and operators |
|---|---|
| `parse_report`, the loop | `TranslationReport`, `RotationReport`, `ButtonReport`, `Report` |
| `_update_axes` | `KeepLock`, `Unlock`, `Ambiguous`, `Wait`, `Lock`; `Dominant` is the ranking with the rule for ties |
| `update` | `ButtonEvents`, `Recorded` |
| `dispatch` | `Dispatch` with `HeldAction`, `AgentAction`, `EncoderAction`, `JoystickAction`, `NoAction` |
| `send_key`, `send_joystick` | `SendNext`, `SendFails` |
| stop, `release_all` | `LeaveLoop`; `ReleaseAll` is one turn of the outer loop (`visited` counts them), `EndRun` the `clear()` after it; `NewRun` is the next `run_bridge` |

Magnitudes are small numbers (the code compares them with thresholds and with each other by a
ratio, given as a fraction); the candidate's start time is the time it has lasted, up to the delay;
the locals of a loop that was left take their initial values at once, since nothing reads them. A
notification goes to one injection device and arrives or raises. When the
notification of a release was lost (`lost`), the run is followed to its end and no further:
neither `dispatch` nor `release_all` tries again, and nothing can be claimed of Codex after that.

### 3.4 `StatusDisplay`

What `snapshot()` copies is one value, `status`. It changes with an emission (`_set_status`) or without
(`SetField`: flags, probe results). `epc[e]` is where thread `e` is in `_emit_snapshot`; the lock is
held only inside `snapshot()`, so two threads may compare, put and drop in any order.

| Code | Actions |
|---|---|
| `_emit_snapshot`, `snapshot` | `Emit`, `Snapshot`, `Compare` |
| `_enqueue_snapshot` | `Put`, `DropOldest`, `PutAgain` |
| `_drain_snapshots`, `_show_snapshot` | `TakeNext`, `ShowSnapshot` |
| `connect_now`, `request_exit`, `_poll_shutdown` | `ConnectNow`, `RequestExit`, `StopTray` |
| `NativeTrayIcon.start`, `update`, `stop`, `_dispatch` | `StartTray`, `PostUpdate`, `JoinTray`, `ServeCall` |
| the tray thread | `CreateWindow`, `LoadIcon`, `AddIcon`, `UpdateIcon`, `Click`, `CloseIcon` |
| outside | `ExplorerRestarts` |

Posted messages of one kind are one Boolean: a second `WM_UPDATE_ICON` paints the same `title`. Their
order matters only for `WM_CLOSE`, which `CloseIcon` handles after the update posted before it.
A click is the call that it makes; what the callback changes is an action of the window. Time
limits may pass early ("slow") at any wait, and pass for certain where the two threads wait for
each other. `settled` forgets the deliveries that met another one: for them the code fixes no order.

### 3.5 `MappingApp`

The file, the widgets and `config` hold a mapping as a whole: one of `Valid`, one of `Invalid`, or,
for the file, "partial" and "absent". `write_text` empties the file and writes it later, so that
a kill or an `OSError` in between leaves "partial".

| Code | Actions |
|---|---|
| `ensure_user_config`, `_load_or_default`, `__init__` | `Launch`, `EnsureConfig`, `OpenWindow` |
| widgets, `reset_defaults`, `reload` | `Edit`, `ResetDefaults`, `Reload` |
| `save`, `start_bridge` | `Save`, `StartBridge`, `FinishSave`, `SaveFails` |
| `_bridge_worker` | `BeginRun`, `Connected`, `Observe`, `LeaveLoop`, `RunFails`, `ReportError`, `ReportStopped`, `EndRun` |
| `stop_bridge`, `close`, `_refresh_device_status` | `StopBridge`, `Close`, `Refresh` |
| `_drain_messages` | `DrainOther`, `DrainError`, `DismissError`, `DrainStopped`, `DrainEnds` |
| outside | `Crash` |

The three messages that only change what is displayed are one kind. The error box runs an event loop of
its own, in which the device refresh still comes but the drain does not go on. Two histories name what the code
gives up: `lostStop`, a "stopped" that met a full queue, and `raced`, a start before the last
"stopped" was drained (the refresh enables the button in that moment).

### 3.6 `Instances`

A process is a launch for "show" (the dashboard), "advanced" or "shutdown"; when it ends its name may
start again. Every call to Windows is a step: `WaitForSingleObject` and `ResetEvent` of `consume`
are two, and each event is created and closed on its own.

| Code | Actions |
|---|---|
| `main` of a launch | `Launch`, `CreateMutex`, `OpenEvent`, `NoEvent`, `SetEvent`, `EndLaunch` |
| `main` of the dashboard | `CreateEvents`, `Construct`, `ConstructFails`, `CloseObjects` |
| `_poll_ipc`, `consume` | `Poll`, `Reset`, `Handle` |
| `_advanced_worker`, the child | `Settings` |
| `request_exit`, `_poll_shutdown` | `RequestExit`, `Leave` |
| `_toggle_startup`, `_toggle_auto_link`, `ReleaseSettings.save` | `Toggle`, `WriteTemporary`, `ReplaceSettings`, `SaveFails` |
| `_sync_startup` | `Construct`, `Sync` |
| outside | `Crash` |

An event dies with its last handle, and its signal with it. The two settings share one file; only
`start_with_windows` has a value here, because only it is written in a second place, and a change of the
other one is a save without it. The session behind `child` and its waits are in
`BridgeController`. After a kill no later dashboard knows of a settings process that goes on.

### 3.7 `HidRecovery`

| Code | Actions |
|---|---|
| `ensure_virtual_hid.ps1` | `Check`, `Lookup`, `Remove`, `Await` |
| `swdevice_creator/main.cpp` | `Create`, `Callback`, `SetLifetime`, `Close` |
| `install_hid_recovery_task.ps1` | `Trigger`, `Run`, `Limit` |
| `tick`, `virtual_hid_recovery.py` | `Probe`, `Ask` |
| Windows | `Enumerate`, `Reboot` |

`node` is the one device with the stable id. Assumptions on Windows, which the scripts rely on: an id in use
is not created again; a node goes stale when the handle of its creator closes, unless its lifetime is its parent's; a
removed node takes its handle's rights with it; a removed id is free again, or it stays reserved until Windows
restarts (`tombed`), as `main.cpp:48` says and as `pnputil` announces with 3010. A reserved id is not a failure and is not
counted. Every failure and time limit counts against
`MaxFaults`, every restart against `MaxReboots`.

## 4. Runs

| Run | Question | Instance, and why it is enough |
|---|---|---|
| `bc_faults` | who owns the bridge and a stopped 3DxWare, with every failure the model has | two bridge threads (an old one on its way out and a new one), one UI callback or crash at any moment, `MissingLimit` 2 so that the debounce is passed and reset; the same instance with two callbacks (5.3 million states) was run once and holds too |
| `bc_live` | is every stop carried out, 3DxWare healed, the link established | one worker identity, used again; one callback: longer sequences repeat from the same waiting state |
| `bc_exit` | does an exit leave 3DxWare running | violated: finding 1 |
| `bc_twice` | is the bridge off while settings are open, with two requests | violated: finding 2 |
| `vh_ring` | ring, parked reads, RPC assembly, order and delivery | a ring of two overflows with the third report; two threads are the default queue's handler and a `ReadReport` beside it; two parked reads may be completed in the other order; messages of up to two chunks and a buffer of two, so that three writes make two messages with chunks of each other, an early close, a full last chunk, an overflow, and an answer that must not be spoiled a second time. The two RPC properties were run once on four writes, messages of three chunks and a buffer of three as well (one thread, 445 thousand states) and hold |
| `in_path` | what Codex believes pressed, against what is held | one axis of each kind of report and both buttons, so that axes cross and buttons coincide; press 2 and release 1 give hysteresis, ratio 5/4 makes equal deflections ambiguous, delay 1 needs the direction in two reports; mappings with and without shared codes, with a direct agent and agent steps |
| `in_centre` | is the joystick released with the bridge | violated: finding 3 |
| `disp` | does the newest status reach window and icon, and does the icon go | two emitters and two changes fill the queue of two and overlap in every way; every tray failure |
| `disp_retry` | is the text of "connect now" replaced | violated: finding 4 |
| `gui` | is "saved" true, has a bridge a window, does close end | two valid mappings and an invalid one, two bridge threads (an old one that still lives), a queue of two that fills with observations |
| `inst` | one dashboard, no signal lost, settings that hold | two processes: a dashboard and a launch, two launches at once, or a dashboard that ends beside a new one, each again and again; three processes are out of reach with the settings in the same module |
| `hid` | does the virtual HID come back and stay, unless its id stays reserved | both tasks, two restarts, four failures anywhere: enough for each task to fail, be cut off, and remove the other's device |

Symmetry is used for bridge threads and processes in the safety runs `bc_faults` and `inst` only.
Deadlock is not checked in the driver's run, where clients stop after `MaxWrites`, and in those of
`InputPath`, which is followed no further after a lost release. In `BridgeController` and `StatusDisplay`
the end of the process is the explicit step `Ended`.

Properties that a unit test would hardly reach:

* `OneBridge`, `StopIsKept`, `AdvancedExclusive`, `ShutdownJoined`: four threads decide
  about one `_bridge_thread` with copies of the flags; no second worker appears, no stop
  is wiped out by the next start, no bridge runs beside the settings process or under a shutdown.
* `DriverOwed`: while 3DxWare is stopped, without a failed command or a killed process, the process runs and a
  live worker has it to restore. So an exit leaves 3DxWare stopped only when `shutdown()` did not wait for the worker
  it joined (`gaveUp`: the join timed out, or raised as in finding 1). `DriverHealed` closes the failed and killed cases.
* `StopHonoured` is checked without the poll timeout: the wake-up event alone carries the request.
* `NoneStranded`: the report and the request that arrive at the same time find each other.
* `InOrder`: only reports taken for reads that were pending together can change places.
* `AssemblyInStep`, `SpoilsOne`: with clients whose chunks come in any order in one buffer, a message that nobody
  broke is there as it was written; an answer takes in only messages that were left unclosed or broken, and a message left
  unclosed in one piece spoils at most one answer. They do not say that two clients can share the buffer: they cannot.
* `KeysMatch`, `StickMatches`, `Alternates`, `NothingStuck`: through reports, failures and restarts Codex
  sees a consistent keyboard. `AxisLock`: the lock and the active controls never disagree, also between
  the events of one report.
* `SettledBeforePress`: stated with a history of the dominant control that does not look at the candidate.
* `NewestDelivered`, `DisplaySettles`: neither the comparison with the last snapshot, nor the queue that drops, nor an
  Explorer that restarts leaves an old status on display. Exceptions: emissions that overlapped (`settled`).
* `NoGhostIcon`: the icon goes before the process does, unless a wait for the tray thread timed out (`gaveUp`).
* `SavedMeansOnDisk`: "saved" is never shown over a file with another mapping, only over one that
  was cut short. `BridgeHasWindow`, `CloseEnds`: a bridge that runs has locked widgets and a stop button, and a close
  that waits for it ends, outside `raced` and `lostStop`.
* `OneDashboard`, `SignalKept`: launches, exits and kills in any order leave one dashboard, which serves every signal
  it was sent while it polls.
* `SettingsHold`: after a kill between any two steps of a save the file loads as the last completed save, and
  the next dashboard repairs the Run key.
* `HidSettles`: two tasks that remove each other's device do not do so for ever; the HID comes back and stays, or
  its id stays reserved.

## 5. Fairness

`FairSpec` of `BridgeController` has weak fairness for each thread of the process: they are
ordinary threads, every subprocess has a time limit, device reads do not block, and a join
returns when its thread ends. The Tk thread is only assumed to finish a callback it has begun.
Nothing is assumed of the user, of Codex, of failures or of time limits. `Clocks`
(the poll interval and the retry time elapse) is an assumption of the three properties that name it.

`VirtualHid`: weak fairness for each handler that was called and for hidclass
posting another read request; writers are free.

`StatusDisplay`: weak fairness for an emission that has begun, for the monitor's emission at the end
of every tick, for the Tk thread's own steps and for its event loop taking a call, and for the tray thread.
`UpdateIcon` has strong fairness, because a message loop serves its queue in order: clicks that come
later cannot keep an update waiting. User and Explorer are free.

`MappingApp`: weak fairness for the Tk thread with its timer and for each bridge thread, except that
reports and exceptions need not come; the error box need not be dismissed by anybody, since a
closing window shows none.

`HidRecovery`: weak fairness for each task, for Windows starting a new device, and for the monitor that
probes and asks. Each of these may fail instead, `MaxFaults` times in all.

`InputPath` and `Instances` state no liveness: a report that never comes is a hand that does not
move, and what a dashboard must do in time is in the modules of its threads.

## 6. Proofs

What follows holds for every value of the constants. The assumptions are the named `ASSUME`s of the modules, which say no
more than `validate()`, the constructors and the C constants do: `missing_limit` and the capacities
are positive, `0 <= Release < Press`, the ratio is at least 1, there are two axes or more, and `None` is
none of the values. Only `AdvancedExclusiveHolds` has a hypothesis of its own. Each inductive invariant was an
invariant of a TLC run before it was proved.

| Theorem | Argument |
|---|---|
| **Bridge controller** | |
| `TypeCorrect` | `TypeOK` is inductive; one step per action |
| `OneBridgeHolds` | `OneBridge` is not inductive: a worker between creation and its `finally` could be one that `_bridge_thread` does not name. `Owner` adds that every such worker is `ref`, that `ref` is such a worker, and that an unstarted one exists only while the monitor is at `launch` |
| `StopIsKeptHolds` | from `Owner`: a start finds `ref` empty or not alive, so no engaged worker keeps polling the `Event` it replaces |
| `HealMeetsNoBridgeHolds` | from `Owner` and that only the monitor, which is healing, makes workers |
| `ShutdownJoinedHolds` | `ExitPhase`: after the flag is set no start succeeds, so the reference read for the join is the last one |
| `AdvancedExclusiveHolds` | `SessionPhase`, for one session at a time (an explicit hypothesis; `bc_twice` shows that it is needed) |
| `DriverOwedHolds` | `RestoreDue` adds that a worker whose local `paused` is set stands between its pause and its restore, and that a command that did not restore 3DxWare leaves a mark in the history. `Owner` and `ExitPhase` say that the process ends beside a live worker only when `shutdown()` gave up |
| `ActiveMeansRunningHolds` | inductive with `TypeOK`: only `Announce` makes the status active (`ActiveSteps`), and a worker stays engaged until its `Conclude`, which writes another status, or a start or crash that does |
| **Virtual HID driver** | |
| `HandlersTypeCorrect` | `TypeOK` is inductive |
| `RingFieldsAgree` | `RingInv == TypeOK /\ RingOK`, with lemmas on indices modulo the capacity |
| `RingImplementsFifo` | `Enqueue` maps to `Put`, `Match` to `Take`, `Complete` to `Give`, every other step to a stutter; the ring lemmas `PushOne` and `TakeOne` say what a write at `tail` and a move of `head` do to the contents |
| `NoneStrandedHolds` | `TriesDue` counts: at least as many tries are still to come as there are pairs of a waiting report and a waiting request, and each report that is still to come is followed by a try of its own |
| `AssemblyInStepHolds`, `SpoilsOneHolds` | `Assembly`: a message under way is not gone, its number belongs to no other, and every chunk in the buffer is of a message under way or gone; `Apart`: an unbroken message that was taken into one answer, given, waiting or still to come, is in no other and no longer in the buffer |
| `InOrderHolds` | `Ordered`: reports given, in hand, waiting and still to come have increasing numbers, in this order, but for those that were in hand together; the contents of the ring come from `PushOne` and `TakeOne` |
| **Data path** | |
| `PathTypeCorrect` | `Types` adds to `TypeOK` that a dictionary has a key once, that its keys have an action that holds codes (else `release_all` has no codes to look up), and that events wait only in the loop. That `Strongest` is an axis for any number of axes rests on a least-number lemma, itself from the well-foundedness of `<` |
| `AxisLockHolds`, `SettledBeforePressHolds` | `Locked`: the active axis is the lock, a locked axis is deflected to the UP threshold, and a candidate has stood out for as long as `waited` says; and with a lock there is no candidate, which is what a start from an old candidate would break |
| `NothingStuckHolds` | `Covered`: a code that is down is one that `release_all` still has before it, or that the call under way is going to release; a call that begins with a press concerns codes the dictionary knows already. No hypothesis on the mapping |
| `KeysMatchHolds`, `AlternatesHolds` | `Follows`: the dictionary has the keys of the controls the dispatcher was *told* of (a pending control counts as it was before the report), each pending event agrees with the detector, and of told and active controls together one at most is an axis (from `Locked`). `Exact`: `down` is the codes of those controls but for what the call has not sent yet. It is not enough to relate `down` to `active`: between the events of a report they differ |
| `StickMatchesHolds` | `Steers`: the joystick is where the told controls have it, but for the one notification under way |
| **Status display** | |
| `DisplayTypeCorrect` | with `InHand`: what an emission carries is a snapshot |
| `NoGhostIconHolds` | `TrayKnown`: there is an icon only while the tray loop runs, a window that has waited long enough knows whether there is such a thread, and a process that has ended has no tray thread |
| `NewestDeliveredHolds` | `Delivery`: emissions that overlap are all marked so; one that is alone carries the newest snapshot and finds room after it made room; when settled, the newest one is in the queue, shown, or just being delivered |
| **Processes** | |
| `InstancesTypeCorrect`, `OneDashboardHolds` | `Types`: whoever is a dashboard or writes settings has the mutex, so there is one at most, and the temporary file that replaces the other one holds what that dashboard has in memory |
| `DashboardAlwaysHears`, `SignalKeptHolds` | `Kept`: a signal that is owed is still set, or a process is about to run its handler, or it ends; only the one dashboard resets |
| `SettingsHoldAlways` | `Agrees`: the file loads as what was chosen, and a dashboard at rest (`AtRest`) whose last save did not fail has it in memory and in the Run key (`Fits`) |
| **Mapping window** | |
| `MappingTypeCorrect` | `TypeOK` is inductive |
| `SavedMeansOnDiskHolds` | `FileKnown`: what the window calls saved is in the file, or the file was cut short |
| `BridgeHasWindowHolds` | `WindowServes`: a bridge thread has its window locked from its creation to its "stopped", and only a drained "stopped" unlocks it; `BeginsAlone`: nothing of an earlier process runs while one begins |

Lemmas on sequences, dictionaries and rings are stated once (`PushOne`, `TakeOne`, `RestOf`, `DropSteps`, `HoldSteps`,
`HeadAndTail`, `ConcatElements`, `KeysElements`) and cited by name. `VirtualHidDeliveryProofs` extends
`VirtualHidProofs`, and `InputPathCodesProofs` extends `InputPathProofs`.

Only model-checked: `StopHonoured`, `CodexGoneStops`, `DriverHealed`, `EventuallyActive`, `Drains`,
`DisplaySettles`, `CloseEnds` and `HidSettles`. They are liveness properties, and liveness under fairness
(`ENABLED`) is beyond the installed provers. `HidRecovery` has no other property. The properties of section 7 are
violated and have no theorem.

## 7. Findings

1. `bc_exit`: an exit between the publication and the start of a bridge thread makes
   `shutdown()` raise; 3DxWare is not restored (`release_controller.py:298`).
2. `bc_twice`: a second request for the settings before the first child exists opens a second session;
   the first to close restarts the bridge beside the other (`release_app.py:303`).
3. `in_centre`: a joystick action that is active when the bridge stops is never centred (`bridge.py:77`).
4. `disp_retry`: "connect now" writes its text into the window; a retry that ends where it began delivers no
   snapshot, and the text stays (`release_app.py:206`, `release_controller.py:376`).

Three more limits of the code met while modelling, for which no run is kept: `tick` writes `_next_retry`
without the lock after slow probes and can undo the reset of `connect_now`
(`release_controller.py:232`), so that the retry waits for the interval; and with the UP threshold 0, which the
settings offer, an axis at rest stays locked (`detector.py:86`), which is the exception in `AxisLock`; and the recovery
removes the stable id and creates the same id again at once (`ensure_virtual_hid.ps1:56-63`), although a removed id "can remain
tombstoned until reboot" (`main.cpp:48`, the reason for the creator's unique ids): as long as it is reserved every run of the task is
refused and the automatic restore of README.md:48 does not happen, which is the exception in `HidSettles`.

## 8. Not modelled

* Drawing, texts, icons and widget layout: no state beyond what the modules keep.
* `__main__.py` and logging: diagnostic commands that run once and log configuration.
* Enumeration of devices, decoding of reports and the JSON encoding of notifications: functions without
  state; the modules take what they return.
* Descriptors, strings, JSON field extraction and registry access of the driver: they only read. Failures
  of the copy into a request's buffer, of forwarding and of the retrieval of a request are left out too.
* The kernel driver in `native/vhf_codex/` (no script builds or installs it), packaging and build scripts,
  `create_swdevice.py` (a manual tool; the recovery uses the C++ creator).
* The removal of absent devices with other instance ids by the recovery script, and the installation of its tasks.
* A settings process whose dashboard was killed: it keeps its bridge beside the next dashboard's, and nothing in the
  code relates the two.
