---------------------------- MODULE StatusDisplay ----------------------------
(***************************************************************************)
(* How a status reaches the user: the threads that emit snapshots of the   *)
(* controller (release_controller.py), the bounded queue and the Tk thread  *)
(* that shows the newest one (release_app.py), and the notification-area    *)
(* icon with a thread and a window of its own (wintray.py).                 *)
(***************************************************************************)
EXTENDS Naturals, Sequences

CONSTANTS Emitters,   \* threads that call _emit_snapshot
          Monitor,    \* the one that emits at the end of every tick
          Tk,         \* the one that runs the window
          Status,     \* what a snapshot may say
          First,      \* the status of a new controller
          None,       \* no snapshot, no icon
          QueueSize,  \* maxsize of snapshot_queue
          MaxChanges, \* how often the status changes, a bound for checking
          Faults      \* what may go wrong: "window", "image", "slow", "explorer"

ASSUME DisplayAssumption ==
  /\ Monitor \in Emitters /\ Tk \in Emitters /\ Monitor # Tk
  /\ First \in Status /\ None \notin Status
  /\ QueueSize \in Nat \ {0} /\ MaxChanges \in Nat
  /\ Faults \subseteq {"window", "image", "slow", "explorer"}

VARIABLES
  status,   \* the fields of the controller that snapshot() copies
  changes,  \* number of changes of status
  last,     \* _last_snapshot
  epc,      \* where each emitter is in _emit_snapshot
  copy,     \* its local variable snapshot
  queue,    \* snapshot_queue
  crossed,  \* history: emitters whose emission overlapped another one
  settled,  \* history: no overlap since the last delivery that had none
  kpc,      \* where the Tk thread is
  latest,   \* local variable of _drain_snapshots
  drainDue, \* an after() for _drain_snapshots is pending
  shown,    \* status_var
  exiting,  \* ReleaseDashboard.exiting
  tray,     \* tray_icon is not None
  title,    \* NativeTrayIcon.title
  tpc,      \* where the native-tray thread is
  icon,     \* the tip of the icon in the notification area, or None
  updates,  \* WM_UPDATE_ICON is posted
  renew,    \* TaskbarCreated is posted
  closing,  \* WM_CLOSE is posted
  gaveUp    \* history: a wait for the tray thread timed out

emitVars == <<status, changes, last, epc, copy, queue, crossed, settled>>
tkVars == <<kpc, latest, drainDue, shown, exiting, tray, title>>
trayVars == <<tpc, icon, updates, renew, closing>>
vars == <<emitVars, tkVars, trayVars, gaveUp>>

Texts == Status \cup {"starting", "retry", "leaving"}
HasWindow == tpc \in {"image", "add", "loop", "calling"}
Ready == tpc \in {"loop", "calling", "ended"}
Alive == kpc # "ended"
InLoop == kpc = "loop" /\ epc[Tk] = "idle"
Active == {e \in Emitters : epc[e] \in {"compare", "put", "get", "again"}}

TypeOK ==
  /\ status \in Status /\ changes \in 0..MaxChanges /\ last \in Status \cup {None}
  /\ epc \in [Emitters -> {"idle", "snap", "compare", "put", "get", "again"}]
  /\ copy \in [Emitters -> Status \cup {None}]
  /\ queue \in Seq(Status) /\ Len(queue) <= QueueSize
  /\ crossed \subseteq Active /\ settled \in BOOLEAN
  /\ kpc \in {"tray", "loop", "drain", "post", "join", "ended"}
  /\ latest \in Status \cup {None} /\ drainDue \in BOOLEAN
  /\ shown \in Texts /\ exiting \in BOOLEAN
  /\ tray \in BOOLEAN /\ title \in Status \cup {"name"}
  /\ tpc \in {"create", "image", "add", "loop", "calling", "ended"}
  /\ icon \in Status \cup {"name", None}
  /\ updates \in BOOLEAN /\ renew \in BOOLEAN /\ closing \in BOOLEAN /\ gaveUp \in BOOLEAN

\* The window is built and the controller started; the Tk thread is in
\* NativeTrayIcon.start and waits for the thread it has just made.
Init ==
  /\ status = First /\ changes = 0 /\ last = None
  /\ epc = [e \in Emitters |-> "idle"] /\ copy = [e \in Emitters |-> None]
  /\ queue = <<>> /\ crossed = {} /\ settled = TRUE
  /\ kpc = "tray" /\ latest = None /\ drainDue = TRUE
  /\ shown = "starting" /\ exiting = FALSE /\ tray = FALSE /\ title = "name"
  /\ tpc = "create" /\ icon = None
  /\ updates = FALSE /\ renew = FALSE /\ closing = FALSE /\ gaveUp = FALSE

-----------------------------------------------------------------------------
(* _emit_snapshot, by any thread. *)

Change(s) == status' = s /\ changes < MaxChanges /\ changes' = changes + 1

\* Flags and probe results are written without an emission of their own.
SetField == /\ Alive /\ \E s \in Status \ {status} : Change(s)
            /\ UNCHANGED <<last, epc, copy, queue, crossed, settled, tkVars, trayVars, gaveUp>>

\* _set_status, or _request_bridge_stop, up to the call of _emit_snapshot;
\* tick ends with such a call without a change.
Emit(e) ==
  /\ Alive /\ epc[e] = "idle" /\ (e = Tk => kpc = "loop")
  /\ \/ \E s \in Status \ {status} : Change(s)
     \/ e = Monitor /\ UNCHANGED <<status, changes>>
  /\ epc' = [epc EXCEPT ![e] = "snap"]
  /\ UNCHANGED <<last, copy, queue, crossed, settled, tkVars, trayVars, gaveUp>>

\* snapshot() copies the fields under the lock, and gives the lock back.
Snapshot(e) ==
  /\ Alive /\ epc[e] = "snap"
  /\ epc' = [epc EXCEPT ![e] = "compare"] /\ copy' = [copy EXCEPT ![e] = status]
  /\ crossed' = IF Active = {} THEN crossed ELSE Active \cup {e}
  /\ settled' = (settled /\ Active = {})
  /\ UNCHANGED <<status, changes, last, queue, tkVars, trayVars, gaveUp>>

\* The call returns.
Done(e) == /\ epc' = [epc EXCEPT ![e] = "idle"] /\ copy' = [copy EXCEPT ![e] = None]
           /\ crossed' = crossed \ {e}

\* A snapshot equal to the last one is not delivered.
Compare(e) ==
  /\ Alive /\ epc[e] = "compare"
  /\ \/ copy[e] = last /\ Done(e) /\ UNCHANGED last
     \/ /\ copy[e] # last /\ last' = copy[e]
        /\ epc' = [epc EXCEPT ![e] = "put"] /\ UNCHANGED <<copy, crossed>>
  /\ UNCHANGED <<status, changes, queue, settled, tkVars, trayVars, gaveUp>>

FullX == Len(queue) > QueueSize
Full == Len(queue) >= QueueSize

Deliver(e) == /\ queue' = Append(queue, copy[e]) /\ Done(e)
              /\ settled' = (settled \/ e \notin crossed)

OverflowX(e) == Done(e)
Overflow(e) == epc' = [epc EXCEPT ![e] = "get"] /\ UNCHANGED <<copy, crossed>>

\* put_nowait of _enqueue_snapshot.
Put(e) ==
  /\ Alive /\ epc[e] = "put"
  /\ \/ ~Full /\ Deliver(e)
     \/ Full /\ Overflow(e) /\ UNCHANGED <<queue, settled>>
  /\ UNCHANGED <<status, changes, last, tkVars, trayVars, gaveUp>>

\* get_nowait makes room, unless the Tk thread has done so.
DropOldest(e) ==
  /\ Alive /\ epc[e] = "get" /\ epc' = [epc EXCEPT ![e] = "again"]
  /\ queue' = IF queue = <<>> THEN queue ELSE Tail(queue)
  /\ UNCHANGED <<status, changes, last, copy, crossed, settled, tkVars, trayVars, gaveUp>>

\* The second put_nowait; queue.Full is caught in _emit_snapshot and logged.
PutAgain(e) ==
  /\ Alive /\ epc[e] = "again"
  /\ \/ ~Full /\ Deliver(e)
     \/ Full /\ Done(e) /\ UNCHANGED <<queue, settled>>
  /\ UNCHANGED <<status, changes, last, tkVars, trayVars, gaveUp>>

EmitStep(e) == Snapshot(e) \/ Compare(e) \/ Put(e) \/ DropOldest(e) \/ PutAgain(e)

-----------------------------------------------------------------------------
(* The Tk thread. *)

\* start() returns, or raises, which leaves tray_icon at None.
StartTray ==
  /\ kpc = "tray" /\ kpc' = "loop"
  /\ \/ Ready /\ tray' = HasWindow /\ UNCHANGED gaveUp
     \/ ~Ready /\ "slow" \in Faults /\ tray' = FALSE /\ gaveUp' = TRUE
  /\ UNCHANGED <<emitVars, latest, drainDue, shown, exiting, title, trayVars>>

Draining == kpc = "drain" \/ (InLoop /\ drainDue)

\* _drain_snapshots takes one after the other.
TakeNext ==
  /\ Draining /\ queue # <<>>
  /\ kpc' = "drain" /\ drainDue' = FALSE /\ latest' = Head(queue) /\ queue' = Tail(queue)
  /\ UNCHANGED <<status, changes, last, epc, copy, crossed, settled>>
  /\ UNCHANGED <<shown, exiting, tray, title, trayVars, gaveUp>>

\* The queue is empty: _show_snapshot, the first half of update(title), and
\* the next after(), which an exit ends.
ShowSnapshot ==
  /\ Draining /\ queue = <<>>
  /\ latest' = None /\ drainDue' = ~exiting
  /\ IF latest = None
     THEN kpc' = "loop" /\ UNCHANGED <<shown, title>>
     ELSE /\ shown' = latest
          /\ title' = (IF tray THEN latest ELSE title)
          /\ kpc' = (IF tray THEN "post" ELSE "loop")
  /\ UNCHANGED <<emitVars, exiting, tray, trayVars, gaveUp>>

PostedX == updates
Posted == updates \/ HasWindow

\* The second half of update: PostMessageW.
PostUpdate ==
  /\ kpc = "post" /\ kpc' = "loop" /\ updates' = Posted
  /\ UNCHANGED <<emitVars, latest, drainDue, shown, exiting, tray, title>>
  /\ UNCHANGED <<tpc, icon, renew, closing, gaveUp>>

\* connect_now writes its own text; the flag it may set is a SetField.
ConnectNow ==
  /\ InLoop /\ shown' = "retry" /\ updates' = (IF tray THEN Posted ELSE updates)
  /\ UNCHANGED <<emitVars, kpc, latest, drainDue, exiting, tray, title>>
  /\ UNCHANGED <<tpc, icon, renew, closing, gaveUp>>

\* _dispatch: root.after from the tray thread returns when the event loop has
\* taken the call. What the callback does is an action of the window too.
ServeCall ==
  /\ InLoop /\ tpc = "calling" /\ tpc' = "loop"
  /\ UNCHANGED <<emitVars, tkVars, icon, updates, renew, closing, gaveUp>>

RequestExit ==
  /\ InLoop /\ ~exiting /\ exiting' = TRUE /\ shown' = "leaving"
  /\ UNCHANGED <<emitVars, kpc, latest, drainDue, tray, title, trayVars, gaveUp>>

\* _poll_shutdown finds the shutdown thread ended and calls tray_icon.stop.
StopTray ==
  /\ InLoop /\ exiting
  /\ kpc' = (IF tray THEN "join" ELSE "ended") /\ closing' = (tray /\ HasWindow)
  /\ UNCHANGED <<emitVars, latest, drainDue, shown, exiting, tray, title>>
  /\ UNCHANGED <<tpc, icon, updates, renew, gaveUp>>

\* join(timeout=5.0). A tray thread that is calling the event loop cannot end:
\* the event loop does not run any more.
JoinTray ==
  /\ kpc = "join" /\ kpc' = "ended"
  /\ \/ tpc = "ended" /\ UNCHANGED gaveUp
     \/ tpc # "ended" /\ (tpc = "calling" \/ "slow" \in Faults) /\ gaveUp' = TRUE
  /\ UNCHANGED <<emitVars, latest, drainDue, shown, exiting, tray, title, trayVars>>

TkStep == StartTray \/ TakeNext \/ ShowSnapshot \/ PostUpdate \/ JoinTray

-----------------------------------------------------------------------------
(* The native-tray thread. *)

\* RegisterClassW and CreateWindowExW.
CreateWindow ==
  /\ Alive /\ tpc = "create"
  /\ \/ tpc' = "image"
     \/ "window" \in Faults /\ tpc' = "ended"
  /\ UNCHANGED <<emitVars, tkVars, icon, updates, renew, closing, gaveUp>>

\* LoadImageW; when it fails the window goes again.
LoadIcon ==
  /\ Alive /\ tpc = "image"
  /\ \/ tpc' = "add"
     \/ "image" \in Faults /\ tpc' = "ended"
  /\ UNCHANGED <<emitVars, tkVars, icon, updates, renew, closing, gaveUp>>

\* _add_icon, at the start or because Explorer asks for it.
AddIcon ==
  /\ Alive
  /\ \/ tpc = "add" /\ tpc' = "loop" /\ UNCHANGED renew
     \/ tpc = "loop" /\ renew /\ renew' = FALSE /\ UNCHANGED tpc
  /\ icon' = title
  /\ UNCHANGED <<emitVars, tkVars, updates, closing, gaveUp>>

\* _update_icon: NIM_MODIFY does nothing while Explorer has no icon of ours.
UpdateIcon ==
  /\ Alive /\ tpc = "loop" /\ updates /\ updates' = FALSE
  /\ icon' = IF icon = None THEN None ELSE title
  /\ UNCHANGED <<emitVars, tkVars, tpc, renew, closing, gaveUp>>

\* A double click or a menu entry: the callback is dispatched to Tk.
Click ==
  /\ Alive /\ tpc = "loop" /\ icon # None /\ tpc' = "calling"
  /\ UNCHANGED <<emitVars, tkVars, icon, updates, renew, closing, gaveUp>>

DeletedX == icon
Deleted == None

\* WM_CLOSE, after what was posted before it; WM_DESTROY; the loop ends.
CloseIcon ==
  /\ Alive /\ tpc = "loop" /\ closing /\ ~updates
  /\ tpc' = "ended" /\ icon' = Deleted
  /\ UNCHANGED <<emitVars, tkVars, updates, renew, closing, gaveUp>>

TrayStep == CreateWindow \/ LoadIcon \/ AddIcon \/ UpdateIcon \/ CloseIcon

\* Explorer restarts: the icons are lost and every window is told.
ExplorerRestarts ==
  /\ "explorer" \in Faults /\ Alive /\ icon # None
  /\ icon' = None /\ renew' = TRUE
  /\ UNCHANGED <<emitVars, tkVars, tpc, updates, closing, gaveUp>>

Ended == ~Alive /\ UNCHANGED vars

Next ==
  \/ SetField \/ (\E e \in Emitters : Emit(e) \/ EmitStep(e))
  \/ TkStep \/ ConnectNow \/ ServeCall \/ RequestExit \/ StopTray
  \/ TrayStep \/ Click \/ ExplorerRestarts \/ Ended

Spec == Init /\ [][Next]_vars

FairSpec ==
  /\ Spec /\ \A e \in Emitters : WF_vars(EmitStep(e))
  /\ WF_vars(Emit(Monitor)) /\ WF_vars(TkStep) /\ WF_vars(ServeCall)
  /\ WF_vars(TrayStep) /\ SF_vars(UpdateIcon)  \* clicks are queued behind the update

-----------------------------------------------------------------------------
(* Properties. *)

\* De-duplication, the queue that drops the oldest and the drain together lose
\* nothing that matters: unless emissions of two threads overlapped, the newest
\* snapshot is at the end of the queue, in the hands of the Tk thread or on the
\* screen (where connect_now or an exit may have written over it); and one
\* delivery that meets no other puts this right again
\* (release_controller.py:373-383, release_app.py:210-230).
NewestDelivered ==
  (settled /\ Active = {}) =>
     IF queue # <<>> THEN queue[Len(queue)] = last
     ELSE IF latest # None THEN latest = last
     ELSE \/ shown \in {last, "retry", "leaving"}
          \/ last = None /\ shown = "starting"

\* When nothing changes any more the window and the icon show the status, with
\* any number of restarts of Explorer, unless overlapping emissions left an
\* older snapshot there or the tray could not be started in time
\* (release_app.py:257-258, wintray.py:221-225, 288-299).
DisplaySettles ==
  <>[](\/ exiting \/ ~settled
       \/ shown \in {status, "retry"} /\ (tray => icon \in {status, None}))

\* A process that ends leaves no icon behind, unless it gave up waiting for its
\* tray thread: at the start, or at the end because a click of the user waits
\* for the event loop that has stopped (wintray.py:227-231, release_app.py:372-377).
NoGhostIcon == ~Alive /\ ~gaveUp => icon = None

\* "Connect now" says that a retry is under way; some status replaces this text
\* (release_app.py:200-208).
RetryIsAnswered == shown = "retry" ~> (shown # "retry" \/ exiting)

=============================================================================
