----------------------------- MODULE MappingApp -----------------------------
(***************************************************************************)
(* The mapping window (gui.py) with the file it edits (mapping.py,          *)
(* paths.py): the Tk thread, the bridge thread it starts and stops, and the *)
(* bounded message queue between them. The process may be killed at any     *)
(* time and the window opened again.                                        *)
(***************************************************************************)
EXTENDS Naturals, Sequences

CONSTANTS Valid,     \* mappings that validate() accepts
          Invalid,   \* what the widgets may hold besides
          Default,   \* MappingConfig()
          Workers,   \* bridge threads, used again when they have ended
          None,      \* no thread
          QueueSize  \* maxsize of message_queue

ASSUME MappingAssumption ==
  Default \in Valid /\ Valid \cap Invalid = {} /\ None \notin Workers /\ QueueSize \in Nat \ {0}

VARIABLES
  file,      \* contents of mapping.json: a mapping, "partial" or "absent"
  ui,        \* the widgets
  config,    \* self.config
  active,    \* self.active_config, what a bridge is given
  saved,     \* dirty_var is "saved"
  kpc,       \* where the Tk thread is
  starting,  \* the save under way is the one of start_bridge
  editOn,    \* state of the editable widgets
  startOn,   \* state of the start button
  refresh,   \* an after() for _refresh_device_status is pending
  closing,   \* MappingApp.closing
  thread,    \* bridge_thread
  stop,      \* bridge_stop_event
  messages,  \* message_queue, each message by its kind
  wpc,       \* where each bridge thread is
  lostStop,  \* history: a "stopped" met a full queue
  raced      \* history: a start came before the last "stopped" was drained

fileVars == <<file, ui, config, saved>>
windowVars == <<kpc, starting, editOn, startOn, refresh, closing>>
bridgeVars == <<thread, active, stop, messages, wpc, lostStop, raced>>
vars == <<fileVars, windowVars, bridgeVars>>

Kinds == {"shows", "error", "stopped"}         \* "shows": state, event and status
Running == {"open", "loop"}                  \* inside run_bridge
Lives == Running \cup {"created", "failed", "finally", "end"}
IsAlive(w) == w # None /\ wpc[w] \in Lives
Event == kpc = "loop"                        \* the event loop takes the next event

TypeOK ==
  /\ file \in Valid \cup {"partial", "absent"} /\ ui \in Valid \cup Invalid
  /\ config \in Valid /\ active \in Valid /\ saved \in BOOLEAN
  /\ kpc \in {"gone", "ensure", "load", "loop", "write", "drain", "dialog"}
  /\ starting \in BOOLEAN /\ editOn \in BOOLEAN /\ startOn \in BOOLEAN
  /\ refresh \in BOOLEAN /\ closing \in BOOLEAN
  /\ thread \in Workers \cup {None} /\ stop \in BOOLEAN
  /\ messages \in Seq(Kinds) /\ Len(messages) <= QueueSize
  /\ wpc \in [Workers -> Lives \cup {"free"}]
  /\ lostStop \in BOOLEAN /\ raced \in BOOLEAN

\* Nothing runs; the file may be there or not.
Init ==
  /\ file \in Valid \cup {"absent"} /\ ui = Default /\ config = Default /\ active = Default
  /\ saved = TRUE /\ kpc = "gone" /\ starting = FALSE
  /\ editOn = TRUE /\ startOn = TRUE /\ refresh = FALSE /\ closing = FALSE
  /\ thread = None /\ stop = FALSE /\ messages = <<>>
  /\ wpc = [w \in Workers |-> "free"]
  /\ lostStop = FALSE /\ raced = FALSE

-----------------------------------------------------------------------------
(* A process begins, and is killed. *)

\* ensure_user_config: the bundled mapping is copied to a place that has none.
Launch ==
  /\ kpc = "gone" /\ \A w \in Workers : wpc[w] = "free"
  /\ IF file = "absent" THEN kpc' = "ensure" /\ file' = "partial"
                        ELSE kpc' = "load" /\ UNCHANGED file
  /\ closing' = FALSE
  /\ UNCHANGED <<ui, config, saved, starting, editOn, startOn, refresh, bridgeVars>>

EnsureConfig ==
  /\ kpc = "ensure" /\ kpc' = "load" /\ file' = Default
  /\ UNCHANGED <<ui, config, saved, starting, editOn, startOn, refresh, closing, bridgeVars>>

\* MappingConfig.load raises for what is cut short or does not validate;
\* _load_or_default takes the defaults then.
Loads == file \in Valid
Loaded == IF Loads THEN file ELSE Default

OpenWindow ==
  /\ kpc = "load" /\ kpc' = "loop"
  /\ config' = Loaded /\ ui' = Loaded /\ active' = Loaded /\ saved' = TRUE
  /\ editOn' = TRUE /\ startOn' \in BOOLEAN /\ refresh' = FALSE
  /\ starting' = FALSE /\ thread' = None /\ stop' = FALSE /\ messages' = <<>>
  /\ lostStop' = FALSE /\ raced' = FALSE
  /\ UNCHANGED <<file, closing, wpc>>

Crash ==
  /\ kpc # "gone" \/ \E w \in Workers : wpc[w] # "free"
  /\ kpc' = "gone" /\ wpc' = [w \in Workers |-> "free"] /\ messages' = <<>>
  /\ UNCHANGED <<fileVars, starting, editOn, startOn, refresh, closing>>
  /\ UNCHANGED <<thread, active, stop, lostStop, raced>>

-----------------------------------------------------------------------------
(* Editing and saving, on the Tk thread. *)

EditedX == saved
Edited == FALSE

\* A field or an assignment is changed: _mark_dirty.
Edit ==
  /\ Event /\ editOn /\ \E c \in Valid \cup Invalid : c # ui /\ ui' = c
  /\ saved' = Edited
  /\ UNCHANGED <<file, config, windowVars, bridgeVars>>

ResetDefaults ==
  /\ Event /\ editOn /\ config' = Default /\ ui' = Default /\ saved' = FALSE
  /\ UNCHANGED <<file, windowVars, bridgeVars>>

\* A file that cannot be loaded changes nothing but shows an error.
Reload ==
  /\ Event /\ editOn /\ Loads
  /\ config' = file /\ ui' = file /\ saved' = TRUE
  /\ UNCHANGED <<file, windowVars, bridgeVars>>

\* validate(), of the values in the widgets.
Validates == ui \in Valid

\* save(), of its button or of start_bridge: the values are taken, and write_text
\* empties the file before it writes.
BeginSave(start) ==
  /\ Validates /\ config' = ui
  /\ file' = "partial" /\ kpc' = "write" /\ starting' = start
  /\ UNCHANGED <<ui, saved, editOn, startOn, refresh, closing, bridgeVars>>

Save == Event /\ editOn /\ BeginSave(FALSE)

\* start_bridge begins with a save, unless a bridge is alive.
StartBridge == Event /\ startOn /\ ~IsAlive(thread) /\ BeginSave(TRUE)

\* An OSError shows an error, before the file was emptied or after it.
SaveFails ==
  /\ \/ Event /\ (editOn \/ startOn) /\ ~IsAlive(thread) /\ Validates /\ config' = ui
        /\ UNCHANGED <<kpc, starting>>
     \/ kpc = "write" /\ kpc' = "loop" /\ starting' = FALSE /\ UNCHANGED config
  /\ UNCHANGED <<file, ui, saved, editOn, startOn, refresh, closing, bridgeVars>>

LockedX == editOn
Locked == FALSE

\* MappingConfig.save has written everything.
Written == config

\* The rest of save(), and of start_bridge when it is its save.
FinishSave ==
  /\ kpc = "write" /\ kpc' = "loop" /\ file' = Written /\ saved' = TRUE /\ starting' = FALSE
  /\ IF starting
     THEN \E w \in Workers :
            /\ wpc[w] = "free" /\ wpc' = [wpc EXCEPT ![w] = "created"] /\ thread' = w
            /\ active' = config /\ stop' = FALSE /\ editOn' = Locked /\ startOn' = FALSE
            /\ raced' = (raced \/ \E i \in DOMAIN messages : messages[i] = "stopped")
     ELSE UNCHANGED <<wpc, thread, active, stop, editOn, startOn, raced>>
  /\ UNCHANGED <<ui, config, refresh, closing, messages, lostStop>>

-----------------------------------------------------------------------------
(* The bridge thread. *)

FullX == Len(messages) > QueueSize
Full == Len(messages) >= QueueSize

\* put_nowait; a full queue drops the message.
PutMessage(k) ==
  /\ messages' = IF Full THEN messages ELSE Append(messages, k)
  /\ lostStop' = (lostStop \/ (Full /\ k = "stopped"))

WorkerGoes(w, from, to) == wpc[w] = from /\ wpc' = [wpc EXCEPT ![w] = to]

\* _bridge_worker calls run_bridge with active_config.
BeginRun(w) ==
  /\ WorkerGoes(w, "created", "open")
  /\ UNCHANGED <<fileVars, windowVars, thread, active, stop, messages, lostStop, raced>>

Connected(w) ==
  /\ WorkerGoes(w, "open", "loop") /\ PutMessage("shows")
  /\ UNCHANGED <<fileVars, windowVars, thread, active, stop, raced>>

\* A report: on_state and on_event.
Observe(w) ==
  /\ wpc[w] = "loop" /\ ~stop /\ PutMessage("shows")
  /\ UNCHANGED <<fileVars, windowVars, thread, active, stop, wpc, raced>>

LeaveLoop(w) ==
  /\ stop /\ WorkerGoes(w, "loop", "finally")
  /\ UNCHANGED <<fileVars, windowVars, thread, active, stop, messages, lostStop, raced>>

RunFails(w) ==
  /\ \E at \in Running : WorkerGoes(w, at, "failed")
  /\ UNCHANGED <<fileVars, windowVars, thread, active, stop, messages, lostStop, raced>>

ReportError(w) ==
  /\ WorkerGoes(w, "failed", "finally") /\ PutMessage("error")
  /\ UNCHANGED <<fileVars, windowVars, thread, active, stop, raced>>

\* The finally clause, after which the thread is alive for a moment.
ReportStopped(w) ==
  /\ WorkerGoes(w, "finally", "end") /\ PutMessage("stopped")
  /\ UNCHANGED <<fileVars, windowVars, thread, active, stop, raced>>

EndRun(w) ==
  /\ WorkerGoes(w, "end", "free")
  /\ UNCHANGED <<fileVars, windowVars, thread, active, stop, messages, lostStop, raced>>

WorkerStep(w) == BeginRun(w) \/ Connected(w) \/ LeaveLoop(w) \/ ReportError(w) \/ ReportStopped(w) \/ EndRun(w)

-----------------------------------------------------------------------------
(* Stopping, closing and the messages, on the Tk thread. *)

\* The stop button, enabled with the widgets locked.
StopBridge ==
  /\ Event /\ ~editOn /\ IsAlive(thread) /\ stop' = TRUE
  /\ UNCHANGED <<fileVars, windowVars, thread, active, messages, wpc, lostStop, raced>>

StopsX == stop
Stops == TRUE

\* close(): a living bridge is told to stop, and the window waits for it.
Close ==
  /\ Event /\ ~closing
  /\ IF IsAlive(thread)
     THEN closing' = TRUE /\ stop' = Stops /\ UNCHANGED kpc
     ELSE kpc' = "gone" /\ UNCHANGED <<closing, stop>>
  /\ UNCHANGED <<fileVars, starting, editOn, startOn, refresh>>
  /\ UNCHANGED <<thread, active, messages, wpc, lostStop, raced>>

\* _refresh_device_status sets the start button by the devices alone.
Refresh ==
  /\ kpc \in {"loop", "dialog"} /\ refresh /\ refresh' = FALSE /\ startOn' \in BOOLEAN
  /\ UNCHANGED <<fileVars, kpc, starting, editOn, closing, bridgeVars>>

Drains == Event \/ kpc = "drain"
Take == Drains /\ messages # <<>> /\ messages' = Tail(messages)

\* _drain_messages: state, event and status only change what is displayed.
DrainOther ==
  /\ Take /\ Head(messages) = "shows" /\ kpc' = "drain"
  /\ UNCHANGED <<fileVars, starting, editOn, startOn, refresh, closing>>
  /\ UNCHANGED <<thread, active, stop, wpc, lostStop, raced>>

\* The error box holds the drain until it is dismissed.
DrainError ==
  /\ Take /\ Head(messages) = "error"
  /\ kpc' = IF closing THEN "drain" ELSE "dialog"
  /\ UNCHANGED <<fileVars, starting, editOn, startOn, refresh, closing>>
  /\ UNCHANGED <<thread, active, stop, wpc, lostStop, raced>>

DismissError ==
  /\ kpc = "dialog" /\ kpc' = "drain"
  /\ UNCHANGED <<fileVars, starting, editOn, startOn, refresh, closing, bridgeVars>>

\* "stopped": the window goes if it is closing, or is ready for the next start.
DrainStopped ==
  /\ Take /\ Head(messages) = "stopped" /\ thread' = None
  /\ IF closing
     THEN kpc' = "gone" /\ UNCHANGED <<editOn, startOn, refresh>>
     ELSE kpc' = "drain" /\ editOn' = TRUE /\ startOn' = TRUE /\ refresh' = TRUE
  /\ UNCHANGED <<fileVars, starting, closing, active, stop, wpc, lostStop, raced>>

DrainEnds ==
  /\ kpc = "drain" /\ messages = <<>> /\ kpc' = "loop"
  /\ UNCHANGED <<fileVars, starting, editOn, startOn, refresh, closing, bridgeVars>>

TkStep == FinishSave \/ DrainOther \/ DrainError \/ DrainStopped \/ DrainEnds

Next ==
  \/ Launch \/ EnsureConfig \/ OpenWindow \/ Crash
  \/ Edit \/ ResetDefaults \/ Reload \/ Save \/ StartBridge \/ SaveFails
  \/ \E w \in Workers : WorkerStep(w) \/ Observe(w) \/ RunFails(w)
  \/ StopBridge \/ Close \/ Refresh \/ DismissError \/ TkStep

Spec == Init /\ [][Next]_vars
FairSpec == Spec /\ WF_vars(TkStep) /\ \A w \in Workers : WF_vars(WorkerStep(w))

-----------------------------------------------------------------------------
(* Properties. *)

\* The label "saved" never stands beside a file that holds another mapping: not
\* after edits, reloads, defaults, failed saves and restarts. The file may be
\* one that was cut short (gui.py:256, 266-272, 473-497; mapping.py:80-91).
SavedMeansOnDisk ==
  saved /\ kpc \in {"loop", "drain", "dialog"} => file \in {ui, "partial"}

\* While a bridge of this window runs, the window is there to stop it, its
\* widgets are locked and the file holds the mapping the bridge was given;
\* unless the next start came before the last "stopped" was drained
\* (gui.py:401-406, 514-526, 553-563).
BridgeHasWindow ==
  \A w \in Workers : wpc[w] \in Running /\ ~raced =>
     kpc # "gone" /\ thread = w /\ ~editOn /\ active = file

\* A window that is told to close goes, with its bridge, unless the "stopped"
\* it waits for was dropped by a full queue (gui.py:565-569, 598-602, 629-637).
CloseEnds == closing ~> (kpc = "gone" /\ (\A w \in Workers : wpc[w] = "free")) \/ lostStop \/ raced

=============================================================================
