------------------------------ MODULE Instances ------------------------------
(***************************************************************************)
(* Processes of the release application that meet through named objects     *)
(* (winipc.py, main and _poll_ipc of release_app.py): one dashboard per      *)
(* user, the signals of later launches, and the settings that outlive a      *)
(* process (release_settings.py, startup.py). Any process may be killed.     *)
(***************************************************************************)
EXTENDS Naturals, Sequences

CONSTANTS Procs,  \* processes, used again when they have ended
          Faults  \* what may fail: "window", "save", "registry", "crash"

ASSUME InstancesAssumption == Faults \subseteq {"window", "save", "registry", "crash"}

VARIABLES
  pc,         \* where each process is
  want,       \* the event a process signals
  mutex,      \* processes with a handle of the mutex
  handles,    \* for each event, the processes with a handle of it
  signalled,  \* its state; an event without a handle does not exist
  turn,       \* next event of _poll_ipc, or to create or close; 0: polls no more
  exiting,    \* ReleaseDashboard.exiting
  child,      \* settings process of the dashboard: "none", "opening" or "open"
  settings,   \* settings.json
  temporary,  \* settings.tmp
  mem,        \* start_with_windows in ReleaseSettings of each dashboard
  box,        \* startup_var, its checkbox
  starts,     \* the save is that of _toggle_startup
  registry,   \* "on": the value in the Run key is there
  owed,       \* history: signals that no handler has followed yet
  chosen,     \* history: the value of the last completed save
  failed      \* history: the last save or registration raised

procVars == <<pc, want, turn, exiting, mem, box, starts>>
objectVars == <<mutex, handles, signalled, owed, child>>
storeVars == <<settings, temporary, registry, chosen, failed>>
vars == <<procVars, objectVars, storeVars>>

Events == {"show", "advanced", "shutdown"}
Polled == <<"show", "advanced", "shutdown">>   \* order of _poll_ipc
Created == <<"show", "shutdown", "advanced">>  \* order of main, to create and to close

ConsumeX == <<"handle", "reset">>
Consume == <<"reset", "handle">>               \* consume, then the handler

Serving == {"loop", "reset", "handle", "temp", "replace", "sync"}
Dashboards == {p \in Procs : pc[p] \in Serving \cup {"events", "window", "closing"}}

Values == {"on", "off"}

TypeOK ==
  /\ pc \in [Procs -> Serving \cup {"off", "mutex", "open", "set", "close", "gui",
                                    "events", "window", "closing"}]
  /\ want \in [Procs -> Events] /\ turn \in [Procs -> 0..4] /\ exiting \in [Procs -> BOOLEAN]
  /\ mem \in [Procs -> Values] /\ box \in [Procs -> Values] /\ starts \in [Procs -> BOOLEAN]
  /\ mutex \subseteq Procs /\ handles \in [Events -> SUBSET Procs]
  /\ signalled \in [Events -> BOOLEAN] /\ \A e \in Events : signalled[e] => handles[e] # {}
  /\ owed \subseteq Events /\ child \in {"none", "opening", "open"}
  /\ settings \in Values \cup {"absent"} /\ temporary \in Values \cup {"absent", "partial"}
  /\ registry \in Values /\ chosen \in Values /\ failed \in BOOLEAN

\* ReleaseSettings.load takes the default for a file it cannot read.
Loaded == IF settings \in Values THEN settings ELSE "on"

Init ==
  /\ pc = [p \in Procs |-> "off"] /\ want = [p \in Procs |-> "show"]
  /\ turn = [p \in Procs |-> 1] /\ exiting = [p \in Procs |-> FALSE]
  /\ mem = [p \in Procs |-> "on"] /\ box = mem /\ starts = exiting
  /\ mutex = {} /\ handles = [e \in Events |-> {}] /\ signalled = [e \in Events |-> FALSE]
  /\ owed = {} /\ child = "none"
  /\ settings = "absent" /\ temporary = "absent" /\ registry \in Values
  /\ chosen = "on" /\ failed = FALSE

Goes(p, to) == pc' = [pc EXCEPT ![p] = to]

ReleaseX(p, es) ==
  /\ handles' = [e \in Events |-> IF e \in es THEN handles[e] \ {p} ELSE handles[e]]
  /\ UNCHANGED signalled

\* CloseHandle: the last handle takes the event with it.
Release(p, es) ==
  /\ handles' = [e \in Events |-> IF e \in es THEN handles[e] \ {p} ELSE handles[e]]
  /\ signalled' = [e \in Events |-> signalled[e] /\ handles'[e] # {}]

\* The process ends, whichever way: nothing of it is left but its files. A
\* settings process goes on, and no later dashboard knows of it.
Quit(p) ==
  /\ pc' = [pc EXCEPT ![p] = "off"] /\ want' = [want EXCEPT ![p] = "show"]
  /\ turn' = [turn EXCEPT ![p] = 1] /\ exiting' = [exiting EXCEPT ![p] = FALSE]
  /\ mem' = [mem EXCEPT ![p] = "on"] /\ box' = [box EXCEPT ![p] = "on"]
  /\ starts' = [starts EXCEPT ![p] = FALSE]
  /\ mutex' = mutex \ {p} /\ Release(p, Events)
  /\ IF p \in Dashboards THEN owed' = {} /\ child' = "none"
     ELSE owed' = {e \in owed : handles'[e] # {}} /\ UNCHANGED child

-----------------------------------------------------------------------------
(* main of a launch. *)

\* The user, the log-on entry or the uninstaller starts the program.
Launch(p, e) ==
  /\ pc[p] = "off" /\ want' = [want EXCEPT ![p] = e]
  /\ Goes(p, IF e = "show" THEN "mutex" ELSE "open")
  /\ UNCHANGED <<turn, exiting, mem, box, starts, objectVars, storeVars>>

AcquiredX == handles["show"] = {}
Acquired == mutex = {}

\* SingleInstance: the mutex exists already, or this launch is the dashboard.
CreateMutex(p) ==
  /\ pc[p] = "mutex" /\ mutex' = mutex \cup {p}
  /\ Goes(p, IF Acquired THEN "events" ELSE "open")
  /\ UNCHANGED <<want, turn, exiting, mem, box, starts, handles, signalled, owed, child, storeVars>>

\* signal_named_event: OpenEventW. Without a dashboard, --advanced opens the
\* settings in this process and the others end.
OpenEvent(p) ==
  /\ pc[p] = "open" /\ handles[want[p]] # {} /\ Goes(p, "set")
  /\ handles' = [handles EXCEPT ![want[p]] = @ \cup {p}]
  /\ UNCHANGED <<want, turn, exiting, mem, box, starts, mutex, signalled, owed, child, storeVars>>

NoEvent(p) ==
  /\ pc[p] = "open" /\ handles[want[p]] = {}
  /\ IF want[p] = "advanced"
     THEN Goes(p, "gui") /\ UNCHANGED <<want, turn, exiting, mem, box, starts, objectVars>>
     ELSE Quit(p)
  /\ UNCHANGED storeVars

\* SetEvent.
SetEvent(p) ==
  /\ pc[p] = "set" /\ Goes(p, "close")
  /\ signalled' = [signalled EXCEPT ![want[p]] = TRUE] /\ owed' = owed \cup {want[p]}
  /\ UNCHANGED <<want, turn, exiting, mem, box, starts, mutex, handles, child, storeVars>>

\* CloseHandle and instance.close, or the settings window is closed.
EndLaunch(p) == pc[p] \in {"close", "gui"} /\ Quit(p) /\ UNCHANGED storeVars

-----------------------------------------------------------------------------
(* The dashboard. *)

CreateEvents(p) ==
  /\ pc[p] = "events"
  /\ handles' = [handles EXCEPT ![Created[turn[p]]] = @ \cup {p}]
  /\ turn' = [turn EXCEPT ![p] = IF @ < 3 THEN @ + 1 ELSE 1]
  /\ Goes(p, IF turn[p] < 3 THEN "events" ELSE "window")
  /\ UNCHANGED <<want, exiting, mem, box, starts, mutex, signalled, owed, child, storeVars>>

\* _sync_startup writes or deletes the value in the Run key, or raises.
\* The checkbox goes off then, and the setting keeps its value.
SyncStartup(p, value, shown) ==
  \/ registry' = value /\ failed' = FALSE /\ box' = [box EXCEPT ![p] = shown]
  \/ /\ "registry" \in Faults /\ failed' = TRUE
     /\ box' = [box EXCEPT ![p] = "off"] /\ UNCHANGED registry

\* ReleaseDashboard.__init__: the settings are loaded and the entry is repaired.
Construct(p) ==
  /\ pc[p] = "window" /\ mem' = [mem EXCEPT ![p] = Loaded]
  /\ SyncStartup(p, Loaded, Loaded) /\ Goes(p, "loop")
  /\ UNCHANGED <<want, turn, exiting, starts, objectVars, settings, temporary, chosen>>

ConstructFails(p) ==
  /\ "window" \in Faults /\ pc[p] = "window" /\ Goes(p, "closing")
  /\ UNCHANGED <<want, turn, exiting, mem, box, starts, objectVars, storeVars>>

\* The rest of _poll_ipc, and the next after() unless the exit has begun.
NextTurn(p, leaving) ==
  turn' = [turn EXCEPT ![p] = IF @ < 3 THEN @ + 1 ELSE IF leaving THEN 0 ELSE 1]

\* consume: the event is not set, or it is.
Poll(p) ==
  /\ pc[p] = "loop" /\ turn[p] > 0
  /\ IF signalled[Polled[turn[p]]]
     THEN Goes(p, Consume[1]) /\ UNCHANGED turn
     ELSE NextTurn(p, exiting[p]) /\ UNCHANGED pc
  /\ UNCHANGED <<want, exiting, mem, box, starts, objectVars, storeVars>>

\* After a step of Consume comes its next one, or the next event.
Proceed(p, leaving) ==
  IF pc[p] = Consume[1] THEN Goes(p, Consume[2]) /\ UNCHANGED turn
                        ELSE Goes(p, "loop") /\ NextTurn(p, leaving)

\* ResetEvent.
Reset(p) ==
  /\ pc[p] = "reset" /\ signalled' = [signalled EXCEPT ![Polled[turn[p]]] = FALSE]
  /\ Proceed(p, exiting[p])
  /\ UNCHANGED <<want, exiting, mem, box, starts, mutex, handles, owed, child, storeVars>>

\* show, open_advanced or request_exit. An open settings process refuses the
\* last two; one that is being opened does not.
Handle(p) ==
  LET e == Polled[turn[p]]
      leaving == exiting[p] \/ (e = "shutdown" /\ child # "open")
  IN  /\ pc[p] = "handle" /\ owed' = owed \ {e}
      /\ child' = IF e = "advanced" /\ child = "none" THEN "opening" ELSE child
      /\ exiting' = [exiting EXCEPT ![p] = leaving] /\ Proceed(p, leaving)
      /\ UNCHANGED <<want, mem, box, starts, mutex, handles, signalled, storeVars>>

\* _advanced_worker starts the process, or gives up; the user closes it.
Settings ==
  /\ \/ child = "opening" /\ child' \in {"open", "none"}
     \/ child = "open" /\ child' = "none"
  /\ UNCHANGED <<procVars, mutex, handles, signalled, owed, storeVars>>

\* Between two rounds of _poll_ipc the window handles its own events.
InWindow(p) == pc[p] = "loop" /\ turn[p] < 2

RequestExit(p) ==
  /\ InWindow(p) /\ ~exiting[p] /\ child # "open" /\ exiting' = [exiting EXCEPT ![p] = TRUE]
  /\ UNCHANGED <<pc, want, turn, mem, box, starts, objectVars, storeVars>>

\* _poll_shutdown destroys the window, and main goes on to its finally clause.
Leave(p) ==
  /\ InWindow(p) /\ exiting[p] /\ Goes(p, "closing") /\ turn' = [turn EXCEPT ![p] = 1]
  /\ UNCHANGED <<want, exiting, mem, box, starts, objectVars, storeVars>>

CloseObjects(p) ==
  /\ pc[p] = "closing"
  /\ IF turn[p] < 4
     THEN /\ Release(p, {Created[turn[p]]}) /\ turn' = [turn EXCEPT ![p] = @ + 1]
          /\ UNCHANGED <<pc, want, exiting, mem, box, starts, mutex, owed, child>>
     ELSE Quit(p)
  /\ UNCHANGED storeVars

\* _toggle_startup changes this setting, _toggle_auto_link and connect_now the
\* other one in the same file; the first write to the temporary file.
Toggle(p) ==
  /\ InWindow(p) /\ temporary' = "partial" /\ Goes(p, "temp")
  /\ \/ /\ starts' = [starts EXCEPT ![p] = TRUE]
        /\ box' = [box EXCEPT ![p] = IF @ = "on" THEN "off" ELSE "on"]
        /\ mem' = [mem EXCEPT ![p] = box'[p]]
     \/ UNCHANGED <<starts, box, mem>>
  /\ UNCHANGED <<want, turn, exiting, objectVars, settings, registry, chosen, failed>>

MeanwhileX == "partial"
Meanwhile == settings

\* write_text of the temporary file; settings.json keeps what it has meanwhile.
WriteTemporary(p) ==
  /\ pc[p] = "temp" /\ temporary' = mem[p] /\ settings' = Meanwhile /\ Goes(p, "replace")
  /\ UNCHANGED <<want, turn, exiting, mem, box, starts, objectVars, registry, chosen, failed>>

ReplaceSettings(p) ==
  /\ pc[p] = "replace" /\ settings' = temporary /\ temporary' = "absent" /\ chosen' = mem[p]
  /\ Goes(p, IF starts[p] THEN "sync" ELSE "loop")
  /\ UNCHANGED <<want, turn, exiting, mem, box, starts, objectVars, registry, failed>>

\* An OSError of either step ends the callback; the value stays in memory.
SaveFails(p) ==
  /\ "save" \in Faults /\ pc[p] \in {"temp", "replace"} /\ Goes(p, "loop")
  /\ failed' = (failed \/ starts[p]) /\ starts' = [starts EXCEPT ![p] = FALSE]
  /\ UNCHANGED <<want, turn, exiting, mem, box, objectVars, settings, temporary, registry, chosen>>

Sync(p) ==
  /\ pc[p] = "sync" /\ SyncStartup(p, mem[p], box[p]) /\ Goes(p, "loop")
  /\ starts' = [starts EXCEPT ![p] = FALSE]
  /\ UNCHANGED <<want, turn, exiting, mem, objectVars, settings, temporary, chosen>>

Crash(p) == "crash" \in Faults /\ pc[p] # "off" /\ Quit(p) /\ UNCHANGED storeVars

Next ==
  \/ \E p \in Procs :
       \/ \E e \in Events : Launch(p, e)
       \/ CreateMutex(p) \/ OpenEvent(p) \/ NoEvent(p) \/ SetEvent(p) \/ EndLaunch(p)
       \/ CreateEvents(p) \/ Construct(p) \/ ConstructFails(p)
       \/ Poll(p) \/ Reset(p) \/ Handle(p) \/ RequestExit(p) \/ Leave(p) \/ CloseObjects(p)
       \/ Toggle(p) \/ WriteTemporary(p) \/ ReplaceSettings(p) \/ SaveFails(p) \/ Sync(p)
       \/ Crash(p)
  \/ Settings

Spec == Init /\ [][Next]_vars

-----------------------------------------------------------------------------
(* Properties. *)

\* At most one dashboard per user, from its mutex to its last handle, through
\* launches at the same time, exits and kills (release_app.py:410-432,
\* README.md:46).
OneDashboard == \A p, q \in Dashboards : p = q

\* A dashboard that polls and is not leaving runs the handler of every signal:
\* one that arrives between the wait and ResetEvent, or while another handler
\* runs, is not lost (winipc.py:57-61, release_app.py:343-351).
SignalKept ==
  \A p \in Procs, e \in owed : pc[p] \in Serving /\ ~exiting[p] =>
     signalled[e] \/ (Polled[turn[p]] = e /\ pc[p] \in {"reset", "handle"})

\* The file always loads as the last completed save, also after a kill between
\* any two steps; and a dashboard at rest has that value, and the Run key with
\* it, unless the last save or registration raised
\* (release_settings.py:26-33, release_app.py:182-198).
SettingsHold ==
  /\ Loaded = chosen
  /\ \A p \in Procs : pc[p] = "loop" /\ ~failed => mem[p] = chosen /\ registry = chosen

=============================================================================
