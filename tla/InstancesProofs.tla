--------------------------- MODULE InstancesProofs ---------------------------
(***************************************************************************)
(* Theorems about Instances, for any number of processes and any faults:   *)
(* its types, that there is one dashboard, that it keeps every signal, and *)
(* that the settings and the Run key are those of the last save.           *)
(***************************************************************************)
EXTENDS Instances, TLAPS

-----------------------------------------------------------------------------
(* The inductive invariant                                                 *)

\* A launch that is about to signal has a handle, without which the event is gone.
SetterHolds == \A p \in Procs : pc[p] = "set" => p \in handles[want[p]]

\* A dashboard has the mutex until it has ended, and only one acquires it.
DashboardHolds == Dashboards \subseteq mutex /\ OneDashboard

\* What is going to replace the settings is what the dashboard has in memory.
Replaces == \A p \in Procs : pc[p] = "replace" => temporary = mem[p]

\* The inductive invariant of the types; that of settings.json is the hard one.
Types == TypeOK /\ SetterHolds /\ DashboardHolds /\ Replaces

LEMMA InitTypes == Init => Types
<1> SUFFICES ASSUME Init PROVE Types
  OBVIOUS
<1>1. /\ pc = [p \in Procs |-> "off"] /\ mem = [p \in Procs |-> "on"] /\ box = mem
      /\ exiting = [p \in Procs |-> FALSE] /\ starts = exiting
  BY DEF Init
<1>2. /\ box = [p \in Procs |-> "on"] /\ starts = [p \in Procs |-> FALSE]
      /\ Dashboards = {} /\ \A p \in Procs : pc[p] = "off"
  BY <1>1 DEF Dashboards, Serving
<1>3. TypeOK
  <2>1. /\ pc \in [Procs -> Serving \cup {"off", "mutex", "open", "set", "close", "gui",
                                          "events", "window", "closing"}]
        /\ exiting \in [Procs -> BOOLEAN] /\ starts \in [Procs -> BOOLEAN]
        /\ mem \in [Procs -> Values] /\ box \in [Procs -> Values]
    BY <1>1, <1>2 DEF Values
  <2>2. /\ want \in [Procs -> Events] /\ turn \in [Procs -> 0..4]
        /\ handles \in [Events -> SUBSET Procs] /\ mutex \subseteq Procs
        /\ owed \subseteq Events /\ child \in {"none", "opening", "open"}
    BY DEF Init, Events
  <2>3. signalled \in [Events -> BOOLEAN] /\ \A e \in Events : signalled[e] => handles[e] # {}
    BY DEF Init
  <2>4. /\ settings \in Values \cup {"absent"}
        /\ temporary \in Values \cup {"absent", "partial"}
        /\ registry \in Values /\ chosen \in Values /\ failed \in BOOLEAN
    BY DEF Init, Values
  <2> QED
    BY <2>1, <2>2, <2>3, <2>4 DEF TypeOK
<1>4. SetterHolds /\ DashboardHolds /\ Replaces
  BY <1>2 DEF SetterHolds, DashboardHolds, OneDashboard, Replaces
<1> QED
  BY <1>3, <1>4 DEF Types

LEMMA LoadedIsValue == Loaded \in Values
BY DEF Loaded, Values

-----------------------------------------------------------------------------
(* One dashboard                                                           *)

\* Where the steps that move one process leave the dashboards.
LEMMA DashboardSteps ==
  ASSUME TypeOK, [Next]_vars
  PROVE  \/ Dashboards' = Dashboards /\ mutex' = mutex
         \/ \E p \in Procs : /\ p \notin Dashboards' /\ mutex' = mutex \ {p}
                             /\ Dashboards' = Dashboards \ {p}
         \/ \E p \in Procs : /\ mutex' = mutex \cup {p}
                             /\ \/ Dashboards' = Dashboards
                                \/ mutex = {} /\ Dashboards' = Dashboards \cup {p}
<1>0. pc \in [Procs -> Serving \cup {"off", "mutex", "open", "set", "close", "gui",
                                     "events", "window", "closing"}]
  BY DEF TypeOK
<1>1. ASSUME NEW p \in Procs, Quit(p)
      PROVE  p \notin Dashboards' /\ mutex' = mutex \ {p} /\ Dashboards' = Dashboards \ {p}
  BY <1>0, <1>1 DEF Quit, Dashboards, Serving
<1>2. ASSUME NEW p \in Procs, NEW to, Goes(p, to),
             p \in Dashboards <=> to \in Serving \cup {"events", "window", "closing"}
      PROVE  Dashboards' = Dashboards
  BY <1>0, <1>2 DEF Goes, Dashboards
<1>3. ASSUME NEW p \in Procs, NEW e \in Events, Launch(p, e)
      PROVE  Dashboards' = Dashboards /\ mutex' = mutex
  <2>1. PICK to \in {"mutex", "open"} : Goes(p, to) /\ p \notin Dashboards
    BY <1>3 DEF Launch, Dashboards, Serving
  <2> QED
    BY <1>2, <1>3, <2>1 DEF Launch, objectVars, Serving
<1>4. ASSUME NEW p \in Procs, CreateMutex(p)
      PROVE  /\ mutex' = mutex \cup {p}
             /\ Dashboards' = Dashboards \/ (mutex = {} /\ Dashboards' = Dashboards \cup {p})
  <2>1. CASE mutex = {}
    BY <1>0, <1>4, <2>1 DEF CreateMutex, Acquired, Goes, Dashboards, Serving
  <2>2. CASE mutex # {}
    BY <1>0, <1>4, <2>2 DEF CreateMutex, Acquired, Goes, Dashboards, Serving
  <2> QED
    BY <1>4, <2>1, <2>2 DEF CreateMutex
<1>5. ASSUME NEW p \in Procs, OpenEvent(p) \/ SetEvent(p)
      PROVE  Dashboards' = Dashboards /\ mutex' = mutex
  BY <1>0, <1>5 DEF OpenEvent, SetEvent, Goes, Dashboards, Serving
<1>6. ASSUME NEW p \in Procs, NoEvent(p), ~Quit(p)
      PROVE  Dashboards' = Dashboards /\ mutex' = mutex
  BY <1>0, <1>6 DEF NoEvent, Goes, objectVars, Dashboards, Serving
<1>7. ASSUME NEW p \in Procs,
             CreateEvents(p) \/ Construct(p) \/ ConstructFails(p) \/ Leave(p)
      PROVE  Dashboards' = Dashboards /\ mutex' = mutex
  BY <1>0, <1>7 DEF CreateEvents, Construct, ConstructFails, Leave, InWindow, Goes,
     objectVars, Dashboards, Serving
<1>8. ASSUME NEW p \in Procs, Poll(p) \/ Reset(p) \/ Handle(p)
      PROVE  Dashboards' = Dashboards /\ mutex' = mutex
  BY <1>0, <1>8 DEF Poll, Reset, Handle, Proceed, Consume, Goes, objectVars, Dashboards, Serving
<1>9. ASSUME NEW p \in Procs, RequestExit(p) \/ (CloseObjects(p) /\ ~Quit(p))
      PROVE  Dashboards' = Dashboards /\ mutex' = mutex
  BY <1>9 DEF RequestExit, CloseObjects, objectVars, Dashboards
<1>10. ASSUME NEW p \in Procs,
              Toggle(p) \/ WriteTemporary(p) \/ ReplaceSettings(p) \/ SaveFails(p) \/ Sync(p)
       PROVE  Dashboards' = Dashboards /\ mutex' = mutex
  BY <1>0, <1>10 DEF Toggle, WriteTemporary, ReplaceSettings, SaveFails, Sync, InWindow, Goes,
     objectVars, Dashboards, Serving
<1>11. Settings \/ UNCHANGED vars => Dashboards' = Dashboards /\ mutex' = mutex
  BY DEF Settings, vars, procVars, objectVars, Dashboards
<1>12. \A p \in Procs : EndLaunch(p) \/ Crash(p) => Quit(p)
  BY DEF EndLaunch, Crash
<1> QED
  BY <1>1, <1>3, <1>4, <1>5, <1>6, <1>7, <1>8, <1>9, <1>10, <1>11, <1>12 DEF Next

LEMMA DashboardHoldsNext == TypeOK /\ DashboardHolds /\ [Next]_vars => DashboardHolds'
BY DashboardSteps DEF DashboardHolds, OneDashboard

-----------------------------------------------------------------------------
(* Types                                                                   *)

LEMMA SetterHoldsNext == TypeOK /\ SetterHolds /\ [Next]_vars => SetterHolds'
<1> SUFFICES ASSUME TypeOK, SetterHolds, [Next]_vars PROVE SetterHolds'
  OBVIOUS
<1>0. /\ pc \in [Procs -> Serving \cup {"off", "mutex", "open", "set", "close", "gui",
                                        "events", "window", "closing"}]
      /\ want \in [Procs -> Events] /\ handles \in [Events -> SUBSET Procs]
      /\ \A p \in Procs : pc[p] = "set" => p \in handles[want[p]]
  BY DEF TypeOK, SetterHolds
\* A process that was about to signal before has lost nothing.
<1>1. ASSUME want' = want,
             \A q \in Procs : pc'[q] = "set" => pc[q] = "set",
             \A e \in Events : \A q \in handles[e] : pc'[q] = "set" => q \in handles'[e]
      PROVE  SetterHolds'
  BY <1>0, <1>1 DEF SetterHolds
<1>2. ASSUME NEW p \in Procs, Quit(p) PROVE SetterHolds'
  <2>1. /\ pc' = [pc EXCEPT ![p] = "off"] /\ want' = [want EXCEPT ![p] = "show"]
        /\ handles' = [e \in Events |-> handles[e] \ {p}]
    BY <1>2 DEF Quit, Release
  <2>2. ASSUME NEW q \in Procs, pc'[q] = "set" PROVE q \in handles'[want'[q]]
    <3>1. q # p /\ pc[q] = "set" /\ want'[q] = want[q]
      BY <1>0, <2>1, <2>2
    <3> QED
      BY <1>0, <2>1, <3>1
  <2> QED
    BY <2>2 DEF SetterHolds
<1>3. ASSUME NEW p \in Procs, NEW e \in Events, Launch(p, e) PROVE SetterHolds'
  <2>1. PICK to \in {"mutex", "open"} : pc' = [pc EXCEPT ![p] = to]
    BY <1>3 DEF Launch, Goes
  <2>2. want' = [want EXCEPT ![p] = e] /\ handles' = handles
    BY <1>3 DEF Launch, objectVars
  <2> QED
    BY <1>0, <2>1, <2>2 DEF SetterHolds
<1>4. ASSUME NEW p \in Procs, OpenEvent(p) PROVE SetterHolds'
  <2>1. /\ pc' = [pc EXCEPT ![p] = "set"] /\ want' = want
        /\ handles' = [handles EXCEPT ![want[p]] = @ \cup {p}]
    BY <1>4 DEF OpenEvent, Goes
  <2> QED
    BY <1>0, <2>1 DEF SetterHolds
<1>5. ASSUME NEW p \in Procs, CreateEvents(p) PROVE SetterHolds'
  <2>1. PICK to \in {"events", "window"} : pc' = [pc EXCEPT ![p] = to]
    BY <1>5 DEF CreateEvents, Goes
  <2>2. want' = want /\ handles' = [handles EXCEPT ![Created[turn[p]]] = @ \cup {p}]
    BY <1>5 DEF CreateEvents
  <2>3. \A q \in Procs : pc'[q] = "set" => pc[q] = "set"
    BY <1>0, <2>1
  <2>4. \A e \in Events : handles[e] \subseteq handles'[e]
    BY <1>0, <2>2
  <2> QED
    BY <1>1, <2>2, <2>3, <2>4
<1>6. ASSUME NEW p \in Procs, CloseObjects(p), ~Quit(p) PROVE SetterHolds'
  <2>1. /\ pc[p] = "closing" /\ pc' = pc /\ want' = want
        /\ handles' = [e \in Events |-> IF e \in {Created[turn[p]]} THEN handles[e] \ {p}
                                                                 ELSE handles[e]]
    BY <1>6 DEF CloseObjects, Release
  <2>2. \A e \in Events : \A q \in handles[e] : pc'[q] = "set" => q \in handles'[e]
    BY <1>0, <2>1
  <2> QED
    BY <1>1, <2>1, <2>2
<1>7. ASSUME want' = want, handles' = handles,
             \A q \in Procs : pc'[q] = "set" => pc[q] = "set"
      PROVE  SetterHolds'
  BY <1>1, <1>7
<1>8. ASSUME NEW p \in Procs, NEW to, Goes(p, to), to # "set", want' = want, handles' = handles
      PROVE  SetterHolds'
  <2>1. \A q \in Procs : pc'[q] = "set" => pc[q] = "set"
    BY <1>0, <1>8 DEF Goes
  <2> QED
    BY <1>7, <1>8, <2>1
<1>9. ASSUME NEW p \in Procs, CreateMutex(p) \/ SetEvent(p) \/ (NoEvent(p) /\ ~Quit(p))
      PROVE  SetterHolds'
  <2>1. PICK to \in {"events", "open", "close", "gui"} : Goes(p, to)
    BY <1>9 DEF CreateMutex, SetEvent, NoEvent
  <2>2. want' = want /\ handles' = handles
    BY <1>9 DEF CreateMutex, SetEvent, NoEvent, objectVars
  <2> QED
    BY <1>8, <2>1, <2>2
<1>10. ASSUME NEW p \in Procs,
              \/ Construct(p) \/ ConstructFails(p) \/ Poll(p) \/ Reset(p) \/ Handle(p)
              \/ RequestExit(p) \/ Leave(p)
              \/ Toggle(p) \/ WriteTemporary(p) \/ ReplaceSettings(p) \/ SaveFails(p) \/ Sync(p)
       PROVE  SetterHolds'
  <2>1. want' = want /\ handles' = handles
    BY <1>10 DEF Construct, ConstructFails, Poll, Reset, Handle, RequestExit, Leave, Toggle,
       WriteTemporary, ReplaceSettings, SaveFails, Sync, objectVars
  <2>2. \/ pc' = pc
        \/ \E to \in Serving \cup {"closing"} : Goes(p, to)
    BY <1>10 DEF Construct, ConstructFails, Poll, Reset, Handle, RequestExit, Leave, Toggle,
       WriteTemporary, ReplaceSettings, SaveFails, Sync, Proceed, Consume, Serving
  <2> QED
    BY <1>7, <1>8, <2>1, <2>2 DEF Serving
<1>11. Settings \/ UNCHANGED vars => UNCHANGED <<want, handles, pc>>
  BY DEF Settings, vars, procVars, objectVars
<1>12. \A p \in Procs : EndLaunch(p) \/ Crash(p) => Quit(p)
  BY DEF EndLaunch, Crash
<1> QED
  BY <1>2, <1>3, <1>4, <1>5, <1>6, <1>7, <1>9, <1>10, <1>11, <1>12 DEF Next

\* The three parts of the types.
ProcTypes ==
  /\ pc \in [Procs -> Serving \cup {"off", "mutex", "open", "set", "close", "gui",
                                    "events", "window", "closing"}]
  /\ want \in [Procs -> Events] /\ turn \in [Procs -> 0..4] /\ exiting \in [Procs -> BOOLEAN]
  /\ mem \in [Procs -> Values] /\ box \in [Procs -> Values] /\ starts \in [Procs -> BOOLEAN]

ObjectTypes ==
  /\ mutex \subseteq Procs /\ handles \in [Events -> SUBSET Procs]
  /\ signalled \in [Events -> BOOLEAN] /\ \A e \in Events : signalled[e] => handles[e] # {}
  /\ owed \subseteq Events /\ child \in {"none", "opening", "open"}

StoreTypes ==
  /\ settings \in Values \cup {"absent"} /\ temporary \in Values \cup {"absent", "partial"}
  /\ registry \in Values /\ chosen \in Values /\ failed \in BOOLEAN

LEMMA TypeParts == TypeOK <=> ProcTypes /\ ObjectTypes /\ StoreTypes
BY DEF TypeOK, ProcTypes, ObjectTypes, StoreTypes

LEMMA ProcTypesNext == ProcTypes /\ [Next]_vars => ProcTypes'
<1> SUFFICES ASSUME ProcTypes, [Next]_vars PROVE ProcTypes'
  OBVIOUS
<1>1. ASSUME NEW p \in Procs, Quit(p) PROVE ProcTypes'
  BY <1>1 DEF Quit, ProcTypes, Events, Values
<1>2. ASSUME NEW p \in Procs, NEW to, Goes(p, to),
             to \in Serving \cup {"off", "mutex", "open", "set", "close", "gui",
                                  "events", "window", "closing"}
      PROVE  pc' \in [Procs -> Serving \cup {"off", "mutex", "open", "set", "close", "gui",
                                             "events", "window", "closing"}]
  BY <1>2 DEF Goes, ProcTypes
<1>3. ASSUME NEW p \in Procs, NEW e \in Events, Launch(p, e) PROVE ProcTypes'
  BY <1>2, <1>3 DEF Launch, ProcTypes
<1>4. ASSUME NEW p \in Procs,
             CreateMutex(p) \/ OpenEvent(p) \/ SetEvent(p) \/ (NoEvent(p) /\ ~Quit(p))
      PROVE  ProcTypes'
  <2>1. \E to \in {"events", "open", "set", "close", "gui"} : Goes(p, to)
    BY <1>4 DEF CreateMutex, OpenEvent, SetEvent, NoEvent
  <2>2. UNCHANGED <<want, turn, exiting, mem, box, starts>>
    BY <1>4 DEF CreateMutex, OpenEvent, SetEvent, NoEvent
  <2> QED
    BY <1>2, <2>1, <2>2 DEF ProcTypes
<1>5. ASSUME NEW p \in Procs, CreateEvents(p) PROVE ProcTypes'
  <2>1. \E to \in {"events", "window"} : Goes(p, to)
    BY <1>5 DEF CreateEvents
  <2>2. turn' \in [Procs -> 0..4]
    BY <1>5 DEF CreateEvents, ProcTypes
  <2> QED
    BY <1>2, <1>5, <2>1, <2>2 DEF ProcTypes, CreateEvents
<1>6. ASSUME NEW p \in Procs, Construct(p) PROVE ProcTypes'
  <2>1. mem' \in [Procs -> Values] /\ box' \in [Procs -> Values]
    BY <1>6, LoadedIsValue DEF Construct, SyncStartup, ProcTypes, Values
  <2> QED
    BY <1>2, <1>6, <2>1 DEF ProcTypes, Construct, Serving
<1>7. ASSUME NEW p \in Procs, NEW leaving, NextTurn(p, leaving) PROVE turn' \in [Procs -> 0..4]
  BY <1>7 DEF NextTurn, ProcTypes
<1>8. ASSUME NEW p \in Procs, NEW leaving, Proceed(p, leaving)
      PROVE  \E to \in Serving : Goes(p, to) /\ turn' \in [Procs -> 0..4]
  BY <1>7, <1>8 DEF Proceed, Consume, ProcTypes, Serving
<1>9. ASSUME NEW p \in Procs, Poll(p) PROVE ProcTypes'
  BY <1>2, <1>7, <1>9 DEF Poll, Consume, ProcTypes, Serving
<1>10. ASSUME NEW p \in Procs, Reset(p) PROVE ProcTypes'
  BY <1>2, <1>8, <1>10 DEF Reset, ProcTypes
<1>11. ASSUME NEW p \in Procs, Handle(p) PROVE ProcTypes'
  <2>1. PICK b \in BOOLEAN : exiting' = [exiting EXCEPT ![p] = b] /\ Proceed(p, b)
    BY <1>11 DEF Handle, ProcTypes
  <2> QED
    BY <1>2, <1>8, <1>11, <2>1 DEF Handle, ProcTypes
<1>12. ASSUME NEW p \in Procs, ConstructFails(p) \/ RequestExit(p) \/ Leave(p) PROVE ProcTypes'
  <2>1. CASE ConstructFails(p)
    BY <1>2, <2>1 DEF ConstructFails, ProcTypes
  <2>2. CASE RequestExit(p)
    BY <2>2 DEF RequestExit, ProcTypes
  <2>3. CASE Leave(p)
    <3>1. turn' \in [Procs -> 0..4]
      BY <2>3 DEF Leave, ProcTypes
    <3> QED
      BY <1>2, <2>3, <3>1 DEF Leave, ProcTypes
  <2> QED
    BY <1>12, <2>1, <2>2, <2>3
<1>13. ASSUME NEW p \in Procs, CloseObjects(p), ~Quit(p) PROVE ProcTypes'
  BY <1>13 DEF CloseObjects, ProcTypes
<1>14. ASSUME NEW p \in Procs, Toggle(p) PROVE ProcTypes'
  <2>1. Goes(p, "temp") /\ UNCHANGED <<want, turn, exiting>>
    BY <1>14 DEF Toggle
  <2>2. CASE UNCHANGED <<starts, box, mem>>
    BY <1>2, <2>1, <2>2 DEF ProcTypes, Serving
  <2>3. CASE /\ starts' = [starts EXCEPT ![p] = TRUE]
             /\ box' = [box EXCEPT ![p] = IF @ = "on" THEN "off" ELSE "on"]
             /\ mem' = [mem EXCEPT ![p] = box'[p]]
    <3>1. box' \in [Procs -> Values]
      BY <2>3 DEF ProcTypes, Values
    <3>2. mem' \in [Procs -> Values]
      BY <2>3, <3>1 DEF ProcTypes
    <3>3. starts' \in [Procs -> BOOLEAN]
      BY <2>3 DEF ProcTypes
    <3> QED
      BY <1>2, <2>1, <3>1, <3>2, <3>3 DEF ProcTypes, Serving
  <2> QED
    BY <1>14, <2>2, <2>3 DEF Toggle
<1>15. ASSUME NEW p \in Procs, WriteTemporary(p) \/ ReplaceSettings(p) \/ SaveFails(p)
       PROVE  ProcTypes'
  BY <1>2, <1>15 DEF WriteTemporary, ReplaceSettings, SaveFails, ProcTypes, Serving
<1>16. ASSUME NEW p \in Procs, Sync(p) PROVE ProcTypes'
  <2>1. box' \in [Procs -> Values]
    BY <1>16 DEF Sync, SyncStartup, ProcTypes, Values
  <2> QED
    BY <1>2, <1>16, <2>1 DEF Sync, ProcTypes, Serving
<1>17. Settings \/ UNCHANGED vars => ProcTypes'
  BY DEF Settings, vars, procVars, ProcTypes
<1>18. \A p \in Procs : EndLaunch(p) \/ Crash(p) => Quit(p)
  BY DEF EndLaunch, Crash
<1> QED
  BY <1>1, <1>3, <1>4, <1>5, <1>6, <1>9, <1>10, <1>11, <1>12, <1>13, <1>14, <1>15, <1>16,
     <1>17, <1>18 DEF Next

LEMMA ObjectTypesNext == TypeOK /\ SetterHolds /\ [Next]_vars => ObjectTypes'
<1> SUFFICES ASSUME TypeOK, SetterHolds, [Next]_vars PROVE ObjectTypes'
  OBVIOUS
<1>0. ObjectTypes /\ want \in [Procs -> Events]
  BY DEF TypeOK, ObjectTypes
<1>1. ASSUME NEW p \in Procs, Quit(p) PROVE ObjectTypes'
  <2>1. /\ handles' = [e \in Events |-> handles[e] \ {p}]
        /\ signalled' = [e \in Events |-> signalled[e] /\ handles'[e] # {}]
    BY <1>1 DEF Quit, Release
  <2>2. owed' \subseteq Events /\ child' \in {"none", "opening", "open"} /\ mutex' \subseteq Procs
    BY <1>0, <1>1 DEF Quit, ObjectTypes
  <2> QED
    BY <1>0, <2>1, <2>2 DEF ObjectTypes
<1>2. ASSUME UNCHANGED objectVars PROVE ObjectTypes'
  BY <1>0, <1>2 DEF objectVars, ObjectTypes
<1>3. ASSUME NEW p \in Procs, CreateMutex(p) PROVE ObjectTypes'
  BY <1>0, <1>3 DEF CreateMutex, ObjectTypes
<1>4. ASSUME NEW p \in Procs, OpenEvent(p) \/ CreateEvents(p) PROVE ObjectTypes'
  <2>1. PICK x : handles' = [handles EXCEPT ![x] = @ \cup {p}]
    BY <1>4 DEF OpenEvent, CreateEvents
  <2>2. UNCHANGED <<mutex, signalled, owed, child>>
    BY <1>4 DEF OpenEvent, CreateEvents
  <2> QED
    BY <1>0, <2>1, <2>2 DEF ObjectTypes
<1>5. ASSUME NEW p \in Procs, SetEvent(p) PROVE ObjectTypes'
  <2>1. p \in handles[want[p]] /\ want[p] \in Events
    BY <1>0, <1>5 DEF SetEvent, SetterHolds
  <2> QED
    BY <1>0, <1>5, <2>1 DEF SetEvent, ObjectTypes
<1>6. ASSUME NEW p \in Procs, Reset(p) PROVE ObjectTypes'
  BY <1>0, <1>6 DEF Reset, ObjectTypes
<1>7. ASSUME NEW p \in Procs, Handle(p) PROVE ObjectTypes'
  BY <1>0, <1>7 DEF Handle, ObjectTypes
<1>8. ASSUME NEW p \in Procs, CloseObjects(p), ~Quit(p) PROVE ObjectTypes'
  <2>1. PICK es :
          /\ handles' = [e \in Events |-> IF e \in es THEN handles[e] \ {p} ELSE handles[e]]
          /\ signalled' = [e \in Events |-> signalled[e] /\ handles'[e] # {}]
    BY <1>8 DEF CloseObjects, Release
  <2>2. UNCHANGED <<mutex, owed, child>>
    BY <1>8 DEF CloseObjects
  <2> QED
    BY <1>0, <2>1, <2>2 DEF ObjectTypes
<1>9. Settings => ObjectTypes'
  BY <1>0 DEF Settings, ObjectTypes
<1>10. ASSUME NEW p \in Procs,
              \/ \E e \in Events : Launch(p, e)
              \/ NoEvent(p) /\ ~Quit(p)
              \/ Construct(p) \/ ConstructFails(p) \/ Poll(p) \/ RequestExit(p) \/ Leave(p)
              \/ Toggle(p) \/ WriteTemporary(p) \/ ReplaceSettings(p) \/ SaveFails(p) \/ Sync(p)
       PROVE  UNCHANGED objectVars
  BY <1>10 DEF Launch, NoEvent, Construct, ConstructFails, Poll, RequestExit, Leave, Toggle,
     WriteTemporary, ReplaceSettings, SaveFails, Sync
<1>11. UNCHANGED vars => UNCHANGED objectVars
  BY DEF vars
<1>12. \A p \in Procs : EndLaunch(p) \/ Crash(p) => Quit(p)
  BY DEF EndLaunch, Crash
<1> QED
  BY <1>1, <1>2, <1>3, <1>4, <1>5, <1>6, <1>7, <1>8, <1>9, <1>10, <1>11, <1>12 DEF Next

\* What the steps do to the places of the processes, to mem and to the files.
LEMMA StoreSteps ==
  ASSUME [Next]_vars
  PROVE  \/ UNCHANGED storeVars /\ UNCHANGED <<mem, starts>>
            /\ (pc' = pc \/ \E p \in Procs :
                  /\ pc[p] \notin {"temp", "replace", "sync"}
                  /\ \E to \in {"mutex", "open", "set", "close", "gui", "events", "window",
                                "closing", "loop", "reset", "handle"} :
                       /\ pc' = [pc EXCEPT ![p] = to]
                       /\ to \in Serving => pc[p] \in {"loop", "reset", "handle"})
         \/ \E p \in Procs :
              \/ Quit(p) /\ UNCHANGED storeVars
              \/ Construct(p) \/ Toggle(p) \/ WriteTemporary(p) \/ ReplaceSettings(p)
              \/ SaveFails(p) \/ Sync(p)
<1>1. ASSUME NEW p \in Procs,
             \/ \E e \in Events : Launch(p, e)
             \/ CreateMutex(p) \/ OpenEvent(p) \/ (NoEvent(p) /\ ~Quit(p)) \/ SetEvent(p)
             \/ CreateEvents(p) \/ ConstructFails(p)
      PROVE  /\ UNCHANGED storeVars /\ UNCHANGED <<mem, starts>>
             /\ pc[p] \notin {"temp", "replace", "sync"}
             /\ \E to \in {"mutex", "open", "set", "close", "gui", "events", "window", "closing"} :
                  pc' = [pc EXCEPT ![p] = to]
  BY <1>1 DEF Launch, CreateMutex, OpenEvent, NoEvent, SetEvent, CreateEvents, ConstructFails, Goes
<1>2. ASSUME NEW p \in Procs, Poll(p) \/ Reset(p) \/ Handle(p)
      PROVE  /\ UNCHANGED storeVars /\ UNCHANGED <<mem, starts>>
             /\ pc[p] \in {"loop", "reset", "handle"}
             /\ pc' = pc \/ \E to \in {"loop", "reset", "handle"} : pc' = [pc EXCEPT ![p] = to]
  BY <1>2 DEF Poll, Reset, Handle, Proceed, Consume, Goes
<1>3. ASSUME NEW p \in Procs, Leave(p)
      PROVE  /\ UNCHANGED storeVars /\ UNCHANGED <<mem, starts>>
             /\ pc[p] = "loop" /\ pc' = [pc EXCEPT ![p] = "closing"]
  BY <1>3 DEF Leave, InWindow, Goes
<1>4. ASSUME \/ Settings \/ UNCHANGED vars
             \/ \E p \in Procs : RequestExit(p) \/ (CloseObjects(p) /\ ~Quit(p))
      PROVE  UNCHANGED storeVars /\ UNCHANGED <<mem, starts>> /\ pc' = pc
  BY <1>4 DEF Settings, RequestExit, CloseObjects, vars, procVars
<1>5. \A p \in Procs : EndLaunch(p) \/ Crash(p) \/ (NoEvent(p) /\ Quit(p)) \/ (CloseObjects(p) /\ Quit(p))
                         => Quit(p) /\ UNCHANGED storeVars
  BY DEF EndLaunch, Crash, NoEvent, CloseObjects
<1> QED
  BY <1>1, <1>2, <1>3, <1>4, <1>5 DEF Next, Serving

LEMMA ReplacesNext == TypeOK /\ DashboardHolds /\ Replaces /\ [Next]_vars => Replaces'
<1> SUFFICES ASSUME TypeOK, DashboardHolds, Replaces, [Next]_vars PROVE Replaces'
  OBVIOUS
<1>0. /\ pc \in [Procs -> Serving \cup {"off", "mutex", "open", "set", "close", "gui",
                                        "events", "window", "closing"}]
      /\ mem \in [Procs -> Values]
  BY DEF TypeOK
<1>1. \A p, q \in Procs : pc[p] \in Serving /\ pc[q] \in Serving => p = q
  BY DEF DashboardHolds, OneDashboard, Dashboards
<1>2. ASSUME temporary' = temporary,
             \A p \in Procs : pc'[p] = "replace" => pc[p] = "replace" /\ mem'[p] = mem[p]
      PROVE  Replaces'
  BY <1>2 DEF Replaces
<1>3. ASSUME UNCHANGED mem, UNCHANGED temporary,
             pc' = pc \/ \E p \in Procs :
               \E to \in {"mutex", "open", "set", "close", "gui", "events", "window",
                          "closing", "loop", "reset", "handle"} : pc' = [pc EXCEPT ![p] = to]
      PROVE  Replaces'
  BY <1>0, <1>2, <1>3
<1>4. ASSUME NEW p \in Procs, Quit(p), UNCHANGED storeVars PROVE Replaces'
  BY <1>0, <1>2, <1>4 DEF Quit, storeVars
<1>5. ASSUME NEW p \in Procs, Construct(p) \/ SaveFails(p) \/ Sync(p) PROVE Replaces'
  BY <1>0, <1>2, <1>5 DEF Construct, SaveFails, Sync, Goes
<1>6. ASSUME NEW p \in Procs, Toggle(p) \/ WriteTemporary(p) \/ ReplaceSettings(p) PROVE Replaces'
  <2>1. pc[p] \in Serving
    BY <1>6 DEF Toggle, InWindow, WriteTemporary, ReplaceSettings, Serving
  <2>2. \A q \in Procs : q # p => pc'[q] = pc[q] /\ pc[q] # "replace"
    BY <1>0, <1>1, <1>6, <2>1 DEF Toggle, WriteTemporary, ReplaceSettings, Goes, Serving
  <2>3. pc'[p] = "replace" => temporary' = mem'[p]
    BY <1>0, <1>6 DEF Toggle, WriteTemporary, ReplaceSettings, Goes
  <2> QED
    BY <2>2, <2>3 DEF Replaces
<1> QED
  BY <1>3, <1>4, <1>5, <1>6, StoreSteps DEF storeVars

LEMMA StoreTypesNext == TypeOK /\ Replaces /\ [Next]_vars => StoreTypes'
<1> SUFFICES ASSUME TypeOK, Replaces, [Next]_vars PROVE StoreTypes'
  OBVIOUS
<1>0. StoreTypes /\ mem \in [Procs -> Values] /\ starts \in [Procs -> BOOLEAN]
  BY DEF TypeOK, StoreTypes
<1>1. ASSUME UNCHANGED storeVars PROVE StoreTypes'
  BY <1>0, <1>1 DEF StoreTypes, storeVars
<1>2. ASSUME NEW p \in Procs, Construct(p) \/ Sync(p) PROVE StoreTypes'
  <2>1. Loaded \in Values /\ mem[p] \in Values
    BY <1>0, LoadedIsValue
  <2>2. ASSUME NEW value \in Values, NEW shown, SyncStartup(p, value, shown)
        PROVE  registry' \in Values /\ failed' \in BOOLEAN
    BY <1>0, <2>2 DEF SyncStartup, StoreTypes
  <2>3. registry' \in Values /\ failed' \in BOOLEAN
    BY <1>2, <2>1, <2>2 DEF Construct, Sync
  <2> QED
    BY <1>0, <1>2, <2>3 DEF Construct, Sync, StoreTypes
<1>3. ASSUME NEW p \in Procs, Toggle(p) \/ SaveFails(p) PROVE StoreTypes'
  BY <1>0, <1>3 DEF Toggle, SaveFails, StoreTypes
<1>4. ASSUME NEW p \in Procs, WriteTemporary(p) PROVE StoreTypes'
  BY <1>0, <1>4 DEF WriteTemporary, Meanwhile, StoreTypes
<1>5. ASSUME NEW p \in Procs, ReplaceSettings(p) PROVE StoreTypes'
  BY <1>0, <1>5 DEF ReplaceSettings, Replaces, StoreTypes
<1> QED
  BY <1>1, <1>2, <1>3, <1>4, <1>5, StoreSteps

\* Every step keeps the inductive invariant.
LEMMA NextTypes == Types /\ [Next]_vars => Types'
<1> SUFFICES ASSUME Types, [Next]_vars PROVE Types'
  OBVIOUS
<1>1. TypeOK'
  <2>1. ProcTypes' /\ ObjectTypes' /\ StoreTypes'
    BY TypeParts, ProcTypesNext, ObjectTypesNext, StoreTypesNext DEF Types
  <2> QED
    BY <2>1 DEF TypeOK, ProcTypes, ObjectTypes, StoreTypes
<1> QED
  BY <1>1, SetterHoldsNext, DashboardHoldsNext, ReplacesNext DEF Types

\* Every field has its type, through launches, exits and kills; above all settings.json
\* is never the half-written file, and no event is set that nobody has a handle of.
THEOREM InstancesTypeCorrect == Spec => []TypeOK
<1>1. Types => TypeOK
  BY DEF Types
<1> QED
  BY InitTypes, NextTypes, <1>1, PTL DEF Spec

\* However launches, exits and kills follow each other, at most one process of a user is
\* a dashboard: as long as it has the mutex every launch finds that, and it has it to
\* its end.
THEOREM OneDashboardHolds == Spec => []OneDashboard
<1>1. Types => OneDashboard
  BY DEF Types, DashboardHolds
<1> QED
  BY InitTypes, NextTypes, <1>1, PTL DEF Spec
-----------------------------------------------------------------------------
(* Signals                                                                 *)

\* Process p is the dashboard that is about to run the handler of e, or ends.
Takes(p, e) ==
  \/ pc[p] = "closing"
  \/ pc[p] \in Serving /\ exiting[p]
  \/ pc[p] \in {"reset", "handle"} /\ Polled[turn[p]] = e

\* A signal is in its event until the handler is certain to run.
Kept == \A e \in owed : signalled[e] \/ \E p \in Procs : Takes(p, e)

LEMMA KeptNext == TypeOK /\ Kept /\ [Next]_vars => Kept'
<1> SUFFICES ASSUME TypeOK, Kept, [Next]_vars PROVE Kept'
  OBVIOUS
<1>0. /\ pc \in [Procs -> Serving \cup {"off", "mutex", "open", "set", "close", "gui",
                                        "events", "window", "closing"}]
      /\ exiting \in [Procs -> BOOLEAN] /\ turn \in [Procs -> 0..4]
      /\ handles \in [Events -> SUBSET Procs] /\ signalled \in [Events -> BOOLEAN]
      /\ owed \subseteq Events
      /\ \A e \in Events : signalled[e] => handles[e] # {}
  BY DEF TypeOK
\* A step may not forget a process that takes the signal, nor the event.
<1>1. ASSUME owed' \subseteq owed, \A e \in owed' : signalled[e] => signalled'[e],
             \A e \in owed' : \A p \in Procs : Takes(p, e) => Takes(p, e)'
      PROVE  Kept'
  BY <1>1 DEF Kept
<1>2. ASSUME NEW p \in Procs, Quit(p) PROVE Kept'
  <2>1. /\ pc' = [pc EXCEPT ![p] = "off"] /\ turn' = [turn EXCEPT ![p] = 1]
        /\ exiting' = [exiting EXCEPT ![p] = FALSE]
        /\ signalled' = [e \in Events |-> signalled[e] /\ handles'[e] # {}]
    BY <1>2 DEF Quit, Release
  <2>2. CASE p \in Dashboards
    BY <1>2, <2>2 DEF Quit, Kept
  <2>3. CASE p \notin Dashboards
    <3>1. owed' = {e \in owed : handles'[e] # {}}
      BY <1>2, <2>3 DEF Quit
    <3>2. \A e \in owed' : signalled[e] => signalled'[e]
      BY <1>0, <2>1, <3>1
    <3>3. \A e \in owed' : \A q \in Procs : Takes(q, e) => Takes(q, e)'
      BY <1>0, <2>1, <2>3 DEF Takes, Dashboards, Serving
    <3> QED
      BY <1>1, <3>1, <3>2, <3>3
  <2> QED
    BY <2>2, <2>3
\* A process that takes no signal goes somewhere.
<1>3. ASSUME NEW p \in Procs, NEW to, Goes(p, to), UNCHANGED exiting, UNCHANGED signalled,
             owed' \subseteq owed,
             \A q \in Procs : q # p => turn'[q] = turn[q],
             \A e \in owed' : Takes(p, e) => Takes(p, e)'
      PROVE  Kept'
  <2>1. \A e \in owed' : \A q \in Procs : Takes(q, e) => Takes(q, e)'
    BY <1>0, <1>3 DEF Takes, Goes
  <2> QED
    BY <1>1, <1>3, <2>1
<1>4. ASSUME NEW p \in Procs, NEW e \in Events, Launch(p, e) PROVE Kept'
  <2>1. PICK to \in {"mutex", "open"} : Goes(p, to)
    BY <1>4 DEF Launch
  <2>2. UNCHANGED <<exiting, signalled, owed, turn>> /\ pc[p] = "off"
    BY <1>4 DEF Launch, objectVars
  <2> QED
    BY <1>3, <2>1, <2>2 DEF Takes, Serving
<1>5. ASSUME NEW p \in Procs,
             CreateMutex(p) \/ OpenEvent(p) \/ (NoEvent(p) /\ ~Quit(p)) \/ CreateEvents(p)
             \/ Construct(p) \/ ConstructFails(p)
      PROVE  Kept'
  <2>1. PICK to \in {"events", "open", "set", "gui", "window", "loop", "closing"} : Goes(p, to)
    BY <1>5 DEF CreateMutex, OpenEvent, NoEvent, CreateEvents, Construct, ConstructFails
  <2>2. /\ UNCHANGED <<exiting, signalled, owed>>
        /\ pc[p] \notin Serving \cup {"closing"}
        /\ \A q \in Procs : q # p => turn'[q] = turn[q]
    BY <1>0, <1>5 DEF CreateMutex, OpenEvent, NoEvent, CreateEvents, Construct,
       ConstructFails, objectVars, Serving
  <2>3. \A e \in owed' : Takes(p, e) => Takes(p, e)'
    BY <2>2 DEF Takes, Serving
  <2> QED
    BY <1>3, <2>1, <2>2, <2>3
<1>6. ASSUME NEW p \in Procs, SetEvent(p) PROVE Kept'
  <2>1. /\ pc[p] = "set" /\ pc' = [pc EXCEPT ![p] = "close"] /\ UNCHANGED <<turn, exiting>>
        /\ signalled' = [signalled EXCEPT ![want[p]] = TRUE] /\ owed' = owed \cup {want[p]}
    BY <1>6 DEF SetEvent, Goes
  <2>2. want[p] \in Events
    BY DEF TypeOK
  <2>3. ASSUME NEW e \in owed' PROVE signalled'[e] \/ \E q \in Procs : Takes(q, e)'
    <3>1. CASE e = want[p]
      BY <1>0, <2>1, <2>2, <3>1
    <3>2. CASE e # want[p]
      <4>1. e \in owed /\ signalled'[e] = signalled[e]
        BY <1>0, <2>1, <3>2
      <4>2. \A q \in Procs : Takes(q, e) => Takes(q, e)'
        BY <1>0, <2>1 DEF Takes, Serving
      <4> QED
        BY <4>1, <4>2 DEF Kept
    <3> QED
      BY <3>1, <3>2
  <2> QED
    BY <2>3 DEF Kept
<1>7. ASSUME NEW p \in Procs, Poll(p) PROVE Kept'
  <2>1. /\ pc[p] = "loop" /\ UNCHANGED <<exiting, signalled, owed>>
        /\ \A q \in Procs : q # p => turn'[q] = turn[q]
    BY <1>0, <1>7 DEF Poll, NextTurn, objectVars
  <2>2. \/ pc' = pc
        \/ Goes(p, "reset")
    BY <1>7 DEF Poll, Consume
  <2>3. \A e \in owed' : Takes(p, e) => Takes(p, e)'
    BY <1>0, <2>1, <2>2 DEF Takes, Goes, Serving
  <2>4. CASE pc' = pc
    <3>1. \A e \in owed' : \A q \in Procs : Takes(q, e) => Takes(q, e)'
      BY <1>0, <2>1, <2>3, <2>4 DEF Takes
    <3> QED
      BY <1>1, <2>1, <3>1
  <2> QED
    BY <1>3, <2>1, <2>2, <2>3, <2>4
\* ResetEvent and the handler: the one signal that is lost is about to be handled.
<1>8. ASSUME NEW p \in Procs, Reset(p) PROVE Kept'
  <2>1. /\ pc[p] = "reset" /\ pc' = [pc EXCEPT ![p] = "handle"]
        /\ UNCHANGED <<exiting, owed, turn>>
        /\ signalled' = [signalled EXCEPT ![Polled[turn[p]]] = FALSE]
    BY <1>8 DEF Reset, Proceed, Consume, Goes
  <2>2. \A e \in owed : \A q \in Procs : Takes(q, e) => Takes(q, e)'
    BY <1>0, <2>1 DEF Takes, Serving
  <2>3. \A e \in owed : signalled[e] => signalled'[e] \/ Takes(p, e)'
    BY <1>0, <2>1 DEF Takes
  <2> QED
    BY <2>1, <2>2, <2>3 DEF Kept
<1>9. ASSUME NEW p \in Procs, Handle(p) PROVE Kept'
  <2>1. /\ pc[p] = "handle" /\ pc' = [pc EXCEPT ![p] = "loop"] /\ UNCHANGED signalled
        /\ owed' = owed \ {Polled[turn[p]]}
        /\ \A q \in Procs : q # p => turn'[q] = turn[q]
    BY <1>0, <1>9 DEF Handle, Proceed, Consume, NextTurn, Goes
  <2>2. \A q \in Procs : /\ exiting[q] => exiting'[q]
                         /\ q # p => exiting'[q] = exiting[q]
    BY <1>0, <1>9 DEF Handle
  <2>3. \A e \in owed' : \A q \in Procs : Takes(q, e) => Takes(q, e)'
    BY <1>0, <2>1, <2>2 DEF Takes, Serving
  <2> QED
    BY <1>1, <2>1, <2>3
<1>10. ASSUME NEW p \in Procs, RequestExit(p) PROVE Kept'
  <2>1. /\ UNCHANGED <<pc, turn, signalled, owed>>
        /\ exiting' = [exiting EXCEPT ![p] = TRUE]
    BY <1>10 DEF RequestExit, objectVars
  <2>2. \A e \in owed' : \A q \in Procs : Takes(q, e) => Takes(q, e)'
    BY <1>0, <2>1 DEF Takes
  <2> QED
    BY <1>1, <2>1, <2>2
<1>11. ASSUME NEW p \in Procs, Leave(p) PROVE Kept'
  <2>1. /\ UNCHANGED <<exiting, signalled, owed>> /\ pc' = [pc EXCEPT ![p] = "closing"]
        /\ \A q \in Procs : q # p => turn'[q] = turn[q]
    BY <1>0, <1>11 DEF Leave, Goes, objectVars
  <2>2. \A e \in owed' : Takes(p, e) => Takes(p, e)'
    BY <1>0, <2>1 DEF Takes
  <2> QED
    BY <1>3, <2>1, <2>2 DEF Goes
<1>12. ASSUME NEW p \in Procs, CloseObjects(p), ~Quit(p) PROVE Kept'
  <2>1. pc[p] = "closing" /\ UNCHANGED <<pc, owed>>
    BY <1>12 DEF CloseObjects
  <2> QED
    BY <2>1 DEF Kept, Takes
\* The saves stay in the dashboard.
<1>13. ASSUME NEW p \in Procs,
              Toggle(p) \/ WriteTemporary(p) \/ ReplaceSettings(p) \/ SaveFails(p) \/ Sync(p)
       PROVE  Kept'
  <2>1. PICK to \in Serving : Goes(p, to)
    BY <1>13 DEF Toggle, WriteTemporary, ReplaceSettings, SaveFails, Sync, Serving
  <2>2. /\ UNCHANGED <<exiting, signalled, owed, turn>>
        /\ pc[p] \in Serving \ {"reset", "handle"}
    BY <1>13 DEF Toggle, InWindow, WriteTemporary, ReplaceSettings, SaveFails, Sync, Serving,
       objectVars
  <2>3. \A e \in owed' : Takes(p, e) => Takes(p, e)'
    BY <1>0, <2>1, <2>2 DEF Takes, Goes, Serving
  <2> QED
    BY <1>3, <2>1, <2>2, <2>3
<1>14. ASSUME UNCHANGED <<pc, turn, exiting, signalled, owed>> PROVE Kept'
  BY <1>14 DEF Kept, Takes
<1>15. Settings \/ UNCHANGED vars => UNCHANGED <<pc, turn, exiting, signalled, owed>>
  BY DEF Settings, vars, procVars, objectVars
<1>16. \A p \in Procs : EndLaunch(p) \/ Crash(p) => Quit(p)
  BY DEF EndLaunch, Crash
<1> QED
  BY <1>2, <1>4, <1>5, <1>6, <1>7, <1>8, <1>9, <1>10, <1>11, <1>12, <1>13, <1>14, <1>15,
     <1>16 DEF Next

\* A dashboard that polls and is not leaving runs the handler of every signal, one that
\* arrives between the wait and ResetEvent included: the event is reset before the
\* handler runs, and the only process that resets events is the one dashboard.
THEOREM SignalKeptHolds == Spec => []SignalKept
<1>1. Init => Kept
  BY DEF Init, Kept
<1>2. Types /\ Kept /\ [Next]_vars => (Types /\ Kept)'
  BY NextTypes, KeptNext DEF Types
<1>3. Types /\ Kept => SignalKept
  <2> SUFFICES ASSUME Types, Kept, NEW p \in Procs, NEW e \in owed,
                      pc[p] \in Serving, ~exiting[p], ~signalled[e]
               PROVE  Polled[turn[p]] = e /\ pc[p] \in {"reset", "handle"}
    BY DEF SignalKept
  <2>1. PICK q \in Procs : Takes(q, e)
    BY DEF Kept
  <2>2. q \in Dashboards /\ p \in Dashboards
    BY <2>1 DEF Takes, Dashboards, Serving
  <2>3. q = p
    BY <2>2 DEF Types, DashboardHolds, OneDashboard
  <2> QED
    BY <2>1, <2>3 DEF Takes, Serving
<1> QED
  BY InitTypes, <1>1, <1>2, <1>3, PTL DEF Spec

-----------------------------------------------------------------------------
(* Settings                                                                *)

\* Process p is a dashboard, and no change of its start-up setting is on the way.
AtRest(p) ==
  \/ pc[p] \in {"loop", "reset", "handle"}
  \/ pc[p] \in {"temp", "replace"} /\ ~starts[p]

Fits(p) ==
  /\ AtRest(p) /\ ~failed => mem[p] = chosen /\ registry = chosen
  /\ pc[p] = "sync" => mem[p] = chosen

Agrees == Loaded = chosen /\ \A p \in Procs : Fits(p)

LEMMA AgreesNext == Types /\ Agrees /\ [Next]_vars => Agrees'
<1> SUFFICES ASSUME Types, Agrees, [Next]_vars PROVE Agrees'
  OBVIOUS
<1>0. /\ pc \in [Procs -> Serving \cup {"off", "mutex", "open", "set", "close", "gui",
                                        "events", "window", "closing"}]
      /\ mem \in [Procs -> Values] /\ box \in [Procs -> Values]
      /\ starts \in [Procs -> BOOLEAN]
  BY DEF Types, TypeOK
<1>1. \A p, q \in Procs : pc[p] \in Serving \cup {"window"} /\ pc[q] \in Serving => p = q
  BY DEF Types, DashboardHolds, OneDashboard, Dashboards
\* What another process was, it is; and it is no dashboard when p is one.
<1>2. ASSUME UNCHANGED <<settings, chosen, registry, failed>>,
             \A q \in Procs : Fits(q) => Fits(q)'
      PROVE  Agrees'
  BY <1>2 DEF Agrees, Loaded
<1>3. ASSUME UNCHANGED storeVars, UNCHANGED mem, UNCHANGED starts,
             pc' = pc \/ \E p \in Procs :
                  /\ pc[p] \notin {"temp", "replace", "sync"}
                  /\ \E to \in {"mutex", "open", "set", "close", "gui", "events", "window",
                                "closing", "loop", "reset", "handle"} :
                       /\ pc' = [pc EXCEPT ![p] = to]
                       /\ to \in Serving => pc[p] \in {"loop", "reset", "handle"}
      PROVE  Agrees'
  <2>1. UNCHANGED <<settings, chosen, registry, failed>>
    BY <1>3 DEF storeVars
  <2>2. CASE pc' = pc
    BY <1>2, <1>3, <2>1, <2>2 DEF Fits, AtRest
  <2>3. ASSUME NEW p \in Procs, NEW to, pc' = [pc EXCEPT ![p] = to],
               to \in {"mutex", "open", "set", "close", "gui", "events", "window",
                       "closing", "loop", "reset", "handle"},
               to \in Serving => pc[p] \in {"loop", "reset", "handle"}
        PROVE  Agrees'
    <3>1. \A q \in Procs : q # p => pc'[q] = pc[q]
      BY <1>0, <2>3
    <3>2. pc'[p] = to
      BY <1>0, <2>3
    <3>3. \A q \in Procs : q # p => (Fits(q) => Fits(q)')
      BY <1>3, <2>1, <3>1 DEF Fits, AtRest
    <3>4. Fits(p) => Fits(p)'
      BY <1>3, <2>1, <2>3, <3>2 DEF Fits, AtRest, Serving
    <3> QED
      BY <1>2, <2>1, <3>3, <3>4
  <2> QED
    BY <1>3, <2>2, <2>3
<1>4. ASSUME NEW p \in Procs, Quit(p), UNCHANGED storeVars PROVE Agrees'
  <2>1. /\ pc' = [pc EXCEPT ![p] = "off"] /\ mem' = [mem EXCEPT ![p] = "on"]
        /\ starts' = [starts EXCEPT ![p] = FALSE]
        /\ UNCHANGED <<settings, chosen, registry, failed>>
    BY <1>4 DEF Quit, storeVars
  <2>2. \A q \in Procs : Fits(q) => Fits(q)'
    BY <1>0, <2>1 DEF Fits, AtRest
  <2> QED
    BY <1>2, <2>1, <2>2
\* While p serves, or begins to, nothing has to hold of another process.
<1>5. ASSUME NEW p \in Procs, pc[p] \in Serving \cup {"window"},
             \A q \in Procs : q # p => pc'[q] = pc[q],
             Loaded' = chosen', Fits(p)'
      PROVE  Agrees'
  <2>1. \A q \in Procs : q # p => pc'[q] \notin Serving
    BY <1>1, <1>5
  <2>2. \A q \in Procs : q # p => Fits(q)'
    BY <2>1 DEF Fits, AtRest, Serving
  <2> QED
    BY <1>5, <2>2 DEF Agrees
<1>6. ASSUME NEW p \in Procs, Construct(p) PROVE Agrees'
  <2>1. /\ pc[p] = "window" /\ pc' = [pc EXCEPT ![p] = "loop"]
        /\ mem' = [mem EXCEPT ![p] = Loaded] /\ UNCHANGED <<settings, chosen>>
        /\ (registry' = Loaded /\ failed' = FALSE) \/ failed' = TRUE
    BY <1>6 DEF Construct, SyncStartup, Goes
  <2>2. Loaded = chosen /\ Loaded' = chosen'
    BY <2>1 DEF Agrees, Loaded
  <2>3. Fits(p)'
    BY <1>0, <2>1, <2>2 DEF Fits, AtRest
  <2> QED
    BY <1>0, <1>5, <2>1, <2>2, <2>3
<1>7. ASSUME NEW p \in Procs, Toggle(p) PROVE Agrees'
  <2>1. /\ pc[p] = "loop" /\ pc' = [pc EXCEPT ![p] = "temp"]
        /\ UNCHANGED <<settings, chosen, registry, failed>>
        /\ starts' = [starts EXCEPT ![p] = TRUE] \/ UNCHANGED <<starts, mem>>
    BY <1>7 DEF Toggle, InWindow, Goes
  <2>2. Loaded' = chosen'
    BY <2>1 DEF Agrees, Loaded
  <2>3. Fits(p)'
    BY <1>0, <2>1 DEF Agrees, Fits, AtRest
  <2> QED
    BY <1>0, <1>5, <2>1, <2>2, <2>3 DEF Serving
<1>8. ASSUME NEW p \in Procs, WriteTemporary(p) PROVE Agrees'
  <2>1. /\ pc[p] = "temp" /\ pc' = [pc EXCEPT ![p] = "replace"]
        /\ UNCHANGED <<settings, chosen, registry, failed, starts, mem>>
    BY <1>8 DEF WriteTemporary, Meanwhile, Goes
  <2>2. Loaded' = chosen'
    BY <2>1 DEF Agrees, Loaded
  <2>3. Fits(p)'
    BY <1>0, <2>1 DEF Agrees, Fits, AtRest
  <2> QED
    BY <1>0, <1>5, <2>1, <2>2, <2>3 DEF Serving
\* The file becomes what the dashboard has in memory, as a whole.
<1>9. ASSUME NEW p \in Procs, ReplaceSettings(p) PROVE Agrees'
  <2>1. /\ pc[p] = "replace" /\ settings' = mem[p] /\ chosen' = mem[p]
        /\ pc' = [pc EXCEPT ![p] = IF starts[p] THEN "sync" ELSE "loop"]
        /\ UNCHANGED <<registry, failed, mem>>
    BY <1>9 DEF ReplaceSettings, Goes, Types, Replaces
  <2>2. Loaded' = chosen'
    BY <1>0, <2>1 DEF Loaded
  <2>3. Fits(p)'
    BY <1>0, <2>1 DEF Agrees, Fits, AtRest
  <2> QED
    BY <1>0, <1>5, <2>1, <2>2, <2>3 DEF Serving
<1>10. ASSUME NEW p \in Procs, SaveFails(p) PROVE Agrees'
  <2>1. /\ pc[p] \in {"temp", "replace"} /\ pc' = [pc EXCEPT ![p] = "loop"]
        /\ failed' = (failed \/ starts[p]) /\ UNCHANGED <<settings, chosen, registry, mem>>
    BY <1>10 DEF SaveFails, Goes
  <2>2. Loaded' = chosen'
    BY <2>1 DEF Agrees, Loaded
  <2>3. Fits(p)'
    BY <1>0, <2>1 DEF Agrees, Fits, AtRest
  <2> QED
    BY <1>0, <1>5, <2>1, <2>2, <2>3 DEF Serving
<1>11. ASSUME NEW p \in Procs, Sync(p) PROVE Agrees'
  <2>1. /\ pc[p] = "sync" /\ pc' = [pc EXCEPT ![p] = "loop"]
        /\ (registry' = mem[p] /\ failed' = FALSE) \/ failed' = TRUE
        /\ UNCHANGED <<settings, chosen, mem>>
    BY <1>11 DEF Sync, SyncStartup, Goes
  <2>2. Loaded' = chosen'
    BY <2>1 DEF Agrees, Loaded
  <2>3. Fits(p)'
    BY <1>0, <2>1 DEF Agrees, Fits, AtRest
  <2> QED
    BY <1>0, <1>5, <2>1, <2>2, <2>3 DEF Serving
<1> QED
  BY <1>3, <1>4, <1>6, <1>7, <1>8, <1>9, <1>10, <1>11, StoreSteps

\* The file always loads as the last completed save, also after a kill between any two
\* steps; and a dashboard at rest has that value, and the Run key with it, unless the
\* last save or registration raised: the save replaces the file as a whole, by what
\* the one dashboard has in memory.
THEOREM SettingsHoldAlways == Spec => []SettingsHold
<1>1. Init => Agrees
  <2> SUFFICES ASSUME Init PROVE Agrees
    OBVIOUS
  <2>1. Loaded = chosen
    BY DEF Init, Loaded, Values
  <2>2. \A p \in Procs : pc[p] = "off"
    BY DEF Init
  <2> QED
    BY <2>1, <2>2 DEF Agrees, Fits, AtRest
<1>2. Types /\ Agrees /\ [Next]_vars => (Types /\ Agrees)'
  BY NextTypes, AgreesNext
<1>3. Agrees => SettingsHold
  BY DEF Agrees, Fits, AtRest, SettingsHold
<1> QED
  BY InitTypes, <1>1, <1>2, <1>3, PTL DEF Spec
-----------------------------------------------------------------------------
(* Handles                                                                 *)

\* The events that process p has created, in the order of main, it has a handle of.
HearsFrom(p) ==
  /\ pc[p] \in {"off", "mutex"} => turn[p] = 1
  /\ pc[p] = "events" => turn[p] \in 1..3
                         /\ \A i \in 1..3 : i < turn[p] => p \in handles[Created[i]]
  /\ pc[p] \in Serving \cup {"window"} => \A e \in Events : p \in handles[e]

DashboardHears == \A p \in Procs : HearsFrom(p)

LEMMA DashboardHearsNext == TypeOK /\ DashboardHears /\ [Next]_vars => DashboardHears'
<1> SUFFICES ASSUME TypeOK, DashboardHears, [Next]_vars PROVE DashboardHears'
  OBVIOUS
<1>0. /\ pc \in [Procs -> Serving \cup {"off", "mutex", "open", "set", "close", "gui",
                                        "events", "window", "closing"}]
      /\ turn \in [Procs -> 0..4] /\ handles \in [Events -> SUBSET Procs]
      /\ want \in [Procs -> Events]
  BY DEF TypeOK
<1>a. Created[1] \in Events /\ Created[2] \in Events /\ Created[3] \in Events
  BY DEF Created, Events
\* The others go on as before.
<1>1. ASSUME NEW p \in Procs, HearsFrom(p)',
             \A q \in Procs : q # p => pc'[q] = pc[q] /\ turn'[q] = turn[q],
             \A q \in Procs : \A e \in Events : q # p /\ q \in handles[e] => q \in handles'[e]
      PROVE  DashboardHears'
  <2>1. ASSUME NEW q \in Procs, q # p PROVE HearsFrom(q)'
    <3>1. HearsFrom(q) /\ pc'[q] = pc[q] /\ turn'[q] = turn[q]
      BY <1>1, <2>1 DEF DashboardHears
    <3>2. \A i \in 1..3 : q \in handles[Created[i]] => q \in handles'[Created[i]]
      BY <1>1, <1>a, <2>1
    <3>3. \A e \in Events : q \in handles[e] => q \in handles'[e]
      BY <1>1, <2>1
    <3> QED
      BY <3>1, <3>2, <3>3 DEF HearsFrom
  <2> QED
    BY <1>1, <2>1 DEF DashboardHears
<1>2. ASSUME NEW p \in Procs, Quit(p) PROVE DashboardHears'
  <2>1. /\ pc' = [pc EXCEPT ![p] = "off"] /\ turn' = [turn EXCEPT ![p] = 1]
        /\ handles' = [e \in Events |-> handles[e] \ {p}]
    BY <1>2 DEF Quit, Release
  <2>2. HearsFrom(p)'
    BY <1>0, <2>1 DEF HearsFrom, Serving
  <2> QED
    BY <1>0, <1>1, <2>1, <2>2
<1>3. ASSUME NEW p \in Procs, NEW e \in Events, Launch(p, e) PROVE DashboardHears'
  <2>1. PICK to \in {"mutex", "open"} : pc' = [pc EXCEPT ![p] = to]
    BY <1>3 DEF Launch, Goes
  <2>2. UNCHANGED <<turn, handles>> /\ pc[p] = "off"
    BY <1>3 DEF Launch, objectVars
  <2>3. HearsFrom(p)'
    BY <1>0, <2>1, <2>2 DEF DashboardHears, HearsFrom, Serving
  <2> QED
    BY <1>0, <1>1, <2>1, <2>2, <2>3
<1>4. ASSUME NEW p \in Procs, CreateMutex(p) PROVE DashboardHears'
  <2>1. PICK to \in {"events", "open"} : pc' = [pc EXCEPT ![p] = to]
    BY <1>4 DEF CreateMutex, Goes
  <2>2. UNCHANGED <<turn, handles>> /\ pc[p] = "mutex"
    BY <1>4 DEF CreateMutex
  <2>3. turn'[p] = 1
    BY <2>2 DEF DashboardHears, HearsFrom
  <2>4. HearsFrom(p)'
    BY <1>0, <2>1, <2>3 DEF HearsFrom, Serving
  <2> QED
    BY <1>0, <1>1, <2>1, <2>2, <2>4
<1>5. ASSUME NEW p \in Procs, OpenEvent(p) PROVE DashboardHears'
  <2>1. /\ pc' = [pc EXCEPT ![p] = "set"] /\ turn' = turn
        /\ handles' = [handles EXCEPT ![want[p]] = @ \cup {p}]
    BY <1>5 DEF OpenEvent, Goes
  <2>2. HearsFrom(p)'
    BY <1>0, <2>1 DEF HearsFrom, Serving
  <2>3. \A q \in Procs : \A e \in Events : q \in handles[e] => q \in handles'[e]
    BY <1>0, <2>1
  <2> QED
    BY <1>0, <1>1, <2>1, <2>2, <2>3
<1>6. ASSUME NEW p \in Procs, SetEvent(p) \/ (NoEvent(p) /\ ~Quit(p)) PROVE DashboardHears'
  <2>1. PICK to \in {"close", "gui"} : pc' = [pc EXCEPT ![p] = to]
    BY <1>6 DEF SetEvent, NoEvent, Goes
  <2>2. UNCHANGED <<turn, handles>>
    BY <1>6 DEF SetEvent, NoEvent, objectVars
  <2>3. HearsFrom(p)'
    BY <1>0, <2>1 DEF HearsFrom, Serving
  <2> QED
    BY <1>0, <1>1, <2>1, <2>2, <2>3
<1>7. ASSUME NEW p \in Procs, CreateEvents(p) PROVE DashboardHears'
  <2>1. /\ pc[p] = "events"
        /\ handles' = [handles EXCEPT ![Created[turn[p]]] = @ \cup {p}]
        /\ turn' = [turn EXCEPT ![p] = IF @ < 3 THEN @ + 1 ELSE 1]
        /\ pc' = [pc EXCEPT ![p] = IF turn[p] < 3 THEN "events" ELSE "window"]
    BY <1>7 DEF CreateEvents, Goes
  <2>2. turn[p] \in 1..3 /\ \A i \in 1..3 : i < turn[p] => p \in handles[Created[i]]
    BY <2>1 DEF DashboardHears, HearsFrom
  <2>3. Created[turn[p]] \in Events /\ \A i \in 1..3 : Created[i] \in Events
    BY <1>a, <2>2
  <2>4. \A i \in 1..3 : i <= turn[p] => p \in handles'[Created[i]]
    BY <1>0, <2>1, <2>2, <2>3
  <2>5. ASSUME turn[p] < 3 PROVE HearsFrom(p)'
    <3>1. pc'[p] = "events" /\ turn'[p] = turn[p] + 1
      BY <1>0, <2>1, <2>5
    <3>2. \A i \in 1..3 : i < turn'[p] => p \in handles'[Created[i]]
      BY <2>2, <2>4, <3>1
    <3> QED
      BY <2>2, <2>5, <3>1, <3>2 DEF HearsFrom, Serving
  <2>6. ASSUME turn[p] = 3 PROVE HearsFrom(p)'
    <3>1. pc'[p] = "window"
      BY <1>0, <2>1, <2>6
    <3>2. \A e \in Events : p \in handles'[e]
      BY <2>4, <2>6 DEF Created, Events
    <3> QED
      BY <3>1, <3>2 DEF HearsFrom
  <2>7. HearsFrom(p)'
    BY <2>2, <2>5, <2>6
  <2>8. \A q \in Procs : \A e \in Events : q \in handles[e] => q \in handles'[e]
    BY <1>0, <2>1
  <2> QED
    BY <1>0, <1>1, <2>1, <2>7, <2>8
\* From "window" on, the handles are there.
<1>8. ASSUME NEW p \in Procs, UNCHANGED handles, pc[p] \in Serving \cup {"window"},
             pc' = pc \/ \E to \in Serving \cup {"closing"} : pc' = [pc EXCEPT ![p] = to],
             \A q \in Procs : q # p => turn'[q] = turn[q]
      PROVE  DashboardHears'
  <2>1. \A e \in Events : p \in handles[e]
    BY <1>8 DEF DashboardHears, HearsFrom
  <2>2. pc'[p] \in Serving \cup {"closing"} \/ pc' = pc
    BY <1>0, <1>8
  <2>3. HearsFrom(p)'
    BY <1>8, <2>1, <2>2 DEF HearsFrom, Serving
  <2> QED
    BY <1>0, <1>1, <1>8, <2>3
<1>9. ASSUME NEW p \in Procs,
             \/ Construct(p) \/ ConstructFails(p) \/ Poll(p) \/ Reset(p) \/ Handle(p)
             \/ RequestExit(p) \/ Leave(p)
             \/ Toggle(p) \/ WriteTemporary(p) \/ ReplaceSettings(p) \/ SaveFails(p) \/ Sync(p)
      PROVE  DashboardHears'
  <2>1. UNCHANGED handles /\ pc[p] \in Serving \cup {"window"}
    BY <1>9 DEF Construct, ConstructFails, Poll, Reset, Handle, RequestExit, Leave, Toggle,
       WriteTemporary, ReplaceSettings, SaveFails, Sync, InWindow, objectVars, Serving
  <2>2. pc' = pc \/ \E to \in Serving \cup {"closing"} : pc' = [pc EXCEPT ![p] = to]
    BY <1>9 DEF Construct, ConstructFails, Poll, Reset, Handle, RequestExit, Leave, Toggle,
       WriteTemporary, ReplaceSettings, SaveFails, Sync, Proceed, Consume, Goes, Serving
  <2>3. \A q \in Procs : q # p => turn'[q] = turn[q]
    BY <1>0, <1>9 DEF Construct, ConstructFails, Poll, Reset, Handle, RequestExit, Leave,
       Toggle, WriteTemporary, ReplaceSettings, SaveFails, Sync, Proceed, NextTurn
  <2> QED
    BY <1>8, <2>1, <2>2, <2>3
<1>10. ASSUME NEW p \in Procs, CloseObjects(p), ~Quit(p) PROVE DashboardHears'
  <2>1. /\ pc[p] = "closing" /\ pc' = pc /\ turn' = [turn EXCEPT ![p] = @ + 1]
        /\ handles' = [e \in Events |-> IF e \in {Created[turn[p]]} THEN handles[e] \ {p}
                                                                 ELSE handles[e]]
    BY <1>10 DEF CloseObjects, Release
  <2>2. HearsFrom(p)'
    BY <2>1 DEF HearsFrom, Serving
  <2>3. \A q \in Procs : \A e \in Events : q # p /\ q \in handles[e] => q \in handles'[e]
    BY <1>0, <2>1
  <2> QED
    BY <1>0, <1>1, <2>1, <2>2, <2>3
<1>11. ASSUME UNCHANGED <<pc, turn, handles>> PROVE DashboardHears'
  BY <1>11 DEF DashboardHears, HearsFrom
<1>12. Settings \/ UNCHANGED vars => UNCHANGED <<pc, turn, handles>>
  BY DEF Settings, vars, procVars, objectVars
<1>13. \A p \in Procs : EndLaunch(p) \/ Crash(p) => Quit(p)
  BY DEF EndLaunch, Crash
<1> QED
  BY <1>2, <1>3, <1>4, <1>5, <1>6, <1>7, <1>9, <1>10, <1>11, <1>12, <1>13 DEF Next

\* A dashboard that serves has a handle of each of the three events, so that a launch
\* always finds the event it signals and no signal to a dashboard is lost with its event.
THEOREM DashboardAlwaysHears == Spec => []DashboardHears
<1>1. Init => DashboardHears
  BY DEF Init, DashboardHears, HearsFrom, Serving
<1>2. Types /\ DashboardHears /\ [Next]_vars => (Types /\ DashboardHears)'
  BY NextTypes, DashboardHearsNext DEF Types
<1> QED
  BY InitTypes, <1>1, <1>2, PTL DEF Spec
=============================================================================
