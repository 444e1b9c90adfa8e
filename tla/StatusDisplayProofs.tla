------------------------- MODULE StatusDisplayProofs -------------------------
(***************************************************************************)
(* Theorems about StatusDisplay, for any emitting threads, statuses, queue *)
(* size and faults: its types, that no icon outlives the process, and that *)
(* the newest snapshot is delivered.                                       *)
(***************************************************************************)
EXTENDS StatusDisplay, TLAPS

-----------------------------------------------------------------------------
(* Types                                                                   *)

Emitting == {"compare", "put", "get", "again"}

\* The parts of the types; a snapshot in hand is a status.
EmitTypes ==
  /\ status \in Status /\ changes \in 0..MaxChanges /\ last \in Status \cup {None}
  /\ epc \in [Emitters -> {"idle", "snap"} \cup Emitting]
  /\ copy \in [Emitters -> Status \cup {None}]
  /\ crossed \subseteq Active /\ settled \in BOOLEAN

QueueTypes == queue \in Seq(Status) /\ Len(queue) <= QueueSize

TkTypes ==
  /\ kpc \in {"tray", "loop", "drain", "post", "join", "ended"}
  /\ latest \in Status \cup {None} /\ drainDue \in BOOLEAN
  /\ shown \in Texts /\ exiting \in BOOLEAN
  /\ tray \in BOOLEAN /\ title \in Status \cup {"name"}

TrayTypes ==
  /\ tpc \in {"create", "image", "add", "loop", "calling", "ended"}
  /\ icon \in Status \cup {"name", None}
  /\ updates \in BOOLEAN /\ renew \in BOOLEAN /\ closing \in BOOLEAN /\ gaveUp \in BOOLEAN

InHand == \A e \in Active : copy[e] \in Status

Types == EmitTypes /\ QueueTypes /\ TkTypes /\ TrayTypes /\ InHand

LEMMA TypeParts == EmitTypes /\ QueueTypes /\ TkTypes /\ TrayTypes => TypeOK
BY DEF TypeOK, EmitTypes, QueueTypes, TkTypes, TrayTypes, Emitting

LEMMA InitTypes == Init => Types
<1> SUFFICES ASSUME Init PROVE Types
  OBVIOUS
<1>1. EmitTypes /\ InHand
  BY DisplayAssumption DEF Init, EmitTypes, InHand, Active
<1>2. QueueTypes
  BY DisplayAssumption DEF Init, QueueTypes
<1>3. TkTypes /\ TrayTypes
  BY DisplayAssumption DEF Init, TkTypes, TrayTypes, Texts
<1> QED
  BY <1>1, <1>2, <1>3 DEF Types

\* put_nowait of what an emitter has in hand.
LEMMA DeliverSteps ==
  ASSUME EmitTypes, InHand, QueueTypes, NEW e \in Active, ~Full, Deliver(e)
  PROVE  QueueTypes' /\ queue' # <<>> /\ queue'[Len(queue')] = copy[e]
<1>1. copy[e] \in Status /\ queue \in Seq(Status) /\ queue' = Append(queue, copy[e])
  BY DEF InHand, QueueTypes, Deliver
<1>2. Len(queue) < QueueSize /\ Len(queue) \in Nat
  BY DisplayAssumption DEF QueueTypes, Full
<1>3. /\ queue' \in Seq(Status) /\ Len(queue') = Len(queue) + 1
      /\ queue'[Len(queue) + 1] = copy[e]
  BY <1>1
<1> QED
  BY <1>2, <1>3, DisplayAssumption DEF QueueTypes

\* get_nowait: all but the oldest, the newest stays the newest.
LEMMA TailSteps ==
  ASSUME QueueTypes, queue # <<>>, queue' = Tail(queue)
  PROVE  /\ QueueTypes' /\ Len(queue') = Len(queue) - 1 /\ Head(queue) \in Status
         /\ queue' # <<>> => queue'[Len(queue')] = queue[Len(queue)]
         /\ queue' = <<>> => Head(queue) = queue[Len(queue)]
<1>1. queue \in Seq(Status) /\ Len(queue) \in Nat /\ Len(queue) >= 1 /\ Len(queue) <= QueueSize
  BY DEF QueueTypes
<1>2. /\ queue' \in Seq(Status) /\ Len(queue') = Len(queue) - 1
      /\ \A i \in 1..Len(queue') : queue'[i] = queue[i + 1]
      /\ Head(queue) = queue[1] /\ Head(queue) \in Status
  BY <1>1
<1>3. queue' = <<>> <=> Len(queue') = 0
  BY <1>2
<1> QED
  BY <1>1, <1>2, <1>3, DisplayAssumption DEF QueueTypes

\* The emitters are the only ones that work on an emission.
LEMMA WhoEmits ==
  ASSUME [Next]_vars
  PROVE  \/ UNCHANGED <<status, changes, last, epc, copy, crossed, settled>>
         \/ SetField \/ \E e \in Emitters : Emit(e) \/ EmitStep(e)
BY DEF Next, TkStep, StartTray, TakeNext, ShowSnapshot, PostUpdate, JoinTray, ConnectNow, ServeCall,
   RequestExit, StopTray, TrayStep, CreateWindow, LoadIcon, AddIcon, UpdateIcon, CloseIcon, Click,
   ExplorerRestarts, Ended, vars, emitVars

\* Where an emission takes the emitters that are at work.
LEMMA ActiveSteps ==
  ASSUME EmitTypes, NEW e \in Emitters
  PROVE  /\ Snapshot(e) => Active' = Active \cup {e} /\ e \notin Active
         /\ Done(e) => Active' = Active \ {e}
         /\ \A to \in Emitting :
              e \in Active /\ epc' = [epc EXCEPT ![e] = to] => Active' = Active
         /\ SetField \/ Emit(e) => Active' = Active
<1>0. epc \in [Emitters -> {"idle", "snap"} \cup Emitting]
  BY DEF EmitTypes
<1>1. Snapshot(e) => Active' = Active \cup {e} /\ e \notin Active
  BY <1>0 DEF Snapshot, Active, Emitting
<1>2. Done(e) => Active' = Active \ {e}
  BY <1>0 DEF Done, Active, Emitting
<1>3. ASSUME NEW to \in Emitting, e \in Active, epc' = [epc EXCEPT ![e] = to] PROVE Active' = Active
  BY <1>0, <1>3 DEF Active, Emitting
<1>4. SetField => Active' = Active
  BY DEF SetField, Active
<1>5. Emit(e) => Active' = Active
  BY <1>0 DEF Emit, Active, Emitting
<1> QED
  BY <1>1, <1>2, <1>3, <1>4, <1>5

LEMMA EmitTypesNext == EmitTypes /\ InHand /\ [Next]_vars => EmitTypes' /\ InHand'
<1> SUFFICES ASSUME EmitTypes, InHand, [Next]_vars PROVE EmitTypes' /\ InHand'
  OBVIOUS
<1>0. /\ epc \in [Emitters -> {"idle", "snap"} \cup Emitting]
      /\ copy \in [Emitters -> Status \cup {None}] /\ crossed \subseteq Active
      /\ Active = {e \in Emitters : epc[e] \in Emitting}
  BY DEF EmitTypes, Active, Emitting
<1>1. CASE UNCHANGED <<status, changes, last, epc, copy, crossed, settled>>
  BY <1>1 DEF EmitTypes, InHand, Active
<1>2. CASE SetField
  BY <1>2, DisplayAssumption DEF SetField, Change, EmitTypes, InHand, Active
<1>3. ASSUME NEW e \in Emitters, Emit(e) PROVE EmitTypes' /\ InHand'
  <2>1. Active' = Active /\ UNCHANGED <<last, copy, crossed, settled>>
    BY <1>3, ActiveSteps DEF Emit
  <2>2. status' \in Status /\ changes' \in 0..MaxChanges
    BY <1>3, DisplayAssumption DEF Emit, Change, EmitTypes
  <2>3. epc' \in [Emitters -> {"idle", "snap"} \cup Emitting]
    BY <1>0, <1>3 DEF Emit
  <2> QED
    BY <2>1, <2>2, <2>3 DEF EmitTypes, InHand
<1>4. ASSUME NEW e \in Emitters, Snapshot(e) PROVE EmitTypes' /\ InHand'
  <2>1. /\ Active' = Active \cup {e} /\ UNCHANGED <<status, changes, last>>
        /\ copy' = [copy EXCEPT ![e] = status] /\ status \in Status
        /\ epc' = [epc EXCEPT ![e] = "compare"]
        /\ crossed' \subseteq Active \cup {e} /\ settled' \in BOOLEAN
    BY <1>0, <1>4, ActiveSteps DEF Snapshot, EmitTypes
  <2>2. epc' \in [Emitters -> {"idle", "snap"} \cup Emitting]
    BY <1>0, <2>1 DEF Emitting
  <2>3. copy' \in [Emitters -> Status \cup {None}] /\ InHand'
    BY <1>0, <2>1 DEF InHand
  <2> QED
    BY <2>1, <2>2, <2>3 DEF EmitTypes
\* Returning, or going on with the same snapshot.
<1>5. ASSUME NEW e \in Active, Done(e), UNCHANGED <<status, changes>>,
             last' \in Status \cup {None}, settled' \in BOOLEAN
      PROVE  EmitTypes' /\ InHand'
  <2>1. Active' = Active \ {e}
    BY <1>0, <1>5, ActiveSteps
  <2>2. /\ epc' \in [Emitters -> {"idle", "snap"} \cup Emitting]
        /\ copy' \in [Emitters -> Status \cup {None}] /\ crossed' \subseteq Active \ {e}
        /\ \A f \in Active \ {e} : copy'[f] = copy[f]
    BY <1>0, <1>5 DEF Done
  <2> QED
    BY <1>5, <2>1, <2>2 DEF EmitTypes, InHand
<1>6. ASSUME NEW e \in Active, NEW to \in Emitting, epc' = [epc EXCEPT ![e] = to],
             UNCHANGED <<status, changes, copy, crossed, settled>>, last' \in Status \cup {None}
      PROVE  EmitTypes' /\ InHand'
  <2>1. Active' = Active
    BY <1>0, <1>6, ActiveSteps
  <2>2. epc' \in [Emitters -> {"idle", "snap"} \cup Emitting]
    BY <1>0, <1>6
  <2> QED
    BY <1>6, <2>1, <2>2 DEF EmitTypes, InHand
<1>7. ASSUME NEW e \in Emitters, Compare(e) PROVE EmitTypes' /\ InHand'
  <2>1. e \in Active /\ UNCHANGED <<status, changes, settled>> /\ settled \in BOOLEAN
    BY <1>0, <1>7 DEF Compare, Emitting, EmitTypes
  <2>2. last' \in Status \cup {None}
    BY <1>0, <1>7 DEF Compare, EmitTypes
  <2>3. \/ Done(e)
        \/ epc' = [epc EXCEPT ![e] = "put"] /\ UNCHANGED <<copy, crossed>>
    BY <1>7 DEF Compare
  <2> QED
    BY <1>5, <1>6, <2>1, <2>2, <2>3 DEF Emitting
<1>8. ASSUME NEW e \in Emitters, Put(e) \/ DropOldest(e) \/ PutAgain(e) PROVE EmitTypes' /\ InHand'
  <2>1. e \in Active /\ UNCHANGED <<status, changes, last>> /\ last \in Status \cup {None}
    BY <1>0, <1>8 DEF Put, DropOldest, PutAgain, Emitting, EmitTypes
  <2>2. \/ Done(e) /\ settled' \in BOOLEAN
        \/ \E to \in Emitting :
             epc' = [epc EXCEPT ![e] = to] /\ UNCHANGED <<copy, crossed, settled>>
    BY <1>8 DEF Put, DropOldest, PutAgain, Deliver, Overflow, Emitting, EmitTypes
  <2> QED
    BY <1>5, <1>6, <2>1, <2>2
<1> QED
  BY <1>1, <1>2, <1>3, <1>4, <1>7, <1>8, WhoEmits DEF EmitStep

LEMMA QueueTypesNext == EmitTypes /\ InHand /\ QueueTypes /\ [Next]_vars => QueueTypes'
<1> SUFFICES ASSUME EmitTypes, InHand, QueueTypes, [Next]_vars PROVE QueueTypes'
  OBVIOUS
<1>1. CASE UNCHANGED queue
  BY <1>1 DEF QueueTypes
<1>2. CASE queue # <<>> /\ queue' = Tail(queue)
  BY <1>2, TailSteps
<1>3. ASSUME NEW e \in Emitters, EmitStep(e)
      PROVE  \/ UNCHANGED queue \/ (queue # <<>> /\ queue' = Tail(queue))
             \/ (e \in Active /\ ~Full /\ Deliver(e))
  BY <1>3 DEF EmitStep, Snapshot, Compare, Put, DropOldest, PutAgain, Active
<1>4. ASSUME NEW e \in Emitters, EmitStep(e) PROVE QueueTypes'
  BY <1>1, <1>2, <1>3, <1>4, DeliverSteps
<1>5. SetField \/ (\E e \in Emitters : Emit(e)) => UNCHANGED queue
  BY DEF SetField, Emit
<1>6. \/ StartTray \/ ShowSnapshot \/ PostUpdate \/ JoinTray \/ ConnectNow \/ ServeCall
      \/ RequestExit \/ StopTray \/ TrayStep \/ Click \/ ExplorerRestarts \/ Ended \/ UNCHANGED vars
      => UNCHANGED queue
  BY DEF StartTray, ShowSnapshot, PostUpdate, JoinTray, ConnectNow, ServeCall, RequestExit, StopTray,
     TrayStep, CreateWindow, LoadIcon, AddIcon, UpdateIcon, CloseIcon, Click, ExplorerRestarts, Ended,
     vars, emitVars
<1>7. TakeNext => queue # <<>> /\ queue' = Tail(queue)
  BY DEF TakeNext
<1> QED
  BY <1>1, <1>2, <1>4, <1>5, <1>6, <1>7 DEF Next, TkStep

LEMMA TkTypesNext == TkTypes /\ QueueTypes /\ [Next]_vars => TkTypes'
<1> SUFFICES ASSUME TkTypes, QueueTypes, [Next]_vars PROVE TkTypes'
  OBVIOUS
<1>1. ASSUME UNCHANGED tkVars PROVE TkTypes'
  BY <1>1 DEF tkVars, TkTypes
<1>2. \/ SetField \/ ServeCall \/ TrayStep \/ Click \/ ExplorerRestarts \/ Ended \/ UNCHANGED vars
      \/ \E e \in Emitters : Emit(e) \/ EmitStep(e)
      => UNCHANGED tkVars
  BY DEF SetField, ServeCall, TrayStep, CreateWindow, LoadIcon, AddIcon, UpdateIcon, CloseIcon, Click,
     ExplorerRestarts, Ended, vars, Emit, EmitStep, Snapshot, Compare, Put, DropOldest, PutAgain
<1>3. ASSUME StartTray PROVE TkTypes'
  <2>1. HasWindow \in BOOLEAN
    BY DEF HasWindow
  <2>2. tray' \in BOOLEAN
    BY <1>3, <2>1 DEF StartTray
  <2> QED
    BY <1>3, <2>2 DEF StartTray, TkTypes
<1>4. ASSUME TakeNext PROVE TkTypes'
  <2>1. Head(queue) \in Status
    BY <1>4, TailSteps DEF TakeNext
  <2> QED
    BY <1>4, <2>1 DEF TakeNext, TkTypes
<1>5. ASSUME ShowSnapshot PROVE TkTypes'
  BY <1>5 DEF ShowSnapshot, TkTypes, Texts
<1>6. ASSUME PostUpdate \/ ConnectNow \/ RequestExit \/ StopTray \/ JoinTray PROVE TkTypes'
  BY <1>6 DEF PostUpdate, ConnectNow, RequestExit, StopTray, JoinTray, TkTypes, Texts
<1> QED
  BY <1>1, <1>2, <1>3, <1>4, <1>5, <1>6 DEF Next, TkStep

LEMMA TrayTypesNext == TrayTypes /\ TkTypes /\ [Next]_vars => TrayTypes'
<1> SUFFICES ASSUME TrayTypes, TkTypes, [Next]_vars PROVE TrayTypes'
  OBVIOUS
<1>1. ASSUME UNCHANGED <<trayVars, gaveUp>> PROVE TrayTypes'
  BY <1>1 DEF trayVars, TrayTypes
<1>2. \/ SetField \/ TakeNext \/ ShowSnapshot \/ RequestExit \/ Ended \/ UNCHANGED vars
      \/ \E e \in Emitters : Emit(e) \/ EmitStep(e)
      => UNCHANGED <<trayVars, gaveUp>>
  BY DEF SetField, TakeNext, ShowSnapshot, RequestExit, Ended, vars, Emit, EmitStep, Snapshot, Compare,
     Put, DropOldest, PutAgain
<1>3. ASSUME StartTray \/ JoinTray PROVE TrayTypes'
  BY <1>3 DEF StartTray, JoinTray, trayVars, TrayTypes
<1>4. ASSUME PostUpdate \/ ConnectNow \/ ServeCall \/ StopTray PROVE TrayTypes'
  BY <1>4 DEF PostUpdate, ConnectNow, ServeCall, StopTray, Posted, HasWindow, TkTypes, TrayTypes
<1>5. ASSUME TrayStep \/ Click \/ ExplorerRestarts PROVE TrayTypes'
  BY <1>5 DEF TrayStep, CreateWindow, LoadIcon, AddIcon, UpdateIcon, CloseIcon, Deleted, Click,
     ExplorerRestarts, TkTypes, TrayTypes
<1> QED
  BY <1>1, <1>2, <1>3, <1>4, <1>5 DEF Next, TkStep

LEMMA NextTypes == Types /\ [Next]_vars => Types'
BY EmitTypesNext, QueueTypesNext, TkTypesNext, TrayTypesNext DEF Types

\* Every field has its type; above all the snapshot queue never grows beyond its size,
\* by whatever threads emit at the same time.
THEOREM DisplayTypeCorrect == Spec => []TypeOK
<1>1. Types => TypeOK
  BY TypeParts DEF Types
<1> QED
  BY InitTypes, NextTypes, <1>1, PTL DEF Spec
-----------------------------------------------------------------------------
(* The icon                                                                *)

\* The tray thread has an icon only while its loop runs; and a dashboard that waited long
\* enough knows whether there is such a thread.
TrayKnown ==
  /\ icon # None => tpc \in {"loop", "calling"}
  /\ ~gaveUp /\ kpc # "tray" /\ ~tray => tpc = "ended"
  /\ ~gaveUp /\ kpc = "ended" => tpc = "ended"

LEMMA TrayKnownNext == Types /\ TrayKnown /\ [Next]_vars => TrayKnown'
<1> SUFFICES ASSUME Types, TrayKnown, [Next]_vars PROVE TrayKnown'
  OBVIOUS
<1>0. TkTypes /\ TrayTypes
  BY DEF Types
<1>1. ASSUME UNCHANGED <<icon, tpc, tray, gaveUp>>, kpc # "tray", kpc' # "ended" PROVE TrayKnown'
  BY <1>1 DEF TrayKnown
<1>2. ASSUME UNCHANGED <<icon, tpc, tray, gaveUp, kpc>> PROVE TrayKnown'
  BY <1>2 DEF TrayKnown
<1>3. \/ SetField \/ ConnectNow \/ RequestExit \/ Ended \/ UNCHANGED vars
      \/ \E e \in Emitters : Emit(e) \/ EmitStep(e)
      => UNCHANGED <<icon, tpc, tray, gaveUp, kpc>>
  BY DEF SetField, ConnectNow, RequestExit, Ended, vars, tkVars, trayVars, Emit, EmitStep, Snapshot,
     Compare, Put, DropOldest, PutAgain
<1>4. ASSUME StartTray PROVE TrayKnown'
  BY <1>4 DEF StartTray, Ready, HasWindow, trayVars, TrayKnown
<1>5. ASSUME TakeNext \/ ShowSnapshot \/ PostUpdate PROVE TrayKnown'
  BY <1>1, <1>5 DEF TakeNext, ShowSnapshot, PostUpdate, Draining, InLoop, trayVars
<1>6. ASSUME StopTray PROVE TrayKnown'
  BY <1>6 DEF StopTray, InLoop, TrayKnown
<1>7. ASSUME JoinTray PROVE TrayKnown'
  BY <1>7 DEF JoinTray, trayVars, TrayKnown
<1>8. ASSUME ServeCall PROVE TrayKnown'
  BY <1>8 DEF ServeCall, InLoop, tkVars, TrayKnown
\* The tray thread, while the process lives.
<1>9. ASSUME TrayStep \/ Click \/ ExplorerRestarts PROVE TrayKnown'
  BY <1>0, <1>9 DEF TrayStep, CreateWindow, LoadIcon, AddIcon, UpdateIcon, CloseIcon, Deleted, Click,
     ExplorerRestarts, Alive, tkVars, TrayTypes, TrayKnown
<1> QED
  BY <1>2, <1>3, <1>4, <1>5, <1>6, <1>7, <1>8, <1>9 DEF Next, TkStep

\* A process that ends leaves no icon behind, unless it gave up waiting for its tray
\* thread: it joins the thread it knows of, which takes its icon with it.
THEOREM NoGhostIconHolds == Spec => []NoGhostIcon
<1>1. Init => TrayKnown
  BY DEF Init, TrayKnown
<1>2. TrayKnown => NoGhostIcon
  BY DEF TrayKnown, NoGhostIcon, Alive
<1> QED
  BY InitTypes, NextTypes, TrayKnownNext, <1>1, <1>2, PTL DEF Spec

-----------------------------------------------------------------------------
(* The newest snapshot                                                     *)

\* The newest snapshot is at the end of the queue, with the Tk thread or on the screen.
Newest ==
  IF queue # <<>> THEN queue[Len(queue)] = last
  ELSE IF latest # None THEN latest = last
  ELSE \/ shown \in {last, "retry", "leaving"}
       \/ last = None /\ shown = "starting"

\* Emissions that met each other are all crossed; one that met no other is alone.
Crossing == crossed = Active \/ (crossed = {} /\ \E e \in Emitters : Active = {e})

\* One that is alone delivers the last snapshot, and finds room when it makes room.
Delivers ==
  \A e \in Active \ crossed :
    /\ epc[e] \in {"put", "get", "again"} => copy[e] = last
    /\ epc[e] = "again" => Len(queue) < QueueSize

\* Without an overlap since, the newest is there unless it is just being delivered.
SettledNewest ==
  settled => crossed = {} /\ ((\A e \in Active : epc[e] = "compare") => Newest)

Delivery == Crossing /\ Delivers /\ SettledNewest

\* The steps of the Tk thread move the newest snapshot on.
LEMMA NewestSteps ==
  ASSUME Types, Newest,
         TakeNext \/ ShowSnapshot \/ ConnectNow \/ RequestExit
           \/ UNCHANGED <<queue, last, latest, shown>>
  PROVE  Newest'
<1>0. QueueTypes /\ TkTypes /\ None \notin Status
  BY DisplayAssumption DEF Types
<1>1. CASE TakeNext
  <2>1. /\ queue # <<>> /\ queue' = Tail(queue) /\ latest' = Head(queue)
        /\ UNCHANGED <<last, shown>>
    BY <1>1 DEF TakeNext
  <2>2. queue[Len(queue)] = last
    BY <2>1 DEF Newest
  <2>3. Head(queue) # None
    BY <1>0, <2>1, TailSteps
  <2>4. queue' # <<>> => queue'[Len(queue')] = last'
    BY <1>0, <2>1, <2>2, TailSteps
  <2>5. queue' = <<>> => latest' = last'
    BY <1>0, <2>1, <2>2, TailSteps
  <2> QED
    BY <2>1, <2>3, <2>4, <2>5 DEF Newest
<1>2. CASE ShowSnapshot
  BY <1>2 DEF ShowSnapshot, emitVars, Newest
<1>3. CASE ConnectNow \/ RequestExit
  BY <1>3 DEF ConnectNow, RequestExit, emitVars, Newest
<1>4. CASE UNCHANGED <<queue, last, latest, shown>>
  BY <1>4 DEF Newest
<1> QED
  BY <1>1, <1>2, <1>3, <1>4

LEMMA CrossingNext == Types /\ Crossing /\ [Next]_vars => Crossing'
<1> SUFFICES ASSUME Types, Crossing, [Next]_vars PROVE Crossing'
  OBVIOUS
<1>0. EmitTypes
  BY DEF Types
<1>1. CASE UNCHANGED <<status, changes, last, epc, copy, crossed, settled>>
  BY <1>1 DEF Crossing, Active
<1>2. ASSUME NEW e \in Emitters, SetField \/ Emit(e) PROVE Crossing'
  BY <1>0, <1>2, ActiveSteps DEF SetField, Emit, Crossing
<1>3. ASSUME NEW e \in Emitters, Snapshot(e) PROVE Crossing'
  <2>1. /\ Active' = Active \cup {e}
        /\ crossed' = IF Active = {} THEN crossed ELSE Active \cup {e}
    BY <1>0, <1>3, ActiveSteps DEF Snapshot
  <2>2. crossed \subseteq Active
    BY <1>0 DEF EmitTypes
  <2> QED
    BY <2>1, <2>2 DEF Crossing
<1>4. ASSUME NEW e \in Emitters, Done(e) PROVE Crossing'
  <2>1. Active' = Active \ {e} /\ crossed' = crossed \ {e}
    BY <1>0, <1>4, ActiveSteps DEF Done
  <2> QED
    BY <2>1 DEF Crossing
<1>5. ASSUME NEW e \in Active, NEW to \in Emitting, epc' = [epc EXCEPT ![e] = to], UNCHANGED crossed
      PROVE  Crossing'
  <2>1. Active' = Active
    BY <1>0, <1>5, ActiveSteps DEF Active
  <2> QED
    BY <1>5, <2>1 DEF Crossing
<1>6. ASSUME NEW e \in Emitters, Compare(e) \/ Put(e) \/ DropOldest(e) \/ PutAgain(e) PROVE Crossing'
  <2>1. e \in Active
    BY <1>6 DEF Compare, Put, DropOldest, PutAgain, Active
  <2>2. \/ Done(e)
        \/ \E to \in Emitting : epc' = [epc EXCEPT ![e] = to] /\ UNCHANGED crossed
    BY <1>6 DEF Compare, Put, DropOldest, PutAgain, Deliver, Overflow, Emitting
  <2> QED
    BY <1>4, <1>5, <2>1, <2>2
<1> QED
  BY <1>1, <1>2, <1>3, <1>6, WhoEmits, DisplayAssumption DEF EmitStep

\* What is not alone any more was active before, or is the one that begins.
LEMMA DeliversNext == Types /\ Delivery /\ [Next]_vars => Delivers'
<1> SUFFICES ASSUME Types, Delivery, [Next]_vars PROVE Delivers'
  OBVIOUS
<1>0. EmitTypes /\ QueueTypes /\ InHand /\ Crossing /\ Delivers
  BY DEF Types, Delivery
<1>a. /\ epc \in [Emitters -> {"idle", "snap"} \cup Emitting]
      /\ copy \in [Emitters -> Status \cup {None}]
      /\ Active = {e \in Emitters : epc[e] \in Emitting}
  BY <1>0 DEF EmitTypes, Active, Emitting
<1>b. \A e \in Active \ crossed : Active = {e}
  BY <1>0 DEF Crossing
<1>1. ASSUME UNCHANGED <<last, epc, copy, crossed>>, Len(queue') <= Len(queue) PROVE Delivers'
  <2>1. Len(queue) \in Nat /\ QueueTypes'
    BY <1>0, QueueTypesNext DEF Types, QueueTypes
  <2>2. Len(queue') \in Nat /\ QueueSize \in Nat
    BY <2>1, DisplayAssumption DEF QueueTypes
  <2> QED
    BY <1>0, <1>1, <2>1, <2>2 DEF Delivers, Active
<1>2. ASSUME NEW e \in Emitters, SetField \/ Emit(e) PROVE Delivers'
  <2>1. /\ Active' = Active /\ UNCHANGED <<last, copy, crossed, queue>>
        /\ \A f \in Active : epc'[f] = epc[f]
    BY <1>0, <1>2, <1>a, ActiveSteps DEF SetField, Emit, Emitting
  <2> QED
    BY <1>0, <2>1 DEF Delivers
<1>3. ASSUME NEW e \in Emitters, Snapshot(e) PROVE Delivers'
  <2>1. /\ Active' = Active \cup {e} /\ epc'[e] = "compare"
        /\ crossed' = IF Active = {} THEN crossed ELSE Active \cup {e}
    BY <1>0, <1>3, <1>a, ActiveSteps DEF Snapshot
  <2> QED
    BY <2>1 DEF Delivers
\* An emission that is alone; all others are crossed or none.
<1>4. ASSUME NEW e \in Active, Done(e) PROVE Delivers'
  <2>1. Active' = Active \ {e} /\ crossed' = crossed \ {e}
    BY <1>0, <1>4, <1>a, ActiveSteps DEF Done
  <2>2. Active' \ crossed' = {}
    BY <1>0, <1>b, <2>1 DEF Crossing
  <2> QED
    BY <2>2 DEF Delivers
<1>5. ASSUME NEW e \in Active, NEW to \in Emitting, epc' = [epc EXCEPT ![e] = to], UNCHANGED crossed,
             e \notin crossed => /\ to \in {"put", "get", "again"} => copy'[e] = last'
                                 /\ to = "again" => Len(queue') < QueueSize
      PROVE  Delivers'
  <2>1. Active' = Active
    BY <1>0, <1>5, <1>a, ActiveSteps
  <2>2. \A f \in Active' \ crossed' : f = e
    BY <1>5, <1>b, <2>1
  <2>3. epc'[e] = to
    BY <1>5, <1>a
  <2> QED
    BY <1>5, <2>2, <2>3 DEF Delivers
<1>6. ASSUME NEW e \in Emitters, Compare(e) PROVE Delivers'
  <2>1. e \in Active
    BY <1>6, <1>a DEF Compare, Emitting
  <2>2. CASE Done(e)
    BY <1>4, <2>1, <2>2
  <2>3. CASE ~Done(e)
    <3>1. /\ epc' = [epc EXCEPT ![e] = "put"] /\ UNCHANGED <<copy, crossed>> /\ last' = copy[e]
      BY <1>6, <2>3 DEF Compare
    <3> QED
      BY <1>5, <2>1, <3>1 DEF Emitting
  <2> QED
    BY <2>2, <2>3
<1>7. ASSUME NEW e \in Emitters, Put(e) PROVE Delivers'
  <2>1. e \in Active /\ epc[e] = "put" /\ UNCHANGED last
    BY <1>7, <1>a DEF Put, Emitting
  <2>2. CASE Done(e)
    BY <1>4, <2>1, <2>2
  <2>3. CASE ~Done(e)
    <3>1. epc' = [epc EXCEPT ![e] = "get"] /\ UNCHANGED <<copy, crossed>>
      BY <1>7, <2>3 DEF Put, Deliver, Overflow
    <3>2. e \notin crossed => copy[e] = last
      BY <1>0, <2>1 DEF Delivers
    <3> QED
      BY <1>5, <2>1, <3>1, <3>2 DEF Emitting
  <2> QED
    BY <2>2, <2>3
<1>8. ASSUME NEW e \in Emitters, DropOldest(e) PROVE Delivers'
  <2>1. e \in Active /\ epc[e] = "get" /\ UNCHANGED <<last, copy, crossed>>
        /\ epc' = [epc EXCEPT ![e] = "again"]
        /\ queue' = IF queue = <<>> THEN queue ELSE Tail(queue)
    BY <1>8, <1>a DEF DropOldest, Emitting
  <2>2. e \notin crossed => copy[e] = last
    BY <1>0, <2>1 DEF Delivers
  <2>3. Len(queue') < QueueSize
    <3>1. CASE queue = <<>>
      BY <2>1, <3>1, DisplayAssumption
    <3>2. CASE queue # <<>>
      <4>1. Len(queue') = Len(queue) - 1
        BY <1>0, <2>1, <3>2, TailSteps
      <4>2. Len(queue) \in Nat /\ Len(queue) <= QueueSize
        BY <1>0 DEF QueueTypes
      <4> QED
        BY <4>1, <4>2, DisplayAssumption
    <3> QED
      BY <3>1, <3>2
  <2> QED
    BY <1>5, <2>1, <2>2, <2>3 DEF Emitting
<1>9. ASSUME NEW e \in Emitters, PutAgain(e) PROVE Delivers'
  <2>1. e \in Active /\ Done(e)
    BY <1>9, <1>a DEF PutAgain, Deliver, Emitting
  <2> QED
    BY <1>4, <2>1
<1>10. ASSUME \/ TkStep \/ ConnectNow \/ ServeCall \/ RequestExit \/ StopTray \/ TrayStep \/ Click
              \/ ExplorerRestarts \/ Ended \/ UNCHANGED vars
       PROVE  Delivers'
  <2>1. UNCHANGED <<last, epc, copy, crossed>>
    BY <1>10 DEF TkStep, StartTray, TakeNext, ShowSnapshot, PostUpdate, JoinTray, ConnectNow, ServeCall,
       RequestExit, StopTray, TrayStep, CreateWindow, LoadIcon, AddIcon, UpdateIcon, CloseIcon, Click,
       ExplorerRestarts, Ended, vars, emitVars
  <2>2. UNCHANGED queue \/ (queue # <<>> /\ queue' = Tail(queue))
    BY <1>10 DEF TkStep, StartTray, TakeNext, ShowSnapshot, PostUpdate, JoinTray, ConnectNow, ServeCall,
       RequestExit, StopTray, TrayStep, CreateWindow, LoadIcon, AddIcon, UpdateIcon, CloseIcon, Click,
       ExplorerRestarts, Ended, vars, emitVars
  <2>3. Len(queue') <= Len(queue)
    <3>1. Len(queue) \in Nat
      BY <1>0 DEF QueueTypes
    <3> QED
      BY <1>0, <2>2, <3>1, TailSteps
  <2> QED
    BY <1>1, <2>1, <2>3
<1> QED
  BY <1>2, <1>3, <1>6, <1>7, <1>8, <1>9, <1>10, DisplayAssumption DEF Next, EmitStep

LEMMA SettledNewestNext == Types /\ Delivery /\ [Next]_vars => SettledNewest'
<1> SUFFICES ASSUME Types, Delivery, [Next]_vars PROVE SettledNewest'
  OBVIOUS
<1>0. EmitTypes /\ QueueTypes /\ InHand /\ Crossing /\ Delivers /\ SettledNewest
  BY DEF Types, Delivery
<1>a. /\ epc \in [Emitters -> {"idle", "snap"} \cup Emitting] /\ crossed \subseteq Active
      /\ Active = {e \in Emitters : epc[e] \in Emitting}
  BY <1>0 DEF EmitTypes, Active, Emitting
<1>b. \A e \in Active \ crossed : Active = {e}
  BY <1>0 DEF Crossing
<1>1. ASSUME UNCHANGED <<crossed, settled>>,
             (\A e \in Active' : epc'[e] = "compare") => (\A e \in Active : epc[e] = "compare"),
             TakeNext \/ ShowSnapshot \/ ConnectNow \/ RequestExit
               \/ UNCHANGED <<queue, last, latest, shown>>
      PROVE  SettledNewest'
  BY <1>0, <1>1, NewestSteps DEF SettledNewest
<1>2. ASSUME \/ TkStep \/ ConnectNow \/ ServeCall \/ RequestExit \/ StopTray \/ TrayStep \/ Click
             \/ ExplorerRestarts \/ Ended \/ UNCHANGED vars
      PROVE  SettledNewest'
  <2>1. UNCHANGED <<epc, crossed, settled>>
    BY <1>2 DEF TkStep, StartTray, TakeNext, ShowSnapshot, PostUpdate, JoinTray, ConnectNow, ServeCall,
       RequestExit, StopTray, TrayStep, CreateWindow, LoadIcon, AddIcon, UpdateIcon, CloseIcon, Click,
       ExplorerRestarts, Ended, vars, emitVars
  <2>2. TakeNext \/ ShowSnapshot \/ ConnectNow \/ RequestExit
               \/ UNCHANGED <<queue, last, latest, shown>>
    BY <1>2 DEF TkStep, StartTray, PostUpdate, JoinTray, ServeCall, StopTray, TrayStep, CreateWindow,
       LoadIcon, AddIcon, UpdateIcon, CloseIcon, Click, ExplorerRestarts, Ended, vars, emitVars, tkVars
  <2>3. (\A e \in Active' : epc'[e] = "compare") => (\A e \in Active : epc[e] = "compare")
    BY <2>1 DEF Active
  <2> QED
    BY <1>1, <2>1, <2>2, <2>3
<1>3. ASSUME NEW e \in Emitters, SetField \/ Emit(e) PROVE SettledNewest'
  <2>1. /\ Active' = Active /\ UNCHANGED <<crossed, settled, queue, last, latest, shown>>
        /\ \A f \in Active : epc'[f] = epc[f]
    BY <1>0, <1>3, <1>a, ActiveSteps DEF SetField, Emit, tkVars, Emitting
  <2> QED
    BY <1>1, <2>1
<1>4. ASSUME NEW e \in Emitters, Snapshot(e) PROVE SettledNewest'
  <2>1. /\ Active' = Active \cup {e} /\ settled' = (settled /\ Active = {})
        /\ crossed' = IF Active = {} THEN crossed ELSE Active \cup {e}
        /\ UNCHANGED <<queue, last, latest, shown>>
    BY <1>0, <1>4, ActiveSteps DEF Snapshot, tkVars
  <2>2. CASE Active = {}
    BY <1>0, <2>1, <2>2, NewestSteps DEF SettledNewest
  <2>3. CASE Active # {}
    BY <2>1, <2>3 DEF SettledNewest
  <2> QED
    BY <2>2, <2>3
\* The emission of one that is alone: it is the last, or it becomes the newest.
<1>5. ASSUME NEW e \in Emitters, Compare(e) PROVE SettledNewest'
  <2>1. e \in Active /\ epc[e] = "compare" /\ UNCHANGED <<queue, settled, latest, shown>>
    BY <1>5, <1>a DEF Compare, tkVars, Emitting
  <2>2. CASE Done(e)
    <3>1. UNCHANGED last /\ crossed' = crossed \ {e}
      BY <1>5, <1>a, <2>1, <2>2 DEF Compare, Done
    <3>2. settled => crossed = {} /\ Active = {e}
      BY <1>0, <1>b, <2>1 DEF SettledNewest
    <3>3. settled => Newest
      BY <1>0, <2>1, <3>2 DEF SettledNewest
    <3>4. Newest => Newest'
      BY <2>1, <3>1, NewestSteps
    <3> QED
      BY <2>1, <3>1, <3>2, <3>3, <3>4 DEF SettledNewest
  <2>3. CASE ~Done(e)
    <3>1. epc' = [epc EXCEPT ![e] = "put"] /\ UNCHANGED crossed
      BY <1>5, <2>3 DEF Compare
    <3>2. e \in Active' /\ epc'[e] = "put"
      BY <1>a, <2>1, <3>1 DEF Active, Emitting
    <3> QED
      BY <1>0, <2>1, <3>1, <3>2 DEF SettledNewest
  <2> QED
    BY <2>2, <2>3
<1>6. ASSUME NEW e \in Active, epc[e] \in {"put", "again"}, UNCHANGED <<last, latest, shown>>,
             ~Full, Deliver(e)
      PROVE  SettledNewest'
  <2>1. /\ settled' = (settled \/ e \notin crossed) /\ crossed' = crossed \ {e}
        /\ queue' # <<>> /\ queue'[Len(queue')] = copy[e]
    BY <1>0, <1>6, DeliverSteps DEF Deliver, Done
  <2>2. settled' => e \notin crossed
    BY <1>0, <2>1 DEF SettledNewest
  <2>3. e \notin crossed => Active = {e} /\ copy[e] = last
    BY <1>0, <1>6, <1>b DEF Delivers
  <2>4. settled' => Newest'
    BY <1>6, <2>1, <2>2, <2>3 DEF Newest
  <2> QED
    BY <1>a, <2>1, <2>2, <2>3, <2>4 DEF SettledNewest
<1>7. ASSUME NEW e \in Active, UNCHANGED <<crossed, settled>>,
             \E to \in {"get", "again"} : epc' = [epc EXCEPT ![e] = to]
      PROVE  SettledNewest'
  <2>1. e \in Active' /\ epc'[e] # "compare"
    BY <1>7, <1>a DEF Active, Emitting
  <2> QED
    BY <1>0, <1>7, <2>1 DEF SettledNewest
<1>8. ASSUME NEW e \in Emitters, Put(e) PROVE SettledNewest'
  <2>1. e \in Active /\ epc[e] = "put" /\ UNCHANGED <<last, latest, shown>>
    BY <1>8, <1>a DEF Put, tkVars, Emitting
  <2>2. \/ ~Full /\ Deliver(e)
        \/ epc' = [epc EXCEPT ![e] = "get"] /\ UNCHANGED <<crossed, settled>>
    BY <1>8 DEF Put, Overflow
  <2> QED
    BY <1>6, <1>7, <2>1, <2>2
<1>9. ASSUME NEW e \in Emitters, DropOldest(e) PROVE SettledNewest'
  <2>1. e \in Active /\ UNCHANGED <<crossed, settled>> /\ epc' = [epc EXCEPT ![e] = "again"]
    BY <1>9, <1>a DEF DropOldest, Emitting
  <2> QED
    BY <1>7, <2>1
\* The second put_nowait fails only where another thread has taken the room.
<1>10. ASSUME NEW e \in Emitters, PutAgain(e) PROVE SettledNewest'
  <2>1. e \in Active /\ epc[e] = "again" /\ UNCHANGED <<last, latest, shown>>
    BY <1>10, <1>a DEF PutAgain, tkVars, Emitting
  <2>2. CASE ~Full
    BY <1>6, <1>10, <2>1, <2>2 DEF PutAgain
  <2>3. CASE Full
    <3>1. ~(Len(queue) < QueueSize)
      BY <1>0, <2>3, DisplayAssumption DEF QueueTypes, Full
    <3>2. e \in crossed
      BY <1>0, <2>1, <3>1 DEF Delivers
    <3>3. ~settled /\ UNCHANGED settled
      BY <1>0, <1>10, <2>3, <3>2 DEF SettledNewest, PutAgain
    <3> QED
      BY <3>3 DEF SettledNewest
  <2> QED
    BY <2>2, <2>3
<1> QED
  BY <1>2, <1>3, <1>4, <1>5, <1>8, <1>9, <1>10, DisplayAssumption DEF Next, EmitStep

LEMMA DeliveryNext == Types /\ Delivery /\ [Next]_vars => Delivery'
BY CrossingNext, DeliversNext, SettledNewestNext DEF Delivery

\* De-duplication, the queue that drops the oldest and the drain together lose nothing
\* that matters: unless emissions of two threads overlapped, the newest snapshot is in
\* the queue, with the Tk thread or on the screen, and one delivery that meets no other
\* puts this right again. An emission that is alone finds room after it made room.
THEOREM NewestDeliveredHolds == Spec => []NewestDelivered
<1>1. Init => Delivery
  <2> SUFFICES ASSUME Init PROVE Delivery
    OBVIOUS
  <2>1. Active = {} /\ crossed = {} /\ Newest
    BY DEF Init, Active, Newest
  <2> QED
    BY <2>1 DEF Delivery, Crossing, Delivers, SettledNewest
<1>2. Delivery => NewestDelivered
  BY DEF Delivery, SettledNewest, Newest, NewestDelivered
<1> QED
  BY InitTypes, NextTypes, DeliveryNext, <1>1, <1>2, PTL DEF Spec
=============================================================================
