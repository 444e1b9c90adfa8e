----------------------------- MODULE InputPath -----------------------------
(***************************************************************************)
(* The data path of a bridge run: SpaceMouse reports merged by reports.py, *)
(* edges found by detector.py, and the key and joystick notifications that *)
(* bridge.py sends for them, up to what Codex believes to be pressed.  The *)
(* loop is the one of run_bridge in runtime.py; a run that has ended is    *)
(* followed by another with a new detector and a new dispatcher, while     *)
(* Codex keeps what it was told.                                           *)
(*                                                                         *)
(* The path is one thread.  A step is a report with the edges it makes, an *)
(* event given to the dispatcher, or one notification.  Axes are numbered  *)
(* in the order of their names, which decides ties (rx is the first, tz    *)
(* the last); a control is an axis with a sign, or <<0, bit + 1>> for a    *)
(* button.  Magnitudes are small numbers in place of 16-bit ones: only     *)
(* their order, their sign and the ratio are looked at.  Operators whose   *)
(* name ends in X are mutated forms of the definition after them.          *)
(***************************************************************************)
EXTENDS Integers, Sequences, SequencesExt

CONSTANTS
  RotationAxes, TranslationAxes,  \* the axes of a rotation and a translation report
  None,                           \* Python's None
  Press, Release,                 \* press_threshold, release_threshold
  RatioNum, RatioDen,             \* dominance_ratio, as a fraction
  Delay,                          \* activation_delay
  Limit,                          \* bound: the largest deflection
  MaxGap,                         \* bound: time between two reports
  Assignments,                    \* the values config.assignments may have
  SendsFail                       \* whether a notification may fail

Axes     == RotationAxes \cup TranslationAxes
Buttons  == {<<0, 1>>, <<0, 2>>}
AxisControls == Axes \X {1, -1}
Controls == AxisControls \cup Buttons

\* MappingConfig.validate(), and the checks of InputDetector.__init__
ASSUME AxesAssumption == Axes \subseteq 1..6 /\ (\E a, b \in Axes : a # b)
                         /\ RotationAxes \cap TranslationAxes = {}
ASSUME ThresholdAssumption == Press \in Nat \ {0} /\ Release \in 0..Press - 1
ASSUME RatioAssumption == RatioDen \in Nat \ {0} /\ RatioNum \in Nat /\ RatioNum >= RatioDen
ASSUME TimeAssumption  == Delay \in Nat /\ MaxGap \in Nat /\ Limit \in Nat
ASSUME SendAssumption  == SendsFail \in BOOLEAN

\* TARGET_ACTIONS with the codes that are held as long as the control is
HeldCodes ==
  [agent_1 |-> <<"AG00">>, agent_2 |-> <<"AG01">>, agent_3 |-> <<"AG02">>,
   agent_4 |-> <<"AG03">>, agent_5 |-> <<"AG04">>, agent_6 |-> <<"AG05">>,
   fast |-> <<"ACT06">>, ok |-> <<"ACT07">>, ng |-> <<"ACT08">>, new_chat |-> <<"ACT09">>,
   mic_ptt |-> <<"ACT10", "ACT11">>, send |-> <<"ACT12">>]
AgentCodes == <<"AG00", "AG01", "AG02", "AG03", "AG04", "AG05">>
AgentSteps == [agent_previous |-> -1, agent_next |-> 1]
Encoders   == [encoder_cw |-> "ENC_CW", encoder_ccw |-> "ENC_CC"]
Joystick   == {"analog_up", "analog_right", "analog_down", "analog_left"}
Actions    == DOMAIN HeldCodes \cup DOMAIN AgentSteps \cup DOMAIN Encoders
              \cup Joystick \cup {"unassigned"}

Elements(q) == {q[i] : i \in DOMAIN q}
Codes       == UNION {Elements(HeldCodes[k]) : k \in DOMAIN HeldCodes}

\* A notification has a code and an act, or the direction and distance of the joystick.
Notifications ==
  [code : Codes \cup Joystick, act : {0, 1}] \cup [code : {"ENC_CW", "ENC_CC"}, act : {2}]

ASSUME NoneAssumption == None \notin Controls \cup Joystick
ASSUME MappingAssumption == Assignments \subseteq [Controls -> Actions]

VARIABLES
  assignment,          \* config.assignments
  axes, buttons,       \* SpaceMouseState
  active, axisControl, \* _active, _active_axis_control
  candidate, waited,   \* _candidate, and the time since _candidate_since up to Delay
  pending,             \* events of the report that are not dispatched yet
  held,                \* the keys of _held_codes, in the order of their insertion
  visited,             \* how many of them the loop of release_all() has visited
  agent,               \* agent_index
  sends,               \* notifications of the call under way
  phase,               \* "loop", "release" (release_all) or "over"
  down, stick,         \* what Codex believes: codes pressed, joystick deflection
  leader, lead,        \* dominant control of the last reports, and for how long (history)
  lost,                \* the notification of a release was not delivered (history)
  adrift               \* the joystick was left deflected by a former run (history)

device   == <<axes, buttons>>
detector == <<active, axisControl, candidate, waited>>
codex    == <<down, stick>>
history  == <<leader, lead>>
vars     == <<assignment, device, detector, pending, held, visited, agent, sends, phase, codex,
              history, lost, adrift>>

-----------------------------------------------------------------------------
(* The detector                                                            *)

Abs(n) == IF n < 0 THEN -n ELSE n
Lesser(m, n) == IF m < n THEN m ELSE n

\* signed_magnitude of an axis control
Along(s, c) == c[2] * s[c[1]]

\* ranked[0] and ranked[1]
Strongest(s) ==
  CHOOSE a \in Axes : \A b \in Axes \ {a} :
    Abs(s[b]) < Abs(s[a]) \/ (Abs(s[b]) = Abs(s[a]) /\ b < a)
Second(s) == CHOOSE m \in {Abs(s[b]) : b \in Axes \ {Strongest(s)}} :
               \A b \in Axes \ {Strongest(s)} : Abs(s[b]) <= m

\* The control that stands out, or None
Dominant(s) ==
  LET a == Strongest(s)
  IN  IF Abs(s[a]) >= Press /\ (Second(s) > 0 => Abs(s[a]) * RatioDen >= Second(s) * RatioNum)
      THEN <<a, IF s[a] >= 0 THEN 1 ELSE -1>>
      ELSE None

Edge(c, p) == [control |-> c, pressed |-> p]

\* signed_magnitude >= self.release_threshold
StillHeldX(s) == Along(s, axisControl) >= 0
StillHeld(s)  == Along(s, axisControl) >= Release

NoCandidateX == UNCHANGED <<candidate, waited>>
NoCandidate  == candidate' = None /\ waited' = 0

\* _update_axes() of the axes s, d after the report before.
KeepLock(s) ==
  /\ axisControl # None /\ StillHeld(s)
  /\ UNCHANGED <<axisControl, candidate, waited>>

Unlock(s) ==
  /\ axisControl # None /\ ~StillHeld(s)
  /\ axisControl' = None /\ candidate' = None /\ waited' = 0

Ambiguous(s) ==
  /\ axisControl = None /\ Dominant(s) = None
  /\ NoCandidate /\ UNCHANGED axisControl

\* How long the dominant control will have been the candidate
Waited(s, d) == IF Dominant(s) = candidate THEN Lesser(waited + d, Delay) ELSE 0

Wait(s, d) ==
  /\ axisControl = None /\ Dominant(s) # None /\ Waited(s, d) < Delay
  /\ candidate' = Dominant(s) /\ waited' = Waited(s, d) /\ UNCHANGED axisControl

Lock(s, d) ==
  /\ axisControl = None /\ Dominant(s) # None /\ Waited(s, d) = Delay
  /\ axisControl' = Dominant(s) /\ candidate' = None /\ waited' = 0

UpdateAxes(s, d) == KeepLock(s) \/ Unlock(s) \/ Ambiguous(s) \/ Wait(s, d) \/ Lock(s, d)

\* The event that _update_axes() returns for a change of the lock from c to d
AxisEvents(c, d) ==
  IF c = d THEN <<>> ELSE IF c = None THEN <<Edge(d, TRUE)>> ELSE <<Edge(c, FALSE)>>

\* The loop over BUTTONS: an edge for each button that changed, the left one first.
ButtonEventsX(b) ==
  LET edge(c) == IF c \in b \cup active THEN <<Edge(c, c \in b)>> ELSE <<>>
  IN  edge(<<0, 1>>) \o edge(<<0, 2>>)
ButtonEvents(b) ==
  LET edge(c) == IF (c \in b) # (c \in active) THEN <<Edge(c, c \in b)>> ELSE <<>>
  IN  edge(<<0, 1>>) \o edge(<<0, 2>>)

\* _active after the events es
Recorded(es) ==
  {c \in Controls : IF \E i \in DOMAIN es : es[i].control = c
                    THEN \E i \in DOMAIN es : es[i] = Edge(c, TRUE)
                    ELSE c \in active}

-----------------------------------------------------------------------------
(* The loop of run_bridge                                                  *)

Between == phase = "loop" /\ pending = <<>> /\ sends = <<>>

\* A report that leads to the axes s and the buttons b, and update() of them.
Report(s, b) ==
  /\ Between
  /\ axes' = s /\ buttons' = b
  /\ \E d \in 0..MaxGap :
       /\ UpdateAxes(s, d)
       /\ leader' = Dominant(s)
       /\ lead' = IF leader' # None /\ leader' = leader THEN Lesser(lead + d, Delay) ELSE 0
  /\ pending' = AxisEvents(axisControl, axisControl') \o ButtonEvents(b)
  /\ active' = Recorded(pending')
  /\ UNCHANGED <<assignment, held, visited, agent, sends, phase, codex, lost, adrift>>

\* A report has the axes of one kind, or the buttons; parse_report merges it into
\* the state.  One that cannot be parsed is skipped.
Moved(as) == {[a \in Axes |-> IF a \in as THEN v[a] ELSE axes[a]] : v \in [as -> -Limit..Limit]}

TranslationReport == \E s \in Moved(TranslationAxes) : Report(s, buttons)
RotationReport    == \E s \in Moved(RotationAxes) : Report(s, buttons)
ButtonReport      == \E b \in SUBSET Buttons : Report(axes, b)

\* The loop's locals are dead when it is left: they take the values they have at the
\* start of the next run.
Leave ==
  /\ axes' = [a \in Axes |-> 0] /\ buttons' = {}
  /\ active' = {} /\ axisControl' = None /\ candidate' = None /\ waited' = 0
  /\ agent' = 0 /\ leader' = None /\ lead' = 0

\* The stop event is seen between two reports, or reading the device raises.
LeaveLoop ==
  /\ Between /\ phase' = "release" /\ Leave
  /\ UNCHANGED <<assignment, pending, held, visited, sends, codex, lost, adrift>>

-----------------------------------------------------------------------------
(* The dispatcher                                                          *)

Key(code, act) == [code |-> code, act |-> act]
KeysX(codes, act) == [i \in DOMAIN codes |-> Key(codes[i], act + 1)]
Keys(codes, act) == [i \in DOMAIN codes |-> Key(codes[i], act)]

\* act and distance of an event
ActX(e) == IF e.pressed THEN 0 ELSE 1
Act(e)  == IF e.pressed THEN 1 ELSE 0

\* _held_codes[control] = codes, and _held_codes.pop(control, codes)
HoldX(c) == held
Hold(c)  == IF c \in Elements(held) THEN held ELSE Append(held, c)
Drop(c)  == RemoveFirst(held, c)

\* The branches of dispatch(): what is kept, and what is sent.
HeldAction(e, k) ==
  /\ k \in DOMAIN HeldCodes
  /\ held' = IF e.pressed THEN Hold(e.control) ELSE Drop(e.control)
  /\ sends' = Keys(HeldCodes[k], Act(e))
  /\ UNCHANGED agent

AgentAction(e, k) ==
  /\ k \in DOMAIN AgentSteps /\ e.pressed
  /\ agent' = (agent + AgentSteps[k]) % 6
  /\ sends' = Keys(<<AgentCodes[agent' + 1]>>, 1) \o Keys(<<AgentCodes[agent' + 1]>>, 0)
  /\ UNCHANGED held

EncoderAction(e, k) ==
  /\ k \in DOMAIN Encoders /\ e.pressed
  /\ sends' = <<Key(Encoders[k], 2)>>
  /\ UNCHANGED <<held, agent>>

JoystickAction(e, k) ==
  /\ k \in Joystick
  /\ sends' = <<Key(k, Act(e))>>
  /\ UNCHANGED <<held, agent>>

NoAction(e, k) ==
  /\ k = "unassigned" \/ (~e.pressed /\ k \in DOMAIN AgentSteps \cup DOMAIN Encoders)
  /\ UNCHANGED <<held, agent, sends>>

Dispatch ==
  /\ phase = "loop" /\ pending # <<>> /\ sends = <<>>
  /\ LET e == Head(pending)
         k == assignment[e.control]
     IN  HeldAction(e, k) \/ AgentAction(e, k) \/ EncoderAction(e, k) \/ JoystickAction(e, k)
         \/ NoAction(e, k)
  /\ pending' = Tail(pending)
  /\ UNCHANGED <<assignment, device, detector, visited, phase, codex, history, lost, adrift>>

\* send_key(code, act) and send_joystick(angle, distance), as Codex takes them
Receive(n) ==
  \/ /\ n.code \in Joystick
     /\ stick' = (IF n.act = 1 THEN n.code ELSE None) /\ adrift' = FALSE
     /\ UNCHANGED down
  \/ /\ n.code \in Codes
     /\ down' = IF n.act = 1 THEN down \cup {n.code} ELSE down \ {n.code}
     /\ UNCHANGED <<stick, adrift>>
  \/ n.code \notin Joystick \cup Codes /\ UNCHANGED <<codex, adrift>>

SendNext ==
  /\ sends # <<>> /\ sends' = Tail(sends)
  /\ Receive(Head(sends))
  /\ UNCHANGED <<assignment, device, detector, pending, held, visited, agent, phase, history,
                 lost>>

\* A write raises: the rest of the call and of the report's events is skipped, and
\* the finally clause runs release_all(), or was running it.
SendFails ==
  /\ SendsFail /\ sends # <<>> /\ sends' = <<>> /\ pending' = <<>>
  /\ phase' = IF phase = "loop" THEN "release" ELSE "over"
  /\ Leave
  /\ lost' = (lost \/ Head(sends).act = 0)
  /\ adrift' = (adrift \/ Head(sends).code \in Joystick)
  /\ UNCHANGED <<assignment, held, visited, codex>>

\* release_all(): the codes of the next held control, in the order of the dictionary.
ReleaseAll ==
  /\ phase = "release" /\ sends = <<>> /\ visited < Len(held)
  /\ visited' = visited + 1
  /\ sends' = Keys(HeldCodes[assignment[held[visited']]], 0)
  /\ UNCHANGED <<assignment, device, detector, pending, held, agent, phase, codex, history, lost,
                 adrift>>

\* _held_codes.clear()
EndRun ==
  /\ phase = "release" /\ sends = <<>> /\ visited = Len(held) /\ phase' = "over"
  /\ held' = <<>> /\ visited' = 0
  /\ UNCHANGED <<assignment, device, detector, pending, agent, sends, codex, history, lost, adrift>>

\* run_bridge() is called again.  (Of a Codex that missed a release nothing is claimed
\* any more; such a behaviour is followed to the end of the run.)
NewRun ==
  /\ phase = "over" /\ phase' = "loop" /\ ~lost
  /\ assignment' \in Assignments
  /\ held' = <<>> /\ visited' = 0
  /\ adrift' = (adrift \/ stick # None)
  /\ UNCHANGED <<device, detector, pending, agent, sends, codex, history, lost>>

Init ==
  /\ assignment \in Assignments
  /\ axes = [a \in Axes |-> 0] /\ buttons = {}
  /\ active = {} /\ axisControl = None /\ candidate = None /\ waited = 0
  /\ pending = <<>> /\ held = <<>> /\ visited = 0 /\ agent = 0 /\ sends = <<>>
  /\ phase = "loop"
  /\ down = {} /\ stick = None
  /\ leader = None /\ lead = 0 /\ lost = FALSE /\ adrift = FALSE

Next ==
  \/ TranslationReport \/ RotationReport \/ ButtonReport \/ LeaveLoop
  \/ Dispatch \/ SendNext \/ SendFails \/ ReleaseAll \/ EndRun \/ NewRun

Spec == Init /\ [][Next]_vars

-----------------------------------------------------------------------------
(* Properties                                                              *)

\* Every field of the detector and the dispatcher has its type.
TypeOK ==
  /\ assignment \in Assignments
  /\ axes \in [Axes -> -Limit..Limit] /\ buttons \subseteq Buttons
  /\ active \subseteq Controls /\ axisControl \in AxisControls \cup {None}
  /\ candidate \in AxisControls \cup {None} /\ waited \in 0..Delay
  /\ pending \in Seq([control : Controls, pressed : BOOLEAN])
  /\ held \in Seq(Controls) /\ visited \in 0..Len(held) /\ agent \in 0..5
  /\ sends \in Seq(Notifications)
  /\ phase \in {"loop", "release", "over"}
  /\ down \subseteq Codes /\ stick \in Joystick \cup {None}
  /\ leader \in AxisControls \cup {None} /\ lead \in 0..Delay
  /\ lost \in BOOLEAN /\ adrift \in BOOLEAN

\* The codes an action can press
CodesOf(k) ==
  IF k \in DOMAIN HeldCodes THEN Elements(HeldCodes[k])
  ELSE IF k \in DOMAIN AgentSteps THEN Elements(AgentCodes) ELSE {}

\* The assignments in which no two controls that can be active together share a code
\* or the joystick
Together(b, c) == b # c /\ ~(b \in AxisControls /\ c \in AxisControls)
SeparateAssignments ==
  {a \in Assignments : \A b, c \in Controls : Together(b, c) =>
     /\ CodesOf(a[b]) \cap CodesOf(a[c]) = {}
     /\ ~(a[b] \in Joystick /\ a[c] \in Joystick)}
Separate == assignment \in SeparateAssignments

Wanted == UNION {CodesOf(assignment[c]) : c \in {b \in active : assignment[b] \in DOMAIN HeldCodes}}

\* "Only the strongest axis can become active, and it must remain dominant briefly"
\* (detector.py:32-33): a direction that becomes active stood out in every report for
\* activation_delay, whatever was released, held or ambiguous in between.
SettledBeforePress ==
  [][phase = "loop" /\ phase' = "loop" =>
       \A c \in AxisControls \cap (active' \ active) : leader' = c /\ lead' = Delay]_vars

\* One axis at a time (CALIBRATION.md:29), and it is the one the lock is on, also while
\* the events of a report are still under way; and "locked until the control returns
\* near centre" (detector.py:33-34): with every axis at rest none is, unless the UP
\* threshold is 0, which a deflection of 0 still reaches (detector.py:86).
AxisLock ==
  /\ active \cap AxisControls = {axisControl} \ {None}
  /\ Release > 0 /\ (\A a \in Axes : axes[a] = 0) => axisControl = None

\* Between reports Codex believes pressed exactly the codes of the active controls, as
\* long as no two of them share a code.
KeysMatch == Between /\ Separate /\ ~lost => down = Wanted

\* ... and it has the joystick where the active control has it.
StickMatches ==
  Between /\ Separate /\ ~adrift =>
    {stick} \ {None} = {assignment[c] : c \in active} \cap Joystick

\* With a mapping whose controls share no code, and as long as no notification of a
\* release was lost, a code is pressed only when it is up and released only when it is
\* down: Codex sees keys as from a keyboard, in the middle of a dispatch as well.
Alternates ==
  [][sends # <<>> /\ sends' = Tail(sends) /\ Separate /\ ~lost /\ phase = "loop" =>
       LET n == Head(sends)
       IN  n.code \in Codes => (n.act = 1 <=> n.code \notin down)]_vars

\* When a run is over nothing is pressed, whatever was mapped to what and whichever
\* notification failed, unless it was one that releases.
NothingStuck == phase = "over" /\ ~lost => down = {}

\* "入力を解放し" (release_app.py:366) is what the window says of an exit: the joystick
\* is released with the keys.
StickCentred == phase = "over" /\ ~adrift => stick = None
=============================================================================
