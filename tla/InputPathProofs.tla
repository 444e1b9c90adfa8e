--------------------------- MODULE InputPathProofs ---------------------------
(***************************************************************************)
(* Theorems about InputPath, for any axes, thresholds, delay and mapping.  *)
(***************************************************************************)
EXTENDS InputPath, WellFoundedInduction, SequenceTheorems, TLAPS

-----------------------------------------------------------------------------
(* The operators of the detector                                           *)

AxesStates == [Axes -> -Limit..Limit]

LEMMA AbsSteps == \A n \in Int : Abs(n) \in Nat /\ (n >= 0 => Abs(n) = n) /\ (n < 0 => Abs(n) = -n)
BY DEF Abs

\* A set of numbers has a least one.
LEMMA LeastNumber ==
  ASSUME NEW S, S \subseteq Nat, S # {}
  PROVE  \E m \in S : \A n \in S : m <= n
<1>1. \E R : IsWellFoundedOn(R, Nat) /\ \A x, y \in Nat : <<x, y>> \in R <=> x < y
  <2>1. \A x, y \in Nat : <<x, y>> \in OpToRel(<, Nat) <=> x < y
    BY DEF OpToRel
  <2> QED
    BY <2>1, NatLessThanWellFounded
<1>2. PICK R : IsWellFoundedOn(R, Nat) /\ \A x, y \in Nat : <<x, y>> \in R <=> x < y
  BY <1>1
<1>3. IsWellFoundedOn(R, Nat)
  BY <1>2
<1>4. \E m \in S : \A n \in S : ~ (<<n, m>> \in R)
  BY <1>3, WFMin
<1>5. PICK m \in S : \A n \in S : ~ (<<n, m>> \in R)
  BY <1>4
<1>6. ASSUME NEW n \in S PROVE m <= n
  <2>1. m \in Nat /\ n \in Nat
    OBVIOUS
  <2>2. ~ (<<n, m>> \in R) /\ (<<n, m>> \in R <=> n < m)
    BY <1>2, <1>5, <2>1
  <2> QED
    BY <2>1, <2>2
<1> QED
  BY <1>6

\* A deflection has an axis of the largest magnitude, the last one of several.
LEMMA StrongestIsAxis ==
  ASSUME NEW s \in AxesStates
  PROVE  Strongest(s) \in Axes
<1>1. Axes \subseteq 1..6 /\ Axes # {} /\ Limit \in Nat
  BY AxesAssumption, TimeAssumption
<1>2. \A a \in Axes : Abs(s[a]) \in Nat /\ Abs(s[a]) <= Limit
  BY <1>1 DEF AxesStates, Abs
<1> DEFINE Slack == {Limit - Abs(s[a]) : a \in Axes}
<1>3. Slack \subseteq Nat /\ Slack # {}
  <2>1. \A a \in Axes : Limit - Abs(s[a]) \in Nat
    BY <1>1, <1>2
  <2> QED
    BY <1>1, <2>1
<1>4. PICK m \in Slack : \A n \in Slack : m <= n
  <2> HIDE DEF Slack
  <2> QED
    BY <1>3, LeastNumber
<1> DEFINE Behind == {6 - a : a \in {b \in Axes : Limit - Abs(s[b]) = m}}
<1>5. Behind \subseteq Nat /\ Behind # {}
  BY <1>1, <1>4
<1>6. PICK k \in Behind : \A n \in Behind : k <= n
  <2> HIDE DEF Behind
  <2> QED
    BY <1>5, LeastNumber
<1>7. PICK a \in Axes : Limit - Abs(s[a]) = m /\ k = 6 - a
  BY <1>6
<1>8. ASSUME NEW b \in Axes \ {a}
      PROVE  Abs(s[b]) < Abs(s[a]) \/ (Abs(s[b]) = Abs(s[a]) /\ b < a)
  <2>1. m <= Limit - Abs(s[b])
    BY <1>4
  <2>2. Limit - Abs(s[b]) = m => 6 - a <= 6 - b
    BY <1>6, <1>7
  <2>3. a \in 1..6 /\ b \in 1..6 /\ a # b
    BY <1>1
  <2> QED
    BY <1>1, <1>2, <1>7, <2>1, <2>2, <2>3
<1> QED
  BY <1>8 DEF Strongest

\* What stands out is an axis with a sign, deflected at least to the DOWN threshold.
LEMMA DominantIsControl ==
  ASSUME NEW s \in AxesStates, Dominant(s) # None
  PROVE  Dominant(s) \in AxisControls /\ Along(s, Dominant(s)) >= Press
<1> DEFINE a == Strongest(s)
<1>1. a \in Axes /\ s[a] \in Int
  BY StrongestIsAxis, TimeAssumption DEF AxesStates
<1>2. /\ Dominant(s) = <<a, IF s[a] >= 0 THEN 1 ELSE -1>>
      /\ Abs(s[a]) >= Press
  BY DEF Dominant
<1>3. Along(s, Dominant(s)) = Abs(s[a])
  BY <1>1, <1>2, AbsSteps DEF Along
<1> QED
  BY <1>1, <1>2, <1>3 DEF AxisControls

\* Axes and buttons are different controls, and None is neither.
LEMMA ControlsApart == AxisControls \cap Buttons = {} /\ None \notin Controls /\ None \notin Joystick
<1>1. \A c \in AxisControls : c[1] \in 1..6
  BY AxesAssumption DEF AxisControls
<1>2. \A c \in Buttons : c[1] = 0
  BY DEF Buttons
<1> QED
  BY <1>1, <1>2, NoneAssumption

-----------------------------------------------------------------------------
(* The operators of the dispatcher                                         *)

LEMMA HeldKeys ==
  DOMAIN HeldCodes = {"agent_1", "agent_2", "agent_3", "agent_4", "agent_5", "agent_6", "fast",
                      "ok", "ng", "new_chat", "mic_ptt", "send"}
BY DEF HeldCodes

\* The codes of keys that some action holds
KeyCodes == {"AG00", "AG01", "AG02", "AG03", "AG04", "AG05", "ACT06", "ACT07", "ACT08", "ACT09",
             "ACT10", "ACT11", "ACT12"}

LEMMA HeldValues ==
  ASSUME NEW k \in DOMAIN HeldCodes
  PROVE  HeldCodes[k] \in Seq(KeyCodes)
<1>1. CASE k = "mic_ptt"
  <2>1. HeldCodes[k] = <<"ACT10", "ACT11">>
    BY <1>1 DEF HeldCodes
  <2> QED
    BY <2>1 DEF KeyCodes
<1>2. CASE k # "mic_ptt"
  <2>1. \E c \in KeyCodes : HeldCodes[k] = <<c>>
    <3>1. /\ HeldCodes["agent_1"] = <<"AG00">> /\ HeldCodes["agent_2"] = <<"AG01">>
          /\ HeldCodes["agent_3"] = <<"AG02">> /\ HeldCodes["agent_4"] = <<"AG03">>
          /\ HeldCodes["agent_5"] = <<"AG04">> /\ HeldCodes["agent_6"] = <<"AG05">>
          /\ HeldCodes["fast"] = <<"ACT06">> /\ HeldCodes["ok"] = <<"ACT07">>
          /\ HeldCodes["ng"] = <<"ACT08">> /\ HeldCodes["new_chat"] = <<"ACT09">>
          /\ HeldCodes["send"] = <<"ACT12">>
      BY DEF HeldCodes
    <3> QED
      BY <1>2, <3>1, HeldKeys DEF KeyCodes
  <2>2. PICK c \in KeyCodes : HeldCodes[k] = <<c>>
    BY <2>1
  <2> QED
    BY <2>2
<1> QED
  BY <1>1, <1>2

LEMMA HeldCodesAreCodes ==
  ASSUME NEW k \in DOMAIN HeldCodes
  PROVE  HeldCodes[k] \in Seq(Codes) /\ Elements(HeldCodes[k]) \subseteq Codes
<1>1. Elements(HeldCodes[k]) \subseteq Codes
  BY DEF Codes
<1>2. HeldCodes[k] \in Seq(KeyCodes)
  BY HeldValues
<1>3. \A i \in 1..Len(HeldCodes[k]) : HeldCodes[k][i] \in Codes
  BY <1>1, <1>2 DEF Elements
<1> QED
  BY <1>1, <1>2, <1>3

LEMMA AgentCodesAreCodes == \A i \in 1..6 : AgentCodes[i] \in Codes
<1>1. /\ HeldCodes["agent_1"] = <<"AG00">> /\ HeldCodes["agent_2"] = <<"AG01">>
      /\ HeldCodes["agent_3"] = <<"AG02">> /\ HeldCodes["agent_4"] = <<"AG03">>
      /\ HeldCodes["agent_5"] = <<"AG04">> /\ HeldCodes["agent_6"] = <<"AG05">>
  BY DEF HeldCodes
<1>2. \A k \in {"agent_1", "agent_2", "agent_3", "agent_4", "agent_5", "agent_6"} :
         HeldCodes[k][1] \in Codes
  <2> SUFFICES ASSUME NEW k \in {"agent_1", "agent_2", "agent_3", "agent_4", "agent_5", "agent_6"}
               PROVE  HeldCodes[k][1] \in Codes
    OBVIOUS
  <2>1. k \in DOMAIN HeldCodes /\ Len(HeldCodes[k]) = 1
    BY <1>1, HeldKeys
  <2> QED
    BY <2>1, HeldCodesAreCodes
<1> QED
  BY <1>1, <1>2 DEF AgentCodes

\* Codes of keys, encoders and the joystick are different.
LEMMA CodesApart ==
  /\ Codes \cap Joystick = {} /\ Codes \cap {"ENC_CW", "ENC_CC"} = {}
  /\ Joystick \cap {"ENC_CW", "ENC_CC"} = {}
<1> SUFFICES ASSUME NEW c \in Codes PROVE c \notin Joystick \cup {"ENC_CW", "ENC_CC"}
  BY DEF Joystick
<1>1. PICK k \in DOMAIN HeldCodes : c \in Elements(HeldCodes[k])
  BY DEF Codes
<1>2. HeldCodes[k] \in Seq(KeyCodes)
  BY HeldValues
<1>3. c \in KeyCodes
  BY <1>1, <1>2 DEF Elements
<1> QED
  BY <1>3 DEF Joystick, KeyCodes

LEMMA KeysSteps ==
  ASSUME NEW codes \in Seq(Codes), NEW act \in {0, 1}
  PROVE  /\ Keys(codes, act) \in Seq(Notifications) /\ Len(Keys(codes, act)) = Len(codes)
         /\ \A i \in 1..Len(codes) : Keys(codes, act)[i] = Key(codes[i], act)
<1>1. DOMAIN codes = 1..Len(codes) /\ \A i \in 1..Len(codes) : codes[i] \in Codes
  OBVIOUS
<1>2. Keys(codes, act) = [i \in 1..Len(codes) |-> Key(codes[i], act)]
  BY <1>1 DEF Keys
<1>3. \A i \in 1..Len(codes) : Key(codes[i], act) \in Notifications
  BY <1>1 DEF Key, Notifications
<1> QED
  BY <1>2, <1>3

\* What follows the k-th element of a sequence.
LEMMA RestOf ==
  ASSUME NEW S, NEW q \in Seq(S), NEW k \in 1..Len(q)
  PROVE  /\ SubSeq(q, k + 1, Len(q)) \in Seq(S)
         /\ Len(SubSeq(q, k + 1, Len(q))) = Len(q) - k
         /\ \A i \in 1..(Len(q) - k) : SubSeq(q, k + 1, Len(q))[i] = q[i + k]
<1> DEFINE n == Len(q)
           r == SubSeq(q, k + 1, n)
<1>1. n \in Nat /\ k \in 1..n /\ \A i \in 1..n : q[i] \in S
  OBVIOUS
<1>2. SUFFICES r \in Seq(S) /\ Len(r) = n - k /\ \A i \in 1..(n - k) : r[i] = q[i + k]
  OBVIOUS
<1> HIDE DEF n
<1>3. k + 1 \in Int /\ n \in Int /\ \A i \in (k + 1)..n : q[i] \in S
  BY <1>1
<1>4. /\ r \in Seq(S)
      /\ Len(r) = IF k + 1 <= n THEN n - (k + 1) + 1 ELSE 0
      /\ \A i \in 1..(n - (k + 1) + 1) : r[i] = q[(k + 1) + i - 1]
  BY <1>3, SubSeqProperties
<1> HIDE DEF r
<1>5. Len(r) = n - k
  BY <1>1, <1>4
<1>6. ASSUME NEW i \in 1..(n - k) PROVE r[i] = q[i + k]
  <2>1. i \in 1..(n - (k + 1) + 1) /\ (k + 1) + i - 1 = i + k
    BY <1>1
  <2>2. r[i] = q[(k + 1) + i - 1]
    BY <1>4, <2>1
  <2> QED
    BY <2>1, <2>2
<1> QED
  BY <1>2, <1>4, <1>5, <1>6

\* The controls of a dictionary are all different; what pop leaves.
Distinct(q) == \A i, j \in 1..Len(q) : q[i] = q[j] => i = j

LEMMA DropSteps ==
  ASSUME NEW c, held \in Seq(Controls), Distinct(held)
  PROVE  /\ Drop(c) \in Seq(Controls) /\ Distinct(Drop(c))
         /\ Elements(Drop(c)) = Elements(held) \ {c}
<1>0. Len(held) \in Nat /\ DOMAIN held = 1..Len(held)
  OBVIOUS
<1>1. CASE \A i \in 1..Len(held) : held[i] # c
  <2>1. Drop(c) = held
    BY <1>1 DEF Drop, RemoveFirst
  <2> QED
    BY <1>0, <1>1, <2>1 DEF Elements
<1>2. ASSUME NEW k \in 1..Len(held), held[k] = c
      PROVE  /\ Drop(c) \in Seq(Controls) /\ Distinct(Drop(c))
             /\ Elements(Drop(c)) = Elements(held) \ {c}
  <2>1. {i \in 1..Len(held) : held[i] = c} = {k}
    BY <1>2 DEF Distinct
  <2>2. Min({k}) = k
    BY <1>0 DEF Min
  <2>3. SelectInSeq(held, LAMBDA v : v = c) = k
    BY <2>1, <2>2 DEF SelectInSeq
  <2>4. Drop(c) = SubSeq(held, 1, k - 1) \o SubSeq(held, k + 1, Len(held))
    BY <1>2, <2>3 DEF Drop, RemoveFirst, RemoveAt
  <2>5. /\ Drop(c) \in Seq(Controls) /\ Len(Drop(c)) = Len(held) - 1
        /\ \A i \in 1..Len(Drop(c)) : Drop(c)[i] = IF i < k THEN held[i] ELSE held[i + 1]
    <3> DEFINE s == SubSeq(held, 1, k - 1)
               r == SubSeq(held, k + 1, Len(held))
    <3>1. s \in Seq(Controls) /\ Len(s) = k - 1 /\ \A i \in 1..(k - 1) : s[i] = held[i]
      BY <1>0, SubSeqProperties
    <3>2. /\ r \in Seq(Controls) /\ Len(r) = Len(held) - k
          /\ \A i \in 1..(Len(held) - k) : r[i] = held[i + k]
      BY RestOf
    <3>3. Drop(c) = s \o r
      BY <2>4
    <3> HIDE DEF s, r
    <3>4. /\ s \o r \in Seq(Controls) /\ Len(s \o r) = Len(s) + Len(r)
          /\ \A i \in 1..(Len(s) + Len(r)) : (s \o r)[i] = IF i <= Len(s) THEN s[i] ELSE r[i - Len(s)]
      <4>1. s \in Seq(Controls) /\ r \in Seq(Controls)
        BY <3>1, <3>2
      <4> QED
        BY <4>1
    <3>5. Len(Drop(c)) = Len(held) - 1
      BY <1>0, <3>1, <3>2, <3>3, <3>4
    <3>6. ASSUME NEW i \in 1..Len(Drop(c))
          PROVE  Drop(c)[i] = IF i < k THEN held[i] ELSE held[i + 1]
      <4>1. i \in 1..(Len(s) + Len(r)) /\ i \in 1..(Len(held) - 1)
        BY <1>0, <3>1, <3>2, <3>5
      <4>2. Drop(c)[i] = IF i <= Len(s) THEN s[i] ELSE r[i - Len(s)]
        BY <3>3, <3>4, <4>1
      <4>3. CASE i < k
        BY <1>0, <3>1, <4>1, <4>2, <4>3
      <4>4. CASE ~ (i < k)
        <5>1. i - (k - 1) \in 1..(Len(held) - k) /\ ~ (i <= Len(s))
          BY <1>0, <3>1, <4>1, <4>4
        <5>2. r[i - (k - 1)] = held[(i - (k - 1)) + k]
          BY <3>2, <5>1
        <5>3. (i - (k - 1)) + k = i + 1
          BY <1>0, <4>1
        <5> QED
          BY <3>1, <4>2, <4>4, <5>1, <5>2, <5>3
      <4> QED
        BY <4>3, <4>4
    <3> QED
      BY <3>3, <3>4, <3>5, <3>6
  <2>6. Distinct(Drop(c))
    BY SMTT(30), <1>0, <2>5 DEF Distinct
  <2>7. Elements(Drop(c)) = {Drop(c)[i] : i \in 1..(Len(held) - 1)}
    BY <2>5 DEF Elements
  <2>8. ASSUME NEW h \in Elements(held) \ {c} PROVE h \in Elements(Drop(c))
    <3>1. PICK i \in 1..Len(held) : h = held[i]
      BY <1>0 DEF Elements
    <3>2. CASE i < k
      BY <1>0, <2>5, <2>7, <3>1, <3>2
    <3>3. CASE i > k
      <4>1. i - 1 \in 1..(Len(held) - 1) /\ ~ (i - 1 < k)
        BY <1>0, <3>3
      <4>2. Drop(c)[i - 1] = held[(i - 1) + 1]
        BY <1>0, <2>5, <4>1
      <4> QED
        BY <2>7, <3>1, <4>1, <4>2
    <3> QED
      BY <1>0, <1>2, <3>1, <3>2, <3>3
  <2>9. ASSUME NEW h \in Elements(Drop(c)) PROVE h \in Elements(held) \ {c}
    <3>1. PICK i \in 1..(Len(held) - 1) : h = Drop(c)[i]
      BY <2>7
    <3>2. PICK j \in 1..Len(held) : h = held[j] /\ j # k
      BY <1>0, <2>5, <3>1
    <3> QED
      BY <1>0, <1>2, <3>2 DEF Elements, Distinct
  <2> QED
    BY <2>5, <2>6, <2>8, <2>9
<1> QED
  BY <1>1, <1>2

\* What an assignment to the dictionary leaves.
LEMMA HoldSteps ==
  ASSUME NEW c \in Controls, held \in Seq(Controls), Distinct(held)
  PROVE  /\ Hold(c) \in Seq(Controls) /\ Distinct(Hold(c))
         /\ Elements(Hold(c)) = Elements(held) \cup {c}
<1>0. Len(held) \in Nat /\ DOMAIN held = 1..Len(held)
  OBVIOUS
<1>1. CASE c \in Elements(held)
  BY <1>1 DEF Hold
<1>2. CASE c \notin Elements(held)
  <2>1. /\ Hold(c) \in Seq(Controls) /\ Len(Hold(c)) = Len(held) + 1
        /\ \A i \in 1..Len(held) : Hold(c)[i] = held[i] /\ held[i] # c
        /\ Hold(c)[Len(held) + 1] = c
    BY <1>0, <1>2 DEF Hold, Elements
  <2>2. Distinct(Hold(c))
    BY <1>0, <2>1 DEF Distinct
  <2>3. Elements(Hold(c)) = {Hold(c)[i] : i \in 1..(Len(held) + 1)}
    BY <2>1 DEF Elements
  <2>4. Elements(Hold(c)) = Elements(held) \cup {c}
    <3>1. ASSUME NEW h \in Elements(held) PROVE h \in Elements(Hold(c))
      BY <1>0, <2>1, <2>3 DEF Elements
    <3>2. c \in Elements(Hold(c))
      BY <1>0, <2>1, <2>3
    <3>3. ASSUME NEW h \in Elements(Hold(c)) PROVE h \in Elements(held) \cup {c}
      <4>1. PICK i \in 1..(Len(held) + 1) : h = Hold(c)[i]
        BY <2>3
      <4> QED
        BY <1>0, <2>1, <4>1 DEF Elements
    <3> QED
      BY <3>1, <3>2, <3>3
  <2> QED
    BY <2>1, <2>2, <2>4
<1> QED
  BY <1>1, <1>2
-----------------------------------------------------------------------------
(* Types                                                                   *)

Events == [control : Controls, pressed : BOOLEAN]

\* What the types of the steps rest on: a dictionary has each key once, its keys have
\* an action that holds codes, the loop of release_all() starts at the first of them,
\* and only the loop of run_bridge has events.
Types ==
  /\ TypeOK
  /\ Distinct(held) /\ (\A c \in Elements(held) : assignment[c] \in DOMAIN HeldCodes)
  /\ phase = "loop" => visited = 0
  /\ phase # "loop" => pending = <<>>

LEMMA MovedSteps ==
  ASSUME axes \in AxesStates, NEW as, as \subseteq Axes, NEW s \in Moved(as)
  PROVE  s \in AxesStates
BY TimeAssumption DEF Moved, AxesStates

\* What a report makes of the lock and of the candidate.
LEMMA UpdateSteps ==
  ASSUME TypeOK, NEW s \in AxesStates, NEW d \in 0..MaxGap, UpdateAxes(s, d)
  PROVE  /\ axisControl' \in AxisControls \cup {None} /\ candidate' \in AxisControls \cup {None}
         /\ waited' \in 0..Delay
<1>1. Dominant(s) # None => Dominant(s) \in AxisControls
  BY DominantIsControl
<1>2. Waited(s, d) \in 0..Delay
  BY TimeAssumption DEF TypeOK, Waited, Lesser
<1> QED
  BY <1>1, <1>2, TimeAssumption DEF TypeOK, UpdateAxes, KeepLock, Unlock, Ambiguous, Wait, Lock, NoCandidate

LEMMA AxisEventsSteps ==
  ASSUME NEW c \in AxisControls \cup {None}, NEW d \in AxisControls \cup {None}
  PROVE  AxisEvents(c, d) \in Seq(Events)
<1>1. \A x \in AxisControls, p \in BOOLEAN : <<Edge(x, p)>> \in Seq(Events)
  <2> SUFFICES ASSUME NEW x \in AxisControls, NEW p \in BOOLEAN PROVE Edge(x, p) \in Events
    OBVIOUS
  <2> QED
    BY DEF Edge, Events, Controls
<1>2. CASE c = d
  BY <1>2 DEF AxisEvents
<1>3. CASE c # d /\ c = None
  <2>1. d \in AxisControls /\ AxisEvents(c, d) = <<Edge(d, TRUE)>>
    BY <1>3 DEF AxisEvents
  <2> QED
    BY <1>1, <2>1
<1>4. CASE c # d /\ c # None
  <2>1. c \in AxisControls /\ AxisEvents(c, d) = <<Edge(c, FALSE)>>
    BY <1>4 DEF AxisEvents
  <2> QED
    BY <1>1, <2>1
<1> QED
  BY <1>2, <1>3, <1>4

\* The edges of one button
ButtonEdge(b, c) == IF (c \in b) # (c \in active) THEN <<Edge(c, c \in b)>> ELSE <<>>

LEMMA ButtonEventsSteps ==
  ASSUME NEW b
  PROVE  /\ ButtonEvents(b) = ButtonEdge(b, <<0, 1>>) \o ButtonEdge(b, <<0, 2>>)
         /\ ButtonEvents(b) \in Seq(Events)
<1>1. ButtonEvents(b) = ButtonEdge(b, <<0, 1>>) \o ButtonEdge(b, <<0, 2>>)
  BY DEF ButtonEvents, ButtonEdge
<1>2. ASSUME NEW c \in Buttons PROVE ButtonEdge(b, c) \in Seq(Events)
  <2>1. (c \in b) \in BOOLEAN
    OBVIOUS
  <2>2. Edge(c, c \in b) \in Events
    BY <2>1 DEF Edge, Events, Controls
  <2> QED
    BY <2>2 DEF ButtonEdge
<1>3. <<0, 1>> \in Buttons /\ <<0, 2>> \in Buttons
  BY DEF Buttons
<1>4. ButtonEdge(b, <<0, 1>>) \in Seq(Events) /\ ButtonEdge(b, <<0, 2>>) \in Seq(Events)
  BY <1>2, <1>3
<1> QED
  BY <1>1, <1>4

LEMMA ReportTypes ==
  ASSUME Types, NEW s \in AxesStates, NEW b, b \subseteq Buttons, Report(s, b)
  PROVE  Types'
<1>1. PICK d \in 0..MaxGap :
        /\ UpdateAxes(s, d)
        /\ leader' = Dominant(s)
        /\ lead' = IF leader' # None /\ leader' = leader THEN Lesser(lead + d, Delay) ELSE 0
  BY DEF Report
<1>2. /\ axisControl' \in AxisControls \cup {None} /\ candidate' \in AxisControls \cup {None}
      /\ waited' \in 0..Delay
  BY <1>1, UpdateSteps DEF Types
<1>3. leader' \in AxisControls \cup {None} /\ lead' \in 0..Delay
  <2>1. Dominant(s) # None => Dominant(s) \in AxisControls
    BY DominantIsControl
  <2> QED
    BY <1>1, <2>1, TimeAssumption DEF Types, TypeOK, Lesser
<1>4. pending' \in Seq(Events)
  <2>1. AxisEvents(axisControl, axisControl') \in Seq(Events)
    BY <1>2, AxisEventsSteps DEF Types, TypeOK
  <2>2. ButtonEvents(b) \in Seq(Events)
    BY ButtonEventsSteps
  <2> QED
    BY <2>1, <2>2 DEF Report
<1>5. active' \subseteq Controls
  BY DEF Report, Recorded
<1>6. phase = "loop" /\ phase' = "loop"
  BY DEF Report, Between
<1> QED
  BY <1>2, <1>3, <1>4, <1>5, <1>6 DEF Types, TypeOK, Report, AxesStates, Events, codex

LEMMA LeaveTypes ==
  ASSUME Types, Leave
  PROVE  /\ (axes \in [Axes -> -Limit..Limit])' /\ (buttons \subseteq Buttons)'
         /\ (active \subseteq Controls)' /\ (axisControl \in AxisControls \cup {None})'
         /\ (candidate \in AxisControls \cup {None})' /\ (waited \in 0..Delay)' /\ (agent \in 0..5)'
         /\ (leader \in AxisControls \cup {None})' /\ (lead \in 0..Delay)'
BY TimeAssumption DEF Leave

LEMMA DispatchTypes ==
  ASSUME Types, Dispatch
  PROVE  Types'
<1> DEFINE e == Head(pending)
           k == assignment[e.control]
<1>1. e \in Events /\ pending' \in Seq(Events)
  <2>1. pending \in Seq(Events) /\ pending # <<>> /\ pending' = Tail(pending)
    BY DEF Types, TypeOK, Dispatch, Events
  <2> QED
    BY <2>1
<1>2. e.control \in Controls /\ e.pressed \in BOOLEAN
  BY <1>1 DEF Events
<1>3. assignment \in [Controls -> Actions] /\ k \in Actions
  BY <1>2, MappingAssumption DEF Types, TypeOK
<1>4. phase = "loop" /\ phase' = "loop" /\ visited' = 0 /\ assignment' = assignment
  BY DEF Dispatch, Types
<1>5. HeldAction(e, k) \/ AgentAction(e, k) \/ EncoderAction(e, k) \/ JoystickAction(e, k) \/ NoAction(e, k)
  BY DEF Dispatch
<1>6. held \in Seq(Controls) /\ Distinct(held) /\ \A c \in Elements(held) : assignment[c] \in DOMAIN HeldCodes
  BY DEF Types, TypeOK
<1> DEFINE Done == /\ sends' \in Seq(Notifications) /\ agent' \in 0..5
                   /\ held' \in Seq(Controls) /\ Distinct(held')
                   /\ \A c \in Elements(held') : assignment[c] \in DOMAIN HeldCodes
<1>7. ASSUME HeldAction(e, k) PROVE Done
  <2>1. k \in DOMAIN HeldCodes /\ sends' = Keys(HeldCodes[k], Act(e)) /\ agent' = agent
        /\ held' = IF e.pressed THEN Hold(e.control) ELSE Drop(e.control)
    BY <1>7 DEF HeldAction
  <2>2. sends' \in Seq(Notifications)
    <3>1. Act(e) \in {0, 1}
      BY DEF Act
    <3> QED
      BY <2>1, <3>1, HeldCodesAreCodes, KeysSteps
  <2>3. CASE e.pressed
    <3>1. held' = Hold(e.control)
      BY <2>1, <2>3
    <3>2. held' \in Seq(Controls) /\ Distinct(held') /\ Elements(held') = Elements(held) \cup {e.control}
      <4> HIDE DEF e
      <4> QED
        BY <1>2, <1>6, <3>1, HoldSteps
    <3> QED
      BY <1>6, <2>1, <2>2, <3>2 DEF Types, TypeOK
  <2>4. CASE ~ e.pressed
    <3>1. held' = Drop(e.control)
      BY <2>1, <2>4
    <3>2. held' \in Seq(Controls) /\ Distinct(held') /\ Elements(held') = Elements(held) \ {e.control}
      <4> HIDE DEF e
      <4> QED
        BY <1>6, <3>1, DropSteps
    <3> QED
      BY <1>6, <2>1, <2>2, <3>2 DEF Types, TypeOK
  <2> QED
    BY <2>3, <2>4
<1>8. ASSUME AgentAction(e, k) PROVE Done
  <2>1. AgentSteps[k] \in {-1, 1} /\ agent \in 0..5
    <3>1. k \in {"agent_previous", "agent_next"}
      BY <1>8 DEF AgentAction, AgentSteps
    <3> HIDE DEF k
    <3> QED
      BY <3>1 DEF AgentSteps, Types, TypeOK
  <2>2. agent' \in 0..5
    <3>1. agent' = (agent + AgentSteps[k]) % 6
      BY <1>8 DEF AgentAction
    <3> HIDE DEF k
    <3> QED
      BY <2>1, <3>1, SMTT(30)
  <2>3. AgentCodes[agent' + 1] \in Codes
    BY <2>2, AgentCodesAreCodes
  <2>4. sends' = Keys(<<AgentCodes[agent' + 1]>>, 1) \o Keys(<<AgentCodes[agent' + 1]>>, 0)
    BY <1>8 DEF AgentAction
  <2>5. <<AgentCodes[agent' + 1]>> \in Seq(Codes)
    BY <2>3
  <2>6. /\ Keys(<<AgentCodes[agent' + 1]>>, 1) \in Seq(Notifications)
        /\ Keys(<<AgentCodes[agent' + 1]>>, 0) \in Seq(Notifications)
    BY <2>5, KeysSteps
  <2>7. sends' \in Seq(Notifications)
    BY <2>4, <2>6
  <2> QED
    BY <1>6, <1>8, <2>2, <2>7 DEF AgentAction
<1>9. ASSUME EncoderAction(e, k) PROVE Done
  <2>1. Encoders[k] \in {"ENC_CW", "ENC_CC"}
    BY <1>9 DEF EncoderAction, Encoders
  <2>2. Key(Encoders[k], 2) \in Notifications
    BY <2>1 DEF Key, Notifications
  <2> QED
    BY <1>6, <1>9, <2>2 DEF EncoderAction, Types, TypeOK
<1>10. ASSUME JoystickAction(e, k) PROVE Done
  <2>1. Key(k, Act(e)) \in Notifications
    BY <1>10 DEF JoystickAction, Key, Act, Notifications
  <2> QED
    BY <1>6, <1>10, <2>1 DEF JoystickAction, Types, TypeOK
<1>11. ASSUME NoAction(e, k) PROVE Done
  BY <1>6, <1>11 DEF NoAction, Types, TypeOK
<1>12. Done
  BY <1>5, <1>7, <1>8, <1>9, <1>10, <1>11
<1> QED
  BY <1>1, <1>4, <1>12 DEF Types, TypeOK, Dispatch, Events, device, detector, codex, history

LEMMA SendTypes ==
  ASSUME Types, SendNext
  PROVE  Types'
<1>1. sends # <<>> /\ sends' = Tail(sends) /\ Receive(Head(sends))
  BY DEF SendNext
<1>2. Head(sends) \in Notifications /\ sends' \in Seq(Notifications)
  BY <1>1 DEF Types, TypeOK
<1>3. down' \subseteq Codes /\ stick' \in Joystick \cup {None} /\ adrift' \in BOOLEAN
  <2> DEFINE n == Head(sends)
  <2>1. CASE n.code \in Joystick /\ stick' = (IF n.act = 1 THEN n.code ELSE None) /\ adrift' = FALSE /\ down' = down
    BY <2>1 DEF Types, TypeOK
  <2>2. CASE n.code \in Codes /\ (down' = IF n.act = 1 THEN down \cup {n.code} ELSE down \ {n.code})
             /\ stick' = stick /\ adrift' = adrift
    BY <2>2 DEF Types, TypeOK
  <2>3. CASE down' = down /\ stick' = stick /\ adrift' = adrift
    BY <2>3 DEF Types, TypeOK
  <2> QED
    BY <1>1, <2>1, <2>2, <2>3 DEF Receive, codex
<1> QED
  BY <1>2, <1>3 DEF Types, TypeOK, SendNext, device, detector, history

LEMMA FailTypes ==
  ASSUME Types, SendFails
  PROVE  Types'
<1>1. Leave
  BY DEF SendFails
<1>2. lost' \in BOOLEAN /\ adrift' \in BOOLEAN /\ phase' \in {"release", "over"} /\ pending' = <<>> /\ sends' = <<>>
  BY DEF SendFails, Types, TypeOK
<1> QED
  BY <1>1, <1>2, LeaveTypes DEF Types, TypeOK, SendFails, codex

LEMMA ReleaseTypes ==
  ASSUME Types, ReleaseAll
  PROVE  Types'
<1>1. visited' \in 1..Len(held) /\ held' = held /\ assignment' = assignment
  BY DEF ReleaseAll, Types, TypeOK
<1>2. assignment[held[visited']] \in DOMAIN HeldCodes
  BY <1>1 DEF Types, TypeOK, Elements
<1>3. sends' \in Seq(Notifications)
  <2> DEFINE k == assignment[held[visited']]
  <2>1. sends' = Keys(HeldCodes[k], 0)
    BY DEF ReleaseAll
  <2>2. HeldCodes[k] \in Seq(Codes)
    BY <1>2, HeldCodesAreCodes
  <2> HIDE DEF k
  <2> QED
    BY <2>1, <2>2, KeysSteps
<1> QED
  BY <1>1, <1>3 DEF Types, TypeOK, ReleaseAll, device, detector, codex, history

LEMMA TypesInit == Init => Types
<1> SUFFICES ASSUME Init PROVE Types
  OBVIOUS
<1>1. axes \in [Axes -> -Limit..Limit]
  BY TimeAssumption DEF Init
<1>2. held = <<>> /\ visited = 0 /\ Len(held) = 0
  BY DEF Init
<1>3. Distinct(held) /\ Elements(held) = {} /\ held \in Seq(Controls)
  BY <1>2 DEF Distinct, Elements
<1>4. TypeOK
  <2>1. held \in Seq(Controls) /\ visited \in 0..Len(held)
    BY <1>2, <1>3
  <2>2. waited \in 0..Delay /\ lead \in 0..Delay /\ agent \in 0..5
    BY TimeAssumption DEF Init
  <2>3. pending \in Seq([control : Controls, pressed : BOOLEAN]) /\ sends \in Seq(Notifications)
    BY DEF Init
  <2> QED
    BY <1>1, <2>1, <2>2, <2>3 DEF Init, TypeOK
<1> QED
  BY <1>2, <1>3, <1>4 DEF Init, Types

LEMMA TypesStep == Types /\ [Next]_vars => Types'
<1> SUFFICES ASSUME Types, [Next]_vars PROVE Types'
  OBVIOUS
<1>1. axes \in AxesStates /\ buttons \subseteq Buttons /\ TranslationAxes \subseteq Axes /\ RotationAxes \subseteq Axes
  BY DEF Types, TypeOK, AxesStates, Axes
<1>2. CASE TranslationReport
  BY <1>1, <1>2, MovedSteps, ReportTypes DEF TranslationReport
<1>3. CASE RotationReport
  BY <1>1, <1>3, MovedSteps, ReportTypes DEF RotationReport
<1>4. CASE ButtonReport
  BY <1>1, <1>4, ReportTypes DEF ButtonReport
<1>5. CASE LeaveLoop
  <2>1. Leave /\ phase' = "release" /\ pending' = <<>>
    BY <1>5 DEF LeaveLoop, Between
  <2> QED
    BY <1>5, <2>1, LeaveTypes DEF Types, TypeOK, LeaveLoop, codex
<1>6. CASE EndRun
  <2>1. held' = <<>> /\ visited' = 0
    BY <1>6 DEF EndRun
  <2>2. Distinct(held') /\ Elements(held') = {} /\ held' \in Seq(Controls) /\ visited' \in 0..Len(held')
    BY <2>1 DEF Distinct, Elements
  <2> QED
    BY <1>6, <2>1, <2>2 DEF Types, TypeOK, EndRun, device, detector, codex, history
<1>7. CASE NewRun
  <2>1. held' = <<>> /\ visited' = 0
    BY <1>7 DEF NewRun
  <2>2. Distinct(held') /\ Elements(held') = {} /\ held' \in Seq(Controls) /\ visited' \in 0..Len(held')
    BY <2>1 DEF Distinct, Elements
  <2>3. adrift' \in BOOLEAN
    BY <1>7 DEF NewRun, Types, TypeOK
  <2> QED
    BY <1>7, <2>1, <2>2, <2>3 DEF Types, TypeOK, NewRun, device, detector, codex, history
<1>8. CASE UNCHANGED vars
  BY <1>8 DEF Types, TypeOK, vars, device, detector, codex, history
<1> QED
  BY <1>2, <1>3, <1>4, <1>5, <1>6, <1>7, <1>8, DispatchTypes, SendTypes, FailTypes, ReleaseTypes DEF Next

LEMMA SpecTypes == Spec => []Types
BY TypesInit, TypesStep, PTL DEF Spec

\* Every field of the detector, the dispatcher and of Codex keeps its type through
\* any sequence of reports, dispatches, failures and runs.
THEOREM PathTypeCorrect == Spec => []TypeOK
<1>1. Types => TypeOK
  BY DEF Types
<1> QED
  BY <1>1, SpecTypes, PTL
-----------------------------------------------------------------------------
(* The lock                                                                *)

LEMMA ConcatElements ==
  ASSUME NEW S, NEW q \in Seq(S), NEW r \in Seq(S)
  PROVE  Elements(q \o r) = Elements(q) \cup Elements(r)
<1>1. /\ Len(q) \in Nat /\ DOMAIN q = 1..Len(q) /\ Len(r) \in Nat /\ DOMAIN r = 1..Len(r)
      /\ DOMAIN (q \o r) = 1..(Len(q) + Len(r))
      /\ \A i \in 1..(Len(q) + Len(r)) : (q \o r)[i] = IF i <= Len(q) THEN q[i] ELSE r[i - Len(q)]
  OBVIOUS
<1>2. ASSUME NEW x \in Elements(q) PROVE x \in Elements(q \o r)
  <2>1. PICK i \in 1..Len(q) : x = q[i]
    BY <1>1 DEF Elements
  <2>2. i \in 1..(Len(q) + Len(r)) /\ (q \o r)[i] = x
    BY <1>1, <2>1
  <2> QED
    BY <1>1, <2>2 DEF Elements
<1>3. ASSUME NEW x \in Elements(r) PROVE x \in Elements(q \o r)
  <2>1. PICK i \in 1..Len(r) : x = r[i]
    BY <1>1 DEF Elements
  <2>2. /\ i + Len(q) \in 1..(Len(q) + Len(r)) /\ ~ (i + Len(q) <= Len(q))
        /\ (i + Len(q)) - Len(q) = i
    BY <1>1
  <2>3. (q \o r)[i + Len(q)] = r[(i + Len(q)) - Len(q)]
    BY <1>1, <2>2
  <2> QED
    BY <1>1, <2>1, <2>2, <2>3 DEF Elements
<1>4. ASSUME NEW x \in Elements(q \o r) PROVE x \in Elements(q) \cup Elements(r)
  <2>1. PICK i \in 1..(Len(q) + Len(r)) : x = (q \o r)[i]
    BY <1>1 DEF Elements
  <2>2. CASE i <= Len(q)
    BY <1>1, <2>1, <2>2 DEF Elements
  <2>3. CASE ~ (i <= Len(q))
    <3>1. i - Len(q) \in 1..Len(r) /\ x = r[i - Len(q)]
      BY <1>1, <2>1, <2>3
    <3> QED
      BY <1>1, <3>1 DEF Elements
  <2> QED
    BY <2>2, <2>3
<1> QED
  BY <1>2, <1>3, <1>4

LEMMA ShortElements == Elements(<<>>) = {} /\ \A x : Elements(<<x>>) = {x}
BY DEF Elements

\* The events of a report: one of the axis whose lock changed, and one of each button
\* that changed.
AxisEdges(c, d) == IF c = d THEN {} ELSE IF c = None THEN {Edge(d, TRUE)} ELSE {Edge(c, FALSE)}
ButtonEdges(b)  == {Edge(x, TRUE) : x \in {y \in Buttons : y \in b /\ y \notin active}}
                   \cup {Edge(x, FALSE) : x \in {y \in Buttons : y \notin b /\ y \in active}}

LEMMA ReportEvents ==
  ASSUME NEW c \in AxisControls \cup {None}, NEW d \in AxisControls \cup {None}, NEW b
  PROVE  Elements(AxisEvents(c, d) \o ButtonEvents(b)) = AxisEdges(c, d) \cup ButtonEdges(b)
<1>1. AxisEvents(c, d) \in Seq(Events) /\ ButtonEvents(b) \in Seq(Events)
  BY AxisEventsSteps, ButtonEventsSteps
<1>2. Elements(AxisEvents(c, d)) = AxisEdges(c, d)
  BY ShortElements DEF AxisEvents, AxisEdges
<1> DEFINE Of(x) == IF x \in b /\ x \notin active THEN {Edge(x, TRUE)}
                    ELSE IF x \notin b /\ x \in active THEN {Edge(x, FALSE)} ELSE {}
<1>3. ASSUME NEW x \in Buttons PROVE ButtonEdge(b, x) \in Seq(Events) /\ Elements(ButtonEdge(b, x)) = Of(x)
  <2>0. \A e \in Events : <<e>> \in Seq(Events)
    OBVIOUS
  <2>1. Edge(x, TRUE) \in Events /\ Edge(x, FALSE) \in Events
    BY DEF Edge, Events, Controls
  <2>2. CASE x \in b /\ x \notin active
    <3>1. (x \in b) = TRUE /\ (x \in active) = FALSE
      BY <2>2
    <3>2. ButtonEdge(b, x) = <<Edge(x, TRUE)>>
      BY <3>1 DEF ButtonEdge
    <3>3. Of(x) = {Edge(x, TRUE)}
      BY <2>2
    <3>4. <<Edge(x, TRUE)>> \in Seq(Events)
      BY <2>0, <2>1
    <3> QED
      BY <3>2, <3>3, <3>4, ShortElements
  <2>3. CASE x \notin b /\ x \in active
    <3>1. (x \in b) = FALSE /\ (x \in active) = TRUE
      BY <2>3
    <3>2. ButtonEdge(b, x) = <<Edge(x, FALSE)>>
      BY <3>1 DEF ButtonEdge
    <3>3. Of(x) = {Edge(x, FALSE)}
      BY <2>3
    <3>4. <<Edge(x, FALSE)>> \in Seq(Events)
      BY <2>0, <2>1
    <3> QED
      BY <3>2, <3>3, <3>4, ShortElements
  <2>4. CASE (x \in b /\ x \in active) \/ (x \notin b /\ x \notin active)
    <3>1. (x \in b) = (x \in active)
      BY <2>4
    <3>2. ButtonEdge(b, x) = <<>>
      BY <3>1 DEF ButtonEdge
    <3>3. Of(x) = {}
      BY <2>4
    <3>4. <<>> \in Seq(Events)
      OBVIOUS
    <3> QED
      BY <3>2, <3>3, <3>4, ShortElements
  <2> QED
    BY <2>2, <2>3, <2>4
<1>4. Elements(ButtonEvents(b)) = Of(<<0, 1>>) \cup Of(<<0, 2>>)
  <2>1. <<0, 1>> \in Buttons /\ <<0, 2>> \in Buttons
    BY DEF Buttons
  <2>2. ButtonEvents(b) = ButtonEdge(b, <<0, 1>>) \o ButtonEdge(b, <<0, 2>>)
    BY ButtonEventsSteps
  <2> HIDE DEF Of
  <2> QED
    BY <1>3, <2>1, <2>2, ConcatElements
<1>5. Of(<<0, 1>>) \cup Of(<<0, 2>>) = ButtonEdges(b)
  <2>1. Buttons = {<<0, 1>>, <<0, 2>>}
    BY DEF Buttons
  <2>2. \A x \in Buttons : Of(x) \subseteq ButtonEdges(b)
    BY DEF ButtonEdges
  <2>3. \A e \in ButtonEdges(b) : \E x \in Buttons : e \in Of(x)
    BY DEF ButtonEdges
  <2> HIDE DEF Of
  <2> QED
    BY <2>1, <2>2, <2>3
<1>6. Elements(AxisEvents(c, d) \o ButtonEvents(b))
        = Elements(AxisEvents(c, d)) \cup Elements(ButtonEvents(b))
  BY <1>1, ConcatElements
<1> QED
  BY <1>2, <1>4, <1>5, <1>6

\* What a report makes of _active.
LEMMA ReportActive ==
  ASSUME Types, NEW s \in AxesStates, NEW b, b \subseteq Buttons, Report(s, b)
  PROVE  /\ active' \cap AxisControls =
              IF axisControl' = axisControl THEN active \cap AxisControls
              ELSE IF axisControl = None THEN (active \cap AxisControls) \cup {axisControl'}
              ELSE (active \cap AxisControls) \ {axisControl}
         /\ active' \cap Buttons = b
<1> DEFINE es == Elements(pending')
           A == AxisEdges(axisControl, axisControl')
           B == ButtonEdges(b)
<1>1. axisControl \in AxisControls \cup {None} /\ axisControl' \in AxisControls \cup {None}
  BY ReportTypes DEF Types, TypeOK
<1>2. es = A \cup B
  <2>1. pending' = AxisEvents(axisControl, axisControl') \o ButtonEvents(b)
    BY DEF Report
  <2> QED
    BY <1>1, <2>1, ReportEvents
<1>3. active' = {c \in Controls : IF \E e \in es : e.control = c THEN Edge(c, TRUE) \in es ELSE c \in active}
  BY DEF Report, Recorded, Elements
<1>4. AxisControls \cap Buttons = {} /\ AxisControls \subseteq Controls /\ Buttons \subseteq Controls
      /\ None \notin AxisControls
  BY ControlsApart DEF Controls
<1>5. ASSUME NEW c PROVE /\ Edge(c, TRUE) # Edge(c, FALSE) /\ Edge(c, TRUE).control = c /\ Edge(c, FALSE).control = c
                         /\ Edge(c, TRUE).pressed = TRUE /\ Edge(c, FALSE).pressed = FALSE
  BY DEF Edge
<1>6. (\A e \in A : e.control \in AxisControls) /\ (\A e \in B : e.control \in Buttons)
  <2>1. \A e \in A : e \in {Edge(axisControl', TRUE), Edge(axisControl, FALSE)}
                     /\ axisControl # axisControl' /\ (axisControl = None <=> e = Edge(axisControl', TRUE))
    BY <1>5 DEF AxisEdges
  <2>2. \A e \in A : e.control \in AxisControls
    <3> SUFFICES ASSUME NEW e \in A PROVE e.control \in AxisControls
      OBVIOUS
    <3>1. CASE axisControl = None
      BY <1>1, <1>5, <2>1, <3>1
    <3>2. CASE axisControl # None
      BY <1>1, <1>5, <2>1, <3>2
    <3> QED
      BY <3>1, <3>2
  <2>3. \A e \in B : \E x \in Buttons : e = Edge(x, TRUE) \/ e = Edge(x, FALSE)
    BY DEF ButtonEdges
  <2>4. \A x \in Buttons : Edge(x, TRUE).control = x /\ Edge(x, FALSE).control = x
    BY <1>5
  <2>5. \A e \in B : e.control \in Buttons
    <3> HIDE DEF B
    <3> QED
      BY <2>3, <2>4
  <2> QED
    BY <2>2, <2>5
<1> HIDE DEF es, B
<1>7. ASSUME NEW c \in AxisControls
      PROVE  c \in active' <=> IF axisControl' = axisControl THEN c \in active
                               ELSE IF axisControl = None THEN c \in active \/ c = axisControl'
                               ELSE c \in active /\ c # axisControl
  <2>1. /\ (\E e \in es : e.control = c) <=> \E e \in A : e.control = c
        /\ Edge(c, TRUE) \in es <=> Edge(c, TRUE) \in A
    <3> HIDE DEF A
    <3> QED
      BY <1>2, <1>4, <1>5, <1>6
  <2>2. c \in active' <=> IF \E e \in A : e.control = c THEN Edge(c, TRUE) \in A ELSE c \in active
    BY <1>3, <1>4, <2>1
  <2>3. CASE axisControl = axisControl'
    <3>1. A = {}
      BY <2>3 DEF AxisEdges
    <3> QED
      BY <2>2, <2>3, <3>1
  <2>4. CASE axisControl # axisControl' /\ axisControl = None
    <3>1. A = {Edge(axisControl', TRUE)}
      BY <2>4 DEF AxisEdges
    <3> HIDE DEF A
    <3> QED
      BY <1>5, <2>2, <2>4, <3>1
  <2>5. CASE axisControl # axisControl' /\ axisControl # None
    <3>1. A = {Edge(axisControl, FALSE)}
      BY <2>5 DEF AxisEdges
    <3>2. Edge(c, TRUE) \notin A
      BY <1>5, <3>1
    <3>3. (\E e \in A : e.control = c) <=> c = axisControl
      BY <1>5, <3>1
    <3> HIDE DEF A
    <3> QED
      BY <2>2, <2>5, <3>2, <3>3
  <2> QED
    BY <2>3, <2>4, <2>5
<1>8. ASSUME NEW c \in Buttons PROVE c \in active' <=> c \in b
  <2>1. /\ (\E e \in es : e.control = c) <=> \E e \in B : e.control = c
        /\ Edge(c, TRUE) \in es <=> Edge(c, TRUE) \in B
    <3> HIDE DEF A
    <3> QED
      BY <1>2, <1>4, <1>5, <1>6
  <2>2. Edge(c, TRUE) \in B <=> c \in b /\ c \notin active
    <3>1. ASSUME Edge(c, TRUE) \in B PROVE c \in b /\ c \notin active
      <4>1. PICK x \in Buttons : \/ x \in b /\ x \notin active /\ Edge(c, TRUE) = Edge(x, TRUE)
                                \/ Edge(c, TRUE) = Edge(x, FALSE)
        BY <3>1 DEF ButtonEdges, B
      <4> QED
        BY ZenonT(30), <1>5, <4>1
    <3>2. ASSUME c \in b /\ c \notin active PROVE Edge(c, TRUE) \in B
      BY <3>2 DEF ButtonEdges, B
    <3> QED
      BY <3>1, <3>2
  <2>3. Edge(c, FALSE) \in B <=> c \notin b /\ c \in active
    <3>1. ASSUME Edge(c, FALSE) \in B PROVE c \notin b /\ c \in active
      <4>1. PICK x \in Buttons : \/ x \notin b /\ x \in active /\ Edge(c, FALSE) = Edge(x, FALSE)
                                \/ Edge(c, FALSE) = Edge(x, TRUE)
        BY <3>1 DEF ButtonEdges, B
      <4> QED
        BY ZenonT(30), <1>5, <4>1
    <3>2. ASSUME c \notin b /\ c \in active PROVE Edge(c, FALSE) \in B
      BY <3>2 DEF ButtonEdges, B
    <3> QED
      BY <3>1, <3>2
  <2>4. (\E e \in B : e.control = c) <=> Edge(c, TRUE) \in B \/ Edge(c, FALSE) \in B
    <3>1. ASSUME NEW e \in B, e.control = c PROVE e = Edge(c, TRUE) \/ e = Edge(c, FALSE)
      BY <1>5, <3>1 DEF ButtonEdges, B
    <3> QED
      BY <1>5, <3>1
  <2> QED
    BY <1>3, <1>4, <2>1, <2>2, <2>3, <2>4
<1>9. active' \cap Buttons = b
  BY <1>8
<1> QED
  BY <1>1, <1>4, <1>7, <1>9

\* The inductive invariant of the detector: the lock is the active axis and its axis
\* is still deflected; a control that waits to become active has stood out for as long.
Locked ==
  /\ active \cap AxisControls = {axisControl} \ {None}
  /\ active \cap Buttons = buttons
  /\ axisControl # None => candidate = None /\ Along(axes, axisControl) >= Release
  /\ candidate # None => leader = candidate /\ lead >= waited

LEMMA LesserSteps ==
  \A m, n \in Int : Lesser(m, n) \in {m, n} /\ Lesser(m, n) <= m /\ Lesser(m, n) <= n
BY DEF Lesser

LEMMA LockedReport ==
  ASSUME Types, Locked, NEW s \in AxesStates, NEW b, b \subseteq Buttons, Report(s, b)
  PROVE  /\ Locked'
         /\ \A c \in AxisControls \cap (active' \ active) : leader' = c /\ lead' = Delay
<1>1. PICK d \in 0..MaxGap :
        /\ UpdateAxes(s, d)
        /\ leader' = Dominant(s)
        /\ lead' = IF leader' # None /\ leader' = leader THEN Lesser(lead + d, Delay) ELSE 0
  BY DEF Report
<1>2. /\ axisControl \in AxisControls \cup {None} /\ axisControl' \in AxisControls \cup {None}
      /\ candidate \in AxisControls \cup {None}
      /\ waited \in 0..Delay /\ lead \in 0..Delay /\ lead' \in 0..Delay /\ waited' \in 0..Delay
      /\ None \notin AxisControls /\ axes' = s /\ buttons' = b /\ Delay \in Nat /\ d \in Nat
  <2>1. Types' /\ axes' = s /\ buttons' = b
    BY ReportTypes DEF Report
  <2>2. None \notin AxisControls /\ Delay \in Nat /\ MaxGap \in Nat
    BY ControlsApart, TimeAssumption DEF Controls
  <2> QED
    BY <2>1, <2>2 DEF Types, TypeOK
<1>3. /\ active' \cap AxisControls =
            IF axisControl' = axisControl THEN active \cap AxisControls
            ELSE IF axisControl = None THEN (active \cap AxisControls) \cup {axisControl'}
            ELSE (active \cap AxisControls) \ {axisControl}
      /\ active' \cap Buttons = b
  BY ReportActive
<1>4. axisControl = None \/ axisControl' \in {axisControl, None}
  BY <1>1 DEF UpdateAxes, KeepLock, Unlock, Ambiguous, Wait, Lock
<1>5. active' \cap AxisControls = {axisControl'} \ {None}
  BY <1>2, <1>3, <1>4 DEF Locked
<1>6. Release <= Press /\ Release \in Nat /\ Press \in Nat
  BY ThresholdAssumption
<1>7. axisControl' # None => candidate' = None /\ Along(axes', axisControl') >= Release
  <2>1. ASSUME KeepLock(s) PROVE axisControl' # None => candidate' = None /\ Along(axes', axisControl') >= Release
    BY <1>2, <2>1 DEF KeepLock, StillHeld, Locked
  <2>2. ASSUME Unlock(s) \/ Ambiguous(s) \/ Wait(s, d) PROVE axisControl' = None
    BY <2>2 DEF Unlock, Ambiguous, Wait
  <2>3. ASSUME Lock(s, d) PROVE candidate' = None /\ Along(axes', axisControl') >= Release
    <3>1. axisControl' = Dominant(s) /\ Dominant(s) # None /\ candidate' = None
      BY <2>3 DEF Lock
    <3>2. Dominant(s) \in AxisControls /\ Along(s, Dominant(s)) >= Press
      BY <3>1, DominantIsControl
    <3>3. Along(s, Dominant(s)) \in Int
      <4>1. Dominant(s)[1] \in Axes /\ Dominant(s)[2] \in {1, -1}
        BY <3>2 DEF AxisControls
      <4>2. s[Dominant(s)[1]] \in Int
        BY <4>1, TimeAssumption DEF AxesStates
      <4> QED
        BY <4>1, <4>2 DEF Along
    <3> QED
      BY <1>2, <1>6, <3>1, <3>2, <3>3
  <2> QED
    BY <1>1, <2>1, <2>2, <2>3 DEF UpdateAxes
<1>8. candidate' # None => leader' = candidate' /\ lead' >= waited'
  <2>1. ASSUME KeepLock(s) PROVE candidate' = None
    BY <2>1 DEF KeepLock, Locked
  <2>2. ASSUME Unlock(s) \/ Ambiguous(s) \/ Lock(s, d) PROVE candidate' = None
    BY <2>2 DEF Unlock, Ambiguous, Lock, NoCandidate
  <2>3. ASSUME Wait(s, d) PROVE leader' = candidate' /\ lead' >= waited'
    <3>1. candidate' = Dominant(s) /\ Dominant(s) # None /\ waited' = Waited(s, d)
      BY <2>3 DEF Wait
    <3>2. CASE Dominant(s) = candidate
      <4>1. waited' = Lesser(waited + d, Delay) /\ lead' = Lesser(lead + d, Delay) /\ lead >= waited
        BY <1>1, <3>1, <3>2 DEF Waited, Locked
      <4> QED
        BY <1>1, <1>2, <3>1, <4>1 DEF Lesser
    <3>3. CASE Dominant(s) # candidate
      BY <1>1, <1>2, <3>1, <3>3 DEF Waited
    <3> QED
      BY <3>2, <3>3
  <2> QED
    BY <1>1, <2>1, <2>2, <2>3 DEF UpdateAxes
<1>9. ASSUME NEW c \in AxisControls \cap (active' \ active) PROVE leader' = c /\ lead' = Delay
  <2>1. axisControl' # axisControl /\ c = axisControl' /\ axisControl' # None
    BY <1>2, <1>3, <1>5
  <2>2. Lock(s, d)
    BY <1>1, <2>1 DEF UpdateAxes, KeepLock, Unlock, Ambiguous, Wait
  <2>3. c = Dominant(s) /\ Waited(s, d) = Delay
    BY <2>1, <2>2 DEF Lock
  <2>4. CASE Dominant(s) = candidate
    <3>1. candidate # None /\ leader = candidate /\ lead >= waited
      BY <1>2, <2>1, <2>3, <2>4 DEF Locked
    <3>2. Lesser(waited + d, Delay) = Delay /\ lead' = Lesser(lead + d, Delay)
      BY <1>1, <2>3, <2>4, <3>1 DEF Waited
    <3> QED
      BY <1>1, <1>2, <2>3, <3>1, <3>2 DEF Lesser
  <2>5. CASE Dominant(s) # candidate
    BY <1>1, <1>2, <2>3, <2>5 DEF Waited
  <2> QED
    BY <2>4, <2>5
<1> QED
  BY <1>2, <1>3, <1>5, <1>7, <1>8, <1>9 DEF Locked

\* A step that leaves the loop, and any other one that is not a report
LEMMA LockedOther ==
  ASSUME Types, Locked, Leave \/ UNCHANGED <<axes, buttons, active, axisControl, candidate, waited, leader, lead>>
  PROVE  Locked'
<1>1. CASE Leave
  <2>1. active' = {} /\ axisControl' = None /\ candidate' = None /\ buttons' = {}
    BY <1>1 DEF Leave
  <2> QED
    BY <2>1 DEF Locked
<1>2. CASE UNCHANGED <<axes, buttons, active, axisControl, candidate, waited, leader, lead>>
  BY <1>2 DEF Locked, Along
<1> QED
  BY <1>1, <1>2

LEMMA LockedStep ==
  ASSUME Types, Locked, [Next]_vars
  PROVE  /\ Locked'
         /\ phase = "loop" /\ phase' = "loop" =>
              \A c \in AxisControls \cap (active' \ active) : leader' = c /\ lead' = Delay
<1>1. axes \in AxesStates /\ buttons \subseteq Buttons /\ TranslationAxes \subseteq Axes /\ RotationAxes \subseteq Axes
  BY DEF Types, TypeOK, AxesStates, Axes
<1>2. CASE TranslationReport
  BY <1>1, <1>2, MovedSteps, LockedReport DEF TranslationReport
<1>3. CASE RotationReport
  BY <1>1, <1>3, MovedSteps, LockedReport DEF RotationReport
<1>4. CASE ButtonReport
  BY <1>1, <1>4, LockedReport DEF ButtonReport
<1>5. CASE LeaveLoop \/ SendFails
  <2>1. Leave
    BY <1>5 DEF LeaveLoop, SendFails
  <2>2. active' = {}
    BY <2>1 DEF Leave
  <2> QED
    BY <2>1, <2>2, LockedOther
<1>6. CASE Dispatch \/ SendNext \/ ReleaseAll \/ EndRun \/ NewRun \/ UNCHANGED vars
  <2>1. UNCHANGED <<axes, buttons, active, axisControl, candidate, waited, leader, lead>>
    BY <1>6 DEF Dispatch, SendNext, ReleaseAll, EndRun, NewRun, vars, device, detector, history
  <2>2. active' = active
    BY <2>1
  <2> QED
    BY <2>1, <2>2, LockedOther
<1> QED
  BY <1>2, <1>3, <1>4, <1>5, <1>6 DEF Next

LEMMA SpecLocked == Spec => []Locked
<1>1. Init => Locked
  BY DEF Init, Locked
<1>2. Types /\ Locked /\ [Next]_vars => Locked'
  BY LockedStep
<1> QED
  BY <1>1, <1>2, SpecTypes, PTL DEF Spec

\* One axis at a time, and it is the one _active_axis_control names; with the axes at
\* rest there is none (_update_axes keeps a lock only while the axis is deflected).
THEOREM AxisLockHolds == Spec => []AxisLock
<1>1. Types /\ Locked => AxisLock
  <2> SUFFICES ASSUME Types, Locked, Release > 0, \A a \in Axes : axes[a] = 0, axisControl # None
               PROVE  FALSE
    BY DEF Locked, AxisLock
  <2>1. axisControl \in AxisControls /\ Along(axes, axisControl) >= Release /\ Release \in Nat
    BY ThresholdAssumption DEF Types, TypeOK, Locked
  <2>2. axisControl[1] \in Axes /\ axisControl[2] \in {1, -1}
    BY <2>1 DEF AxisControls
  <2>3. Along(axes, axisControl) = 0
    BY <2>2 DEF Along
  <2> QED
    BY <2>1, <2>3
<1> QED
  BY <1>1, SpecTypes, SpecLocked, PTL

\* A direction becomes active only after it stood out in every report of the
\* activation delay, whatever was held, released or ambiguous before.
THEOREM SettledBeforePressHolds == Spec => SettledBeforePress
<1>1. Types /\ Locked /\ [Next]_vars =>
        [phase = "loop" /\ phase' = "loop" =>
           \A c \in AxisControls \cap (active' \ active) : leader' = c /\ lead' = Delay]_vars
  BY LockedStep
<1> QED
  BY <1>1, SpecTypes, SpecLocked, PTL DEF Spec, SettledBeforePress
=============================================================================
