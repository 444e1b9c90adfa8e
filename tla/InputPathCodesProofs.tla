------------------------ MODULE InputPathCodesProofs ------------------------
(***************************************************************************)
(* Theorems about what Codex is told in InputPath: the codes that are      *)
(* down, the notifications under way and the dictionary of held codes.     *)
(***************************************************************************)
EXTENDS InputPathProofs

-----------------------------------------------------------------------------
(* Notifications under way, and codes that release_all() still knows       *)

SentCodes(q) == {n.code : n \in Elements(q)}

KeptOf(a, h, v) == UNION {Elements(HeldCodes[a[h[i]]]) : i \in (v + 1)..Len(h)}
Kept == KeptOf(assignment, held, visited)

LEMMA HeadAndTail ==
  ASSUME NEW S, NEW q \in Seq(S), q # <<>>
  PROVE  /\ Head(q) \in S /\ Tail(q) \in Seq(S) /\ Len(Tail(q)) = Len(q) - 1 /\ Len(q) \in Nat \ {0}
         /\ \A i \in 1..(Len(q) - 1) : Tail(q)[i] = q[i + 1]
         /\ Head(q) = q[1] /\ Elements(q) = {Head(q)} \cup Elements(Tail(q))
<1>1. /\ Head(q) \in S /\ Tail(q) \in Seq(S) /\ Len(Tail(q)) = Len(q) - 1 /\ Len(q) \in Nat \ {0}
      /\ \A i \in 1..(Len(q) - 1) : Tail(q)[i] = q[i + 1]
      /\ Head(q) = q[1]
  OBVIOUS
<1>2. Elements(q) = {q[i] : i \in 1..Len(q)} /\ Elements(Tail(q)) = {Tail(q)[i] : i \in 1..(Len(q) - 1)}
  <2>1. DOMAIN q = 1..Len(q) /\ DOMAIN Tail(q) = 1..(Len(q) - 1)
    BY <1>1
  <2> QED
    BY <2>1 DEF Elements
<1>3. ASSUME NEW x \in Elements(q) PROVE x = Head(q) \/ x \in Elements(Tail(q))
  <2>1. PICK i \in 1..Len(q) : x = q[i]
    BY <1>2
  <2>2. CASE i = 1
    BY <1>1, <2>1, <2>2
  <2>3. CASE i # 1
    <3>1. i - 1 \in 1..(Len(q) - 1) /\ (i - 1) + 1 = i
      BY <1>1, <2>1, <2>3
    <3>2. Tail(q)[i - 1] = x
      BY <1>1, <2>1, <3>1
    <3> QED
      BY <1>2, <3>1, <3>2
  <2> QED
    BY <2>2, <2>3
<1>4. Head(q) \in Elements(q)
  BY <1>1, <1>2
<1>5. ASSUME NEW x \in Elements(Tail(q)) PROVE x \in Elements(q)
  <2>1. PICK i \in 1..(Len(q) - 1) : x = Tail(q)[i]
    BY <1>2
  <2>2. i + 1 \in 1..Len(q) /\ x = q[i + 1]
    BY <1>1, <2>1
  <2> QED
    BY <1>2, <2>2
<1> QED
  BY <1>1, <1>3, <1>4, <1>5

LEMMA KeyFields == \A c, a : Key(c, a).code = c /\ Key(c, a).act = a
BY DEF Key

LEMMA KeysElements ==
  ASSUME NEW codes \in Seq(Codes), NEW act \in {0, 1}
  PROVE  /\ SentCodes(Keys(codes, act)) = Elements(codes)
         /\ \A n \in Elements(Keys(codes, act)) : n.act = act /\ n.code \in Codes
<1> DEFINE q == Keys(codes, act)
<1>1. q \in Seq(Notifications) /\ Len(q) = Len(codes) /\ \A i \in 1..Len(codes) : q[i] = Key(codes[i], act)
  BY KeysSteps
<1>2. DOMAIN q = 1..Len(codes) /\ DOMAIN codes = 1..Len(codes) /\ \A i \in 1..Len(codes) : codes[i] \in Codes
  BY <1>1
<1> HIDE DEF q
<1>3. \A i \in 1..Len(codes) : q[i].code = codes[i] /\ q[i].act = act
  BY <1>1, KeyFields
<1>4. SentCodes(q) = Elements(codes)
  BY <1>2, <1>3 DEF SentCodes, Elements
<1>5. \A n \in Elements(q) : n.act = act /\ n.code \in Codes
  BY <1>2, <1>3 DEF Elements
<1> QED
  BY <1>4, <1>5 DEF q

LEMMA PairOfCalls == \A x, y : <<x>> \o <<y>> = <<x, y>>
<1> SUFFICES ASSUME NEW x, NEW y PROVE <<x>> \o <<y>> = <<x, y>>
  OBVIOUS
<1>1. <<x>> \in Seq({x, y}) /\ <<y>> \in Seq({x, y}) /\ <<x, y>> \in Seq({x, y})
  OBVIOUS
<1>2. <<x>> \o <<y>> \in Seq({x, y}) /\ Len(<<x>> \o <<y>>) = 2 /\ Len(<<x, y>>) = 2
  BY <1>1
<1>3. (<<x>> \o <<y>>)[1] = x /\ (<<x>> \o <<y>>)[2] = y
  BY <1>1
<1>4. \A i \in 1..2 : (<<x>> \o <<y>>)[i] = <<x, y>>[i]
  BY <1>3
<1> QED
  BY <1>1, <1>2, <1>4, SeqEqual

LEMMA KeptAll ==
  ASSUME NEW a, NEW h \in Seq(Controls)
  PROVE  KeptOf(a, h, 0) = UNION {Elements(HeldCodes[a[c]]) : c \in Elements(h)}
<1>1. DOMAIN h = 1..Len(h) /\ 0 + 1 = 1
  OBVIOUS
<1>2. Elements(h) = {h[i] : i \in 1..Len(h)} /\ KeptOf(a, h, 0) = UNION {Elements(HeldCodes[a[h[i]]]) : i \in 1..Len(h)}
  BY <1>1 DEF KeptOf, Elements
<1> DEFINE Of(c) == Elements(HeldCodes[a[c]])
<1>3. UNION {Of(h[i]) : i \in 1..Len(h)} = UNION {Of(c) : c \in {h[i] : i \in 1..Len(h)}}
  <2> HIDE DEF Of
  <2> QED
    OBVIOUS
<1> QED
  BY <1>2, <1>3

LEMMA KeptNext ==
  ASSUME NEW a, NEW h \in Seq(Controls)
  PROVE  /\ \A v \in 0..(Len(h) - 1) :
              KeptOf(a, h, v) = Elements(HeldCodes[a[h[v + 1]]]) \cup KeptOf(a, h, v + 1)
         /\ KeptOf(a, h, Len(h)) = {}
<1>1. ASSUME NEW v \in 0..(Len(h) - 1)
      PROVE  KeptOf(a, h, v) = Elements(HeldCodes[a[h[v + 1]]]) \cup KeptOf(a, h, v + 1)
  <2>1. (v + 1)..Len(h) = {v + 1} \cup ((v + 1) + 1)..Len(h)
    OBVIOUS
  <2> QED
    BY <2>1 DEF KeptOf
<1>2. (Len(h) + 1)..Len(h) = {}
  OBVIOUS
<1> QED
  BY <1>1, <1>2 DEF KeptOf

-----------------------------------------------------------------------------
(* Nothing stays pressed                                                   *)

\* The calls under way: one that releases, one that presses codes which release_all()
\* knows (or turns the encoder, or deflects the joystick), and a stroke of an agent key.
Releases(q) == \A n \in Elements(q) : n.act = 0
Presses(q)  == \A n \in Elements(q) : n.act = 2 \/ (n.act = 1 /\ n.code \in Joystick \cup Kept)
Strikes(q)  == \E a \in Codes : q = <<Key(a, 1), Key(a, 0)>>

\* The inductive invariant: a code that is down is one that release_all() knows, or one
\* that the call under way is going to release; and a call with a notification that does
\* not release is about codes that release_all() knows.
Covered ==
  /\ \/ Releases(sends) /\ (~lost => down \subseteq Kept \cup SentCodes(sends))
     \/ Presses(sends) /\ (~lost => down \subseteq Kept)
     \/ Strikes(sends) /\ (~lost => down \subseteq Kept)
  /\ phase = "release" => Releases(sends)
  /\ phase = "over" => sends = <<>> /\ (~lost => down = {})

\* With no call under way, what is down is held.
LEMMA CoveredIdle ==
  ASSUME Covered, sends = <<>>, ~lost
  PROVE  down \subseteq Kept
<1>1. Elements(sends) = {} /\ SentCodes(sends) = {}
  BY ShortElements DEF SentCodes
<1> QED
  BY <1>1 DEF Covered

LEMMA CoveredDispatch ==
  ASSUME Types, Covered, Dispatch
  PROVE  Covered'
<1> DEFINE e == Head(pending)
           k == assignment[e.control]
<1>1. /\ sends = <<>> /\ phase' = "loop" /\ lost' = lost /\ down' = down
      /\ assignment' = assignment /\ visited = 0 /\ visited' = 0
      /\ held \in Seq(Controls) /\ Distinct(held) /\ held' \in Seq(Controls)
  BY DispatchTypes DEF Dispatch, Types, TypeOK, codex
<1>2. ~lost => down \subseteq Kept
  BY <1>1, CoveredIdle
<1>3. HeldAction(e, k) \/ AgentAction(e, k) \/ EncoderAction(e, k) \/ JoystickAction(e, k) \/ NoAction(e, k)
  BY DEF Dispatch
<1>4. /\ Kept = UNION {Elements(HeldCodes[assignment[c]]) : c \in Elements(held)}
      /\ Kept' = UNION {Elements(HeldCodes[assignment[c]]) : c \in Elements(held')}
  BY <1>1, KeptAll DEF Kept
<1> DEFINE Cover == \/ Releases(sends') /\ (~lost => down \subseteq Kept' \cup SentCodes(sends'))
                    \/ Presses(sends)' /\ (~lost => down \subseteq Kept')
                    \/ Strikes(sends') /\ (~lost => down \subseteq Kept')
<1>5. ASSUME HeldAction(e, k), e.pressed PROVE Cover
  <2>1. k \in DOMAIN HeldCodes /\ sends' = Keys(HeldCodes[k], 1) /\ held' = Hold(e.control)
    BY <1>5 DEF HeldAction, Act
  <2>2. e.control \in Controls
    <3>1. pending \in Seq(Events) /\ pending # <<>>
      BY DEF Types, TypeOK, Dispatch, Events
    <3>2. e \in Events
      BY <3>1, HeadAndTail
    <3> QED
      BY <3>2 DEF Events
  <2>3. Elements(held') = Elements(held) \cup {e.control}
    <3> HIDE DEF e
    <3> QED
      BY <1>1, <2>1, <2>2, HoldSteps
  <2>4. HeldCodes[k] \in Seq(Codes)
    BY <2>1, HeldCodesAreCodes
  <2>5. SentCodes(sends') = Elements(HeldCodes[k]) /\ \A n \in Elements(sends') : n.act = 1
    BY <2>1, <2>4, KeysElements
  <2>6. Elements(HeldCodes[k]) \subseteq Kept' /\ Kept \subseteq Kept'
    BY <1>4, <2>3
  <2>7. Presses(sends)'
    BY <1>1, <2>5, <2>6 DEF Presses, SentCodes
  <2> QED
    BY <1>2, <2>6, <2>7
<1>6. ASSUME HeldAction(e, k), ~ e.pressed PROVE Cover
  <2>1. k \in DOMAIN HeldCodes /\ sends' = Keys(HeldCodes[k], 0) /\ held' = Drop(e.control)
    BY <1>6 DEF HeldAction, Act
  <2>2. Elements(held') = Elements(held) \ {e.control}
    <3> HIDE DEF e
    <3> QED
      BY <1>1, <2>1, DropSteps
  <2>3. HeldCodes[k] \in Seq(Codes)
    BY <2>1, HeldCodesAreCodes
  <2>4. SentCodes(sends') = Elements(HeldCodes[k]) /\ Releases(sends')
    BY <2>1, <2>3, KeysElements DEF Releases
  <2>5. Kept \subseteq Kept' \cup Elements(HeldCodes[k])
    BY <1>4, <2>2
  <2> QED
    BY <1>2, <2>4, <2>5
<1>7. ASSUME AgentAction(e, k) PROVE Cover
  <2>1. held' = held
    BY <1>7 DEF AgentAction
  <2>2. AgentCodes[agent' + 1] \in Codes
    <3>1. agent' \in 0..5
      BY DispatchTypes DEF Types, TypeOK
    <3> QED
      BY <3>1, AgentCodesAreCodes
  <2>3. sends' = Keys(<<AgentCodes[agent' + 1]>>, 1) \o Keys(<<AgentCodes[agent' + 1]>>, 0)
    BY <1>7 DEF AgentAction
  <2>4. \A a, act : Keys(<<a>>, act) = <<Key(a, act)>>
    BY DEF Keys
  <2>5. sends' = <<Key(AgentCodes[agent' + 1], 1), Key(AgentCodes[agent' + 1], 0)>>
    BY <2>3, <2>4, PairOfCalls
  <2> QED
    BY <1>2, <1>4, <2>1, <2>2, <2>5 DEF Strikes
<1>8. ASSUME EncoderAction(e, k) PROVE Cover
  <2>1. held' = held /\ sends' = <<Key(Encoders[k], 2)>>
    BY <1>8 DEF EncoderAction
  <2>2. Presses(sends)'
    BY <2>1, ShortElements, KeyFields DEF Presses
  <2> QED
    BY <1>2, <1>4, <2>1, <2>2
<1>9. ASSUME JoystickAction(e, k) PROVE Cover
  <2>1. held' = held /\ sends' = <<Key(k, Act(e))>> /\ Act(e) \in {0, 1} /\ k \in Joystick
    BY <1>9 DEF JoystickAction, Act
  <2>2. Elements(sends') = {Key(k, Act(e))}
    BY <2>1, ShortElements
  <2>3. CASE Act(e) = 0
    BY <1>2, <1>4, <2>1, <2>2, <2>3, KeyFields DEF Releases
  <2>4. CASE Act(e) = 1
    <3>1. Presses(sends)'
      BY <2>1, <2>2, <2>4, KeyFields DEF Presses
    <3> QED
      BY <1>2, <1>4, <2>1, <3>1
  <2> QED
    BY <2>1, <2>3, <2>4
<1>10. ASSUME NoAction(e, k) PROVE Cover
  <2>1. held' = held /\ sends' = <<>>
    BY <1>1, <1>10 DEF NoAction
  <2>2. Releases(sends')
    BY <2>1, ShortElements DEF Releases
  <2> QED
    BY <1>2, <1>4, <2>1, <2>2
<1>11. Cover
  BY <1>3, <1>5, <1>6, <1>7, <1>8, <1>9, <1>10
<1> HIDE DEF Cover
<1>12. Cover => Covered'
  BY <1>1 DEF Cover, Covered, Releases, Strikes, SentCodes
<1> QED
  BY <1>11, <1>12
\* What Codex makes of a notification
LEMMA ReceiveSteps ==
  ASSUME Types, NEW n \in Notifications, Receive(n)
  PROVE  /\ n.code \in Codes => down' = IF n.act = 1 THEN down \cup {n.code} ELSE down \ {n.code}
         /\ n.code \notin Codes => down' = down
         /\ n.code \in Joystick => adrift' = FALSE /\ stick' = IF n.act = 1 THEN n.code ELSE None
         /\ n.code \notin Joystick => stick' = stick /\ adrift' = adrift
BY CodesApart DEF Receive, codex

LEMMA CoveredSend ==
  ASSUME Types, Covered, SendNext
  PROVE  Covered'
<1> DEFINE n == Head(sends)
<1>1. /\ sends # <<>> /\ sends' = Tail(sends) /\ Receive(n) /\ lost' = lost /\ phase' = phase
      /\ Kept' = Kept
  BY DEF SendNext, Kept
<1>2. /\ n \in Notifications /\ Elements(sends) = {n} \cup Elements(sends')
      /\ Len(sends') = Len(sends) - 1 /\ Len(sends) \in Nat
  BY <1>1, HeadAndTail DEF Types, TypeOK
<1>3. /\ n.code \in Codes => down' = IF n.act = 1 THEN down \cup {n.code} ELSE down \ {n.code}
      /\ n.code \notin Codes => down' = down
  BY <1>1, <1>2, ReceiveSteps
<1>4. n.code \in SentCodes(sends) /\ SentCodes(sends) = {n.code} \cup SentCodes(sends')
  BY <1>2 DEF SentCodes
<1>5. phase # "over"
  BY <1>1 DEF Covered
<1>6. down \subseteq Codes
  BY DEF Types, TypeOK
<1> HIDE DEF n
<1> DEFINE Cover == \/ Releases(sends') /\ (~lost => down' \subseteq Kept \cup SentCodes(sends'))
                    \/ Presses(sends)' /\ (~lost => down' \subseteq Kept)
                    \/ Strikes(sends') /\ (~lost => down' \subseteq Kept)
<1>7. ASSUME Releases(sends) /\ (~lost => down \subseteq Kept \cup SentCodes(sends)) PROVE Cover
  <2>1. Releases(sends') /\ n.act = 0
    BY <1>2, <1>7 DEF Releases
  <2>2. ASSUME ~lost PROVE down' \subseteq Kept \cup SentCodes(sends')
    <3>1. CASE n.code \in Codes
      BY <1>3, <1>4, <1>7, <2>1, <2>2, <3>1
    <3>2. CASE n.code \notin Codes
      BY <1>3, <1>4, <1>6, <1>7, <2>2, <3>2
    <3> QED
      BY <3>1, <3>2
  <2> QED
    BY <2>1, <2>2
<1>8. ASSUME Presses(sends) /\ (~lost => down \subseteq Kept) PROVE Cover
  <2>1. Presses(sends)'
    BY <1>1, <1>2, <1>8 DEF Presses
  <2>2. n.act = 2 \/ (n.act = 1 /\ n.code \in Joystick \cup Kept)
    BY <1>2, <1>8 DEF Presses
  <2>3. n.code \in Codes => n.code \in Kept \/ n.act = 2
    BY <2>2, CodesApart
  <2>4. ~lost => down' \subseteq Kept
    BY <1>3, <1>8, <2>3
  <2> QED
    BY <2>1, <2>4
<1>9. ASSUME Strikes(sends) /\ (~lost => down \subseteq Kept) PROVE Cover
  <2>1. PICK a \in Codes : sends = <<Key(a, 1), Key(a, 0)>>
    BY <1>9 DEF Strikes
  <2>2. n = Key(a, 1) /\ sends' = <<Key(a, 0)>>
    BY <1>1, <2>1 DEF n
  <2>3. Elements(sends') = {Key(a, 0)} /\ SentCodes(sends') = {a} /\ n.code = a /\ n.act = 1
    BY <2>2, ShortElements, KeyFields DEF SentCodes
  <2>4. Releases(sends')
    BY <2>3, KeyFields DEF Releases
  <2>5. ~lost => down' \subseteq Kept \cup {a}
    BY <1>3, <1>9, <2>3
  <2> QED
    BY <2>3, <2>4, <2>5
<1>10. Cover
  BY <1>7, <1>8, <1>9 DEF Covered
<1>11. phase = "release" => Releases(sends')
  BY <1>2 DEF Covered, Releases
<1> QED
  BY <1>1, <1>5, <1>10, <1>11 DEF Covered, Releases, Strikes, SentCodes

LEMMA CoveredFail ==
  ASSUME Types, Covered, SendFails
  PROVE  Covered'
<1> DEFINE n == Head(sends)
<1>1. /\ sends # <<>> /\ sends' = <<>> /\ phase' = (IF phase = "loop" THEN "release" ELSE "over")
      /\ lost' = (lost \/ n.act = 0) /\ down' = down /\ Kept' = Kept
  BY DEF SendFails, Kept, codex
<1>2. n \in Elements(sends)
  <2>1. Elements(sends) = {n} \cup Elements(Tail(sends))
    BY <1>1, HeadAndTail DEF Types, TypeOK
  <2> QED
    BY <2>1
<1>3. ASSUME Releases(sends) PROVE lost'
  BY <1>1, <1>2, <1>3 DEF Releases
<1>4. ASSUME ~ Releases(sends), ~ lost PROVE down \subseteq Kept
  BY <1>4 DEF Covered
<1>5. Releases(sends')
  BY <1>1, ShortElements DEF Releases
<1>6. phase' = "over" => lost'
  <2>1. phase' = "over" => phase = "release" \/ phase = "over"
    BY <1>1 DEF Types, TypeOK
  <2> QED
    BY <1>1, <1>3, <2>1 DEF Covered
<1>7. ~ lost' => down' \subseteq Kept'
  BY <1>1, <1>3, <1>4
<1> QED
  BY <1>1, <1>5, <1>6, <1>7 DEF Covered, Releases, SentCodes

LEMMA CoveredRelease ==
  ASSUME Types, Covered, ReleaseAll
  PROVE  Covered'
<1> DEFINE k == assignment[held[visited + 1]]
<1>1. /\ sends = <<>> /\ visited' = visited + 1 /\ visited \in 0..(Len(held) - 1) /\ held \in Seq(Controls)
      /\ sends' = Keys(HeldCodes[k], 0) /\ held' = held /\ assignment' = assignment
      /\ phase' = "release" /\ lost' = lost /\ down' = down
  BY DEF ReleaseAll, Types, TypeOK, codex
<1>2. Kept = Elements(HeldCodes[k]) \cup Kept'
  <2>1. \A v \in 0..(Len(held) - 1) : KeptOf(assignment, held, v)
          = Elements(HeldCodes[assignment[held[v + 1]]]) \cup KeptOf(assignment, held, v + 1)
    BY <1>1, KeptNext
  <2>2. Kept' = KeptOf(assignment, held, visited + 1)
    BY <1>1 DEF Kept
  <2> QED
    BY <1>1, <2>1, <2>2 DEF Kept
<1>3. k \in DOMAIN HeldCodes
  <2>1. held[visited + 1] \in Elements(held)
    BY <1>1 DEF Elements
  <2> QED
    BY <2>1 DEF Types
<1>4. HeldCodes[k] \in Seq(Codes)
  BY <1>3, HeldCodesAreCodes
<1> HIDE DEF k
<1>5. SentCodes(sends') = Elements(HeldCodes[k]) /\ Releases(sends')
  BY <1>1, <1>4, KeysElements DEF Releases
<1>6. ~lost => down \subseteq Kept
  BY <1>1, CoveredIdle
<1> QED
  BY <1>1, <1>2, <1>5, <1>6 DEF Covered, Releases, SentCodes

LEMMA CoveredStep == Types /\ Covered /\ [Next]_vars => Covered'
<1> SUFFICES ASSUME Types, Covered, [Next]_vars PROVE Covered'
  OBVIOUS
<1>1. CASE TranslationReport \/ RotationReport \/ ButtonReport
  <2>1. /\ sends = <<>> /\ sends' = <<>> /\ phase = "loop" /\ phase' = "loop" /\ lost' = lost /\ down' = down
        /\ Kept' = Kept
    BY <1>1 DEF TranslationReport, RotationReport, ButtonReport, Report, Between, Kept, codex
  <2> QED
    BY <2>1 DEF Covered, Releases, Presses, Strikes, SentCodes
<1>2. CASE LeaveLoop
  <2>1. /\ sends = <<>> /\ sends' = <<>> /\ phase' = "release" /\ lost' = lost /\ down' = down /\ Kept' = Kept
    BY <1>2 DEF LeaveLoop, Between, Kept, codex
  <2>2. Releases(sends') /\ (~lost => down \subseteq Kept)
    BY <2>1, CoveredIdle, ShortElements DEF Releases
  <2> QED
    BY <2>1, <2>2 DEF Covered, Releases, SentCodes
<1>3. CASE EndRun
  <2>1. /\ sends = <<>> /\ sends' = <<>> /\ phase' = "over" /\ lost' = lost /\ down' = down
        /\ visited = Len(held) /\ held \in Seq(Controls)
    BY <1>3 DEF EndRun, Types, TypeOK, codex
  <2>2. Kept = {}
    <3>1. KeptOf(assignment, held, Len(held)) = {}
      BY <2>1, KeptNext
    <3> QED
      BY <2>1, <3>1 DEF Kept
  <2>3. Releases(sends') /\ (~lost => down = {})
    BY <2>1, <2>2, CoveredIdle, ShortElements DEF Releases
  <2> QED
    BY <2>1, <2>3 DEF Covered, Releases, SentCodes
<1>4. CASE NewRun
  <2>1. /\ phase = "over" /\ sends' = sends /\ phase' = "loop" /\ ~lost /\ lost' = lost /\ down' = down
    BY <1>4 DEF NewRun, codex
  <2>2. sends' = <<>> /\ down' = {}
    BY <2>1 DEF Covered
  <2>3. Releases(sends')
    BY <2>2, ShortElements DEF Releases
  <2> QED
    BY <2>1, <2>2, <2>3 DEF Covered, Releases, SentCodes
<1>5. CASE UNCHANGED vars
  <2>1. UNCHANGED <<sends, phase, lost, down, assignment, held, visited>>
    BY <1>5 DEF vars, codex
  <2>2. Kept' = Kept
    BY <2>1 DEF Kept
  <2> QED
    BY <2>1, <2>2 DEF Covered, Releases, Presses, Strikes, SentCodes
<1> QED
  BY <1>1, <1>2, <1>3, <1>4, <1>5, CoveredDispatch, CoveredSend, CoveredFail, CoveredRelease DEF Next

LEMMA SpecCovered == Spec => []Covered
<1>1. Init => Covered
  <2> SUFFICES ASSUME Init PROVE Covered
    OBVIOUS
  <2>1. sends = <<>> /\ phase = "loop" /\ down = {}
    BY DEF Init
  <2>2. Releases(sends)
    BY <2>1, ShortElements DEF Releases
  <2> QED
    BY <2>1, <2>2 DEF Covered
<1> QED
  BY <1>1, CoveredStep, SpecTypes, PTL DEF Spec

\* When a run is over, release_all() has released whatever a dispatch pressed, for any
\* mapping, two controls of one code included, and whichever notification failed,
\* unless it was one that releases.
THEOREM NothingStuckHolds == Spec => []NothingStuck
<1>1. Covered => NothingStuck
  BY DEF Covered, NothingStuck
<1> QED
  BY <1>1, SpecCovered, PTL
-----------------------------------------------------------------------------
(* The controls the dispatcher was told of                                 *)

\* A control whose event is still pending counts as it was before the report.
Undone(c) == IF \E e \in Elements(pending) : e.control = c THEN Edge(c, FALSE) \in Elements(pending)
             ELSE c \in active
Told == {c \in Controls : Undone(c)}

OneEach(q) == \A i, j \in 1..Len(q) : q[i].control = q[j].control => i = j

\* In the loop, the dictionary has the keys of the controls the dispatcher was told of,
\* each has one event at most, which agrees with the detector, and of the axes there is
\* one at most, counting those the dispatcher was not told of yet.
Follows ==
  /\ phase = "loop" =>
       /\ ~lost
       /\ Elements(held) = {c \in Told : assignment[c] \in DOMAIN HeldCodes}
       /\ OneEach(pending)
       /\ \A e \in Elements(pending) : e.pressed <=> e.control \in active
       /\ \A b, c \in (Told \cup active) \cap AxisControls : b = c
  /\ phase # "loop" => active = {}

LEMMA EdgeFields ==
  \A c : /\ Edge(c, TRUE).control = c /\ Edge(c, FALSE).control = c
         /\ Edge(c, TRUE).pressed = TRUE /\ Edge(c, FALSE).pressed = FALSE
         /\ Edge(c, TRUE) # Edge(c, FALSE)
BY DEF Edge

LEMMA EventIsEdge ==
  \A e \in Events : (e.pressed => e = Edge(e.control, TRUE)) /\ (~ e.pressed => e = Edge(e.control, FALSE))
                    /\ e.control \in Controls /\ e.pressed \in BOOLEAN
BY DEF Edge, Events

LEMMA OneEachConcat ==
  ASSUME NEW q \in Seq(Events), NEW r \in Seq(Events), OneEach(q), OneEach(r),
         \A d \in Elements(q), e \in Elements(r) : d.control # e.control
  PROVE  OneEach(q \o r)
<1>1. /\ Len(q) \in Nat /\ DOMAIN q = 1..Len(q) /\ Len(r) \in Nat /\ DOMAIN r = 1..Len(r)
      /\ Len(q \o r) = Len(q) + Len(r)
      /\ \A i \in 1..(Len(q) + Len(r)) : (q \o r)[i] = IF i <= Len(q) THEN q[i] ELSE r[i - Len(q)]
  OBVIOUS
<1>2. /\ \A i \in 1..Len(q) : q[i] \in Elements(q)
      /\ \A i \in 1..Len(r) : r[i] \in Elements(r)
  BY <1>1 DEF Elements
<1> SUFFICES ASSUME NEW i \in 1..(Len(q) + Len(r)), NEW j \in 1..(Len(q) + Len(r)),
                    (q \o r)[i].control = (q \o r)[j].control
             PROVE  i = j
  BY <1>1 DEF OneEach
<1>3. \A h \in 1..(Len(q) + Len(r)) :
        \/ h \in 1..Len(q) /\ (q \o r)[h] = q[h]
        \/ h - Len(q) \in 1..Len(r) /\ (q \o r)[h] = r[h - Len(q)]
  BY <1>1
<1>4. CASE i \in 1..Len(q) /\ (q \o r)[i] = q[i]
  <2>1. CASE j \in 1..Len(q) /\ (q \o r)[j] = q[j]
    BY <1>4, <2>1 DEF OneEach
  <2>2. CASE j - Len(q) \in 1..Len(r) /\ (q \o r)[j] = r[j - Len(q)]
    BY <1>2, <1>4, <2>2
  <2> QED
    BY <1>3, <2>1, <2>2
<1>5. CASE i - Len(q) \in 1..Len(r) /\ (q \o r)[i] = r[i - Len(q)]
  <2>1. CASE j \in 1..Len(q) /\ (q \o r)[j] = q[j]
    BY <1>2, <1>5, <2>1
  <2>2. CASE j - Len(q) \in 1..Len(r) /\ (q \o r)[j] = r[j - Len(q)]
    <3>1. i - Len(q) = j - Len(q)
      BY <1>5, <2>2 DEF OneEach
    <3> QED
      BY <1>1, <3>1
  <2> QED
    BY <1>3, <2>1, <2>2
<1> QED
  BY <1>3, <1>4, <1>5

\* The events of a report are of different controls.
LEMMA ReportOneEach ==
  ASSUME NEW c \in AxisControls \cup {None}, NEW d \in AxisControls \cup {None}, NEW b
  PROVE  OneEach(AxisEvents(c, d) \o ButtonEvents(b))
<1>1. \A x : OneEach(<<x>>)
  BY DEF OneEach
<1>2. OneEach(<<>>)
  BY DEF OneEach
<1>3. AxisEvents(c, d) \in Seq(Events) /\ OneEach(AxisEvents(c, d)) /\ \A e \in Elements(AxisEvents(c, d)) : e.control \in AxisControls
  <2>1. AxisEvents(c, d) = <<>> \/ \E x \in AxisControls : AxisEvents(c, d) \in {<<Edge(x, TRUE)>>, <<Edge(x, FALSE)>>}
    BY DEF AxisEvents
  <2>2. ASSUME NEW x \in AxisControls, AxisEvents(c, d) \in {<<Edge(x, TRUE)>>, <<Edge(x, FALSE)>>}
        PROVE  OneEach(AxisEvents(c, d)) /\ \A e \in Elements(AxisEvents(c, d)) : e.control \in AxisControls
    <3>1. PICK e : AxisEvents(c, d) = <<e>> /\ e.control = x
      BY <2>2, EdgeFields
    <3>2. OneEach(<<e>>) /\ Elements(<<e>>) = {e}
      BY <1>1, ShortElements
    <3> QED
      BY <3>1, <3>2
  <2>3. ASSUME AxisEvents(c, d) = <<>>
        PROVE  OneEach(AxisEvents(c, d)) /\ \A e \in Elements(AxisEvents(c, d)) : e.control \in AxisControls
    BY <1>2, <2>3, ShortElements
  <2> QED
    BY <2>1, <2>2, <2>3, AxisEventsSteps
<1>4. ASSUME NEW x \in Buttons
      PROVE  ButtonEdge(b, x) \in Seq(Events) /\ OneEach(ButtonEdge(b, x)) /\ \A e \in Elements(ButtonEdge(b, x)) : e.control = x
  <2>1. ButtonEdge(b, x) = <<>> \/ ButtonEdge(b, x) = <<Edge(x, x \in b)>>
    BY DEF ButtonEdge
  <2>2. Edge(x, x \in b) \in Events /\ Edge(x, x \in b).control = x
    BY DEF Edge, Events, Controls
  <2>3. \A e \in Events : <<e>> \in Seq(Events) /\ <<>> \in Seq(Events)
    OBVIOUS
  <2> QED
    BY <1>1, <1>2, <2>1, <2>2, <2>3, ShortElements
<1>5. <<0, 1>> \in Buttons /\ <<0, 2>> \in Buttons /\ <<0, 1>> # <<0, 2>>
  BY DEF Buttons
<1>6. ButtonEvents(b) = ButtonEdge(b, <<0, 1>>) \o ButtonEdge(b, <<0, 2>>) /\ ButtonEvents(b) \in Seq(Events)
  BY ButtonEventsSteps
<1>7. OneEach(ButtonEvents(b))
  BY <1>4, <1>5, <1>6, OneEachConcat
<1>8. \A e \in Elements(ButtonEvents(b)) : e.control \in Buttons
  <2>1. Elements(ButtonEvents(b)) = Elements(ButtonEdge(b, <<0, 1>>)) \cup Elements(ButtonEdge(b, <<0, 2>>))
    BY <1>4, <1>5, <1>6, ConcatElements
  <2> QED
    BY <1>4, <1>5, <2>1
<1> QED
  BY <1>3, <1>6, <1>7, <1>8, ControlsApart, OneEachConcat

\* The edges of a report are real ones: a press of a control that is not active, a
\* release of one that is.
LEMMA RealEdges ==
  ASSUME Types, Locked, NEW s \in AxesStates, NEW b, b \subseteq Buttons, Report(s, b),
         NEW e \in Elements(pending')
  PROVE  e \in Events /\ (e.pressed <=> e.control \notin active)
<1>1. axisControl \in AxisControls \cup {None} /\ axisControl' \in AxisControls \cup {None}
      /\ None \notin AxisControls
  BY ReportTypes, ControlsApart DEF Types, TypeOK, Controls
<1>2. pending' = AxisEvents(axisControl, axisControl') \o ButtonEvents(b)
  BY DEF Report
<1>3. e \in AxisEdges(axisControl, axisControl') \cup ButtonEdges(b)
  BY <1>1, <1>2, ReportEvents
<1>4. e \in Events
  <2>1. AxisEvents(axisControl, axisControl') \in Seq(Events) /\ ButtonEvents(b) \in Seq(Events)
    BY <1>1, AxisEventsSteps, ButtonEventsSteps
  <2>2. pending' \in Seq(Events)
    BY <1>2, <2>1
  <2> QED
    BY <2>2 DEF Elements
<1>5. CASE e \in AxisEdges(axisControl, axisControl')
  <2>1. CASE axisControl = None
    <3>1. e = Edge(axisControl', TRUE) /\ axisControl' \in AxisControls
      BY <1>1, <1>5, <2>1 DEF AxisEdges
    <3>2. axisControl' \notin active
      BY <2>1, <3>1 DEF Locked
    <3> QED
      BY <1>4, <3>1, <3>2, EdgeFields
  <2>2. CASE axisControl # None
    <3>1. e = Edge(axisControl, FALSE) /\ axisControl \in active
      BY <1>1, <1>5, <2>2 DEF AxisEdges, Locked
    <3> QED
      BY <1>4, <3>1, EdgeFields
  <2> QED
    BY <2>1, <2>2
<1>6. CASE e \in ButtonEdges(b)
  <2>1. PICK x \in Buttons : \/ (e = Edge(x, TRUE) /\ x \notin active)
                            \/ (e = Edge(x, FALSE) /\ x \in active)
    BY <1>6, Zenon DEF ButtonEdges
  <2> QED
    BY <1>4, <2>1, EdgeFields
<1> QED
  BY <1>3, <1>5, <1>6

LEMMA FollowsReport ==
  ASSUME Types, Locked, Follows, NEW s \in AxesStates, NEW b, b \subseteq Buttons, Report(s, b)
  PROVE  Follows' /\ Told = active /\ Told' = active
<1> DEFINE es == Elements(pending')
<1>1. /\ phase = "loop" /\ phase' = "loop" /\ pending = <<>> /\ lost' = lost /\ held' = held
      /\ assignment' = assignment /\ active \subseteq Controls
  BY DEF Report, Between, Types, TypeOK
<1>2. \A e \in es : e \in Events /\ (e.pressed <=> e.control \notin active)
  BY RealEdges
<1>3. active' = {c \in Controls : IF \E e \in es : e.control = c THEN Edge(c, TRUE) \in es ELSE c \in active}
  BY DEF Report, Recorded, Elements
<1>4. Told = active
  <2>1. Elements(pending) = {}
    BY <1>1, ShortElements
  <2> QED
    BY <1>1, <2>1 DEF Told, Undone
<1>5. Told' = {c \in Controls : IF \E e \in es : e.control = c THEN Edge(c, FALSE) \in es ELSE c \in active'}
  BY DEF Told, Undone
<1> HIDE DEF es
<1>6. ASSUME NEW c \in Controls PROVE c \in Told' <=> c \in active
  <2>1. CASE \E e \in es : e.control = c
    <3>1. PICK e \in es : e.control = c
      BY <2>1
    <3>2. e = Edge(c, TRUE) \/ e = Edge(c, FALSE)
      BY <1>2, <3>1, EventIsEdge
    <3>3. CASE c \in active
      <4>1. e = Edge(c, FALSE)
        BY <1>2, <3>1, <3>2, <3>3, EdgeFields
      <4> QED
        BY <1>5, <2>1, <3>1, <3>3, <4>1
    <3>4. CASE c \notin active
      <4>1. Edge(c, FALSE) \notin es
        BY <1>2, <3>4, EdgeFields
      <4> QED
        BY <1>5, <2>1, <3>4, <4>1
    <3> QED
      BY <3>3, <3>4
  <2>2. CASE ~ \E e \in es : e.control = c
    BY <1>3, <1>5, <2>2
  <2> QED
    BY <2>1, <2>2
<1>7. Told' = active
  BY <1>1, <1>5, <1>6
<1>8. \A e \in es : e.pressed <=> e.control \in active'
  <2> SUFFICES ASSUME NEW e \in es PROVE e.pressed <=> e.control \in active'
    OBVIOUS
  <2>1. e.control \in Controls /\ (e.control \in active' <=> Edge(e.control, TRUE) \in es)
    BY <1>2, <1>3, EventIsEdge
  <2>2. CASE e.pressed
    <3>1. e = Edge(e.control, TRUE)
      BY <1>2, <2>2, EventIsEdge
    <3> QED
      BY <2>1, <2>2, <3>1
  <2>3. CASE ~ e.pressed
    <3>1. e.control \in active
      BY <1>2, <2>3
    <3>2. Edge(e.control, TRUE) \notin es
      BY <1>2, <3>1, EdgeFields
    <3> QED
      BY <2>1, <2>3, <3>2
  <2> QED
    BY <2>2, <2>3
<1>9. OneEach(pending')
  <2>1. axisControl \in AxisControls \cup {None} /\ axisControl' \in AxisControls \cup {None}
    BY ReportTypes DEF Types, TypeOK
  <2>2. pending' = AxisEvents(axisControl, axisControl') \o ButtonEvents(b)
    BY DEF Report
  <2> QED
    BY <2>1, <2>2, ReportOneEach
<1>10. \A x, y \in (active \cup active') \cap AxisControls : x = y
  <2>1. active \cap AxisControls = {axisControl} \ {None} /\ active' \cap AxisControls = {axisControl'} \ {None}
    BY LockedReport DEF Locked
  <2>2. axisControl = None \/ axisControl' \in {axisControl, None}
    BY DEF Report, UpdateAxes, KeepLock, Unlock, Ambiguous, Wait, Lock
  <2> QED
    BY <2>1, <2>2
<1>11. Elements(held') = {c \in Told' : assignment'[c] \in DOMAIN HeldCodes}
  BY <1>1, <1>4, <1>7 DEF Follows
<1> QED
  BY <1>1, <1>4, <1>7, <1>8, <1>9, <1>10, <1>11 DEF Follows, es

\* What the dispatcher is told with an event
LEMMA ToldDispatch ==
  ASSUME Types, Follows, Dispatch
  PROVE  LET e == Head(pending)
         IN  /\ e \in Events /\ e.control \in Controls
             /\ e.pressed => e.control \in active \ Told /\ Told' = Told \cup {e.control}
             /\ ~ e.pressed => e.control \in Told /\ Told' = Told \ {e.control}
             /\ Elements(held') = {c \in Told' : assignment[c] \in DOMAIN HeldCodes} => Follows'
<1> DEFINE e == Head(pending)
           es == Elements(pending)
           er == Elements(pending')
<1>1. /\ phase = "loop" /\ phase' = "loop" /\ pending # <<>> /\ pending' = Tail(pending) /\ lost' = lost
      /\ active' = active /\ assignment' = assignment /\ pending \in Seq(Events) /\ active \subseteq Controls
  BY DEF Dispatch, detector, Types, TypeOK, Events
<1>2. /\ e \in Events /\ es = {e} \cup er /\ Len(pending) \in Nat \ {0}
      /\ pending' \in Seq(Events) /\ Len(pending') = Len(pending) - 1
      /\ \A i \in 1..(Len(pending) - 1) : pending'[i] = pending[i + 1]
      /\ e = pending[1] /\ er = {pending'[i] : i \in 1..(Len(pending) - 1)}
  <2>1. pending' \in Seq(Events) /\ Len(pending') = Len(pending) - 1
    BY <1>1, HeadAndTail
  <2>2. er = {pending'[i] : i \in 1..(Len(pending) - 1)}
    BY <2>1 DEF Elements
  <2> QED
    BY <1>1, <2>1, <2>2, HeadAndTail
<1>3. e.control \in Controls /\ e.pressed \in BOOLEAN /\ (e = Edge(e.control, TRUE) <=> e.pressed)
      /\ (e = Edge(e.control, FALSE) <=> ~ e.pressed)
  BY <1>2, EventIsEdge, EdgeFields
<1>4. OneEach(pending')
  BY <1>1, <1>2 DEF Follows, OneEach
<1>5. \A f \in er : f.control # e.control
  <2> SUFFICES ASSUME NEW f \in er, f.control = e.control PROVE FALSE
    OBVIOUS
  <2>1. PICK i \in 1..(Len(pending) - 1) : f = pending[i + 1]
    BY <1>2
  <2>2. i + 1 \in 1..Len(pending) /\ 1 \in 1..Len(pending) /\ i + 1 # 1
    BY <1>2
  <2> QED
    BY <1>1, <1>2, <2>1, <2>2 DEF Follows, OneEach
<1>6. e.pressed <=> e.control \in active
  BY <1>1, <1>2 DEF Follows
<1>7. Told = {c \in Controls : IF \E f \in es : f.control = c THEN Edge(c, FALSE) \in es ELSE c \in active}
  BY DEF Told, Undone
<1>8. Told' = {c \in Controls : IF \E f \in er : f.control = c THEN Edge(c, FALSE) \in er ELSE c \in active}
  BY <1>1 DEF Told, Undone
<1> HIDE DEF e, es, er
<1>9. ASSUME NEW c \in Controls, c # e.control PROVE c \in Told' <=> c \in Told
  <2>1. /\ (\E f \in es : f.control = c) <=> (\E f \in er : f.control = c)
        /\ Edge(c, FALSE) \in es <=> Edge(c, FALSE) \in er
    BY <1>2, <1>9, EdgeFields
  <2> QED
    BY <1>7, <1>8, <2>1
<1>10. e.control \in Told <=> ~ e.pressed
  <2>1. Edge(e.control, FALSE) \in es <=> ~ e.pressed
    <3>1. Edge(e.control, FALSE) \notin er
      BY <1>5, EdgeFields
    <3> QED
      BY <1>2, <1>3, <3>1
  <2> QED
    BY <1>2, <1>3, <1>7, <2>1
<1>11. e.control \in Told' <=> e.pressed
  BY <1>3, <1>5, <1>6, <1>8
<1>12. Told \subseteq Controls /\ Told' \subseteq Controls
  BY <1>7, <1>8
<1>13. (e.pressed => Told' = Told \cup {e.control}) /\ (~ e.pressed => Told' = Told \ {e.control})
  BY <1>3, <1>9, <1>10, <1>11, <1>12
<1>14. \A f \in er : f.pressed <=> f.control \in active
  BY <1>1, <1>2 DEF Follows, es
<1>15. \A b, c \in (Told' \cup active) \cap AxisControls : b = c
  BY <1>1, <1>6, <1>13 DEF Follows
<1>16. Elements(held') = {c \in Told' : assignment[c] \in DOMAIN HeldCodes} => Follows'
  BY <1>1, <1>4, <1>14, <1>15 DEF Follows, er
<1> QED
  BY <1>1, <1>2, <1>3, <1>6, <1>10, <1>13, <1>16 DEF e
\* Actions of different kinds have different keys.
LEMMA KindsApart ==
  \A k \in DOMAIN HeldCodes :
    k \notin DOMAIN AgentSteps /\ k \notin DOMAIN Encoders /\ k \notin Joystick /\ k # "unassigned"
BY HeldKeys DEF AgentSteps, Encoders, Joystick

LEMMA FollowsDispatch ==
  ASSUME Types, Follows, Dispatch
  PROVE  Follows'
<1> DEFINE e == Head(pending)
           k == assignment[e.control]
<1>1. /\ e \in Events /\ e.control \in Controls
      /\ e.pressed => e.control \in active \ Told /\ Told' = Told \cup {e.control}
      /\ ~ e.pressed => e.control \in Told /\ Told' = Told \ {e.control}
      /\ Elements(held') = {c \in Told' : assignment[c] \in DOMAIN HeldCodes} => Follows'
  BY ToldDispatch
<1>2. HeldAction(e, k) \/ AgentAction(e, k) \/ EncoderAction(e, k) \/ JoystickAction(e, k) \/ NoAction(e, k)
  BY DEF Dispatch
<1>3. /\ held \in Seq(Controls) /\ Distinct(held)
      /\ Elements(held) = {c \in Told : assignment[c] \in DOMAIN HeldCodes}
  BY DEF Types, TypeOK, Follows, Dispatch
<1>4. CASE HeldAction(e, k)
  <2>1. k \in DOMAIN HeldCodes /\ held' = IF e.pressed THEN Hold(e.control) ELSE Drop(e.control)
    BY <1>4 DEF HeldAction
  <2>2. CASE e.pressed
    <3>1. Elements(held') = Elements(held) \cup {e.control}
      <4>1. held' = Hold(e.control)
        BY <2>1, <2>2
      <4> HIDE DEF e
      <4> QED
        BY <1>1, <1>3, <4>1, HoldSteps
    <3> QED
      BY <1>1, <1>3, <2>1, <2>2, <3>1
  <2>3. CASE ~ e.pressed
    <3>1. Elements(held') = Elements(held) \ {e.control}
      <4>1. held' = Drop(e.control)
        BY <2>1, <2>3
      <4> HIDE DEF e
      <4> QED
        BY <1>3, <4>1, DropSteps
    <3> QED
      BY <1>1, <1>3, <2>1, <2>3, <3>1
  <2> QED
    BY <2>2, <2>3
<1>5. CASE AgentAction(e, k) \/ EncoderAction(e, k) \/ JoystickAction(e, k) \/ NoAction(e, k)
  <2>1. held' = held /\ k \notin DOMAIN HeldCodes
    BY <1>5, KindsApart DEF AgentAction, EncoderAction, JoystickAction, NoAction
  <2> HIDE DEF e
  <2>2. e.pressed \in BOOLEAN
    BY <1>1 DEF Events
  <2> QED
    BY <1>1, <1>3, <2>1, <2>2
<1> QED
  BY <1>2, <1>4, <1>5

LEMMA FollowsStep == Types /\ Locked /\ Follows /\ [Next]_vars => Follows'
<1> SUFFICES ASSUME Types, Locked, Follows, [Next]_vars PROVE Follows'
  OBVIOUS
<1>1. axes \in AxesStates /\ buttons \subseteq Buttons /\ TranslationAxes \subseteq Axes /\ RotationAxes \subseteq Axes
  BY DEF Types, TypeOK, AxesStates, Axes
<1>2. CASE TranslationReport
  BY <1>1, <1>2, MovedSteps, FollowsReport DEF TranslationReport
<1>3. CASE RotationReport
  BY <1>1, <1>3, MovedSteps, FollowsReport DEF RotationReport
<1>4. CASE ButtonReport
  BY <1>1, <1>4, FollowsReport DEF ButtonReport
<1>5. CASE LeaveLoop \/ SendFails
  <2>1. phase' # "loop" /\ active' = {}
    BY <1>5 DEF LeaveLoop, SendFails, Leave
  <2> QED
    BY <2>1 DEF Follows
<1>6. CASE ReleaseAll \/ EndRun
  <2>1. phase # "loop" /\ phase' # "loop" /\ active' = active
    BY <1>6 DEF ReleaseAll, EndRun, detector
  <2> QED
    BY <2>1 DEF Follows
<1>7. CASE NewRun
  <2>1. phase' = "loop" /\ active' = {} /\ pending' = <<>> /\ held' = <<>> /\ lost' = lost /\ ~lost
    BY <1>7 DEF NewRun, detector, Types, Follows
  <2>2. Elements(pending') = {} /\ Elements(held') = {} /\ OneEach(pending')
    BY <2>1, ShortElements DEF OneEach
  <2>3. Told' = {}
    BY <2>1, <2>2 DEF Told, Undone
  <2> QED
    BY <2>1, <2>2, <2>3 DEF Follows
<1>8. CASE SendNext \/ UNCHANGED vars
  <2>1. UNCHANGED <<phase, lost, held, assignment, pending, active>>
    BY <1>8 DEF SendNext, vars, detector
  <2>2. Told' = Told
    BY <2>1 DEF Told, Undone
  <2> QED
    BY <2>1, <2>2 DEF Follows
<1> QED
  BY <1>2, <1>3, <1>4, <1>5, <1>6, <1>7, <1>8, FollowsDispatch DEF Next

LEMMA SpecFollows == Spec => []Follows
<1>1. Init => Follows
  <2> SUFFICES ASSUME Init PROVE Follows
    OBVIOUS
  <2>1. phase = "loop" /\ active = {} /\ pending = <<>> /\ held = <<>> /\ ~lost
    BY DEF Init
  <2>2. Elements(pending) = {} /\ Elements(held) = {} /\ OneEach(pending)
    BY <2>1, ShortElements DEF OneEach
  <2>3. Told = {}
    BY <2>1, <2>2 DEF Told, Undone
  <2> QED
    BY <2>1, <2>2, <2>3 DEF Follows
<1> QED
  BY <1>1, FollowsStep, SpecTypes, SpecLocked, PTL DEF Spec

-----------------------------------------------------------------------------
(* What Codex believes                                                     *)

\* Two controls the dispatcher may be told of share no code and no joystick.
LEMMA ToldApart ==
  ASSUME Types, Follows, phase = "loop", Separate,
         NEW b \in Told \cup active, NEW c \in Told \cup active, b # c
  PROVE  /\ CodesOf(assignment[b]) \cap CodesOf(assignment[c]) = {}
         /\ ~ (assignment[b] \in Joystick /\ assignment[c] \in Joystick)
<1>1. b \in Controls /\ c \in Controls
  BY DEF Told, Types, TypeOK
<1>2. Together(b, c)
  BY DEF Together, Follows
<1> QED
  BY <1>1, <1>2 DEF Separate, SeparateAssignments

\* With the dispatcher at rest or in a call, the codes that release_all() knows are
\* those of the controls the dispatcher was told of.
LEMMA KeptTold ==
  ASSUME Types, Follows, phase = "loop"
  PROVE  /\ Kept = UNION {CodesOf(assignment[c]) : c \in {b \in Told : assignment[b] \in DOMAIN HeldCodes}}
         /\ Kept = UNION {CodesOf(assignment[c]) : c \in Elements(held)}
         /\ Kept \subseteq Codes
<1>1. held \in Seq(Controls) /\ visited = 0
  BY DEF Types, TypeOK
<1>2. Kept = UNION {Elements(HeldCodes[assignment[c]]) : c \in Elements(held)}
  BY <1>1, KeptAll DEF Kept
<1>3. Elements(held) = {b \in Told : assignment[b] \in DOMAIN HeldCodes}
  BY DEF Follows
<1>4. \A c \in Elements(held) : /\ CodesOf(assignment[c]) = Elements(HeldCodes[assignment[c]])
                                /\ Elements(HeldCodes[assignment[c]]) \subseteq Codes
  BY <1>3, HeldCodesAreCodes DEF CodesOf
<1>5. Kept = UNION {CodesOf(assignment[c]) : c \in Elements(held)}
  BY <1>2, <1>4
<1> QED
  BY <1>2, <1>3, <1>4, <1>5

OneOfEach(q) == \A i, j \in 1..Len(q) : q[i].code = q[j].code => i = j

\* The inductive invariant of the codes: down is exact, but for what the call under way
\* has not sent yet.
Exact ==
  phase = "loop" /\ Separate =>
    \/ /\ Releases(sends) /\ OneOfEach(sends) /\ SentCodes(sends) \cap Kept = {}
       /\ down = Kept \cup (SentCodes(sends) \cap Codes)
    \/ /\ Presses(sends) /\ OneOfEach(sends)
       /\ down = Kept \ SentCodes(sends)
    \/ \E a \in Codes \ Kept : sends = <<Key(a, 1), Key(a, 0)>> /\ down = Kept

LEMMA NothingUnderWay ==
  ASSUME NEW q, q = <<>>
  PROVE  Releases(q) /\ OneOfEach(q) /\ SentCodes(q) = {}
<1>1. Elements(q) = {} /\ Len(q) = 0
  BY ShortElements
<1> QED
  BY <1>1 DEF Releases, OneOfEach, SentCodes

LEMMA ExactIdle ==
  ASSUME Exact, phase = "loop", Separate, sends = <<>>
  PROVE  down = Kept
BY NothingUnderWay DEF Exact

\* A code is not twice in a call.
LEMMA HeldCodesDistinct ==
  ASSUME NEW k \in DOMAIN HeldCodes, NEW act \in {0, 1}
  PROVE  OneOfEach(Keys(HeldCodes[k], act))
<1>1. \A i, j \in 1..Len(HeldCodes[k]) : HeldCodes[k][i] = HeldCodes[k][j] => i = j
  <2>1. CASE k = "mic_ptt"
    <3>1. HeldCodes[k] = <<"ACT10", "ACT11">>
      BY <2>1 DEF HeldCodes
    <3> QED
      BY <3>1
  <2>2. CASE k # "mic_ptt"
    <3>1. Len(HeldCodes[k]) = 1
      BY <2>2, HeldKeys DEF HeldCodes
    <3> QED
      BY <3>1
  <2> QED
    BY <2>1, <2>2
<1>2. HeldCodes[k] \in Seq(Codes)
  BY HeldCodesAreCodes
<1> DEFINE codes == HeldCodes[k]
<1>3. Len(Keys(codes, act)) = Len(codes) /\ \A i \in 1..Len(codes) : Keys(codes, act)[i] = Key(codes[i], act)
  BY <1>2, KeysSteps
<1> HIDE DEF codes
<1>4. \A i \in 1..Len(codes) : Keys(codes, act)[i].code = codes[i]
  BY <1>3, KeyFields
<1> QED
  BY <1>1, <1>3, <1>4 DEF OneOfEach, codes
\* A dispatch adds or takes the codes of its action, which no other control holds.
LEMMA KeptDispatch ==
  ASSUME Types, Follows, Separate, Dispatch
  PROVE  LET e == Head(pending)
             k == assignment[e.control]
         IN  /\ HeldAction(e, k) /\ e.pressed =>
                  Kept' = Kept \cup Elements(HeldCodes[k]) /\ Kept \cap Elements(HeldCodes[k]) = {}
             /\ HeldAction(e, k) /\ ~ e.pressed =>
                  Kept = Kept' \cup Elements(HeldCodes[k]) /\ Kept' \cap Elements(HeldCodes[k]) = {}
             /\ held' = held => Kept' = Kept
<1> DEFINE e == Head(pending)
           k == assignment[e.control]
           Of(c) == Elements(HeldCodes[assignment[c]])
<1>1. /\ e.control \in Controls
      /\ e.pressed => e.control \in active \ Told
      /\ ~ e.pressed => e.control \in Told
  BY ToldDispatch
<1>2. /\ held \in Seq(Controls) /\ held' \in Seq(Controls) /\ Distinct(held)
      /\ visited = 0 /\ visited' = 0 /\ assignment' = assignment /\ phase = "loop"
  BY DispatchTypes DEF Types, TypeOK, Dispatch
<1>3. Kept = UNION {Of(c) : c \in Elements(held)} /\ Kept' = UNION {Of(c) : c \in Elements(held')}
  BY <1>2, KeptAll DEF Kept
<1>4. Elements(held) = {c \in Told : assignment[c] \in DOMAIN HeldCodes}
  BY <1>2 DEF Follows
<1>5. ASSUME NEW c \in Elements(held), c # e.control, k \in DOMAIN HeldCodes
      PROVE  Of(c) \cap Of(e.control) = {}
  <2>1. CodesOf(assignment[c]) \cap CodesOf(assignment[e.control]) = {}
    <3>1. c \in Told \cup active /\ e.control \in Told \cup active
      <4>1. e \in Events
        BY ToldDispatch
      <4>2. e.pressed \in BOOLEAN
        BY <4>1 DEF Events
      <4> QED
        BY <1>1, <1>4, <4>2
    <3> HIDE DEF e
    <3> QED
      BY <1>2, <1>5, <3>1, ToldApart
  <2>2. CodesOf(assignment[c]) = Of(c) /\ CodesOf(assignment[e.control]) = Of(e.control)
    BY <1>4, <1>5 DEF CodesOf
  <2> QED
    BY <2>1, <2>2
<1>6. ASSUME HeldAction(e, k), e.pressed
      PROVE  Kept' = Kept \cup Of(e.control) /\ Kept \cap Of(e.control) = {}
  <2>1. held' = Hold(e.control) /\ k \in DOMAIN HeldCodes
    BY <1>6 DEF HeldAction
  <2>2. Elements(held') = Elements(held) \cup {e.control}
    <3> HIDE DEF e
    <3> QED
      BY <1>1, <1>2, <2>1, HoldSteps
  <2>3. e.control \notin Elements(held)
    BY <1>1, <1>4, <1>6
  <2> HIDE DEF e, Of
  <2>4. Kept \cap Of(e.control) = {}
    BY <1>3, <1>5, <2>1, <2>3
  <2>5. Kept' = Kept \cup Of(e.control)
    BY <1>3, <2>2
  <2> QED
    BY <2>4, <2>5
<1>7. ASSUME HeldAction(e, k), ~ e.pressed
      PROVE  Kept = Kept' \cup Of(e.control) /\ Kept' \cap Of(e.control) = {}
  <2>1. held' = Drop(e.control) /\ k \in DOMAIN HeldCodes
    BY <1>7 DEF HeldAction
  <2>2. Elements(held') = Elements(held) \ {e.control}
    <3> HIDE DEF e
    <3> QED
      BY <1>2, <2>1, DropSteps
  <2>3. e.control \in Elements(held)
    BY <1>1, <1>4, <1>7, <2>1
  <2> HIDE DEF e, Of
  <2>4. Kept' \cap Of(e.control) = {}
    BY <1>3, <1>5, <2>1, <2>2
  <2>5. Kept = Kept' \cup Of(e.control)
    BY <1>3, <2>2, <2>3
  <2> QED
    BY <2>4, <2>5
<1>8. ASSUME held' = held PROVE Kept' = Kept
  BY <1>3, <1>8
<1> QED
  BY <1>6, <1>7, <1>8

LEMMA ExactDispatch ==
  ASSUME Types, Follows, Exact, Separate, Dispatch
  PROVE  Exact'
<1> DEFINE e == Head(pending)
           k == assignment[e.control]
<1>1. sends = <<>> /\ phase = "loop" /\ down' = down
  BY DEF Dispatch, codex
<1>2. down = Kept /\ Kept \subseteq Codes
  BY <1>1, ExactIdle, KeptTold
<1>3. HeldAction(e, k) \/ AgentAction(e, k) \/ EncoderAction(e, k) \/ JoystickAction(e, k) \/ NoAction(e, k)
  BY DEF Dispatch
<1>4. /\ e.control \in Controls /\ e.pressed \in BOOLEAN
      /\ e.pressed => e.control \in active \ Told
  BY ToldDispatch, EventIsEdge
<1>5. /\ HeldAction(e, k) /\ e.pressed =>
           Kept' = Kept \cup Elements(HeldCodes[k]) /\ Kept \cap Elements(HeldCodes[k]) = {}
      /\ HeldAction(e, k) /\ ~ e.pressed =>
           Kept = Kept' \cup Elements(HeldCodes[k]) /\ Kept' \cap Elements(HeldCodes[k]) = {}
      /\ held' = held => Kept' = Kept
  BY KeptDispatch
<1>6. \A x : Elements(<<x>>) = {x} /\ SentCodes(<<x>>) = {x.code} /\ OneOfEach(<<x>>)
  BY ShortElements DEF SentCodes, OneOfEach
<1> DEFINE Ends == \/ /\ Releases(sends') /\ OneOfEach(sends') /\ SentCodes(sends') \cap Kept' = {}
                      /\ down = Kept' \cup (SentCodes(sends') \cap Codes)
                   \/ /\ Presses(sends)' /\ OneOfEach(sends')
                      /\ down = Kept' \ SentCodes(sends')
                   \/ \E a \in Codes \ Kept' : sends' = <<Key(a, 1), Key(a, 0)>> /\ down = Kept'
<1>7. ASSUME HeldAction(e, k) PROVE Ends
  <2>1. k \in DOMAIN HeldCodes /\ sends' = Keys(HeldCodes[k], Act(e)) /\ Act(e) = IF e.pressed THEN 1 ELSE 0
    BY <1>7 DEF HeldAction, Act
  <2>2. HeldCodes[k] \in Seq(Codes) /\ Elements(HeldCodes[k]) \subseteq Codes
    BY <2>1, HeldCodesAreCodes
  <2> HIDE DEF e, k
  <2>3. /\ SentCodes(sends') = Elements(HeldCodes[k]) /\ OneOfEach(sends')
        /\ \A n \in Elements(sends') : n.act = Act(e)
    BY <2>1, <2>2, KeysElements, HeldCodesDistinct
  <2>4. CASE e.pressed
    <3>1. Presses(sends)'
      <4>1. \A n \in Elements(sends') : n.code \in Elements(HeldCodes[k])
        BY <2>3 DEF SentCodes
      <4> QED
        BY <1>5, <1>7, <2>1, <2>3, <2>4, <4>1 DEF Presses
    <3>2. down = Kept' \ SentCodes(sends')
      BY <1>2, <1>5, <1>7, <2>3, <2>4
    <3> QED
      BY <2>3, <3>1, <3>2
  <2>5. CASE ~ e.pressed
    <3>1. Releases(sends')
      BY <2>1, <2>3, <2>5 DEF Releases
    <3>2. SentCodes(sends') \cap Kept' = {} /\ down = Kept' \cup (SentCodes(sends') \cap Codes)
      BY <1>2, <1>5, <1>7, <2>2, <2>3, <2>5
    <3> QED
      BY <2>3, <3>1, <3>2
  <2> QED
    BY <2>4, <2>5
<1>8. ASSUME AgentAction(e, k) PROVE Ends
  <2> DEFINE a == AgentCodes[agent' + 1]
  <2>1. agent' + 1 \in 1..6 /\ a \in Codes
    <3>1. agent' \in 0..5
      BY DispatchTypes DEF Types, TypeOK
    <3>2. \A i \in 0..5 : i + 1 \in 1..6
      OBVIOUS
    <3> QED
      BY <3>1, <3>2, AgentCodesAreCodes
  <2>2. sends' = <<Key(a, 1), Key(a, 0)>>
    <3>1. sends' = Keys(<<a>>, 1) \o Keys(<<a>>, 0)
      BY <1>8 DEF AgentAction
    <3>2. \A x, act : Keys(<<x>>, act) = <<Key(x, act)>>
      BY DEF Keys
    <3> HIDE DEF a
    <3> QED
      BY <3>1, <3>2, PairOfCalls
  <2>3. Kept' = Kept /\ k \in DOMAIN AgentSteps /\ e.pressed
    BY <1>5, <1>8 DEF AgentAction
  <2>4. a \in CodesOf(k)
    <3>1. k \notin DOMAIN HeldCodes
      BY <2>3, KindsApart
    <3>2. DOMAIN AgentCodes = 1..6
      BY DEF AgentCodes
    <3>3. a \in Elements(AgentCodes)
      BY <2>1, <3>2 DEF Elements
    <3> QED
      BY <2>3, <3>1, <3>3 DEF CodesOf
  <2>5. a \notin Kept
    <3> SUFFICES ASSUME NEW b \in Told, assignment[b] \in DOMAIN HeldCodes, a \in CodesOf(assignment[b])
                 PROVE  FALSE
      BY <1>1, KeptTold
    <3>1. b # e.control /\ b \in Told \cup active /\ e.control \in Told \cup active
      BY <1>4, <2>3
    <3> HIDE DEF e, a
    <3> QED
      BY <1>1, <2>4, <3>1, ToldApart DEF k
  <2> HIDE DEF a
  <2> QED
    BY <1>2, <2>1, <2>2, <2>3, <2>5
<1>9. ASSUME EncoderAction(e, k) PROVE Ends
  <2>1. held' = held /\ sends' = <<Key(Encoders[k], 2)>> /\ Encoders[k] \in {"ENC_CW", "ENC_CC"}
    BY <1>9 DEF EncoderAction, Encoders
  <2>2. Encoders[k] \notin Kept
    BY <1>2, <2>1, CodesApart
  <2>3. Presses(sends)' /\ OneOfEach(sends') /\ SentCodes(sends') = {Encoders[k]}
    BY <1>6, <2>1, KeyFields DEF Presses
  <2> QED
    BY <1>2, <1>5, <2>1, <2>2, <2>3
<1>10. ASSUME JoystickAction(e, k) PROVE Ends
  <2>1. held' = held /\ sends' = <<Key(k, Act(e))>> /\ Act(e) \in {0, 1} /\ k \in Joystick
    BY <1>10 DEF JoystickAction, Act
  <2>2. k \notin Codes
    BY <2>1, CodesApart
  <2>3. OneOfEach(sends') /\ SentCodes(sends') = {k} /\ Elements(sends') = {Key(k, Act(e))}
    BY <1>6, <2>1, KeyFields
  <2>4. CASE Act(e) = 0
    <3>1. Releases(sends')
      BY <2>3, <2>4, KeyFields DEF Releases
    <3> QED
      BY <1>2, <1>5, <2>1, <2>2, <2>3, <3>1
  <2>5. CASE Act(e) = 1
    <3>1. Presses(sends)'
      BY <2>1, <2>3, <2>5, KeyFields DEF Presses
    <3> QED
      BY <1>2, <1>5, <2>1, <2>2, <2>3, <3>1
  <2> QED
    BY <2>1, <2>4, <2>5
<1>11. ASSUME NoAction(e, k) PROVE Ends
  <2>1. held' = held /\ sends' = <<>>
    BY <1>1, <1>11 DEF NoAction
  <2> QED
    BY <1>2, <1>5, <2>1, NothingUnderWay
<1>12. Ends
  BY <1>3, <1>7, <1>8, <1>9, <1>10, <1>11
<1> HIDE DEF Ends
<1>13. Ends => Exact'
  BY <1>1 DEF Ends, Exact, Releases, OneOfEach, SentCodes
<1> QED
  BY <1>12, <1>13

LEMMA ExactSend ==
  ASSUME Types, Follows, Exact, SendNext
  PROVE  Exact'
<1> SUFFICES ASSUME phase = "loop", Separate PROVE Exact'
  BY DEF Exact, SendNext, Separate
<1> DEFINE n == Head(sends)
           q == sends'
<1>1. sends # <<>> /\ q = Tail(sends) /\ Receive(n) /\ Kept' = Kept
  BY DEF SendNext, Kept
<1>2. /\ n \in Notifications /\ Elements(sends) = {n} \cup Elements(q) /\ sends \in Seq(Notifications)
      /\ Len(q) = Len(sends) - 1 /\ Len(sends) \in Nat \ {0} /\ q \in Seq(Notifications)
      /\ n = sends[1] /\ \A i \in 1..(Len(sends) - 1) : q[i] = sends[i + 1]
  BY <1>1, HeadAndTail DEF Types, TypeOK
<1>3. /\ n.code \in Codes => down' = IF n.act = 1 THEN down \cup {n.code} ELSE down \ {n.code}
      /\ n.code \notin Codes => down' = down
  BY <1>1, <1>2, ReceiveSteps
<1>4. SentCodes(sends) = {n.code} \cup SentCodes(q)
  BY <1>2 DEF SentCodes
<1>5. Kept \subseteq Codes
  BY KeptTold
<1>6. ASSUME OneOfEach(sends) PROVE OneOfEach(q) /\ n.code \notin SentCodes(q)
  <2>1. OneOfEach(q)
    BY <1>2, <1>6 DEF OneOfEach
  <2>2. Elements(q) = {q[i] : i \in 1..(Len(sends) - 1)}
    BY <1>2 DEF Elements
  <2>3. ASSUME NEW i \in 1..(Len(sends) - 1) PROVE q[i].code # n.code
    <3>1. i + 1 \in 1..Len(sends) /\ 1 \in 1..Len(sends) /\ i + 1 # 1
      BY <1>2
    <3> QED
      BY <1>2, <1>6, <3>1 DEF OneOfEach
  <2> QED
    BY <2>1, <2>2, <2>3 DEF SentCodes
<1>7. n.act = 2 => n.code \notin Codes
  BY <1>2, CodesApart DEF Notifications
<1> HIDE DEF n, q
<1> DEFINE Ends == \/ /\ Releases(q) /\ OneOfEach(q) /\ SentCodes(q) \cap Kept = {}
                      /\ down' = Kept \cup (SentCodes(q) \cap Codes)
                   \/ /\ Presses(q) /\ OneOfEach(q)
                      /\ down' = Kept \ SentCodes(q)
<1>8. ASSUME /\ Releases(sends) /\ OneOfEach(sends) /\ SentCodes(sends) \cap Kept = {}
             /\ down = Kept \cup (SentCodes(sends) \cap Codes)
      PROVE  Ends
  <2>1. Releases(q) /\ n.act = 0 /\ OneOfEach(q) /\ n.code \notin SentCodes(q)
    BY <1>2, <1>6, <1>8 DEF Releases
  <2>2. SentCodes(q) \cap Kept = {} /\ n.code \notin Kept
    BY <1>4, <1>8
  <2>3. down' = Kept \cup (SentCodes(q) \cap Codes)
    BY <1>3, <1>4, <1>8, <2>1, <2>2
  <2> QED
    BY <2>1, <2>2, <2>3
<1>9. ASSUME Presses(sends) /\ OneOfEach(sends) /\ down = Kept \ SentCodes(sends)
      PROVE  Ends
  <2>1. Presses(q) /\ OneOfEach(q) /\ n.code \notin SentCodes(q)
        /\ (n.act = 2 \/ (n.act = 1 /\ n.code \in Joystick \cup Kept))
    BY <1>2, <1>6, <1>9 DEF Presses
  <2>2. down' = Kept \ SentCodes(q)
    <3>1. CASE n.code \in Codes
      <4>1. n.act = 1 /\ n.code \in Kept
        BY <1>7, <2>1, <3>1, CodesApart
      <4> QED
        BY <1>3, <1>4, <1>9, <2>1, <3>1, <4>1
    <3>2. CASE n.code \notin Codes
      BY <1>3, <1>4, <1>5, <1>9, <3>2
    <3> QED
      BY <3>1, <3>2
  <2> QED
    BY <2>1, <2>2
<1>10. ASSUME NEW a \in Codes \ Kept, sends = <<Key(a, 1), Key(a, 0)>>, down = Kept
       PROVE  Ends
  <2>1. n = Key(a, 1) /\ q = <<Key(a, 0)>>
    BY <1>1, <1>10 DEF n
  <2>2. Elements(q) = {Key(a, 0)} /\ SentCodes(q) = {a} /\ n.code = a /\ n.act = 1 /\ OneOfEach(q)
    BY <2>1, ShortElements, KeyFields DEF SentCodes, OneOfEach
  <2>3. Releases(q)
    BY <2>2, KeyFields DEF Releases
  <2>4. down' = Kept \cup {a}
    BY <1>3, <1>10, <2>2
  <2> QED
    BY <2>2, <2>3, <2>4
<1>11. Ends
  BY <1>8, <1>9, <1>10 DEF Exact
<1> HIDE DEF Ends
<1>12. Ends => Exact'
  BY <1>1 DEF Ends, Exact, Releases, Presses, OneOfEach, SentCodes, q
<1> QED
  BY <1>11, <1>12
LEMMA ExactStep == Types /\ Locked /\ Covered /\ Follows /\ Exact /\ [Next]_vars => Exact'
<1> SUFFICES ASSUME Types, Locked, Covered, Follows, Exact, [Next]_vars PROVE Exact'
  OBVIOUS
<1>1. CASE Dispatch
  <2>1. Separate' = Separate
    BY <1>1 DEF Dispatch, Separate
  <2>2. CASE Separate
    BY <1>1, <2>2, ExactDispatch
  <2>3. CASE ~ Separate
    BY <2>1, <2>3 DEF Exact
  <2> QED
    BY <2>2, <2>3
<1>2. CASE LeaveLoop \/ SendFails \/ ReleaseAll \/ EndRun
  <2>1. phase' # "loop"
    BY <1>2 DEF LeaveLoop, SendFails, ReleaseAll, EndRun
  <2> QED
    BY <2>1 DEF Exact
<1>3. CASE NewRun
  <2>1. /\ phase = "over" /\ sends' = sends /\ ~lost /\ down' = down /\ held' = <<>> /\ visited' = 0
        /\ held' \in Seq(Controls)
    BY <1>3 DEF NewRun, codex
  <2>2. sends' = <<>> /\ down' = {}
    BY <2>1 DEF Covered
  <2>3. Kept' = {}
    <3>1. Elements(held') = {}
      BY <2>1, ShortElements
    <3>2. Kept' = UNION {Elements(HeldCodes[assignment'[c]]) : c \in Elements(held')}
      BY <2>1, KeptAll DEF Kept
    <3> QED
      BY <3>1, <3>2
  <2>4. Releases(sends') /\ OneOfEach(sends') /\ SentCodes(sends') = {}
    BY <2>2, NothingUnderWay
  <2> QED
    BY <2>2, <2>3, <2>4 DEF Exact, Releases, OneOfEach, SentCodes
<1>4. CASE TranslationReport \/ RotationReport \/ ButtonReport \/ UNCHANGED vars
  <2>1. UNCHANGED <<phase, assignment, sends, held, visited, down>>
    BY <1>4 DEF TranslationReport, RotationReport, ButtonReport, Report, vars, codex
  <2>2. Kept' = Kept
    BY <2>1 DEF Kept
  <2> QED
    BY <2>1, <2>2 DEF Exact, Releases, Presses, OneOfEach, SentCodes, Separate
<1> QED
  BY <1>1, <1>2, <1>3, <1>4, ExactSend DEF Next

LEMMA SpecExact == Spec => []Exact
<1>1. Init => Exact
  <2> SUFFICES ASSUME Init PROVE Exact
    OBVIOUS
  <2>1. sends = <<>> /\ down = {} /\ held = <<>> /\ visited = 0 /\ held \in Seq(Controls)
    BY DEF Init
  <2>2. Kept = {}
    <3>1. Elements(held) = {}
      BY <2>1, ShortElements
    <3>2. Kept = UNION {Elements(HeldCodes[assignment[c]]) : c \in Elements(held)}
      BY <2>1, KeptAll DEF Kept
    <3> QED
      BY <3>1, <3>2
  <2>3. Releases(sends) /\ OneOfEach(sends) /\ SentCodes(sends) = {}
    BY <2>1, NothingUnderWay
  <2> QED
    BY <2>1, <2>2, <2>3 DEF Exact
<1> QED
  BY <1>1, ExactStep, SpecTypes, SpecLocked, SpecCovered, SpecFollows, PTL DEF Spec

\* With no event pending, the dispatcher was told of what is active.
LEMMA ToldBetween ==
  ASSUME Types, Between
  PROVE  Told = active
<1>1. Elements(pending) = {} /\ active \subseteq Controls
  BY ShortElements DEF Between, Types, TypeOK
<1> QED
  BY <1>1 DEF Told, Undone

\* Between two reports Codex believes pressed exactly the codes of the active controls,
\* for every mapping whose controls share no code.
THEOREM KeysMatchHolds == Spec => []KeysMatch
<1>1. Types /\ Follows /\ Exact => KeysMatch
  <2> SUFFICES ASSUME Types, Follows, Exact, Between, Separate
               PROVE  down = Wanted
    BY DEF KeysMatch
  <2>1. down = Kept
    BY ExactIdle DEF Between
  <2>2. Kept = UNION {CodesOf(assignment[c]) : c \in {b \in Told : assignment[b] \in DOMAIN HeldCodes}}
    BY KeptTold DEF Between
  <2> QED
    BY <2>1, <2>2, ToldBetween DEF Wanted
<1> QED
  BY <1>1, SpecTypes, SpecFollows, SpecExact, PTL

\* For mappings whose controls share no code, and as long as no notification of a release
\* was lost, a key is pressed only when it is up and released only when it is down, at
\* each notification of a dispatch.
THEOREM AlternatesHolds == Spec => Alternates
<1>1. Types /\ Follows /\ Exact =>
        [sends # <<>> /\ sends' = Tail(sends) /\ Separate /\ ~lost /\ phase = "loop" =>
           LET n == Head(sends)
           IN  n.code \in Codes => (n.act = 1 <=> n.code \notin down)]_vars
  <2> SUFFICES ASSUME Types, Follows, Exact, sends # <<>>, Separate, phase = "loop",
                      Head(sends).code \in Codes
               PROVE  Head(sends).act = 1 <=> Head(sends).code \notin down
    OBVIOUS
  <2> DEFINE n == Head(sends)
  <2>1. n \in Notifications /\ n \in Elements(sends) /\ n.code \in SentCodes(sends)
    <3>1. n \in Notifications /\ n \in Elements(sends)
      BY HeadAndTail DEF Types, TypeOK
    <3> QED
      BY <3>1 DEF SentCodes
  <2>2. n.act # 2
    BY <2>1, CodesApart DEF Notifications
  <2> HIDE DEF n
  <2>3. CASE Releases(sends) /\ down = Kept \cup (SentCodes(sends) \cap Codes)
    BY <2>1, <2>3 DEF Releases, n
  <2>4. CASE Presses(sends) /\ down = Kept \ SentCodes(sends)
    BY <2>1, <2>2, <2>4 DEF Presses, n
  <2>5. ASSUME NEW a \in Codes \ Kept, sends = <<Key(a, 1), Key(a, 0)>>, down = Kept
        PROVE  n.act = 1 <=> n.code \notin down
    <3>1. n = Key(a, 1)
      BY <2>5 DEF n
    <3> QED
      BY <2>5, <3>1, KeyFields
  <2> QED
    BY <2>3, <2>4, <2>5 DEF Exact, n
<1> QED
  BY <1>1, SpecTypes, SpecFollows, SpecExact, PTL DEF Alternates

-----------------------------------------------------------------------------
(* The joystick                                                            *)

\* Where the controls the dispatcher was told of have the joystick
Steered == {assignment[c] : c \in Told} \cap Joystick

\* The inductive invariant of the joystick: it is where they have it, but for the
\* notification under way, which is the only one of its call.
Steers ==
  phase = "loop" /\ Separate =>
    \/ /\ \A n \in Elements(sends) : n.code \notin Joystick
       /\ ~adrift => {stick} \ {None} = Steered
    \/ \E k \in Joystick :
         \/ (sends = <<Key(k, 1)>> /\ Steered = {k})
         \/ (sends = <<Key(k, 0)>> /\ Steered = {})

LEMMA SteersIdle ==
  ASSUME Steers, phase = "loop", Separate, sends = <<>>, ~adrift
  PROVE  {stick} \ {None} = Steered
BY DEF Steers

LEMMA SteersDispatch ==
  ASSUME Types, Follows, Steers, Separate, Dispatch
  PROVE  Steers'
<1> DEFINE e == Head(pending)
           k == assignment[e.control]
<1>1. sends = <<>> /\ phase = "loop" /\ stick' = stick /\ adrift' = adrift /\ assignment' = assignment
  BY DEF Dispatch, codex
<1>2. /\ e.control \in Controls /\ e.pressed \in BOOLEAN
      /\ e.pressed => e.control \in active \ Told /\ Told' = Told \cup {e.control}
      /\ ~ e.pressed => e.control \in Told /\ Told' = Told \ {e.control}
  BY ToldDispatch, EventIsEdge
<1>3. ~adrift => {stick} \ {None} = Steered
  BY <1>1, SteersIdle
<1>4. HeldAction(e, k) \/ AgentAction(e, k) \/ EncoderAction(e, k) \/ JoystickAction(e, k) \/ NoAction(e, k)
  BY DEF Dispatch
<1>5. Steered' = {assignment[c] : c \in Told'} \cap Joystick
  BY <1>1 DEF Steered
<1> HIDE DEF e
<1>6. ASSUME k \notin Joystick PROVE Steered' = Steered
  BY <1>2, <1>5, <1>6 DEF Steered
<1>7. CASE JoystickAction(e, k)
  <2>1. k \in Joystick /\ sends' = <<Key(k, Act(e))>> /\ Act(e) = IF e.pressed THEN 1 ELSE 0
    BY <1>7 DEF JoystickAction, Act
  <2>2. ASSUME NEW c \in Told, c # e.control PROVE assignment[c] \notin Joystick
    <3>1. c \in Told \cup active /\ e.control \in Told \cup active
      BY <1>2
    <3> QED
      BY <1>1, <2>1, <2>2, <3>1, ToldApart
  <2>3. CASE e.pressed
    <3>1. Steered' = {k}
      BY <1>2, <1>5, <2>1, <2>2, <2>3
    <3> QED
      BY <2>1, <2>3, <3>1 DEF Steers
  <2>4. CASE ~ e.pressed
    <3>1. Steered' = {}
      BY <1>2, <1>5, <2>2, <2>4
    <3> QED
      BY <2>1, <2>4, <3>1 DEF Steers
  <2> QED
    BY <2>3, <2>4
<1>8. ASSUME HeldAction(e, k) \/ AgentAction(e, k) \/ EncoderAction(e, k) \/ NoAction(e, k)
      PROVE  k \notin Joystick
  BY <1>8, KindsApart DEF HeldAction, AgentAction, EncoderAction, NoAction, AgentSteps, Encoders, Joystick
<1>9. ASSUME HeldAction(e, k) \/ AgentAction(e, k) \/ EncoderAction(e, k) \/ NoAction(e, k)
      PROVE  \A n \in Elements(sends') : n.code \notin Joystick
  <2>1. ASSUME HeldAction(e, k) PROVE \A n \in Elements(sends') : n.code \notin Joystick
    <3>1. k \in DOMAIN HeldCodes /\ sends' = Keys(HeldCodes[k], Act(e)) /\ Act(e) \in {0, 1}
      BY <2>1 DEF HeldAction, Act
    <3>2. HeldCodes[k] \in Seq(Codes)
      BY <3>1, HeldCodesAreCodes
    <3> QED
      BY <3>1, <3>2, KeysElements, CodesApart
  <2>2. ASSUME AgentAction(e, k) PROVE \A n \in Elements(sends') : n.code \notin Joystick
    <3> DEFINE a == AgentCodes[agent' + 1]
    <3>1. a \in Codes
      <4>1. agent' \in 0..5
        BY DispatchTypes DEF Types, TypeOK
      <4>2. \A i \in 0..5 : i + 1 \in 1..6
        OBVIOUS
      <4> QED
        BY <4>1, <4>2, AgentCodesAreCodes
    <3>2. sends' = Keys(<<a>>, 1) \o Keys(<<a>>, 0)
      BY <2>2 DEF AgentAction
    <3> HIDE DEF a
    <3>3. <<a>> \in Seq(Codes)
      BY <3>1
    <3>4. Keys(<<a>>, 1) \in Seq(Notifications) /\ Keys(<<a>>, 0) \in Seq(Notifications)
      BY <3>3, KeysSteps
    <3>5. Elements(sends') = Elements(Keys(<<a>>, 1)) \cup Elements(Keys(<<a>>, 0))
      BY <3>2, <3>4, ConcatElements
    <3> QED
      BY <3>3, <3>5, KeysElements, CodesApart
  <2>3. ASSUME EncoderAction(e, k) PROVE \A n \in Elements(sends') : n.code \notin Joystick
    <3>1. sends' = <<Key(Encoders[k], 2)>> /\ Encoders[k] \in {"ENC_CW", "ENC_CC"}
      BY <2>3 DEF EncoderAction, Encoders
    <3> QED
      BY <3>1, ShortElements, KeyFields, CodesApart
  <2>4. ASSUME NoAction(e, k) PROVE \A n \in Elements(sends') : n.code \notin Joystick
    <3>1. sends' = <<>>
      BY <1>1, <2>4 DEF NoAction
    <3> QED
      BY <3>1, ShortElements
  <2> QED
    BY <1>9, <2>1, <2>2, <2>3, <2>4
<1>10. CASE HeldAction(e, k) \/ AgentAction(e, k) \/ EncoderAction(e, k) \/ NoAction(e, k)
  <2>1. Steered' = Steered
    BY <1>6, <1>8, <1>10
  <2>2. \A n \in Elements(sends') : n.code \notin Joystick
    BY <1>9, <1>10
  <2> QED
    BY <1>1, <1>3, <2>1, <2>2 DEF Steers
<1> QED
  BY <1>4, <1>7, <1>10 DEF e

LEMMA SteersSend ==
  ASSUME Types, Steers, SendNext
  PROVE  Steers'
<1> SUFFICES ASSUME phase = "loop", Separate PROVE Steers'
  BY DEF Steers, SendNext, Separate
<1> DEFINE n == Head(sends)
<1>1. sends # <<>> /\ sends' = Tail(sends) /\ Receive(n) /\ Steered' = Steered
  BY DEF SendNext, Steered, Told, Undone, detector
<1>2. n \in Notifications /\ Elements(sends) = {n} \cup Elements(sends')
  BY <1>1, HeadAndTail DEF Types, TypeOK
<1>3. /\ n.code \in Joystick => adrift' = FALSE /\ stick' = IF n.act = 1 THEN n.code ELSE None
      /\ n.code \notin Joystick => stick' = stick /\ adrift' = adrift
  BY <1>1, <1>2, ReceiveSteps
<1>4. CASE /\ \A m \in Elements(sends) : m.code \notin Joystick
           /\ ~adrift => {stick} \ {None} = Steered
  <2>1. n.code \notin Joystick /\ \A m \in Elements(sends') : m.code \notin Joystick
    BY <1>2, <1>4
  <2> QED
    BY <1>1, <1>3, <1>4, <2>1 DEF Steers
<1>5. ASSUME NEW k \in Joystick, NEW act \in {0, 1}, sends = <<Key(k, act)>>,
             Steered = IF act = 1 THEN {k} ELSE {}
      PROVE  Steers'
  <2>1. n = Key(k, act) /\ sends' = <<>>
    BY <1>1, <1>5
  <2>2. stick' = (IF act = 1 THEN k ELSE None) /\ k # None
    BY <1>3, <2>1, KeyFields, ControlsApart
  <2>3. {stick'} \ {None} = Steered'
    BY <1>1, <1>5, <2>2
  <2>4. Elements(sends') = {}
    BY <2>1, ShortElements
  <2> QED
    BY <2>3, <2>4 DEF Steers
<1> QED
  BY <1>4, <1>5 DEF Steers

LEMMA SteersStep == Types /\ Locked /\ Covered /\ Follows /\ Steers /\ [Next]_vars => Steers'
<1> SUFFICES ASSUME Types, Locked, Covered, Follows, Steers, [Next]_vars PROVE Steers'
  OBVIOUS
<1>1. CASE Dispatch
  <2>1. Separate' = Separate
    BY <1>1 DEF Dispatch, Separate
  <2>2. CASE Separate
    BY <1>1, <2>2, SteersDispatch
  <2>3. CASE ~ Separate
    BY <2>1, <2>3 DEF Steers
  <2> QED
    BY <2>2, <2>3
<1>2. CASE LeaveLoop \/ SendFails \/ ReleaseAll \/ EndRun
  <2>1. phase' # "loop"
    BY <1>2 DEF LeaveLoop, SendFails, ReleaseAll, EndRun
  <2> QED
    BY <2>1 DEF Steers
<1>3. CASE NewRun
  <2>1. /\ phase = "over" /\ sends' = sends /\ active' = {} /\ pending' = <<>> /\ stick' = stick
        /\ adrift' = (adrift \/ stick # None)
    BY <1>3 DEF NewRun, codex, detector, Types, Follows
  <2>2. Elements(sends') = {} /\ Elements(pending') = {}
    BY <2>1, ShortElements DEF Covered
  <2>3. Steered' = {}
    <3>1. Told' = {}
      BY <2>1, <2>2 DEF Told, Undone
    <3> QED
      BY <3>1 DEF Steered
  <2>4. ~adrift' => stick' = None
    BY <2>1
  <2> QED
    BY <2>2, <2>3, <2>4 DEF Steers
<1>4. CASE TranslationReport \/ RotationReport \/ ButtonReport
  <2>1. PICK s \in AxesStates, b \in SUBSET Buttons : Report(s, b)
    <3>1. axes \in AxesStates /\ buttons \subseteq Buttons /\ TranslationAxes \subseteq Axes /\ RotationAxes \subseteq Axes
      BY DEF Types, TypeOK, AxesStates, Axes
    <3> QED
      BY <1>4, <3>1, MovedSteps DEF TranslationReport, RotationReport, ButtonReport
  <2>2. Told = active /\ Told' = active
    BY <2>1, FollowsReport
  <2>3. UNCHANGED <<phase, assignment, sends, stick, adrift>>
    BY <2>1 DEF Report, codex
  <2>4. Steered' = Steered
    BY <2>2, <2>3 DEF Steered
  <2> QED
    BY <2>3, <2>4 DEF Steers, Separate
<1>5. CASE UNCHANGED vars
  <2>1. UNCHANGED <<phase, assignment, sends, stick, adrift, pending, active>>
    BY <1>5 DEF vars, codex, detector
  <2>2. Steered' = Steered
    BY <2>1 DEF Steered, Told, Undone
  <2> QED
    BY <2>1, <2>2 DEF Steers, Separate
<1> QED
  BY <1>1, <1>2, <1>3, <1>4, <1>5, SteersSend DEF Next

\* Between two reports the joystick is where the active control has it, unless a former
\* run left it deflected or its notification failed.
THEOREM StickMatchesHolds == Spec => []StickMatches
<1>1. Init => Steers
  <2> SUFFICES ASSUME Init PROVE Steers
    OBVIOUS
  <2>1. active = {} /\ pending = <<>> /\ sends = <<>> /\ stick = None
    BY DEF Init
  <2>2. Elements(sends) = {} /\ Elements(pending) = {}
    BY <2>1, ShortElements
  <2>3. Steered = {}
    BY <2>1, <2>2 DEF Steered, Told, Undone
  <2> QED
    BY <2>1, <2>2, <2>3 DEF Steers
<1>2. Spec => []Steers
  BY <1>1, SteersStep, SpecTypes, SpecLocked, SpecCovered, SpecFollows, PTL DEF Spec
<1>3. Types /\ Steers => StickMatches
  <2> SUFFICES ASSUME Types, Steers, Between, Separate, ~adrift
               PROVE  {stick} \ {None} = {assignment[c] : c \in active} \cap Joystick
    BY DEF StickMatches
  <2> QED
    BY SteersIdle, ToldBetween DEF Between, Steered
<1> QED
  BY <1>2, <1>3, SpecTypes, PTL
=============================================================================
