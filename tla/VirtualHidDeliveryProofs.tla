---------------------- MODULE VirtualHidDeliveryProofs ----------------------
(***************************************************************************)
(* Theorems about the delivery of VirtualHid's reports, for every number   *)
(* of threads, requests and ring slots: no report waits beside a read      *)
(* request, the assembly of RPC messages follows their writers, an answer  *)
(* is about one message, and reports are handed out in order.              *)
(***************************************************************************)
EXTENDS VirtualHidProofs, FiniteSetTheorems

USE CapacityAssumption, BoundAssumption, NoneAssumption, TryAssumption

-----------------------------------------------------------------------------
(* Tries still to come                                                     *)

\* The place of a call of s, counted from the last so that it stays when calls before
\* it are made, is that of a try which follows no report.
FreeTry(s, d) ==
  /\ d \in Nat /\ d < Len(s) /\ s[Len(s) - d] = Try
  /\ d + 1 < Len(s) => s[Len(s) - d - 1] = Try

\* The tries to come that no report to come is followed by.
FreeTries == {p \in Threads \X Nat : FreeTry(todo[p[1]], p[2])}

\* In the calls s every report is followed by a try.
Tried(s) == \A i \in 1..Len(s) : s[i] # Try => i < Len(s) /\ s[i + 1] = Try

\* The inductive invariant: there are as many free tries as there are pairs of a
\* waiting report and a waiting request.
TriesDue ==
  /\ \A t \in Threads : Tried(todo[t])
  /\ IsFiniteSet(FreeTries)
  /\ count <= Cardinality(FreeTries) \/ reads <= Cardinality(FreeTries)

\* A try that is made is no longer to come.
LEMMA TryMade ==
  ASSUME NEW s \in Seq(Steps), s # <<>>, Tried(s), Head(s) = Try
  PROVE  /\ Tried(Tail(s))
         /\ FreeTry(s, Len(s) - 1)
         /\ \A d \in Nat : FreeTry(Tail(s), d) <=> FreeTry(s, d) /\ d # Len(s) - 1
<1>1. /\ Len(s) \in Nat \ {0} /\ Len(Tail(s)) = Len(s) - 1 /\ s[1] = Try
      /\ \A i \in 1..Len(s) - 1 : Tail(s)[i] = s[i + 1]
  BY HeadTailProperties
<1> DEFINE n == Len(s)
           q == Tail(s)
<1> HIDE DEF n, q
<1>2. /\ n \in Nat \ {0} /\ Len(q) = n - 1 /\ s[1] = Try
      /\ \A i \in 1..n - 1 : q[i] = s[i + 1]
  BY <1>1 DEF n, q
<1>3. Tried(q)
  <2>1. ASSUME NEW i \in 1..n - 1, q[i] # Try PROVE i < n - 1 /\ q[i + 1] = Try
    <3>1. i + 1 \in 1..n /\ s[i + 1] # Try
      BY <1>2, <2>1
    <3>2. i + 1 < n /\ s[(i + 1) + 1] = Try
      BY <3>1 DEF Tried, n
    <3>3. i + 1 \in 1..n - 1
      BY <1>2, <3>2
    <3> QED
      BY <1>2, <3>2, <3>3
  <2> QED
    BY <1>2, <2>1 DEF Tried
<1>4. FreeTry(s, n - 1)
  BY <1>2 DEF FreeTry, n
<1>5. ASSUME NEW d \in Nat PROVE FreeTry(q, d) <=> FreeTry(s, d) /\ d # n - 1
  <2>1. CASE d < n - 1
    <3>1. n - 1 - d \in 1..n - 1 /\ (n - 1 - d) + 1 = n - d
      BY <1>2, <2>1
    <3>2. q[n - 1 - d] = s[n - d]
      BY <1>2, <3>1
    <3>3. CASE d + 1 < n - 1
      <4>1. n - 1 - d - 1 \in 1..n - 1 /\ (n - 1 - d - 1) + 1 = n - d - 1
        BY <1>2, <3>3
      <4>2. q[n - 1 - d - 1] = s[n - d - 1]
        BY <1>2, <4>1
      <4> QED
        BY <1>2, <2>1, <3>2, <3>3, <4>2 DEF FreeTry, n
    <3>4. CASE d + 1 = n - 1
      <4>1. n - d - 1 = 1
        BY <1>2, <3>4
      <4> QED
        BY <1>2, <2>1, <3>2, <3>4, <4>1 DEF FreeTry, n
    <3> QED
      BY <1>2, <2>1, <3>3, <3>4
  <2>2. CASE ~(d < n - 1)
    BY <1>2, <2>2 DEF FreeTry, n
  <2> QED
    BY <2>1, <2>2
<1> QED
  BY <1>3, <1>4, <1>5 DEF n, q

\* A report that is queued leaves the try after it to be used for it.
LEMMA ReportQueued ==
  ASSUME NEW s \in Seq(Steps), s # <<>>, Tried(s), Head(s) # Try
  PROVE  /\ Tried(Tail(s))
         /\ Len(s) >= 2 /\ ~FreeTry(s, Len(s) - 2)
         /\ \A d \in Nat : FreeTry(Tail(s), d) <=> FreeTry(s, d) \/ d = Len(s) - 2
<1>1. /\ Len(s) \in Nat \ {0} /\ Len(Tail(s)) = Len(s) - 1 /\ s[1] # Try
      /\ \A i \in 1..Len(s) - 1 : Tail(s)[i] = s[i + 1]
  BY HeadTailProperties
<1> DEFINE n == Len(s)
           q == Tail(s)
<1> HIDE DEF n, q
<1>2. /\ n \in Nat \ {0} /\ Len(q) = n - 1 /\ s[1] # Try
      /\ \A i \in 1..n - 1 : q[i] = s[i + 1]
  BY <1>1 DEF n, q
<1>3. Tried(q)
  <2>1. ASSUME NEW i \in 1..n - 1, q[i] # Try PROVE i < n - 1 /\ q[i + 1] = Try
    <3>1. i + 1 \in 1..n /\ s[i + 1] # Try
      BY <1>2, <2>1
    <3>2. i + 1 < n /\ s[(i + 1) + 1] = Try
      BY <3>1 DEF Tried, n
    <3>3. i + 1 \in 1..n - 1
      BY <1>2, <3>2
    <3> QED
      BY <1>2, <3>2, <3>3
  <2> QED
    BY <1>2, <2>1 DEF Tried
<1>4. n >= 2 /\ s[2] = Try
  <2>1. 1 \in 1..n
    BY <1>2
  <2>2. 1 < n /\ s[1 + 1] = Try
    BY <1>2, <2>1 DEF Tried, n
  <2> QED
    BY <1>2, <2>2
<1>5. ~FreeTry(s, n - 2)
  <2>1. (n - 2) + 1 < n /\ n - (n - 2) - 1 = 1
    BY <1>2
  <2> QED
    BY <1>2, <2>1 DEF FreeTry, n
<1>6. ASSUME NEW d \in Nat PROVE FreeTry(q, d) <=> FreeTry(s, d) \/ d = n - 2
  <2>1. CASE d < n - 2
    <3>1. /\ n - 1 - d \in 1..n - 1 /\ (n - 1 - d) + 1 = n - d
          /\ n - 1 - d - 1 \in 1..n - 1 /\ (n - 1 - d - 1) + 1 = n - d - 1
      BY <1>2, <2>1
    <3>2. q[n - 1 - d] = s[n - d] /\ q[n - 1 - d - 1] = s[n - d - 1]
      BY <1>2, <3>1
    <3> QED
      BY <1>2, <2>1, <3>2 DEF FreeTry, n
  <2>2. CASE d = n - 2
    <3>1. n - 1 - d = 1 /\ 1 \in 1..n - 1 /\ d < n - 1
      BY <1>2, <1>4, <2>2
    <3>2. q[n - 1 - d] = s[2]
      BY <1>2, <3>1
    <3> QED
      BY <1>2, <1>4, <2>2, <3>1, <3>2 DEF FreeTry
  <2>3. CASE d > n - 2
    <3>1. ~FreeTry(q, d)
      BY <1>2, <2>3 DEF FreeTry
    <3>2. ~FreeTry(s, d)
      BY <1>2, <2>3 DEF FreeTry, n
    <3> QED
      BY <1>2, <2>3, <3>1, <3>2
  <2> QED
    BY <1>2, <2>1, <2>2, <2>3
<1> QED
  BY <1>3, <1>4, <1>5, <1>6 DEF n, q

\* The free tries of a thread without calls.
LEMMA NoFreeTry == \A d \in Nat : ~FreeTry(<<>>, d)
  BY DEF FreeTry

\* The calls of a write end in a try; no other one of them is free.
LEMMA ShortCalls ==
  ASSUME NEW e \in Reports
  PROVE  \A cs \in {<<>>, <<Try>>, <<e, Try>>, <<e, Try, Try>>} :
           Tried(cs) /\ \A d \in Nat : FreeTry(cs, d) => d = 0
<1>1. Tried(<<>>) /\ \A d \in Nat : FreeTry(<<>>, d) => d = 0
  BY DEF Tried, FreeTry
<1>2. Tried(<<Try>>) /\ \A d \in Nat : FreeTry(<<Try>>, d) => d = 0
  BY DEF Tried, FreeTry
<1>3. Tried(<<e, Try>>) /\ \A d \in Nat : FreeTry(<<e, Try>>, d) => d = 0
  BY DEF Tried, FreeTry
<1>4. Tried(<<e, Try, Try>>) /\ \A d \in Nat : FreeTry(<<e, Try, Try>>, d) => d = 0
  <2> DEFINE s == <<e, Try, Try>>
  <2>1. Len(s) = 3 /\ s[1] = e /\ s[2] = Try /\ s[3] = Try
    OBVIOUS
  <2> HIDE DEF s
  <2>2. Tried(s)
    BY <2>1 DEF Tried
  <2>3. ASSUME NEW d \in Nat, FreeTry(s, d) PROVE d = 0
    BY <2>1, <2>3 DEF FreeTry
  <2> QED
    BY <2>2, <2>3 DEF s
<1> QED
  BY <1>1, <1>2, <1>3, <1>4

LEMMA ResponseCalls ==
  ASSUME TypeOK, writes < MaxWrites, NEW n \in 0..MaxParts, NEW st \in SUBSET (1..MaxWrites)
  PROVE  Tried(Respond(n, st)) /\ \A d \in Nat : FreeTry(Respond(n, st), d) => d = 0
<1> DEFINE s == Respond(n, st)
<1>1. s \in Seq(Steps) /\ Len(s) = 2 * n + 1
  <2>1. s \in Seq(Steps)
    BY RespondIsCalls
  <2>2. DOMAIN s = 1..2 * n + 1 /\ 2 * n + 1 \in Nat
    BY DEF Respond
  <2>3. DOMAIN s = 1..Len(s) /\ Len(s) \in Nat
    BY <2>1, LenProperties
  <2> QED
    BY <2>1, <2>2, <2>3
<1>2. \A i \in 1..2 * n + 1 : s[i] # Try => i % 2 = 1 /\ i < 2 * n
  BY DEF Respond
<1>3. \A i \in 1..2 * n + 1 : i % 2 = 1 /\ i < 2 * n => s[i] # Try
  <2>1. TAKE i \in 1..2 * n + 1
  <2>2. HAVE i % 2 = 1 /\ i < 2 * n
  <2>3. s[i] = [by |-> writes + 1, part |-> (i + 1) \div 2, stale |-> st]
    BY <2>2 DEF Respond
  <2>4. (i + 1) \div 2 \in 1..MaxParts
    BY <2>2, SMTT(30)
  <2>5. s[i] \in Reports
    BY <2>3, <2>4 DEF TypeOK, Reports
  <2> QED
    BY <2>5
<1> HIDE DEF s
<1>4. Tried(s)
  <2>1. ASSUME NEW i \in 1..2 * n + 1, s[i] # Try PROVE i < 2 * n + 1 /\ s[i + 1] = Try
    <3>1. i % 2 = 1 /\ i < 2 * n
      BY <1>2, <2>1
    <3>2. i + 1 \in 1..2 * n + 1 /\ (i + 1) % 2 = 0
      BY <3>1, SMTT(30)
    <3> QED
      BY <1>2, <3>1, <3>2
  <2> QED
    BY <1>1, <2>1 DEF Tried
<1>5. ASSUME NEW d \in Nat, FreeTry(s, d) PROVE d = 0
  \* Any try before the last has an even place and comes after a report.
  <2>1. SUFFICES ASSUME d # 0 PROVE FALSE
    OBVIOUS
  <2>2. d < 2 * n + 1 /\ s[2 * n + 1 - d] = Try
        /\ (d + 1 < 2 * n + 1 => s[2 * n + 1 - d - 1] = Try)
    BY <1>1, <1>5 DEF FreeTry
  <2> DEFINE i == 2 * n + 1 - d
  <2>3. i \in 1..2 * n
    BY <2>1, <2>2
  <2>4. i % 2 = 0 \/ i = 2 * n
    BY <1>3, <2>2, <2>3, SMTT(30)
  <2>5. i > 1 /\ (i - 1) % 2 = 1 /\ i - 1 < 2 * n /\ i - 1 \in 1..2 * n + 1
    BY <2>3, <2>4, SMTT(30)
  <2>6. s[i - 1] # Try
    BY <1>3, <2>5
  <2>7. d + 1 < 2 * n + 1 /\ i - 1 = 2 * n + 1 - d - 1
    BY <2>5
  <2> QED
    BY <2>2, <2>6, <2>7
<1> QED
  BY <1>4, <1>5 DEF s

\* A request that comes in makes no pair without a try.
LEMMA CallsAdded ==
  ASSUME TypeOK, TriesDue, NEW t \in Threads, NEW cs \in Seq(Steps), todo[t] = <<>>,
         todo' = [todo EXCEPT ![t] = cs],
         Tried(cs), \A d \in Nat : FreeTry(cs, d) => d = 0
  PROVE  /\ \A u \in Threads : Tried(todo'[u])
         /\ IsFiniteSet(FreeTries')
         /\ Cardinality(FreeTries') >= Cardinality(FreeTries)
         /\ FreeTry(cs, 0) => Cardinality(FreeTries') = Cardinality(FreeTries) + 1
<1>1. todo \in [Threads -> Seq(Steps)]
  BY DEF TypeOK
<1>2. \A u \in Threads : Tried(todo'[u])
  BY <1>1 DEF TriesDue
<1>3. <<t, 0>> \notin FreeTries
  BY NoFreeTry DEF FreeTries
<1>4. FreeTries' = FreeTries \cup {p \in {<<t, 0>>} : FreeTry(cs, 0)}
  <2>1. ASSUME NEW p \in Threads \X Nat
        PROVE  p \in FreeTries' <=> p \in FreeTries \/ (p = <<t, 0>> /\ FreeTry(cs, 0))
    <3>1. CASE p[1] = t
      <4>1. p = <<t, p[2]>> /\ p[2] \in Nat
        BY <3>1
      <4>2. p \notin FreeTries
        BY <3>1, <4>1, NoFreeTry DEF FreeTries
      <4>3. p \in FreeTries' <=> FreeTry(cs, p[2])
        BY <1>1, <3>1 DEF FreeTries
      <4> QED
        BY <4>1, <4>2, <4>3
    <3>2. CASE p[1] # t
      BY <1>1, <3>2 DEF FreeTries
    <3> QED
      BY <3>1, <3>2
  <2>2. FreeTries \subseteq Threads \X Nat /\ FreeTries' \subseteq Threads \X Nat
        /\ <<t, 0>> \in Threads \X Nat
    BY DEF FreeTries
  <2> QED
    BY <2>1, <2>2
<1>5. IsFiniteSet(FreeTries) /\ Cardinality(FreeTries) \in Nat
  BY FS_CardinalityType DEF TriesDue
<1>6. CASE FreeTry(cs, 0)
  <2>1. FreeTries' = FreeTries \cup {<<t, 0>>}
    BY <1>4, <1>6
  <2>2. /\ IsFiniteSet(FreeTries \cup {<<t, 0>>})
        /\ Cardinality(FreeTries \cup {<<t, 0>>}) = Cardinality(FreeTries) + 1
    BY <1>3, <1>5, FS_AddElement
  <2> QED
    BY <1>2, <1>5, <2>1, <2>2
<1>7. CASE ~FreeTry(cs, 0)
  <2>1. FreeTries' = FreeTries
    BY <1>4, <1>7
  <2> QED
    BY <1>2, <1>5, <1>7, <2>1
<1> QED
  BY <1>6, <1>7

\* The free tries after a thread made the first of its calls.
LEMMA CallMade ==
  ASSUME TypeOK, TriesDue, NEW t \in Threads, todo[t] # <<>>,
         todo' = [todo EXCEPT ![t] = Tail(@)]
  PROVE  /\ \A u \in Threads : Tried(todo'[u])
         /\ IsFiniteSet(FreeTries')
         /\ Cardinality(FreeTries) \in Nat
         /\ Cardinality(FreeTries') =
              Cardinality(FreeTries) + (IF Head(todo[t]) = Try THEN -1 ELSE 1)
<1> DEFINE s == todo[t]
           x == <<t, IF Head(s) = Try THEN Len(s) - 1 ELSE Len(s) - 2>>
<1>1. todo \in [Threads -> Seq(Steps)] /\ s \in Seq(Steps) /\ Tried(s)
  BY DEF TypeOK, TriesDue
<1>2. IsFiniteSet(FreeTries) /\ Cardinality(FreeTries) \in Nat
  BY FS_CardinalityType DEF TriesDue
<1>3. Tried(Tail(s))
  BY <1>1, TryMade, ReportQueued
<1>4. \A u \in Threads : Tried(todo'[u])
  BY <1>1, <1>3 DEF TriesDue
<1>5. \A p \in Threads \X Nat : p \in FreeTries' <=>
         IF p[1] = t THEN FreeTry(Tail(s), p[2]) ELSE FreeTry(todo[p[1]], p[2])
  BY <1>1 DEF FreeTries
<1>6. \A p \in Threads \X Nat : p \in FreeTries <=> FreeTry(todo[p[1]], p[2])
  BY DEF FreeTries
<1>7. FreeTries \subseteq Threads \X Nat /\ FreeTries' \subseteq Threads \X Nat
  BY DEF FreeTries
<1>8. CASE Head(s) = Try
  <2>1. /\ FreeTry(s, Len(s) - 1) /\ x = <<t, Len(s) - 1>>
        /\ \A d \in Nat : FreeTry(Tail(s), d) <=> FreeTry(s, d) /\ d # Len(s) - 1
    BY <1>1, <1>8, TryMade
  <2>2. x \in FreeTries
    <3>1. Len(s) - 1 \in Nat
      BY <2>1 DEF FreeTry
    <3> QED
      BY <1>6, <2>1, <3>1
  <2> HIDE DEF x
  <2>3. FreeTries' = FreeTries \ {x}
    <3>1. ASSUME NEW p \in Threads \X Nat
          PROVE  p \in FreeTries' <=> p \in FreeTries /\ p # x
      <4>1. CASE p[1] = t
        <5>1. p = x <=> p[2] = Len(s) - 1
          BY <2>1, <4>1
        <5> QED
          BY <1>5, <1>6, <2>1, <4>1, <5>1
      <4>2. CASE p[1] # t
        <5>1. p # x
          BY <2>1, <4>2
        <5> QED
          BY <1>5, <1>6, <4>2, <5>1
      <4> QED
        BY <4>1, <4>2
    <3> QED
      BY <1>7, <3>1
  <2>4. /\ IsFiniteSet(FreeTries \ {x})
        /\ Cardinality(FreeTries \ {x}) = Cardinality(FreeTries) - 1
    BY <1>2, <2>2, FS_RemoveElement
  <2> QED
    BY <1>2, <1>4, <1>8, <2>3, <2>4
<1>9. CASE Head(s) # Try
  <2>1. /\ ~FreeTry(s, Len(s) - 2) /\ x = <<t, Len(s) - 2>> /\ Len(s) >= 2
        /\ \A d \in Nat : FreeTry(Tail(s), d) <=> FreeTry(s, d) \/ d = Len(s) - 2
    BY <1>1, <1>9, ReportQueued
  <2>2. x \notin FreeTries /\ x \in Threads \X Nat
    <3>1. Len(s) \in Nat
      BY <1>1
    <3>2. Len(s) - 2 \in Nat
      BY <2>1, <3>1
    <3> QED
      BY <1>6, <2>1, <3>2
  <2> HIDE DEF x
  <2>3. FreeTries' = FreeTries \cup {x}
    <3>1. ASSUME NEW p \in Threads \X Nat
          PROVE  p \in FreeTries' <=> p \in FreeTries \/ p = x
      <4>1. CASE p[1] = t
        <5>1. p = x <=> p[2] = Len(s) - 2
          BY <2>1, <4>1
        <5> QED
          BY <1>5, <1>6, <2>1, <4>1, <5>1
      <4>2. CASE p[1] # t
        <5>1. p # x
          BY <2>1, <4>2
        <5> QED
          BY <1>5, <1>6, <4>2, <5>1
      <4> QED
        BY <4>1, <4>2
    <3> QED
      BY <1>7, <2>2, <3>1
  <2>4. /\ IsFiniteSet(FreeTries \cup {x})
        /\ Cardinality(FreeTries \cup {x}) = Cardinality(FreeTries) + 1
    BY <1>2, <2>2, FS_AddElement
  <2> QED
    BY <1>2, <1>4, <1>9, <2>3, <2>4
<1> QED
  BY <1>8, <1>9

-----------------------------------------------------------------------------
(* No report waits beside a request                                        *)

LEMMA TriesDueInit == Init => TriesDue
<1> SUFFICES ASSUME Init PROVE TriesDue
  OBVIOUS
<1>1. FreeTries = {}
  BY NoFreeTry DEF Init, FreeTries
<1>2. \A t \in Threads : Tried(todo[t])
  BY DEF Init, Tried
<1> QED
  BY <1>1, <1>2, FS_EmptySet DEF Init, TriesDue

\* Every step keeps it.
LEMMA TriesDueNext == TypeOK /\ TriesDue /\ [Next]_vars => TriesDue'
<1> SUFFICES ASSUME TypeOK, TriesDue, [Next]_vars PROVE TriesDue'
  OBVIOUS
<1>0. /\ count \in Nat /\ reads \in Nat /\ IsFiniteSet(FreeTries)
      /\ Cardinality(FreeTries) \in Nat
      /\ count <= Cardinality(FreeTries) \/ reads <= Cardinality(FreeTries)
  BY FS_CardinalityType DEF TypeOK, TriesDue
<1>1. ASSUME NEW t \in Threads, Enqueue(t) PROVE TriesDue'
  <2>1. /\ todo[t] # <<>> /\ Head(todo[t]) # Try
        /\ todo' = [todo EXCEPT ![t] = Tail(@)]
        /\ count' <= count + 1 /\ count' \in Nat /\ reads' = reads
    BY <1>0, <1>1 DEF Enqueue, CountKept, TypeOK, Full
  <2>2. /\ \A u \in Threads : Tried(todo'[u]) /\ IsFiniteSet(FreeTries')
        /\ Cardinality(FreeTries') = Cardinality(FreeTries) + 1
    BY <2>1, CallMade
  <2> QED
    BY <1>0, <2>1, <2>2 DEF TriesDue
<1>2. ASSUME NEW t \in Threads, Match(t) PROVE TriesDue'
  <2>1. /\ todo[t] # <<>> /\ Head(todo[t]) = Try
        /\ todo' = [todo EXCEPT ![t] = Tail(@)]
    BY <1>2 DEF Match
  <2>2. /\ \A u \in Threads : Tried(todo'[u]) /\ IsFiniteSet(FreeTries')
        /\ Cardinality(FreeTries') = Cardinality(FreeTries) - 1
    BY <1>0, <2>1, CallMade
  <2>3. Cardinality(FreeTries') \in Nat
    BY <2>2, FS_CardinalityType
  <2>4. \/ count' = count - 1 /\ reads' = reads - 1
        \/ count' = 0 \/ reads' = 0
    BY <1>2 DEF Match
  <2> QED
    BY <1>0, <2>2, <2>3, <2>4 DEF TriesDue
<1>3. ASSUME NEW t \in Threads, NEW cs \in Seq(Steps), Write(t, cs), Tried(cs),
             \A d \in Nat : FreeTry(cs, d) => d = 0
      PROVE  TriesDue'
  <2>1. /\ todo[t] = <<>> /\ todo' = [todo EXCEPT ![t] = cs]
        /\ count' = count /\ reads' = reads
    BY <1>3 DEF Write, Idle, queue
  <2>2. /\ \A u \in Threads : Tried(todo'[u]) /\ IsFiniteSet(FreeTries')
        /\ Cardinality(FreeTries') >= Cardinality(FreeTries)
    BY <1>3, <2>1, CallsAdded
  <2>3. Cardinality(FreeTries') \in Nat
    BY <2>2, FS_CardinalityType
  <2> QED
    BY <1>0, <2>1, <2>2, <2>3 DEF TriesDue
<1>4. ASSUME NEW t \in Threads, ReadReport(t) PROVE TriesDue'
  <2>1. /\ todo[t] = <<>> /\ todo' = [todo EXCEPT ![t] = <<Try>>]
        /\ count' = count /\ reads' = reads + 1
    BY <1>4 DEF ReadReport, Idle, AfterForward, queue
  <2>2. <<Try>> \in Seq(Steps) /\ Tried(<<Try>>) /\ FreeTry(<<Try>>, 0)
        /\ \A d \in Nat : FreeTry(<<Try>>, d) => d = 0
    BY DEF Tried, FreeTry, Steps
  <2>3. /\ \A u \in Threads : Tried(todo'[u]) /\ IsFiniteSet(FreeTries')
        /\ Cardinality(FreeTries') = Cardinality(FreeTries) + 1
    BY <2>1, <2>2, CallsAdded
  <2> QED
    BY <1>0, <2>1, <2>3 DEF TriesDue
<1>5. ASSUME NEW t \in Threads, Inject(t) \/ Notify(t) \/ Overflow(t) \/ Chunk(t)
      PROVE  TriesDue'
  <2>1. writes < MaxWrites
    BY <1>5 DEF Inject, Notify, Overflow, Chunk, Write
  <2>2. Event \in Reports
    BY <2>1, EventIsReport
  <2>3. PICK cs \in {<<>>, <<Try>>, <<Event, Try>>, <<Event, Try, Try>>} : Write(t, cs)
    BY <1>5 DEF Inject, Notify, Overflow, Chunk
  <2>4. cs \in Seq(Steps)
    <3>1. \A e \in Steps : <<e, Try>> \in Seq(Steps) /\ <<e, Try, Try>> \in Seq(Steps)
      BY DEF Steps
    <3>2. <<>> \in Seq(Steps) /\ <<Try>> \in Seq(Steps) /\ Event \in Steps
      BY <2>2 DEF Steps
    <3> QED
      BY <2>3, <3>1, <3>2
  <2>5. Tried(cs) /\ \A d \in Nat : FreeTry(cs, d) => d = 0
    BY <2>2, ShortCalls
  <2> QED
    BY <1>3, <2>3, <2>4, <2>5
<1>6. ASSUME NEW t \in Threads, LastChunk(t) PROVE TriesDue'
  <2>1. PICK m \in NextChunk, n \in 0..MaxParts : Write(t, Respond(n, StaleIn(rpc, m)))
    BY <1>6 DEF LastChunk
  <2>2. writes < MaxWrites /\ StaleIn(rpc, m) \in SUBSET (1..MaxWrites)
    BY <2>1, StaleType DEF Write
  <2>3. /\ Respond(n, StaleIn(rpc, m)) \in Seq(Steps) /\ Tried(Respond(n, StaleIn(rpc, m)))
        /\ \A d \in Nat : FreeTry(Respond(n, StaleIn(rpc, m)), d) => d = 0
    BY <2>2, RespondIsCalls, ResponseCalls
  <2> QED
    BY <1>3, <2>1, <2>3
<1>7. ASSUME UNCHANGED <<todo, count, reads>> PROVE TriesDue'
  <2>1. FreeTries' = FreeTries
    BY <1>7 DEF FreeTries
  <2> QED
    BY <1>7, <2>1 DEF TriesDue
<1>8. ASSUME NEW t \in Threads, Complete(t) \/ EndWrite(t)
      PROVE  UNCHANGED <<todo, count, reads>>
  BY <1>8 DEF Complete, EndWrite, queue, threads
<1>9. Abandon \/ UNCHANGED vars => UNCHANGED <<todo, count, reads>>
  BY DEF Abandon, vars, queue, threads
<1> QED
  BY <1>1, <1>2, <1>4, <1>5, <1>6, <1>7, <1>8, <1>9 DEF Next, HandlerStep

\* A report and a read request never wait beside each other when no handler is under
\* way: of EnqueueInputReport and the forwarding of a request, whichever comes later is
\* followed by a TryCompleteInputReport that finds both.
THEOREM NoneStrandedHolds == Spec => []NoneStranded
<1>1. TypeOK /\ [Next]_vars => TypeOK'
  BY NextTypes
<1>2. TypeOK /\ TriesDue => NoneStranded
  <2> SUFFICES ASSUME TypeOK, TriesDue, \A t \in Threads : Idle(t)
               PROVE  count = 0 \/ reads = 0
    BY DEF NoneStranded
  <2>1. FreeTries = {}
    BY NoFreeTry DEF FreeTries, Idle
  <2> QED
    BY <2>1, FS_EmptySet DEF TriesDue, TypeOK
<1> QED
  BY InitTypes, TriesDueInit, TriesDueNext, <1>1, <1>2, PTL DEF Spec

-----------------------------------------------------------------------------
(* The assembly of messages                                                *)

\* The inductive invariant: what RpcBuffer holds is of messages being written or of
\* messages left without a closing chunk, and of an unbroken one being written it holds
\* as much as was written.
Assembly ==
  /\ AssemblyInStep
  /\ \A s \in sent : s.msg <= writes /\ s.msg \notin gone
  /\ \A r, s \in sent : r.msg = s.msg => r = s
  /\ gone \subseteq 1..writes
  /\ \A i \in 1..Len(rpc) : rpc[i] \in gone \cup {s.msg : s \in sent}

LEMMA AssemblyInit == Init => Assembly
  BY DEF Init, Assembly, AssemblyInStep

\* The next chunk is the first one of a new message or goes on with one begun.
LEMMA ChunkFacts ==
  ASSUME TypeOK, Assembly, NEW m \in NextChunk, writes < MaxWrites
  PROVE  /\ m \in Messages /\ m.msg \in 1..MaxWrites /\ m.msg <= writes + 1
         /\ m.msg \notin gone
         /\ m.msg \notin broken =>
              Cardinality({i \in DOMAIN rpc : rpc[i] = m.msg}) = m.done - 1
<1>1. m \in Messages /\ m.msg \in 1..MaxWrites /\ m.done \in 1..MaxChunks
  BY DEF NextChunk, Messages
<1>2. /\ gone \subseteq 1..writes /\ writes \in Nat /\ rpc \in Seq(1..MaxWrites)
      /\ \A s \in sent : /\ s.msg <= writes /\ s.msg \notin gone
                         /\ s.done \in 1..MaxChunks /\ s.msg \in 1..MaxWrites
  BY DEF Assembly, TypeOK, Messages
<1>3. CASE m.msg = writes + 1 /\ m.done = 1
  <2>1. DOMAIN rpc = 1..Len(rpc)
    BY <1>2
  <2>2. \A i \in DOMAIN rpc : rpc[i] <= writes
    BY <1>2, <2>1 DEF Assembly
  <2>3. {i \in DOMAIN rpc : rpc[i] = m.msg} = {}
    <3>1. ASSUME NEW i \in DOMAIN rpc PROVE rpc[i] # m.msg
      <4>1. rpc[i] \in 1..MaxWrites
        BY <1>2, <2>1
      <4> QED
        BY <1>2, <1>3, <2>2, <4>1
    <3> QED
      BY <3>1
  <2>4. Cardinality({i \in DOMAIN rpc : rpc[i] = m.msg}) = 0
    BY <2>3, FS_EmptySet
  <2>5. m.msg \notin gone /\ m.msg <= writes + 1 /\ m.done - 1 = 0
    BY <1>2, <1>3
  <2> QED
    BY <1>1, <2>4, <2>5
<1>4. ASSUME NEW s \in sent, m = [s EXCEPT !.done = @ + 1]
      PROVE  /\ m.msg <= writes + 1 /\ m.msg \notin gone
             /\ m.msg \notin broken =>
                  Cardinality({i \in DOMAIN rpc : rpc[i] = m.msg}) = m.done - 1
  <2>1. m.msg = s.msg /\ m.done = s.done + 1
    BY <1>4 DEF TypeOK, Messages
  <2>2. m.msg <= writes + 1 /\ m.msg \notin gone /\ m.done - 1 = s.done
    BY <1>1, <1>2, <2>1
  <2>3. s.msg \notin broken => Cardinality({i \in DOMAIN rpc : rpc[i] = s.msg}) = s.done
    BY DEF Assembly, AssemblyInStep
  <2> QED
    BY <2>1, <2>2, <2>3
<1> QED
  BY <1>1, <1>3, <1>4 DEF NextChunk

\* A chunk leaves the messages under way apart from each other and from the ones left.
LEMMA SentNext ==
  ASSUME TypeOK, Assembly, NEW m \in NextChunk, writes < MaxWrites, writes' = writes + 1,
         sent' = Others(m) \cup Rest(m),
         gone' = gone \/ (gone' = gone \cup {m.msg} /\ Rest(m) = {})
  PROVE  /\ \A s \in sent' : s.msg <= writes' /\ s.msg \notin gone'
         /\ \A r, s \in sent' : r.msg = s.msg => r = s
         /\ gone' \subseteq 1..writes'
<1>1. m.msg \in 1..MaxWrites /\ m.msg <= writes + 1 /\ m.msg \notin gone
  BY ChunkFacts
<1>2. Others(m) \subseteq sent /\ (\A s \in Others(m) : s.msg # m.msg) /\ Rest(m) \subseteq {m}
  BY DEF Others, Rest
<1>3. /\ writes \in Nat /\ gone \subseteq 1..writes
      /\ \A s \in sent : s.msg \in Nat /\ s.msg <= writes /\ s.msg \notin gone
      /\ \A r, s \in sent : r.msg = s.msg => r = s
  BY DEF Assembly, TypeOK, Messages
<1>4. ASSUME NEW s \in sent' PROVE s.msg <= writes' /\ s.msg \notin gone'
  BY <1>1, <1>2, <1>3
<1>5. ASSUME NEW r \in sent', NEW s \in sent', r.msg = s.msg PROVE r = s
  BY <1>2, <1>3, <1>5
<1>6. gone' \subseteq 1..writes'
  <2>1. m.msg \in 1..writes' /\ 1..writes \subseteq 1..writes'
    BY <1>1, <1>3
  <2> QED
    BY <1>3, <2>1
<1> QED
  BY <1>4, <1>5, <1>6

\* Every step keeps it.
LEMMA AssemblyNext == TypeOK /\ Assembly /\ [Next]_vars => Assembly'
<1> SUFFICES ASSUME TypeOK, Assembly, [Next]_vars PROVE Assembly'
  OBVIOUS
<1>0. /\ gone \subseteq 1..writes /\ writes \in Nat /\ rpc \in Seq(1..MaxWrites)
      /\ \A i \in 1..Len(rpc) : rpc[i] \in gone \cup {s.msg : s \in sent}
  BY DEF Assembly, TypeOK
<1>1. ASSUME UNCHANGED <<rpc, sent, gone, broken>>, writes' \in {writes, writes + 1}
      PROVE  Assembly'
  <2>1. AssemblyInStep'
    BY <1>1 DEF Assembly, AssemblyInStep
  <2>2. \A s \in sent : s.msg \in Nat
    BY DEF TypeOK, Messages
  <2>3. 1..writes \subseteq 1..writes' /\ \A s \in sent : s.msg <= writes'
    BY <1>0, <1>1, <2>2 DEF Assembly
  <2> QED
    BY <1>0, <1>1, <2>1, <2>3 DEF Assembly
<1>2. ASSUME NEW t \in Threads, Overflow(t) PROVE Assembly'
  <2>1. PICK m \in NextChunk :
          sent' = Others(m) \cup Rest(m) /\ broken' = Torn(m) \cup {m.msg}
    BY <1>2 DEF Overflow
  <2>2. writes < MaxWrites /\ writes' = writes + 1 /\ rpc' = <<>> /\ gone' = gone
    BY <1>2 DEF Overflow, Write
  <2>3. \A s \in sent' : s.msg \in broken'
    BY <2>1 DEF Rest, Torn
  <2> QED
    BY <2>1, <2>2, <2>3, SentNext DEF Assembly, AssemblyInStep
<1>3. ASSUME NEW t \in Threads, Chunk(t) PROVE Assembly'
  <2>1. PICK m \in NextChunk :
          /\ sent' = Others(m) \cup Rest(m) /\ broken' = Torn(m)
          /\ gone' = IF m \in sent' THEN gone ELSE gone \cup {m.msg}
          /\ rpc' = Append(rpc, m.msg)
    BY <1>3 DEF Chunk, Contents
  <2>2. writes < MaxWrites /\ writes' = writes + 1
    BY <1>3 DEF Chunk, Write
  <2>3. /\ m \in Messages /\ m.msg \in 1..MaxWrites
        /\ m.msg \notin broken =>
             Cardinality({i \in DOMAIN rpc : rpc[i] = m.msg}) = m.done - 1
    BY <2>2, ChunkFacts
  <2>4. gone' = gone \/ (gone' = gone \cup {m.msg} /\ Rest(m) = {})
    BY <2>1 DEF Rest
  <2> DEFINE old == {i \in DOMAIN rpc : rpc[i] = m.msg}
             n   == Len(rpc) + 1
  <2>5. DOMAIN rpc = 1..Len(rpc) /\ Len(rpc) \in Nat
    BY <1>0
  <2>6. /\ Len(rpc') = n /\ DOMAIN rpc' = 1..n /\ rpc'[n] = m.msg
        /\ \A i \in 1..Len(rpc) : rpc'[i] = rpc[i]
    BY <1>0, <2>1, <2>3
  <2>7. {i \in DOMAIN rpc' : rpc'[i] = m.msg} = old \cup {n}
    BY <2>5, <2>6
  <2>8. IsFiniteSet(old) /\ n \notin old
    <3>1. IsFiniteSet(1..Len(rpc))
      BY <2>5, FS_Interval
    <3> QED
      BY <2>5, <3>1, FS_Subset
  <2> HIDE DEF old, n
  <2>9. Cardinality(old \cup {n}) = Cardinality(old) + 1
    BY <2>8, FS_AddElement
  <2>10. AssemblyInStep'
    <3> SUFFICES ASSUME NEW s \in sent', s.msg \notin broken'
                 PROVE  Cardinality({i \in DOMAIN rpc' : rpc'[i] = s.msg}) = s.done
      BY DEF AssemblyInStep
    <3>1. s = m /\ m.msg \notin broken
      BY <2>1 DEF Rest, Torn
    <3>2. Cardinality(old) = m.done - 1 /\ m.done \in Nat
      BY <2>3, <3>1 DEF old, Messages
    <3>3. {i \in DOMAIN rpc' : rpc'[i] = s.msg} = old \cup {n}
      BY <2>7, <3>1
    <3>4. Cardinality(old \cup {n}) = s.done
      BY <2>9, <3>1, <3>2
    <3> QED
      BY <3>3, <3>4
  <2>11. \A i \in 1..Len(rpc') : rpc'[i] \in gone' \cup {s.msg : s \in sent'}
    <3>1. TAKE i \in 1..Len(rpc')
    <3>2. m.msg \in gone' \cup {s.msg : s \in sent'}
      BY <2>1
    <3>3. CASE i = n
      BY <2>6, <3>2, <3>3
    <3>4. CASE i # n
      <4>1. i \in 1..Len(rpc)
        BY <2>5, <2>6, <3>4 DEF n
      <4>2. rpc[i] \in gone \/ \E s \in sent : rpc[i] = s.msg
        BY <1>0, <4>1
      <4>3. CASE rpc[i] \in gone \/ rpc[i] = m.msg
        BY <2>1, <2>6, <3>2, <4>1, <4>3
      <4>4. ASSUME NEW s \in sent, rpc[i] = s.msg, s.msg # m.msg
            PROVE  rpc'[i] \in {r.msg : r \in sent'}
        BY <2>1, <2>6, <4>1, <4>4 DEF Others
      <4> QED
        BY <4>2, <4>3, <4>4
    <3> QED
      BY <3>3, <3>4
  <2> QED
    BY <2>1, <2>2, <2>4, <2>10, <2>11, SentNext DEF Assembly
<1>4. ASSUME NEW t \in Threads, LastChunk(t) PROVE Assembly'
  <2>1. PICK m \in NextChunk :
          sent' = Others(m) \cup Rest(m) /\ broken' = Torn(m) \cup {r.msg : r \in Rest(m)}
    BY <1>4 DEF LastChunk
  <2>2. writes < MaxWrites /\ writes' = writes + 1 /\ rpc' = <<>> /\ gone' = gone
    BY <1>4 DEF LastChunk, AfterMessage, Write
  <2>3. \A s \in sent' : s.msg \in broken'
    BY <2>1 DEF Torn
  <2> QED
    BY <2>1, <2>2, <2>3, SentNext DEF Assembly, AssemblyInStep
<1>5. ASSUME Abandon PROVE Assembly'
  <2>1. PICK s \in sent : sent' = sent \ {s} /\ gone' = gone \cup {s.msg}
    BY <1>5 DEF Abandon
  <2>2. UNCHANGED <<rpc, broken, writes>>
    BY <1>5 DEF Abandon
  <2>3. s.msg \in 1..writes
    BY <1>0 DEF Assembly, TypeOK, Messages
  <2>4. AssemblyInStep'
    BY <2>1, <2>2 DEF Assembly, AssemblyInStep
  <2>5. \A r \in sent' : r.msg <= writes' /\ r.msg \notin gone'
    BY <2>1, <2>2 DEF Assembly
  <2>6. \A q, r \in sent' : q.msg = r.msg => q = r
    BY <2>1 DEF Assembly
  <2>7. \A i \in 1..Len(rpc') : rpc'[i] \in gone' \cup {r.msg : r \in sent'}
    BY <1>0, <2>1, <2>2
  <2> QED
    BY <1>0, <2>1, <2>2, <2>3, <2>4, <2>5, <2>6, <2>7 DEF Assembly
<1>6. ASSUME NEW t \in Threads,
             HandlerStep(t) \/ ReadReport(t) \/ Inject(t) \/ Notify(t)
      PROVE  UNCHANGED <<rpc, sent, gone, broken>> /\ writes' \in {writes, writes + 1}
  BY <1>6 DEF HandlerStep, Enqueue, Match, Complete, EndWrite, ReadReport, Inject, Notify,
     Write, client
<1>7. UNCHANGED vars => UNCHANGED <<rpc, sent, gone, broken, writes>>
  BY DEF vars, client
<1> QED
  BY <1>1, <1>2, <1>3, <1>4, <1>5, <1>6, <1>7 DEF Next

\* Of every message being written that was not broken, RpcBuffer holds exactly the chunks
\* that were written of it, whatever else HandleOutputReport was given by other clients and
\* whatever was left in the buffer before (vhidmini.c:1461-1489).
THEOREM AssemblyInStepHolds == Spec => []AssemblyInStep
<1>1. TypeOK /\ [Next]_vars => TypeOK'
  BY NextTypes
<1>2. Assembly => AssemblyInStep
  BY DEF Assembly
<1> QED
  BY InitTypes, AssemblyInit, AssemblyNext, <1>1, <1>2, PTL DEF Spec

-----------------------------------------------------------------------------
(* The reports that wait                                                   *)

\* The ring is a sequence of as many reports as it counts.
LEMMA ContentsSeq ==
  ASSUME RingInv
  PROVE  /\ contents \in Seq(Reports) /\ Len(contents) = count /\ count \in Nat
         /\ \A i \in 0..count - 1 :
              i + 1 \in 1..Len(contents) /\ contents[i + 1] = ring[(head + i) % Capacity]
<1>1. contents \in Seq(Reports) /\ Len(contents) = count /\ count \in Nat
  <2>1. /\ ring \in [0..Capacity - 1 -> Reports \cup {None}]
        /\ head \in 0..Capacity - 1 /\ count \in 0..Capacity
        /\ \A i \in 0..Capacity - 1 : i < count => ring[(head + i) % Capacity] \in Reports
    BY RingFacts
  <2>2. Queued(ring, head, count) \in Seq(Reports) /\ Len(Queued(ring, head, count)) = count
    BY <2>1, QueuedIsSeq
  <2> QED
    BY <2>1, <2>2 DEF contents
<1>2. ASSUME NEW i \in 0..count - 1
      PROVE  i + 1 \in 1..count /\ contents[i + 1] = ring[(head + i) % Capacity]
  <2>1. i + 1 \in 1..count /\ (i + 1) - 1 = i
    BY <1>1
  <2>2. contents[i + 1] = ring[(head + ((i + 1) - 1)) % Capacity]
    BY <2>1 DEF contents, Queued
  <2> QED
    BY <2>1, <2>2
<1> QED
  BY <1>1, <1>2

\* The queue after a Put is the one before, perhaps without its oldest report, and the
\* new one.
LEMMA PushedFacts ==
  ASSUME NEW q \in Seq(Reports), NEW r \in Reports
  PROVE  \E d \in {0, 1} :
           LET p == Fifo!Pushed(q, r) IN
           /\ p \in Seq(Reports) /\ Len(p) = Len(q) - d + 1
           /\ Len(q) - d \in Nat
           /\ p[Len(p)] = r
           /\ \A i \in 1..Len(q) - d : i + d \in 1..Len(q) /\ p[i] = q[i + d]
<1>1. Len(q) \in Nat
  OBVIOUS
<1>2. CASE Len(q) < Capacity
  <2>1. Fifo!Pushed(q, r) = Append(q, r)
    BY <1>2 DEF Fifo!Pushed
  <2>2. /\ Append(q, r) \in Seq(Reports) /\ Len(Append(q, r)) = Len(q) + 1
        /\ Append(q, r)[Len(q) + 1] = r
        /\ \A i \in 1..Len(q) : Append(q, r)[i] = q[i]
    OBVIOUS
  <2> QED
    BY <1>1, <2>1, <2>2
<1>3. CASE ~(Len(q) < Capacity)
  <2>1. Fifo!Pushed(q, r) = Append(Tail(q), r)
    BY <1>3 DEF Fifo!Pushed
  <2>2. q # <<>>
    BY <1>3
  <2>3. /\ Tail(q) \in Seq(Reports) /\ Len(Tail(q)) = Len(q) - 1 /\ Len(q) - 1 \in Nat
        /\ \A i \in 1..Len(q) - 1 : Tail(q)[i] = q[i + 1]
    BY <1>1, <2>2, HeadTailProperties
  <2>4. /\ Append(Tail(q), r) \in Seq(Reports) /\ Len(Append(Tail(q), r)) = Len(q)
        /\ Append(Tail(q), r)[Len(q)] = r
        /\ \A i \in 1..Len(q) - 1 : Append(Tail(q), r)[i] = Tail(q)[i]
    BY <2>3
  <2> DEFINE p == Fifo!Pushed(q, r)
  <2>5. /\ p \in Seq(Reports) /\ Len(p) = Len(q) - 1 + 1 /\ Len(q) - 1 \in Nat
        /\ p[Len(p)] = r
    BY <1>1, <2>1, <2>3, <2>4
  <2>6. \A i \in 1..Len(q) - 1 : i + 1 \in 1..Len(q) /\ p[i] = q[i + 1]
    BY <1>1, <2>1, <2>3, <2>4
  <2> QED
    BY <2>5, <2>6
<1> QED
  BY <1>2, <1>3

\* The reports that wait in the ring, are being completed, or are still to be queued.
Waiting == {r \in Reports : \E i \in 1..Len(contents) : contents[i] = r}
InHand  == {r \in Reports : \E t \in Threads : held[t] = r}
Coming  == {r \in Reports : \E t \in Threads : \E i \in 1..Len(todo[t]) : todo[t][i] = r}

\* How each kind of step moves reports between the three.
LEMMA EnqueueMoves ==
  ASSUME RingInv, NEW t \in Threads, Enqueue(t)
  PROVE  /\ Head(todo[t]) \in Coming
         /\ Waiting' \subseteq Waiting \cup {Head(todo[t])}
         /\ InHand' = InHand /\ Coming' \subseteq Coming
<1> DEFINE r == Head(todo[t])
<1>1. r \in Reports /\ contents' = Fifo!Pushed(contents, r) /\ held' = held
  BY EnqueueIsPut DEF Fifo!Put
<1>2. todo \in [Threads -> Seq(Steps)] /\ todo[t] \in Seq(Steps) /\ todo[t] # <<>>
      /\ todo' = [todo EXCEPT ![t] = Tail(@)]
  BY DEF RingInv, TypeOK, Enqueue
<1>3. todo[t][1] = r /\ 1 \in 1..Len(todo[t])
  BY <1>2
<1>4. \A i \in 1..Len(Tail(todo[t])) :
         i + 1 \in 1..Len(todo[t]) /\ Tail(todo[t])[i] = todo[t][i + 1]
  BY <1>2, HeadTailProperties
<1>5. r \in Coming
  BY <1>1, <1>3 DEF Coming
<1>6. Coming' \subseteq Coming
  BY <1>2, <1>4 DEF Coming
<1> HIDE DEF r
<1>7. Waiting' \subseteq Waiting \cup {r}
  <2>1. contents \in Seq(Reports)
    BY ContentsSeq
  <2>2. PICK d \in {0, 1} :
          /\ contents' \in Seq(Reports) /\ Len(contents') = Len(contents) - d + 1
          /\ Len(contents) - d \in Nat
          /\ contents'[Len(contents')] = r
          /\ \A i \in 1..Len(contents) - d :
               i + d \in 1..Len(contents) /\ contents'[i] = contents[i + d]
    <3>1. \E d \in {0, 1} :
            LET p == Fifo!Pushed(contents, r) IN
            /\ p \in Seq(Reports) /\ Len(p) = Len(contents) - d + 1
            /\ Len(contents) - d \in Nat
            /\ p[Len(p)] = r
            /\ \A i \in 1..Len(contents) - d :
                 i + d \in 1..Len(contents) /\ p[i] = contents[i + d]
      BY <1>1, <2>1, PushedFacts
    <3> QED
      BY <1>1, <3>1
  <2>3. ASSUME NEW i \in 1..Len(contents')
        PROVE  contents'[i] = r \/ \E j \in 1..Len(contents) : contents'[i] = contents[j]
    <3>1. i = Len(contents') \/ i \in 1..Len(contents) - d
      BY <2>1, <2>2
    <3> QED
      BY <2>2, <3>1
  <2> QED
    BY <2>3 DEF Waiting
<1>8. InHand' = InHand
  BY <1>1 DEF InHand
<1> QED
  BY <1>5, <1>6, <1>7, <1>8 DEF r

LEMMA MatchMoves ==
  ASSUME RingInv, NEW t \in Threads, Match(t)
  PROVE  /\ Waiting' \subseteq Waiting /\ Coming' \subseteq Coming
         /\ InHand' \subseteq InHand \cup Waiting
<1>1. contents \in Seq(Reports)
  BY ContentsSeq
<1>2. todo \in [Threads -> Seq(Steps)] /\ todo[t] \in Seq(Steps) /\ todo[t] # <<>>
      /\ todo' = [todo EXCEPT ![t] = Tail(@)]
      /\ held \in [Threads -> Reports \cup {None}]
  BY DEF RingInv, TypeOK, Match
<1>3. \A i \in 1..Len(Tail(todo[t])) :
         i + 1 \in 1..Len(todo[t]) /\ Tail(todo[t])[i] = todo[t][i + 1]
  BY <1>2, HeadTailProperties
<1>4. Coming' \subseteq Coming
  BY <1>2, <1>3 DEF Coming
<1>5. CASE Fifo!Take(t)
  <2>1. /\ contents # <<>> /\ held' = [held EXCEPT ![t] = Head(contents)]
        /\ contents' = Tail(contents)
    BY <1>5 DEF Fifo!Take
  <2>2. Head(contents) = contents[1] /\ 1 \in 1..Len(contents) /\ contents[1] \in Reports
    BY <1>1, <2>1
  <2>3. \A i \in 1..Len(contents') :
           i + 1 \in 1..Len(contents) /\ contents'[i] = contents[i + 1]
    BY <1>1, <2>1, HeadTailProperties
  <2>4. Waiting' \subseteq Waiting
    BY <2>3 DEF Waiting
  <2>5. InHand' \subseteq InHand \cup Waiting
    BY <1>2, <2>1, <2>2 DEF InHand, Waiting
  <2> QED
    BY <1>4, <2>4, <2>5
<1>6. CASE UNCHANGED <<contents, held>>
  BY <1>4, <1>6 DEF Waiting, InHand
<1> QED
  BY <1>5, <1>6, MatchIsTake

LEMMA WriteMoves ==
  ASSUME TypeOK, NEW t \in Threads, NEW cs, Write(t, cs)
  PROVE  /\ Waiting' = Waiting /\ InHand' = InHand
         /\ Coming' \subseteq Coming \cup {r \in Reports : \E i \in 1..Len(cs) : cs[i] = r}
<1>1. todo \in [Threads -> Seq(Steps)] /\ todo' = [todo EXCEPT ![t] = cs]
      /\ UNCHANGED <<contents, held>>
  BY DEF TypeOK, Write, queue, contents
<1> QED
  BY <1>1 DEF Waiting, InHand, Coming

LEMMA OtherMoves ==
  ASSUME TypeOK,
         \/ \E t \in Threads : Complete(t) \/ EndWrite(t) \/ ReadReport(t)
         \/ Abandon \/ UNCHANGED vars
  PROVE  Waiting' \subseteq Waiting /\ InHand' \subseteq InHand /\ Coming' \subseteq Coming
<1>1. todo \in [Threads -> Seq(Steps)] /\ held \in [Threads -> Reports \cup {None}]
  BY DEF TypeOK
<1>2. UNCHANGED queue
  BY DEF Complete, EndWrite, ReadReport, Abandon, vars
<1>3. Waiting' = Waiting
  BY <1>2 DEF Waiting, contents, queue
<1>4. \/ UNCHANGED held
      \/ \E t \in Threads : held' = [held EXCEPT ![t] = None]
  BY DEF Complete, EndWrite, ReadReport, Abandon, vars, threads
<1>5. InHand' \subseteq InHand
  BY <1>1, <1>4 DEF InHand
<1>6. \/ UNCHANGED todo
      \/ \E t \in Threads : todo' = [todo EXCEPT ![t] = <<Try>>]
  BY DEF Complete, EndWrite, ReadReport, AfterForward, Abandon, vars, threads
<1>7. Coming' \subseteq Coming
  <2>1. CASE UNCHANGED todo
    BY <2>1 DEF Coming
  <2>2. ASSUME NEW t \in Threads, todo' = [todo EXCEPT ![t] = <<Try>>]
        PROVE  Coming' \subseteq Coming
    <3>1. \A i \in 1..Len(<<Try>>) : <<Try>>[i] \notin Reports
      OBVIOUS
    <3> QED
      BY <1>1, <2>2, <3>1 DEF Coming
  <2> QED
    BY <1>6, <2>1, <2>2
<1> QED
  BY <1>3, <1>5, <1>7

-----------------------------------------------------------------------------
(* Answers and the messages they are about                                 *)

Known == Waiting \cup InHand \cup Coming

\* The inductive invariant: the other messages that an answer took in were left without a
\* closing chunk or broken, and an unbroken one is in no other answer and in RpcBuffer no
\* longer.
Apart ==
  /\ \A r \in Known : /\ r.stale \subseteq gone \cup broken /\ r.by <= writes
                      /\ \A i \in 1..Len(rpc) : rpc[i] \in r.stale => rpc[i] \in broken
  /\ \A r, s \in Known : r.by # s.by => r.stale \cap s.stale \subseteq broken

LEMMA ApartInit == Init => Apart
<1> SUFFICES ASSUME Init PROVE Apart
  OBVIOUS
<1>1. Len(contents) = 0
  BY InitFifo DEF Fifo!Init
<1>2. Waiting = {}
  BY <1>1 DEF Waiting
<1>3. InHand = {} /\ Coming = {}
  BY DEF Init, InHand, Coming
<1> QED
  BY <1>2, <1>3 DEF Apart, Known

\* A step that makes no report and keeps RpcBuffer, or empties it, keeps answers apart.
LEMMA ApartKept ==
  ASSUME Apart, Known' \subseteq Known, gone \subseteq gone', broken \subseteq broken',
         writes <= writes', rpc' = rpc \/ Len(rpc') = 0, writes \in Nat, writes' \in Nat
  PROVE  Apart'
<1>1. \A r \in Known : r.by \in Nat
  BY DEF Known, Waiting, InHand, Coming, Reports
<1>2. ASSUME NEW r \in Known'
      PROVE  /\ r.stale \subseteq gone' \cup broken' /\ r.by <= writes'
             /\ \A i \in 1..Len(rpc') : rpc'[i] \in r.stale => rpc'[i] \in broken'
  BY <1>1 DEF Apart
<1>3. \A r, s \in Known' : r.by # s.by => r.stale \cap s.stale \subseteq broken'
  BY DEF Apart
<1> QED
  BY <1>2, <1>3 DEF Apart

\* The reports that the calls cs queue are of the next write, and st is stale in them.
OwnReports(cs, st) ==
  \A r \in Reports : (\E i \in 1..Len(cs) : cs[i] = r) => r.by = writes + 1 /\ r.stale = st

\* A write empties RpcBuffer, or takes nothing in of it and at most adds to it a chunk
\* of a message that is still written.
BufferAfter(st) ==
  \/ Len(rpc') = 0
  \/ st = {} /\ rpc' = rpc
  \/ st = {} /\ \E x \in 1..MaxWrites : x \notin gone /\ rpc' = Append(rpc, x)

\* Nor does a write whose reports are all its own and about no message of before but
\* those RpcBuffer held.
LEMMA ApartWrite ==
  ASSUME TypeOK, Apart, NEW t \in Threads, NEW cs, Write(t, cs),
         NEW st, st \subseteq gone' \cup broken', st \subseteq {rpc[i] : i \in 1..Len(rpc)},
         gone \subseteq gone', broken \subseteq broken', OwnReports(cs, st), BufferAfter(st)
  PROVE  Apart'
<1> DEFINE new == {r \in Reports : \E i \in 1..Len(cs) : cs[i] = r}
<1>1. Known' \subseteq Known \cup new
  BY WriteMoves DEF Known
<1>2. writes \in Nat /\ writes' = writes + 1
  BY DEF TypeOK, Write
<1>3. \A r \in Known : /\ r.stale \subseteq gone \cup broken /\ r.by \in Nat /\ r.by <= writes
                       /\ \A i \in 1..Len(rpc) : rpc[i] \in r.stale => rpc[i] \in broken
  BY SMTT(30) DEF Apart, Known, Waiting, InHand, Coming, Reports
<1>4. \A r \in new : r.by = writes + 1 /\ r.stale = st
  BY DEF OwnReports
<1> HIDE DEF new
<1>5. \A i \in 1..Len(rpc') : rpc'[i] \in {rpc[j] : j \in 1..Len(rpc)} \/ rpc'[i] \notin gone
  <2>1. CASE Len(rpc') = 0 \/ rpc' = rpc
    BY <2>1
  <2>2. ASSUME NEW x \in 1..MaxWrites, x \notin gone, rpc' = Append(rpc, x)
        PROVE  \A i \in 1..Len(rpc') :
                 rpc'[i] \in {rpc[j] : j \in 1..Len(rpc)} \/ rpc'[i] \notin gone
    <3>1. rpc \in Seq(1..MaxWrites)
      BY DEF TypeOK
    <3>2. /\ Len(rpc') = Len(rpc) + 1 /\ rpc'[Len(rpc) + 1] = x /\ Len(rpc) \in Nat
          /\ \A i \in 1..Len(rpc) : rpc'[i] = rpc[i]
      BY <2>2, <3>1
    <3>3. \A i \in 1..Len(rpc') : i = Len(rpc) + 1 \/ i \in 1..Len(rpc)
      BY <3>2
    <3> QED
      BY <2>2, <3>2, <3>3
  <2> QED
    BY <2>1, <2>2 DEF BufferAfter
<1>6. ASSUME NEW r \in Known'
      PROVE  /\ r.stale \subseteq gone' \cup broken' /\ r.by <= writes'
             /\ \A i \in 1..Len(rpc') : rpc'[i] \in r.stale => rpc'[i] \in broken'
  <2>1. CASE r \in Known
    \* A chunk added of a message that r took in is of one that is not left: it is broken.
    <3>1. r.stale \subseteq gone \cup broken /\ r.by \in Nat /\ r.by <= writes
      BY <1>3, <2>1
    <3>2. ASSUME NEW i \in 1..Len(rpc'), rpc'[i] \in r.stale PROVE rpc'[i] \in broken
      BY <1>3, <1>5, <2>1, <3>1, <3>2
    <3> QED
      BY <1>2, <3>1, <3>2
  <2>2. CASE r \in new
    <3>1. r.stale = st /\ r.by = writes'
      BY <1>2, <1>4, <2>2
    <3>2. st = {} \/ Len(rpc') = 0
      BY DEF BufferAfter
    <3> QED
      BY <1>2, <3>1, <3>2
  <2> QED
    BY <1>1, <2>1, <2>2
<1>7. ASSUME NEW r \in Known', NEW s \in Known', r.by # s.by
      PROVE  r.stale \cap s.stale \subseteq broken'
  <2>1. CASE r \in Known /\ s \in Known
    BY <1>7, <2>1 DEF Apart
  <2>2. CASE r \in Known /\ s \in new
    BY <1>3, <1>4, <2>2
  <2>3. CASE r \in new /\ s \in Known
    BY <1>3, <1>4, <2>3
  <2> QED
    BY <1>1, <1>4, <1>7, <2>1, <2>2, <2>3
<1> QED
  BY <1>6, <1>7 DEF Apart

\* Every step keeps answers apart.
LEMMA ApartNext == RingInv /\ Assembly /\ Apart /\ [Next]_vars => Apart'
<1> SUFFICES ASSUME RingInv, Assembly, Apart, [Next]_vars PROVE Apart'
  OBVIOUS
<1>0. TypeOK /\ writes \in Nat /\ gone \subseteq 1..writes
  BY DEF RingInv, TypeOK, Assembly
<1>1. ASSUME NEW t \in Threads, Enqueue(t) PROVE Apart'
  <2>1. Known' \subseteq Known
    BY <1>1, EnqueueMoves DEF Known
  <2> QED
    BY <1>0, <1>1, <2>1, ApartKept DEF Enqueue, client
<1>2. ASSUME NEW t \in Threads, Match(t) PROVE Apart'
  <2>1. Known' \subseteq Known
    BY <1>2, MatchMoves DEF Known
  <2> QED
    BY <1>0, <1>2, <2>1, ApartKept DEF Match, client
<1>3. CASE \/ \E t \in Threads : Complete(t) \/ EndWrite(t) \/ ReadReport(t)
           \/ Abandon \/ UNCHANGED vars
  <2>1. Known' \subseteq Known
    BY <1>0, <1>3, OtherMoves DEF Known
  <2>2. UNCHANGED <<rpc, writes, broken>> /\ gone \subseteq gone'
    BY <1>3 DEF Complete, EndWrite, ReadReport, Abandon, vars, client
  <2> QED
    BY <1>0, <2>1, <2>2, ApartKept
<1>4. ASSUME NEW t \in Threads, Inject(t) \/ Notify(t) PROVE Apart'
  <2>1. PICK cs \in {<<Event, Try>>, <<Event, Try, Try>>} : Write(t, cs)
    BY <1>4 DEF Inject, Notify
  <2>2. OwnReports(cs, {})
    <3>1. \A r \in Reports : (\E i \in 1..Len(cs) : cs[i] = r) => r = Event
      BY <2>1
    <3> QED
      BY <3>1 DEF Event, OwnReports
  <2>3. BufferAfter({}) /\ gone' = gone /\ broken' = broken
    BY <1>4 DEF Inject, Notify, BufferAfter
  <2> QED
    BY <1>0, <2>1, <2>2, <2>3, ApartWrite
<1>5. ASSUME NEW t \in Threads, Overflow(t) PROVE Apart'
  <2>1. /\ Write(t, <<>>) /\ Len(rpc') = 0 /\ gone' = gone /\ broken \subseteq broken'
        /\ writes' = writes + 1
    BY <1>5 DEF Overflow, Write, Torn
  <2>2. Known' \subseteq Known
    <3>1. {r \in Reports : \E i \in 1..Len(<<>>) : <<>>[i] = r} = {}
      OBVIOUS
    <3> QED
      BY <1>0, <2>1, <3>1, WriteMoves DEF Known
  <2> QED
    BY <1>0, <2>1, <2>2, ApartKept
<1>6. ASSUME NEW t \in Threads, Chunk(t) PROVE Apart'
  <2>1. PICK m \in NextChunk :
          /\ broken' = Torn(m) /\ rpc' = Append(rpc, m.msg)
          /\ gone' = IF m \in sent' THEN gone ELSE gone \cup {m.msg}
    BY <1>6 DEF Chunk, Contents
  <2>2. Write(t, <<Try>>) /\ writes < MaxWrites
    BY <1>6 DEF Chunk, Write
  <2>3. m.msg \in 1..MaxWrites /\ m.msg \notin gone
    BY <1>0, <2>2, ChunkFacts
  <2>4. OwnReports(<<Try>>, {})
    BY DEF OwnReports
  <2>5. BufferAfter({}) /\ gone \subseteq gone' /\ broken \subseteq broken'
    BY <2>1, <2>3 DEF BufferAfter, Torn
  <2> QED
    BY <1>0, <2>2, <2>4, <2>5, ApartWrite
<1>7. ASSUME NEW t \in Threads, LastChunk(t) PROVE Apart'
  <2>1. PICK m \in NextChunk, n \in 0..MaxParts :
          /\ broken' = Torn(m) \cup {r.msg : r \in Rest(m)}
          /\ Write(t, Respond(n, StaleIn(rpc, m))) /\ rpc' = <<>>
    BY <1>7 DEF LastChunk, AfterMessage
  <2> DEFINE st == StaleIn(rpc, m)
  <2>2. gone' = gone /\ writes < MaxWrites /\ Len(rpc') = 0 /\ broken \subseteq broken'
    BY <1>7, <2>1 DEF LastChunk, Write, Torn
  <2>3. rpc \in Seq(1..MaxWrites)
    BY <1>0 DEF TypeOK
  <2>4. st \subseteq {rpc[i] : i \in 1..Len(rpc)}
    BY <2>3 DEF StaleIn
  <2>5. st \subseteq gone' \cup broken'
    \* What RpcBuffer held of others was left there, or its writer is still writing.
    <3>1. ASSUME NEW x \in st PROVE x \in gone' \cup broken'
      <4>1. PICK i \in 1..Len(rpc) : x = rpc[i]
        BY <2>4, <3>1
      <4>2. x # m.msg
        BY <2>3, <3>1 DEF StaleIn
      <4>3. x \in gone \/ \E s \in sent : x = s.msg
        BY <4>1 DEF Assembly
      <4> QED
        BY <2>1, <2>2, <4>2, <4>3 DEF Torn, Others
    <3> QED
      BY <3>1
  <2>6. OwnReports(Respond(n, st), st)
    <3>1. 2 * n + 1 \in Nat
      OBVIOUS
    <3>2. st \in SUBSET (1..MaxWrites)
      BY <2>3, <2>4
    <3>3. Respond(n, st) \in Seq(Steps)
      BY <1>0, <2>2, <3>2, RespondIsCalls
    <3>4. DOMAIN Respond(n, st) = 1..2 * n + 1
      BY DEF Respond
    <3>5. 1..Len(Respond(n, st)) = 1..2 * n + 1
      BY <3>3, <3>4, LenProperties
    <3>6. \A i \in 1..2 * n + 1 :
             \/ Respond(n, st)[i] = Try
             \/ Respond(n, st)[i].by = writes + 1 /\ Respond(n, st)[i].stale = st
      BY DEF Respond
    <3> QED
      BY <3>5, <3>6 DEF OwnReports
  <2>7. Write(t, Respond(n, st)) /\ BufferAfter(st)
    BY <2>1, <2>2 DEF BufferAfter
  <2> HIDE DEF st
  <2> QED
    BY <1>0, <2>2, <2>4, <2>5, <2>6, <2>7, ApartWrite
<1> QED
  BY <1>1, <1>2, <1>3, <1>4, <1>5, <1>6, <1>7 DEF Next, HandlerStep

\* An answer takes in chunks of other messages only when these were left without a
\* closing chunk or broken, which takes a client that goes away, a last chunk that is full,
\* or two clients that write at the same time; and what is left of an unbroken one spoils
\* one answer, not several.
THEOREM SpoilsOneHolds == Spec => []SpoilsOne
<1>1. Init => RingInv
  BY InitTypes, InitRing DEF RingInv
<1>2. RingInv /\ [Next]_vars => RingInv'
  BY NextRing
<1>3. RingInv => TypeOK
  BY DEF RingInv
<1>4. RingInv /\ Apart => SpoilsOne
  <2> SUFFICES ASSUME RingInv, Apart PROVE SpoilsOne
    OBVIOUS
  <2>1. Visible \ {None} \subseteq Known
    <3>1. ASSUME NEW i \in 0..count - 1 PROVE ring[(head + i) % Capacity] \in Waiting
      <4>1. /\ contents \in Seq(Reports) /\ i + 1 \in 1..Len(contents)
            /\ contents[i + 1] = ring[(head + i) % Capacity]
        BY ContentsSeq
      <4>2. contents[i + 1] \in Reports
        BY <4>1, ElementOfSeq
      <4> QED
        BY <4>1, <4>2 DEF Waiting
    <3>2. ASSUME NEW t \in Threads, held[t] # None PROVE held[t] \in InHand
      BY <3>2 DEF InHand, RingInv, TypeOK
    <3> QED
      BY <3>1, <3>2 DEF Visible, Known
  <2> QED
    BY <2>1 DEF Apart, SpoilsOne
<1> QED
  BY AssemblyInit, AssemblyNext, ApartInit, ApartNext, <1>1, <1>2, <1>3, <1>4, PTL DEF Spec

-----------------------------------------------------------------------------
(* The order of reports                                                    *)

\* The reports among the members of s come in the order of their places.
Sorted(s) ==
  \A i, j \in 1..Len(s) :
    i < j /\ s[i] # Try /\ s[j] # Try => Older(Place(s[i]), Place(s[j]))

\* The inductive invariant: given, in hand, waiting and coming, in this order; and only
\* the write request that is handled has reports to come.
Ordered ==
  /\ Sorted(contents)
  /\ \A t \in Threads :
       /\ Sorted(todo[t])
       /\ \A i \in 1..Len(todo[t]) : todo[t][i] # Try => busy = t /\ todo[t][i].by = writes
  /\ \A r \in Waiting \cup Coming :
       Older(newest, Place(r)) /\ \A s \in InHand : Older(Place(s), Place(r))
  /\ \A r \in Waiting, s \in Coming : Older(Place(r), Place(s))
  /\ newest[1] <= writes /\ \A r \in Waiting \cup InHand : r.by <= writes

LEMMA OrderedInit == Init => Ordered
<1> SUFFICES ASSUME Init PROVE Ordered
  OBVIOUS
<1>1. Len(contents) = 0
  BY InitFifo DEF Fifo!Init
<1>2. Waiting = {} /\ Sorted(contents)
  BY <1>1 DEF Waiting, Sorted
<1>3. InHand = {} /\ Coming = {}
  BY DEF Init, InHand, Coming
<1>4. \A t \in Threads : Len(todo[t]) = 0
  BY DEF Init
<1> QED
  BY <1>2, <1>3, <1>4 DEF Init, Ordered, Sorted

\* What is left of a sorted sequence is sorted, and newer than what was taken.
LEMMA SortedTail ==
  ASSUME NEW S, NEW s \in Seq(S), s # <<>>, Sorted(s)
  PROVE  /\ Sorted(Tail(s))
         /\ s[1] # Try => \A i \in 1..Len(Tail(s)) :
                             Tail(s)[i] # Try => Older(Place(s[1]), Place(Tail(s)[i]))
<1>1. /\ Len(s) \in Nat \ {0} /\ Len(Tail(s)) = Len(s) - 1
      /\ \A i \in 1..Len(s) - 1 : Tail(s)[i] = s[i + 1]
  BY HeadTailProperties
<1> DEFINE q == Tail(s)
<1> HIDE DEF q
<1>2. /\ Len(s) \in Nat \ {0} /\ Len(q) = Len(s) - 1
      /\ \A i \in 1..Len(s) - 1 : q[i] = s[i + 1]
  BY <1>1 DEF q
<1>3. Sorted(q)
  <2>1. ASSUME NEW i \in 1..Len(q), NEW j \in 1..Len(q), i < j, q[i] # Try, q[j] # Try
        PROVE  Older(Place(q[i]), Place(q[j]))
    <3>1. i + 1 \in 1..Len(s) /\ j + 1 \in 1..Len(s) /\ i + 1 < j + 1
      BY <1>2, <2>1
    <3>2. q[i] = s[i + 1] /\ q[j] = s[j + 1]
      BY <1>2
    <3> QED
      BY <2>1, <3>1, <3>2 DEF Sorted
  <2> QED
    BY <2>1 DEF Sorted
<1>4. ASSUME s[1] # Try, NEW i \in 1..Len(q), q[i] # Try
      PROVE  Older(Place(s[1]), Place(q[i]))
  <2>1. 1 \in 1..Len(s) /\ i + 1 \in 1..Len(s) /\ 1 < i + 1 /\ q[i] = s[i + 1]
    BY <1>2
  <2> QED
    BY <1>4, <2>1 DEF Sorted
<1> QED
  BY <1>3, <1>4 DEF q

\* When a thread queues a report, the others to come are newer.
LEMMA ComingNewer ==
  ASSUME RingInv, Ordered, NEW t \in Threads, Enqueue(t)
  PROVE  \A s \in Coming' : Older(Place(Head(todo[t])), Place(s))
<1>1. todo \in [Threads -> Seq(Steps)] /\ todo[t] \in Seq(Steps) /\ todo[t] # <<>>
      /\ todo' = [todo EXCEPT ![t] = Tail(@)] /\ Head(todo[t]) # Try
  BY DEF RingInv, TypeOK, Enqueue
<1>2. todo[t][1] = Head(todo[t]) /\ 1 \in 1..Len(todo[t])
  BY <1>1
<1>3. busy = t
  BY <1>1, <1>2 DEF Ordered
<1>4. \A u \in Threads : u # t => \A i \in 1..Len(todo[u]) : todo[u][i] = Try
  BY <1>3 DEF Ordered
<1>5. Sorted(todo[t])
  BY DEF Ordered
<1>6. \A i \in 1..Len(Tail(todo[t])) : Tail(todo[t])[i] # Try
         => Older(Place(Head(todo[t])), Place(Tail(todo[t])[i]))
  BY <1>1, <1>2, <1>5, SortedTail
<1> QED
  BY <1>1, <1>4, <1>6 DEF Coming

\* Every step keeps the order.
LEMMA OrderedEnqueue ==
  ASSUME RingInv, Ordered, NEW t \in Threads, Enqueue(t)
  PROVE  Ordered'
<1> DEFINE r == Head(todo[t])
<1>1. /\ r \in Coming /\ Waiting' \subseteq Waiting \cup {r}
      /\ InHand' = InHand /\ Coming' \subseteq Coming
  BY EnqueueMoves
<1>2. r \in Reports /\ contents' = Fifo!Pushed(contents, r)
  BY EnqueueIsPut DEF Fifo!Put
<1>3. \A s \in Coming' : Older(Place(r), Place(s))
  BY ComingNewer
<1>4. /\ todo \in [Threads -> Seq(Steps)] /\ todo[t] \in Seq(Steps) /\ todo[t] # <<>>
      /\ todo' = [todo EXCEPT ![t] = Tail(@)]
      /\ UNCHANGED <<newest, busy, writes>>
  BY DEF RingInv, TypeOK, Enqueue, client
<1>5. \A u \in Threads :
        /\ Sorted(todo'[u])
        /\ \A i \in 1..Len(todo'[u]) : todo'[u][i] # Try => busy' = u /\ todo'[u][i].by = writes'
  <2>1. Sorted(Tail(todo[t]))
    BY <1>4, SortedTail DEF Ordered
  <2>2. \A i \in 1..Len(Tail(todo[t])) :
           i + 1 \in 1..Len(todo[t]) /\ Tail(todo[t])[i] = todo[t][i + 1]
    BY <1>4, HeadTailProperties
  <2> QED
    BY <1>4, <2>1, <2>2 DEF Ordered
<1>6. r.by <= writes
  <2>1. r.by = writes
    BY <1>1, <1>2 DEF Ordered, Coming
  <2> QED
    BY <2>1 DEF RingInv, TypeOK
<1> HIDE DEF r
<1>7. Sorted(contents')
  <2>1. contents \in Seq(Reports)
    BY ContentsSeq
  <2>2. \E d \in {0, 1} :
          LET p == Fifo!Pushed(contents, r) IN
          /\ p \in Seq(Reports) /\ Len(p) = Len(contents) - d + 1
          /\ Len(contents) - d \in Nat
          /\ p[Len(p)] = r
          /\ \A i \in 1..Len(contents) - d :
               i + d \in 1..Len(contents) /\ p[i] = contents[i + d]
    BY <1>2, <2>1, PushedFacts
  <2>3. PICK d \in {0, 1} :
          /\ Len(contents') = Len(contents) - d + 1
          /\ Len(contents) - d \in Nat
          /\ contents'[Len(contents')] = r
          /\ \A i \in 1..Len(contents) - d :
               i + d \in 1..Len(contents) /\ contents'[i] = contents[i + d]
    BY <1>2, <2>2
  <2>4. ASSUME NEW i \in 1..Len(contents'), NEW j \in 1..Len(contents'), i < j
        PROVE  Older(Place(contents'[i]), Place(contents'[j]))
    <3>1. i \in 1..Len(contents) - d
      BY <2>3, <2>4
    <3>2. i + d \in 1..Len(contents) /\ contents'[i] = contents[i + d]
          /\ contents[i + d] \in Reports
      BY <2>1, <2>3, <3>1, ElementOfSeq
    <3>3. CASE j = Len(contents')
      <4>1. contents[i + d] \in Waiting
        BY <3>2 DEF Waiting
      <4> QED
        BY <1>1, <2>3, <3>2, <3>3, <4>1 DEF Ordered
    <3>4. CASE j # Len(contents')
      <4>1. j \in 1..Len(contents) - d
        BY <2>3, <3>4
      <4>2. j + d \in 1..Len(contents) /\ contents'[j] = contents[j + d]
            /\ contents[j + d] \in Reports /\ i + d < j + d
        BY <2>1, <2>3, <2>4, <4>1, ElementOfSeq
      <4> QED
        BY <3>2, <4>2 DEF Ordered, Sorted
    <3> QED
      BY <3>3, <3>4
  <2> QED
    BY <2>4 DEF Sorted
<1>8. \A s \in Waiting' \cup Coming' :
         Older(newest', Place(s)) /\ \A h \in InHand' : Older(Place(h), Place(s))
  BY <1>1, <1>4 DEF Ordered
<1>9. \A w \in Waiting', s \in Coming' : Older(Place(w), Place(s))
  BY <1>1, <1>3 DEF Ordered
<1>10. newest'[1] <= writes' /\ \A s \in Waiting' \cup InHand' : s.by <= writes'
  BY <1>1, <1>4, <1>6 DEF Ordered
<1> QED
  BY <1>5, <1>7, <1>8, <1>9, <1>10 DEF Ordered

LEMMA OrderedMatch ==
  ASSUME RingInv, Ordered, NEW t \in Threads, Match(t)
  PROVE  Ordered'
<1>1. /\ Waiting' \subseteq Waiting /\ Coming' \subseteq Coming
  BY MatchMoves
<1>2. /\ todo \in [Threads -> Seq(Steps)] /\ todo[t] \in Seq(Steps) /\ todo[t] # <<>>
      /\ todo' = [todo EXCEPT ![t] = Tail(@)]
      /\ held \in [Threads -> Reports \cup {None}]
      /\ UNCHANGED <<newest, busy, writes>>
  BY DEF RingInv, TypeOK, Match, client
<1>3. \A u \in Threads :
        /\ Sorted(todo'[u])
        /\ \A i \in 1..Len(todo'[u]) : todo'[u][i] # Try => busy' = u /\ todo'[u][i].by = writes'
  <2>1. Sorted(Tail(todo[t]))
    BY <1>2, SortedTail DEF Ordered
  <2>2. \A i \in 1..Len(Tail(todo[t])) :
           i + 1 \in 1..Len(todo[t]) /\ Tail(todo[t])[i] = todo[t][i + 1]
    BY <1>2, HeadTailProperties
  <2> QED
    BY <1>2, <2>1, <2>2 DEF Ordered
<1>4. CASE Fifo!Take(t)
  <2> DEFINE h == Head(contents)
  <2>1. /\ contents \in Seq(Reports) /\ contents # <<>> /\ contents' = Tail(contents)
        /\ held' = [held EXCEPT ![t] = h]
    BY <1>4, ContentsSeq DEF Fifo!Take
  <2>2. h = contents[1] /\ 1 \in 1..Len(contents) /\ h \in Reports
    BY <2>1
  <2>3. h \in Waiting
    BY <2>2 DEF Waiting
  <2>4. /\ Sorted(contents')
        /\ \A i \in 1..Len(contents') :
             contents'[i] # Try => Older(Place(h), Place(contents'[i]))
    BY <2>1, <2>2, SortedTail DEF Ordered
  <2> HIDE DEF h
  <2>5. InHand' \subseteq InHand \cup {h}
    BY <1>2, <2>1 DEF InHand
  <2>6. \A s \in Waiting' : Older(Place(h), Place(s))
    BY <2>4 DEF Waiting
  <2>7. \A s \in Coming' : Older(Place(h), Place(s))
    BY <1>1, <2>3 DEF Ordered
  <2>8. \A s \in Waiting' \cup Coming' :
           Older(newest', Place(s)) /\ \A g \in InHand' : Older(Place(g), Place(s))
    BY <1>1, <1>2, <2>5, <2>6, <2>7 DEF Ordered
  <2>9. \A w \in Waiting', s \in Coming' : Older(Place(w), Place(s))
    BY <1>1 DEF Ordered
  <2>10. newest'[1] <= writes' /\ \A s \in Waiting' \cup InHand' : s.by <= writes'
    BY <1>1, <1>2, <2>3, <2>5 DEF Ordered
  <2> QED
    BY <1>3, <2>4, <2>8, <2>9, <2>10 DEF Ordered
<1>5. CASE UNCHANGED <<contents, held>>
  <2>1. Waiting' = Waiting /\ InHand' = InHand
    BY <1>5 DEF Waiting, InHand
  <2>2. Sorted(contents')
    BY <1>5 DEF Ordered
  <2> QED
    BY <1>1, <1>2, <1>3, <2>1, <2>2 DEF Ordered
<1> QED
  BY <1>4, <1>5, MatchIsTake

LEMMA OrderedComplete ==
  ASSUME RingInv, Ordered, NEW t \in Threads, Complete(t)
  PROVE  Ordered'
<1>1. Waiting' \subseteq Waiting /\ InHand' \subseteq InHand /\ Coming' \subseteq Coming
  BY OtherMoves DEF RingInv
<1>2. /\ held[t] \in InHand /\ newest' = Place(held[t])
      /\ UNCHANGED <<contents, todo, busy, writes>>
  BY DEF Complete, InHand, RingInv, TypeOK, Place, contents, queue, client
<1>3. newest'[1] = held[t].by
  BY <1>2 DEF Place
<1>4. Sorted(contents') /\ \A u \in Threads : Sorted(todo'[u])
  BY <1>2 DEF Ordered
<1> QED
  BY <1>1, <1>2, <1>3, <1>4 DEF Ordered

\* Once the handler of a write is over nothing more comes of it.
LEMMA NothingComing ==
  ASSUME Ordered, \A t \in Threads : busy = t => todo[t] = <<>>
  PROVE  /\ Coming = {}
         /\ \A t \in Threads : \A i \in 1..Len(todo[t]) : todo[t][i] = Try
<1>1. ASSUME NEW t \in Threads, NEW i \in 1..Len(todo[t]) PROVE todo[t][i] = Try
  <2>1. CASE busy = t
    BY <2>1
  <2>2. CASE busy # t
    BY <2>2 DEF Ordered
  <2> QED
    BY <2>1, <2>2
<1>2. Coming = {}
  BY <1>1 DEF Coming
<1> QED
  BY <1>1, <1>2

\* The calls of a write queue reports of that write, in order.
OwnCalls(cs) == Sorted(cs) /\ \A i \in 1..Len(cs) : cs[i] # Try => cs[i].by = writes + 1

LEMMA OrderedWrite ==
  ASSUME RingInv, Ordered, NEW t \in Threads, NEW cs, Write(t, cs), OwnCalls(cs)
  PROVE  Ordered'
<1>1. /\ Waiting' = Waiting /\ InHand' = InHand
      /\ Coming' \subseteq Coming \cup {r \in Reports : \E i \in 1..Len(cs) : cs[i] = r}
  BY WriteMoves DEF RingInv
<1>2. /\ todo \in [Threads -> Seq(Steps)] /\ todo' = [todo EXCEPT ![t] = cs]
      /\ busy = None /\ busy' = t /\ writes' = writes + 1 /\ writes \in Nat
      /\ UNCHANGED <<newest, contents>>
      /\ newest \in (0..MaxWrites) \X (0..MaxParts)
  BY DEF RingInv, TypeOK, Write, contents, queue
<1>3. Coming = {} /\ \A u \in Threads : \A i \in 1..Len(todo[u]) : todo[u][i] = Try
  BY <1>2, NothingComing
<1>4. \A r \in Coming' : r.by = writes + 1
  BY <1>1, <1>3 DEF OwnCalls
<1>5. \A r \in Waiting \cup InHand : r.by \in Nat /\ r.by <= writes
  BY DEF Ordered, Waiting, InHand, Reports
<1>6. Sorted(contents')
  BY <1>2 DEF Ordered
<1>7. \A u \in Threads :
        /\ Sorted(todo'[u])
        /\ \A i \in 1..Len(todo'[u]) : todo'[u][i] # Try => busy' = u /\ todo'[u][i].by = writes'
  <2>1. ASSUME NEW u \in Threads, u = t
        PROVE  /\ Sorted(todo'[u])
               /\ \A i \in 1..Len(todo'[u]) :
                    todo'[u][i] # Try => busy' = u /\ todo'[u][i].by = writes'
    BY <1>2, <2>1 DEF OwnCalls
  <2>2. ASSUME NEW u \in Threads, u # t
        PROVE  /\ Sorted(todo'[u]) /\ \A i \in 1..Len(todo'[u]) : todo'[u][i] = Try
    <3>1. todo'[u] = todo[u]
      BY <1>2, <2>2
    <3> QED
      BY <1>3, <3>1 DEF Ordered
  <2> QED
    BY <2>1, <2>2
<1>8. \A r \in Waiting' \cup InHand', s \in Coming' : Older(Place(r), Place(s))
  BY <1>1, <1>2, <1>4, <1>5 DEF Older, Place
<1>9. \A s \in Coming' : Older(newest', Place(s))
  BY <1>2, <1>4 DEF Ordered, Older, Place
<1>10. \A s \in Waiting' : /\ Older(newest', Place(s))
                           /\ \A h \in InHand' : Older(Place(h), Place(s))
  BY <1>1, <1>2 DEF Ordered
<1>11. newest'[1] <= writes' /\ \A r \in Waiting' \cup InHand' : r.by <= writes'
  BY <1>1, <1>2, <1>5 DEF Ordered
<1> QED
  BY <1>6, <1>7, <1>8, <1>9, <1>10, <1>11 DEF Ordered

\* The calls of every write do.
LEMMA ShortOwnCalls ==
  \A cs \in {<<>>, <<Try>>, <<Event, Try>>, <<Event, Try, Try>>} : OwnCalls(cs)
<1>1. Event.by = writes + 1
  BY DEF Event
<1>2. \A cs \in {<<>>, <<Try>>, <<Event, Try>>, <<Event, Try, Try>>} :
        \A i \in 1..Len(cs) : cs[i] # Try => i = 1 /\ cs[i] = Event
  <2> HIDE DEF Event
  <2>1. \A i \in 1..Len(<<>>) : FALSE
    OBVIOUS
  <2>2. \A i \in 1..Len(<<Try>>) : <<Try>>[i] = Try
    OBVIOUS
  <2>3. \A i \in 1..Len(<<Event, Try>>) : <<Event, Try>>[i] # Try => i = 1
    OBVIOUS
  <2>4. \A i \in 1..Len(<<Event, Try, Try>>) : <<Event, Try, Try>>[i] # Try => i = 1
    <3> DEFINE s == <<Event, Try, Try>>
    <3>1. Len(s) = 3 /\ s[2] = Try /\ s[3] = Try
      OBVIOUS
    <3> HIDE DEF s
    <3>2. \A i \in 1..Len(s) : s[i] # Try => i = 1
      BY <3>1
    <3> QED
      BY <3>2 DEF s
  <2>5. <<Event, Try>>[1] = Event /\ <<Event, Try, Try>>[1] = Event
    OBVIOUS
  <2> QED
    BY <2>1, <2>2, <2>3, <2>4, <2>5
<1> HIDE DEF Event
<1>3. ASSUME NEW cs \in {<<>>, <<Try>>, <<Event, Try>>, <<Event, Try, Try>>} PROVE OwnCalls(cs)
  <2>1. \A i \in 1..Len(cs) : cs[i] # Try => i = 1 /\ cs[i] = Event
    BY <1>2
  <2> QED
    BY <1>1, <2>1 DEF OwnCalls, Sorted
<1> QED
  BY <1>3

LEMMA ResponseOwnCalls ==
  ASSUME TypeOK, writes < MaxWrites, NEW n \in 0..MaxParts, NEW st \in SUBSET (1..MaxWrites)
  PROVE  OwnCalls(Respond(n, st))
<1> DEFINE s == Respond(n, st)
<1>1. 1..Len(s) = 1..2 * n + 1 /\ n \in Nat
  <2>1. s \in Seq(Steps)
    BY RespondIsCalls
  <2>2. DOMAIN s = 1..2 * n + 1
    BY DEF Respond
  <2> QED
    BY <2>1, <2>2, LenProperties
<1>2. ASSUME NEW i \in 1..2 * n + 1, s[i] # Try
      PROVE  i % 2 = 1 /\ s[i].by = writes + 1 /\ s[i].part = (i + 1) \div 2
  <2>1. i % 2 = 1 /\ i < 2 * n
    BY <1>2 DEF Respond
  <2>2. s[i] = [by |-> writes + 1, part |-> (i + 1) \div 2, stale |-> st]
    BY <2>1 DEF Respond
  <2> QED
    BY <2>1, <2>2
<1> HIDE DEF s
<1>3. ASSUME NEW i \in 1..2 * n + 1, NEW j \in 1..2 * n + 1, i < j, s[i] # Try, s[j] # Try
      PROVE  Older(Place(s[i]), Place(s[j]))
  <2>1. i % 2 = 1 /\ j % 2 = 1 /\ i \in Nat /\ j \in Nat
    BY <1>1, <1>2, <1>3
  <2>2. (i + 1) \div 2 < (j + 1) \div 2
    BY <1>3, <2>1, SMTT(30)
  <2>3. /\ s[i].by = writes + 1 /\ s[i].part = (i + 1) \div 2
        /\ s[j].by = writes + 1 /\ s[j].part = (j + 1) \div 2
    BY <1>2, <1>3
  <2> QED
    BY <2>2, <2>3 DEF Older, Place
<1>4. Sorted(s)
  BY <1>1, <1>3 DEF Sorted
<1>5. \A i \in 1..Len(s) : s[i] # Try => s[i].by = writes + 1
  BY <1>1, <1>2
<1> QED
  BY <1>4, <1>5 DEF OwnCalls, s

LEMMA OrderedNext == RingInv /\ Ordered /\ [Next]_vars => Ordered'
<1> SUFFICES ASSUME RingInv, Ordered, [Next]_vars PROVE Ordered'
  OBVIOUS
<1>0. TypeOK
  BY DEF RingInv
<1>1. ASSUME NEW t \in Threads, Inject(t) \/ Notify(t) \/ Overflow(t) \/ Chunk(t)
      PROVE  Ordered'
  <2>1. PICK cs \in {<<>>, <<Try>>, <<Event, Try>>, <<Event, Try, Try>>} : Write(t, cs)
    BY <1>1 DEF Inject, Notify, Overflow, Chunk
  <2> QED
    BY <2>1, ShortOwnCalls, OrderedWrite
<1>2. ASSUME NEW t \in Threads, LastChunk(t) PROVE Ordered'
  <2>1. PICK m \in NextChunk, n \in 0..MaxParts : Write(t, Respond(n, StaleIn(rpc, m)))
    BY <1>2 DEF LastChunk
  <2>2. writes < MaxWrites /\ StaleIn(rpc, m) \in SUBSET (1..MaxWrites)
    BY <1>0, <2>1, StaleType DEF Write
  <2>3. OwnCalls(Respond(n, StaleIn(rpc, m)))
    BY <1>0, <2>2, ResponseOwnCalls
  <2> QED
    BY <2>1, <2>3, OrderedWrite
<1>3. ASSUME NEW t \in Threads, EndWrite(t) \/ ReadReport(t) PROVE Ordered'
  <2>1. Waiting' \subseteq Waiting /\ InHand' \subseteq InHand /\ Coming' \subseteq Coming
    BY <1>0, <1>3, OtherMoves
  <2>2. \A u \in Threads : busy = u => todo[u] = <<>>
    BY <1>3 DEF EndWrite, ReadReport
  <2>3. \A u \in Threads : \A i \in 1..Len(todo[u]) : todo[u][i] = Try
    BY <2>2, NothingComing
  <2>4. \A u \in Threads : \A i \in 1..Len(todo'[u]) : todo'[u][i] = Try
    <3>1. todo \in [Threads -> Seq(Steps)]
      BY <1>0 DEF TypeOK
    <3>2. \A i \in 1..Len(<<Try>>) : <<Try>>[i] = Try
      OBVIOUS
    <3> QED
      BY <1>3, <2>3, <3>1, <3>2 DEF EndWrite, ReadReport, AfterForward, threads
  <2>5. contents' = contents /\ newest' = newest /\ writes' = writes
    BY <1>3 DEF EndWrite, ReadReport, contents, queue, client
  <2>6. Sorted(contents') /\ \A u \in Threads : Sorted(todo'[u])
    BY <2>4, <2>5 DEF Ordered, Sorted
  <2> QED
    BY <2>1, <2>4, <2>5, <2>6 DEF Ordered
<1>4. ASSUME Abandon \/ UNCHANGED vars PROVE Ordered'
  <2>1. Waiting' \subseteq Waiting /\ InHand' \subseteq InHand /\ Coming' \subseteq Coming
    BY <1>0, <1>4, OtherMoves
  <2>2. UNCHANGED <<contents, todo, newest, writes, busy>>
    BY <1>4 DEF Abandon, vars, contents, queue, threads, client
  <2>3. Sorted(contents') /\ \A u \in Threads : Sorted(todo'[u])
    BY <2>2 DEF Ordered
  <2> QED
    BY <2>1, <2>2, <2>3 DEF Ordered
<1> QED
  BY <1>1, <1>2, <1>3, <1>4, OrderedEnqueue, OrderedMatch, OrderedComplete
     DEF Next, HandlerStep

\* Reports are completed outside the lock and may overtake each other there, but none
\* that waits in the ring is ever older than one that was given or is being given: a
\* client with one read request at a time gets them in the order they were queued.
THEOREM InOrderHolds == Spec => []InOrder
<1>1. Init => RingInv
  BY InitTypes, InitRing DEF RingInv
<1>2. RingInv /\ [Next]_vars => RingInv'
  BY NextRing
<1>3. RingInv /\ Ordered => InOrder
  <2> SUFFICES ASSUME RingInv, Ordered, NEW i \in 0..count - 1
               PROVE  LET waiting == Place(ring[(head + i) % Capacity]) IN
                        /\ Older(newest, waiting)
                        /\ \A t \in Threads : held[t] = None \/ Older(Place(held[t]), waiting)
    BY DEF InOrder
  <2>1. ring[(head + i) % Capacity] \in Waiting
    <3>1. /\ contents \in Seq(Reports) /\ i + 1 \in 1..Len(contents)
          /\ contents[i + 1] = ring[(head + i) % Capacity]
      BY ContentsSeq
    <3>2. contents[i + 1] \in Reports
      BY <3>1, ElementOfSeq
    <3> QED
      BY <3>1, <3>2 DEF Waiting
  <2>2. \A t \in Threads : held[t] = None \/ held[t] \in InHand
    BY DEF InHand, RingInv, TypeOK
  <2> QED
    BY <2>1, <2>2 DEF Ordered
<1> QED
  BY OrderedInit, OrderedNext, <1>1, <1>2, <1>3, PTL DEF Spec
=============================================================================
