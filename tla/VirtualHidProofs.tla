-------------------------- MODULE VirtualHidProofs --------------------------
(***************************************************************************)
(* Theorems about VirtualHid, for every number of threads, requests and    *)
(* ring slots: its types, the agreement of the three ring fields, and that *)
(* the ring implements LossyFifo.                                          *)
(***************************************************************************)
EXTENDS VirtualHid, SequenceTheorems, TLAPS

USE CapacityAssumption, BoundAssumption, NoneAssumption, TryAssumption

-----------------------------------------------------------------------------
(* Positions in the ring                                                   *)

\* What % Capacity does to a number below 2 * Capacity.
LEMMA ModOnce ==
  ASSUME NEW x \in Nat, x < 2 * Capacity
  PROVE  x % Capacity = IF x < Capacity THEN x ELSE x - Capacity
BY SMTT(30)

\* The slot of the k-th report after the head.
LEMMA Slot ==
  ASSUME NEW h \in 0..Capacity - 1, NEW k \in 0..Capacity
  PROVE  /\ (h + k) % Capacity = IF h + k < Capacity THEN h + k ELSE h + k - Capacity
         /\ (h + k) % Capacity \in 0..Capacity - 1
<1>1. h + k \in Nat /\ h + k < 2 * Capacity
  OBVIOUS
<1> QED
  BY <1>1, ModOnce

\* The slot after h.
LEMMA SuccSlot ==
  ASSUME NEW h \in 0..Capacity - 1
  PROVE  /\ Succ(h) = IF h + 1 < Capacity THEN h + 1 ELSE 0
         /\ Succ(h) \in 0..Capacity - 1
<1>1. h + 1 \in Nat /\ h + 1 < 2 * Capacity
  OBVIOUS
<1> QED
  BY <1>1, ModOnce DEF Succ

-----------------------------------------------------------------------------
(* Types                                                                   *)

\* The initial state has its types.
LEMMA InitTypes == Init => TypeOK
BY DEF Init, TypeOK

\* A started write has its types when the calls left to it have.
LEMMA WriteTypes ==
  ASSUME TypeOK, NEW t \in Threads, NEW cs \in Seq(Steps), Write(t, cs)
  PROVE  /\ writes' \in 0..MaxWrites
         /\ busy' \in Threads \cup {None}
         /\ todo' \in [Threads -> Seq(Steps)]
BY DEF TypeOK, Write

\* The report of an injection or a notification is a report.
LEMMA EventIsReport ==
  ASSUME TypeOK, writes < MaxWrites
  PROVE  Event \in Reports
<1>1. /\ writes + 1 \in 1..MaxWrites /\ 1 \in 1..MaxParts
        /\ {} \in SUBSET (1..MaxWrites)
  BY BoundAssumption DEF TypeOK
<1> QED
  BY <1>1 DEF Event, Reports

\* What a response takes in of other messages are numbers of writes.
LEMMA StaleType ==
  ASSUME TypeOK, NEW m
  PROVE  StaleIn(rpc, m) \in SUBSET (1..MaxWrites)
<1>1. \A i \in DOMAIN rpc : rpc[i] \in 1..MaxWrites
  BY DEF TypeOK
<1> QED
  BY <1>1 DEF StaleIn

\* The calls of a response are calls.
LEMMA RespondIsCalls ==
  ASSUME TypeOK, writes < MaxWrites, NEW n \in 0..MaxParts, NEW st \in SUBSET (1..MaxWrites)
  PROVE  Respond(n, st) \in Seq(Steps)
<1>1. 2 * n + 1 \in Nat
  OBVIOUS
<1>2. ASSUME NEW i \in 1..2 * n + 1, i % 2 = 1, i < 2 * n
      PROVE  (i + 1) \div 2 \in 1..MaxParts
  BY <1>2, SMTT(30)
<1>3. ASSUME NEW i \in 1..2 * n + 1, i % 2 = 1, i < 2 * n
      PROVE  [by |-> writes + 1, part |-> (i + 1) \div 2, stale |-> st] \in Reports
  BY <1>2, <1>3 DEF TypeOK, Reports
<1>4. Respond(n, st) \in [1..2 * n + 1 -> Steps]
  BY <1>3 DEF Respond, Steps
<1> QED
  BY <1>1, <1>4, IsASeq

\* A chunk and what is under way beside it have their types.
LEMMA ChunkTypes ==
  ASSUME TypeOK, NEW m \in NextChunk
  PROVE  /\ m.msg \in 1..MaxWrites /\ Torn(m) \subseteq 1..MaxWrites
         /\ Others(m) \cup Rest(m) \subseteq Messages /\ Rest(m) \subseteq {m}
<1>1. m \in Messages /\ \A s \in Messages : s.msg \in 1..MaxWrites
  BY DEF NextChunk, Messages
<1>2. Others(m) \subseteq Messages
  BY DEF Others, TypeOK
<1>3. Torn(m) \subseteq 1..MaxWrites
  BY <1>1, <1>2 DEF Torn, TypeOK
<1>4. Rest(m) \subseteq {m}
  BY DEF Rest
<1> QED
  BY <1>1, <1>2, <1>3, <1>4

\* Every step keeps the types.
LEMMA NextTypes == ASSUME TypeOK, [Next]_vars PROVE TypeOK'
<1>1. ASSUME NEW t \in Threads, Enqueue(t) PROVE TypeOK'
  <2>1. Head(todo[t]) \in Reports
    BY <1>1 DEF Enqueue, TypeOK, Steps
  <2>2. ring' \in [0..Capacity - 1 -> Reports \cup {None}]
    BY <1>1, <2>1 DEF Enqueue, TypeOK
  <2>3. head' \in 0..Capacity - 1 /\ tail' \in 0..Capacity - 1
    BY <1>1, SuccSlot DEF Enqueue, TypeOK, HeadKept
  <2>4. count' \in 0..Capacity
    BY <1>1 DEF Enqueue, TypeOK, CountKept, Full
  <2>5. todo' \in [Threads -> Seq(Steps)]
    <3>1. Tail(todo[t]) \in Seq(Steps)
      BY <1>1 DEF Enqueue, TypeOK
    <3> QED
      BY <1>1, <3>1 DEF Enqueue, TypeOK
  <2> QED
    BY <1>1, <2>2, <2>3, <2>4, <2>5 DEF Enqueue, TypeOK, client
<1>2. ASSUME NEW t \in Threads, Match(t) PROVE TypeOK'
  <2>1. todo' \in [Threads -> Seq(Steps)]
    <3>1. Tail(todo[t]) \in Seq(Steps)
      BY <1>2 DEF Match, TypeOK
    <3> QED
      BY <1>2, <3>1 DEF Match, TypeOK
  <2>2. CASE UNCHANGED <<held, head, count, reads>>
    BY <1>2, <2>1, <2>2 DEF Match, TypeOK, client
  <2>3. CASE /\ count > 0 /\ reads > 0
             /\ held' = [held EXCEPT ![t] = ring[head]]
             /\ head' = Succ(head) /\ count' = count - 1 /\ reads' = reads - 1
    <3>1. head' \in 0..Capacity - 1
      BY <2>3, SuccSlot DEF TypeOK
    <3> QED
      BY SMTT(30), <1>2, <2>1, <2>3, <3>1 DEF Match, TypeOK, client
  <2> QED
    BY <1>2, <2>2, <2>3 DEF Match
<1>3. ASSUME NEW t \in Threads, Complete(t) PROVE TypeOK'
  <2>1. held[t] \in Reports
    BY <1>3 DEF Complete, TypeOK
  <2>2. newest' \in (0..MaxWrites) \X (0..MaxParts)
    BY <1>3, <2>1 DEF Complete, Reports
  <2> QED
    BY <1>3, <2>2 DEF Complete, TypeOK, queue, client
<1>4. ASSUME NEW t \in Threads, EndWrite(t) PROVE TypeOK'
  BY <1>4 DEF EndWrite, TypeOK, queue, client, threads
<1>5. ASSUME NEW t \in Threads, ReadReport(t) PROVE TypeOK'
  <2>1. AfterForward \in Seq(Steps)
    BY DEF AfterForward, Steps
  <2> QED
    BY <1>5, <2>1 DEF ReadReport, TypeOK, queue, client
<1>6. ASSUME NEW t \in Threads, Inject(t) PROVE TypeOK'
  <2>1. <<Event, Try>> \in Seq(Steps)
    BY <1>6, EventIsReport DEF Inject, Write, Steps
  <2> QED
    BY <1>6, <2>1, WriteTypes DEF Inject, Write, TypeOK, queue
<1>7. ASSUME NEW t \in Threads, Notify(t) PROVE TypeOK'
  <2>1. <<Event, Try, Try>> \in Seq(Steps)
    BY <1>7, EventIsReport DEF Notify, Write, Steps
  <2> QED
    BY <1>7, <2>1, WriteTypes DEF Notify, Write, TypeOK, queue
<1>8. ASSUME NEW t \in Threads, Overflow(t) PROVE TypeOK'
  <2>1. PICK m \in NextChunk :
          sent' = Others(m) \cup Rest(m) /\ broken' = Torn(m) \cup {m.msg}
    BY <1>8 DEF Overflow
  <2>2. /\ m.msg \in 1..MaxWrites /\ Torn(m) \subseteq 1..MaxWrites
        /\ Others(m) \cup Rest(m) \subseteq Messages
    BY ChunkTypes
  <2>3. <<>> \in Seq(Steps) /\ <<>> \in Seq(1..MaxWrites)
    OBVIOUS
  <2> QED
    BY <1>8, <2>1, <2>2, <2>3, WriteTypes DEF Overflow, Write, TypeOK, queue
<1>9. ASSUME NEW t \in Threads, Chunk(t) PROVE TypeOK'
  <2>1. <<Try>> \in Seq(Steps)
    BY DEF Steps
  <2>2. PICK m \in NextChunk :
          /\ sent' = Others(m) \cup Rest(m) /\ broken' = Torn(m)
          /\ gone' = IF m \in sent' THEN gone ELSE gone \cup {m.msg}
          /\ rpc' = Contents(m)
    BY <1>9 DEF Chunk
  <2>3. /\ m.msg \in 1..MaxWrites /\ Torn(m) \subseteq 1..MaxWrites
        /\ Others(m) \cup Rest(m) \subseteq Messages
    BY ChunkTypes
  <2>4. rpc' \in Seq(1..MaxWrites)
    BY <2>2, <2>3 DEF Contents, TypeOK
  <2>5. gone' \subseteq 1..MaxWrites
    BY <2>2, <2>3 DEF TypeOK
  <2> QED
    BY <1>9, <2>1, <2>2, <2>3, <2>4, <2>5, WriteTypes DEF Chunk, Write, TypeOK, queue
<1>10. ASSUME NEW t \in Threads, LastChunk(t) PROVE TypeOK'
  <2>1. PICK m \in NextChunk, n \in 0..MaxParts :
          /\ sent' = Others(m) \cup Rest(m)
          /\ broken' = Torn(m) \cup {r.msg : r \in Rest(m)}
          /\ Write(t, Respond(n, StaleIn(rpc, m))) /\ rpc' = AfterMessage(m)
    BY <1>10 DEF LastChunk
  <2>2. /\ m.msg \in 1..MaxWrites /\ Torn(m) \subseteq 1..MaxWrites
        /\ Others(m) \cup Rest(m) \subseteq Messages /\ Rest(m) \subseteq {m}
    BY ChunkTypes
  <2>3. StaleIn(rpc, m) \in SUBSET (1..MaxWrites)
    BY StaleType
  <2>4. Respond(n, StaleIn(rpc, m)) \in Seq(Steps)
    BY <2>1, <2>3, RespondIsCalls DEF Write
  <2>5. rpc' \in Seq(1..MaxWrites)
    BY <2>1 DEF AfterMessage
  <2>6. sent' \subseteq Messages /\ broken' \subseteq 1..MaxWrites
    BY <2>1, <2>2
  <2>7. /\ writes' \in 0..MaxWrites /\ busy' \in Threads \cup {None}
        /\ todo' \in [Threads -> Seq(Steps)]
    BY <2>1, <2>4, WriteTypes
  <2>8. UNCHANGED <<queue, held, reads, newest, gone>>
    BY <1>10, <2>1 DEF LastChunk, Write
  <2> QED
    BY <2>5, <2>6, <2>7, <2>8 DEF TypeOK, queue
<1>11. ASSUME Abandon PROVE TypeOK'
  <2>1. sent' \subseteq Messages /\ gone' \subseteq 1..MaxWrites
    BY <1>11 DEF Abandon, TypeOK, Messages
  <2> QED
    BY <1>11, <2>1 DEF Abandon, TypeOK, queue, threads
<1>12. CASE UNCHANGED vars
  BY <1>12 DEF TypeOK, vars, queue, client, threads
<1> QED
  BY <1>1, <1>2, <1>3, <1>4, <1>5, <1>6, <1>7, <1>8, <1>9, <1>10, <1>11, <1>12
     DEF Next, HandlerStep

\* Every field of the device context and of the handlers always has its type: no
\* index leaves the ring, and no handler makes a call the code does not have.
THEOREM HandlersTypeCorrect == Spec => []TypeOK
<1>1. TypeOK /\ [Next]_vars => TypeOK'
  BY NextTypes
<1> QED
  BY InitTypes, <1>1, PTL DEF Spec

-----------------------------------------------------------------------------
(* The ring as a sequence                                                  *)

\* What a ring delimits is a sequence of reports.
LEMMA QueuedIsSeq ==
  ASSUME NEW rg \in [0..Capacity - 1 -> Reports \cup {None}],
         NEW h \in 0..Capacity - 1, NEW c \in 0..Capacity,
         \A i \in 0..Capacity - 1 : i < c => rg[(h + i) % Capacity] \in Reports
  PROVE  /\ Queued(rg, h, c) \in Seq(Reports)
         /\ Len(Queued(rg, h, c)) = c
<1>1. \A i \in 1..c : i - 1 \in 0..Capacity - 1 /\ i - 1 < c
  OBVIOUS
<1>2. \A i \in 1..c : rg[(h + (i - 1)) % Capacity] \in Reports
  BY <1>1
<1>3. Queued(rg, h, c) \in [1..c -> Reports]
  BY <1>2 DEF Queued
<1>4. c \in Nat
  OBVIOUS
<1> QED
  BY <1>3, <1>4, IsASeq, LenProperties

\* A report written at the tail is the last one; of a full ring the oldest goes.
LEMMA PushOne ==
  ASSUME NEW rg \in [0..Capacity - 1 -> Reports \cup {None}],
         NEW h \in 0..Capacity - 1, NEW c \in 0..Capacity, NEW r \in Reports,
         \A i \in 0..Capacity - 1 : i < c => rg[(h + i) % Capacity] \in Reports
  PROVE  Queued([rg EXCEPT ![(h + c) % Capacity] = r],
                IF c = Capacity THEN Succ(h) ELSE h,
                (IF c = Capacity THEN c - 1 ELSE c) + 1)
         = Fifo!Pushed(Queued(rg, h, c), r)
<1> DEFINE q  == Queued(rg, h, c)
           tl == (h + c) % Capacity
           ng == [rg EXCEPT ![tl] = r]
<1>1. q \in Seq(Reports) /\ Len(q) = c
  BY QueuedIsSeq
<1>2. tl \in 0..Capacity - 1
  BY Slot
<1> HIDE DEF q, tl, ng
<1>3. CASE c < Capacity
  <2> DEFINE p == Queued(ng, h, c + 1)
  <2> HIDE DEF p
  <2>1. \A i \in 1..c : (h + (i - 1)) % Capacity # tl /\ (h + (i - 1)) % Capacity \in 0..Capacity - 1
    <3>1. TAKE i \in 1..c
    <3>2. i - 1 \in 0..Capacity /\ i - 1 < c
      OBVIOUS
    <3>3. tl = IF h + c < Capacity THEN h + c ELSE h + c - Capacity
      BY Slot DEF tl
    <3>4. /\ (h + (i - 1)) % Capacity = IF h + (i - 1) < Capacity
                THEN h + (i - 1) ELSE h + (i - 1) - Capacity
          /\ (h + (i - 1)) % Capacity \in 0..Capacity - 1
      BY <3>2, Slot
    <3> QED
      BY <1>3, <3>2, <3>3, <3>4
  <2>2. \A i \in 1..c : p[i] = q[i]
    <3>1. TAKE i \in 1..c
    <3>2. p[i] = ng[(h + (i - 1)) % Capacity] /\ q[i] = rg[(h + (i - 1)) % Capacity]
      BY DEF Queued, p, q
    <3> QED
      BY <2>1, <3>2 DEF ng
  <2>3. p[c + 1] = r
    <3>1. p[c + 1] = ng[(h + ((c + 1) - 1)) % Capacity] /\ (c + 1) - 1 = c
      BY DEF Queued, p
    <3> QED
      BY <1>2, <3>1 DEF ng, tl
  <2>4. p \in Seq(Reports) /\ Len(p) = c + 1
    <3>1. \A i \in 1..c : q[i] \in Reports
      BY <1>1, ElementOfSeq
    <3>2. \A i \in 1..c + 1 : p[i] \in Reports
      BY <2>2, <2>3, <3>1
    <3>3. p = [i \in 1..c + 1 |-> p[i]]
      BY DEF Queued, p
    <3>4. p \in [1..c + 1 -> Reports] /\ c + 1 \in Nat
      BY <3>2, <3>3
    <3> QED
      BY <3>4, IsASeq, LenProperties
  <2>5. /\ Append(q, r) \in Seq(Reports) /\ Len(Append(q, r)) = c + 1
        /\ \A i \in 1..c : Append(q, r)[i] = q[i]
        /\ Append(q, r)[c + 1] = r
    BY <1>1
  <2>6. \A i \in 1..Len(p) : p[i] = Append(q, r)[i]
    BY <2>2, <2>3, <2>4, <2>5
  <2>7. p = Append(q, r)
    BY <2>4, <2>5, <2>6, SeqEqual
  <2>8. Fifo!Pushed(q, r) = Append(q, r)
    BY <1>1, <1>3 DEF Fifo!Pushed
  <2>9. [rg EXCEPT ![(h + c) % Capacity] = r] = ng
    BY DEF ng, tl
  <2>10. (IF c = Capacity THEN Succ(h) ELSE h) = h /\ (IF c = Capacity THEN c - 1 ELSE c) = c
    BY <1>3
  <2> QED
    BY <2>7, <2>8, <2>9, <2>10 DEF p, q
<1>4. CASE c = Capacity
  <2> DEFINE p == Queued(ng, Succ(h), c)
  <2> HIDE DEF p
  <2>1. tl = h
    <3>1. h + c \in Nat /\ h + c < 2 * Capacity /\ ~(h + c < Capacity) /\ h + c - Capacity = h
      BY <1>4
    <3> QED
      BY <3>1, ModOnce DEF tl
  <2>2. \A i \in 1..c - 1 : /\ (Succ(h) + (i - 1)) % Capacity = (h + i) % Capacity
                            /\ (h + i) % Capacity # tl
                            /\ (h + i) % Capacity \in 0..Capacity - 1
    <3>1. TAKE i \in 1..c - 1
    <3>2. i - 1 \in 0..Capacity /\ i \in 0..Capacity /\ Succ(h) \in 0..Capacity - 1
      BY SuccSlot
    <3>3. (Succ(h) + (i - 1)) % Capacity = IF Succ(h) + (i - 1) < Capacity
             THEN Succ(h) + (i - 1) ELSE Succ(h) + (i - 1) - Capacity
      BY <3>2, Slot
    <3>4. (h + i) % Capacity = IF h + i < Capacity THEN h + i ELSE h + i - Capacity
      BY <3>2, Slot
    <3>5. Succ(h) = IF h + 1 < Capacity THEN h + 1 ELSE 0
      BY SuccSlot
    <3> QED
      BY <1>4, <2>1, <3>2, <3>3, <3>4, <3>5
  <2>3. (Succ(h) + (c - 1)) % Capacity = tl
    <3>1. c - 1 \in 0..Capacity /\ Succ(h) \in 0..Capacity - 1
      BY <1>4, SuccSlot
    <3>2. (Succ(h) + (c - 1)) % Capacity = IF Succ(h) + (c - 1) < Capacity
             THEN Succ(h) + (c - 1) ELSE Succ(h) + (c - 1) - Capacity
      BY <3>1, Slot
    <3>3. Succ(h) = IF h + 1 < Capacity THEN h + 1 ELSE 0
      BY SuccSlot
    <3> QED
      BY <1>4, <2>1, <3>2, <3>3
  <2>4. q # <<>> /\ Tail(q) \in Seq(Reports) /\ Len(Tail(q)) = c - 1
        /\ \A i \in 1..c - 1 : Tail(q)[i] = q[i + 1]
    BY <1>1, <1>4, HeadTailProperties
  <2>5. \A i \in 1..c - 1 : p[i] = Tail(q)[i]
    <3>1. TAKE i \in 1..c - 1
    <3>2. q[i + 1] = rg[(h + i) % Capacity]
      <4>1. i + 1 \in 1..c /\ (i + 1) - 1 = i
        OBVIOUS
      <4> QED
        BY <4>1 DEF Queued, q
    <3>3. p[i] = ng[(Succ(h) + (i - 1)) % Capacity]
      BY DEF Queued, p
    <3> QED
      BY <2>2, <2>4, <3>2, <3>3 DEF ng
  <2>6. p[c] = r
    BY <1>2, <1>4, <2>3 DEF Queued, p, ng
  <2>7. p \in Seq(Reports) /\ Len(p) = c
    <3>0. \A i \in 1..c - 1 : Tail(q)[i] \in Reports
      BY <2>4, ElementOfSeq
    <3>1. \A i \in 1..c : p[i] \in Reports
      <4>1. TAKE i \in 1..c
      <4>2. CASE i = c
        BY <2>6, <4>2
      <4>3. CASE i \in 1..c - 1
        BY <2>5, <3>0, <4>3
      <4> QED
        BY <4>2, <4>3
    <3>2. p = [i \in 1..c |-> p[i]]
      BY DEF Queued, p
    <3>3. p \in [1..c -> Reports] /\ c \in Nat
      BY <3>1, <3>2
    <3> QED
      BY <3>3, IsASeq, LenProperties
  <2>8. /\ Append(Tail(q), r) \in Seq(Reports) /\ Len(Append(Tail(q), r)) = c
        /\ \A i \in 1..c - 1 : Append(Tail(q), r)[i] = Tail(q)[i]
        /\ Append(Tail(q), r)[c] = r
    BY <1>4, <2>4
  <2>9. \A i \in 1..Len(p) : p[i] = Append(Tail(q), r)[i]
    BY <1>4, <2>5, <2>6, <2>7, <2>8
  <2>10. p = Append(Tail(q), r)
    BY <2>7, <2>8, <2>9, SeqEqual
  <2>11. (c - 1) + 1 = c
    OBVIOUS
  <2>12. Fifo!Pushed(q, r) = Append(Tail(q), r)
    BY <1>1, <1>4 DEF Fifo!Pushed
  <2>13. [rg EXCEPT ![(h + c) % Capacity] = r] = ng
    BY DEF ng, tl
  <2>14. /\ (IF c = Capacity THEN Succ(h) ELSE h) = Succ(h)
         /\ (IF c = Capacity THEN c - 1 ELSE c) = c - 1
    BY <1>4
  <2> QED
    BY <2>10, <2>11, <2>12, <2>13, <2>14 DEF p, q
<1> QED
  BY <1>3, <1>4

\* Taking the report at the head leaves the rest.
LEMMA TakeOne ==
  ASSUME NEW rg \in [0..Capacity - 1 -> Reports \cup {None}],
         NEW h \in 0..Capacity - 1, NEW c \in 1..Capacity,
         \A i \in 0..Capacity - 1 : i < c => rg[(h + i) % Capacity] \in Reports
  PROVE  /\ Queued(rg, h, c) # <<>>
         /\ Head(Queued(rg, h, c)) = rg[h]
         /\ Tail(Queued(rg, h, c)) = Queued(rg, Succ(h), c - 1)
<1> DEFINE q == Queued(rg, h, c)
           p == Queued(rg, Succ(h), c - 1)
<1> HIDE DEF q, p
<1>1. q \in Seq(Reports) /\ Len(q) = c
  <2>1. c \in 0..Capacity
    OBVIOUS
  <2> QED
    BY <2>1, QueuedIsSeq DEF q
<1>2. \A i \in 0..Capacity - 1 : i < c - 1 =>
         (Succ(h) + i) % Capacity = (h + (i + 1)) % Capacity
  <2>1. TAKE i \in 0..Capacity - 1
  <2>2. HAVE i < c - 1
  <2>3. i + 1 \in 0..Capacity /\ i \in 0..Capacity /\ Succ(h) \in 0..Capacity - 1
    BY SuccSlot
  <2>4. (Succ(h) + i) % Capacity = IF Succ(h) + i < Capacity
           THEN Succ(h) + i ELSE Succ(h) + i - Capacity
    BY <2>3, Slot
  <2>5. (h + (i + 1)) % Capacity = IF h + (i + 1) < Capacity
           THEN h + (i + 1) ELSE h + (i + 1) - Capacity
    BY <2>3, Slot
  <2>6. Succ(h) = IF h + 1 < Capacity THEN h + 1 ELSE 0
    BY SuccSlot
  <2> QED
    BY <2>2, <2>3, <2>4, <2>5, <2>6
<1>3. \A i \in 0..Capacity - 1 : i < c - 1 => rg[(Succ(h) + i) % Capacity] \in Reports
  <2>1. TAKE i \in 0..Capacity - 1
  <2>2. HAVE i < c - 1
  <2>3. i + 1 \in 0..Capacity - 1 /\ i + 1 < c
    BY <2>2
  <2> QED
    BY <1>2, <2>2, <2>3
<1>4. p \in Seq(Reports) /\ Len(p) = c - 1
  <2>1. c - 1 \in 0..Capacity /\ Succ(h) \in 0..Capacity - 1
    BY SuccSlot
  <2> QED
    BY <1>3, <2>1, QueuedIsSeq DEF p
<1>5. q # <<>>
  BY <1>1
<1>6. Head(q) = rg[h]
  <2>1. q[1] = rg[(h + (1 - 1)) % Capacity]
    BY DEF Queued, q
  <2>2. (h + (1 - 1)) % Capacity = h
    <3>1. h + (1 - 1) \in Nat /\ h + (1 - 1) < 2 * Capacity /\ h + (1 - 1) = h
      OBVIOUS
    <3> QED
      BY <3>1, ModOnce
  <2> QED
    BY <1>1, <1>5, <2>1, <2>2
<1>7. Tail(q) \in Seq(Reports) /\ Len(Tail(q)) = c - 1
      /\ \A i \in 1..c - 1 : Tail(q)[i] = q[i + 1]
  BY <1>1, <1>5, HeadTailProperties
<1>8. \A i \in 1..c - 1 : Tail(q)[i] = p[i]
  <2>1. TAKE i \in 1..c - 1
  <2>2. q[i + 1] = rg[(h + ((i - 1) + 1)) % Capacity]
    <3>1. i + 1 \in 1..c /\ (i + 1) - 1 = (i - 1) + 1
      OBVIOUS
    <3> QED
      BY <3>1 DEF Queued, q
  <2>3. p[i] = rg[(Succ(h) + (i - 1)) % Capacity]
    BY DEF Queued, p
  <2>4. i - 1 \in 0..Capacity - 1 /\ i - 1 < c - 1
    OBVIOUS
  <2> QED
    BY <1>2, <1>7, <2>2, <2>3, <2>4
<1> QED
  BY <1>4, <1>5, <1>6, <1>7, <1>8, SeqEqual DEF p, q

-----------------------------------------------------------------------------
(* The ring implements the queue                                           *)

\* The inductive invariant: the fields have their types and agree.
RingInv == TypeOK /\ RingOK

\* The ring starts empty.
LEMMA InitRing == Init => RingOK
<1>1. 0 \in Nat /\ 0 < 2 * Capacity /\ 0 < Capacity
  OBVIOUS
<1>2. (0 + 0) % Capacity = 0
  BY <1>1, ModOnce
<1> QED
  BY <1>2 DEF Init, RingOK

\* Every step but these leaves the ring and the reports under way alone.
LEMMA OtherSteps ==
  ASSUME [Next]_vars
  PROVE  \/ \E t \in Threads : Enqueue(t) \/ Match(t) \/ Complete(t)
         \/ UNCHANGED <<queue, held>>
BY DEF Next, HandlerStep, EndWrite, ReadReport, Inject, Notify, Overflow, Chunk, LastChunk,
       Abandon, Write, queue, client, threads, vars

\* Queueing a report keeps the ring's fields in agreement.
LEMMA EnqueueRing ==
  ASSUME RingInv, NEW t \in Threads, Enqueue(t)
  PROVE  RingOK'
<1> DEFINE r == Head(todo[t])
<1>1. r \in Reports
  BY DEF RingInv, Enqueue, TypeOK, Steps
<1>2. /\ head \in 0..Capacity - 1 /\ count \in 0..Capacity /\ tail \in 0..Capacity - 1
      /\ ring \in [0..Capacity - 1 -> Reports \cup {None}]
      /\ tail = (head + count) % Capacity
      /\ tail = IF head + count < Capacity THEN head + count ELSE head + count - Capacity
  BY Slot DEF RingInv, TypeOK, RingOK
<1>3. Succ(tail) = (IF tail + 1 < Capacity THEN tail + 1 ELSE 0)
      /\ Succ(head) = IF head + 1 < Capacity THEN head + 1 ELSE 0
  BY <1>2, SuccSlot
<1>4. /\ ring' = [ring EXCEPT ![tail] = r] /\ tail' = Succ(tail)
      /\ head' = HeadKept /\ count' = CountKept + 1
  BY DEF Enqueue
<1>5. head' \in 0..Capacity - 1 /\ count' \in 0..Capacity
  BY <1>2, <1>3, <1>4 DEF HeadKept, CountKept, Full
<1>6. \A i \in 0..Capacity - 1 :
         /\ (head + i) % Capacity =
              IF head + i < Capacity THEN head + i ELSE head + i - Capacity
         /\ (head' + i) % Capacity =
              IF head' + i < Capacity THEN head' + i ELSE head' + i - Capacity
  <2>1. TAKE i \in 0..Capacity - 1
  <2>2. i \in 0..Capacity
    OBVIOUS
  <2>3. (head + i) % Capacity =
           IF head + i < Capacity THEN head + i ELSE head + i - Capacity
    BY <1>2, <2>2, Slot
  <2>4. (head' + i) % Capacity =
           IF head' + i < Capacity THEN head' + i ELSE head' + i - Capacity
    BY <1>5, <2>2, Slot
  <2> QED
    BY <2>3, <2>4
<1>7. tail' = (head' + count') % Capacity
  <2>1. (head' + count') % Capacity =
           IF head' + count' < Capacity THEN head' + count' ELSE head' + count' - Capacity
    BY <1>5, Slot
  <2> QED
    BY <1>2, <1>3, <1>4, <2>1 DEF HeadKept, CountKept, Full
<1>8. ASSUME NEW i \in 0..Capacity - 1, i < count'
      PROVE  ring'[(head' + i) % Capacity] \in Reports
  <2>1. CASE (head' + i) % Capacity = tail
    BY <1>1, <1>2, <1>4, <2>1
  <2>2. CASE (head' + i) % Capacity # tail
    <3>1. ring'[(head' + i) % Capacity] = ring[(head' + i) % Capacity]
      <4>1. (head' + i) % Capacity \in 0..Capacity - 1
        <5>1. i \in 0..Capacity
          OBVIOUS
        <5> QED
          BY <1>5, <5>1, Slot
      <4> QED
        BY <1>2, <1>4, <2>2, <4>1
    <3>2. CASE count < Capacity
      <4>1. head' = head /\ count' = count + 1
        BY <1>2, <1>4, <3>2 DEF HeadKept, CountKept, Full
      <4>2. i # count
        BY <1>2, <2>2, <4>1
      <4>3. i < count
        BY <1>2, <1>8, <4>1, <4>2
      <4> QED
        BY <3>1, <4>1, <4>3 DEF RingInv, RingOK
    <3>3. CASE count = Capacity
      <4>1. head' = Succ(head) /\ tail = head
        BY <1>2, <1>4, <3>3 DEF HeadKept, Full
      <4>2. i # Capacity - 1
        <5>1. head' = IF head + 1 < Capacity THEN head + 1 ELSE 0
          BY <1>3, <4>1
        <5>2. (head' + i) % Capacity =
                 IF head' + i < Capacity THEN head' + i ELSE head' + i - Capacity
          BY <1>6
        <5> QED
          BY <1>2, <2>2, <4>1, <5>1, <5>2
      <4>3. i + 1 \in 0..Capacity - 1 /\ i + 1 < count
        BY <3>3, <4>2
      <4>4. (head' + i) % Capacity = (head + (i + 1)) % Capacity
        <5>1. head' = IF head + 1 < Capacity THEN head + 1 ELSE 0
          BY <1>3, <4>1
        <5>2. (head' + i) % Capacity =
                 IF head' + i < Capacity THEN head' + i ELSE head' + i - Capacity
          BY <1>6
        <5>3. (head + (i + 1)) % Capacity = IF head + (i + 1) < Capacity
                 THEN head + (i + 1) ELSE head + (i + 1) - Capacity
          BY <1>6, <4>3
        <5> QED
          BY <1>2, <5>1, <5>2, <5>3
      <4> QED
        BY <3>1, <4>3, <4>4 DEF RingInv, RingOK
    <3> QED
      BY <1>2, <3>2, <3>3
  <2> QED
    BY <2>1, <2>2
<1> QED
  BY <1>7, <1>8 DEF RingOK

\* So does taking a report out.
LEMMA MatchRing ==
  ASSUME RingInv, NEW t \in Threads, Match(t)
  PROVE  RingOK'
<1>1. CASE UNCHANGED <<head, count>>
  BY <1>1 DEF Match, RingInv, RingOK
<1>2. CASE count > 0 /\ head' = Succ(head) /\ count' = count - 1
  <2>1. /\ head \in 0..Capacity - 1 /\ count \in 1..Capacity
        /\ tail = (head + count) % Capacity
    BY <1>2 DEF RingInv, TypeOK, RingOK
  <2>2. head' = (IF head + 1 < Capacity THEN head + 1 ELSE 0) /\ head' \in 0..Capacity - 1
    BY <1>2, <2>1, SuccSlot
  <2>3. UNCHANGED <<ring, tail>>
    BY DEF Match
  <2>4. \A i \in 0..Capacity - 1 :
          (head' + i) % Capacity = (head + (i + 1)) % Capacity
    <3>1. TAKE i \in 0..Capacity - 1
    <3>2. i + 1 \in 0..Capacity /\ i \in 0..Capacity
      OBVIOUS
    <3>3. (head' + i) % Capacity = IF head' + i < Capacity THEN head' + i
                                                           ELSE head' + i - Capacity
      BY <2>2, <3>2, Slot
    <3>4. (head + (i + 1)) % Capacity = IF head + (i + 1) < Capacity THEN head + (i + 1)
                                                           ELSE head + (i + 1) - Capacity
      BY <2>1, <3>2, Slot
    <3> QED
      BY <2>1, <2>2, <3>3, <3>4
  <2>5. tail' = (head' + count') % Capacity
    <3>1. count' \in 0..Capacity - 1 /\ count' + 1 = count
      BY <1>2, <2>1
    <3> QED
      BY <2>1, <2>3, <2>4, <3>1
  <2>6. ASSUME NEW i \in 0..Capacity - 1, i < count'
        PROVE  ring'[(head' + i) % Capacity] \in Reports
    <3>1. i + 1 \in 0..Capacity - 1 /\ i + 1 < count
      BY <1>2, <2>1, <2>6
    <3> QED
      BY <2>3, <2>4, <3>1 DEF RingInv, RingOK
  <2> QED
    BY <2>5, <2>6 DEF RingOK
<1> QED
  BY <1>1, <1>2 DEF Match

\* Every step keeps the invariant.
LEMMA NextRing == ASSUME RingInv, [Next]_vars PROVE RingInv'
<1>1. TypeOK'
  BY NextTypes DEF RingInv
<1>2. ASSUME NEW t \in Threads, Complete(t) PROVE RingOK'
  BY <1>2 DEF Complete, queue, RingInv, RingOK
<1>3. CASE UNCHANGED <<queue, held>>
  BY <1>1, <1>3 DEF queue, RingInv, RingOK
<1> QED
  BY <1>1, <1>2, <1>3, OtherSteps, EnqueueRing, MatchRing DEF RingInv

\* Head, tail and count of the report ring always agree, and what they delimit are
\* reports: no overflow or race makes TryCompleteInputReport hand out a free slot.
THEOREM RingFieldsAgree == Spec => []RingOK
<1>1. Init => RingInv
  BY InitTypes, InitRing DEF RingInv
<1>2. RingInv /\ [Next]_vars => RingInv'
  BY NextRing
<1>3. RingInv => RingOK
  BY DEF RingInv
<1> QED
  BY <1>1, <1>2, <1>3, PTL DEF Spec

-----------------------------------------------------------------------------
(* The ring implements the queue                                           *)

\* The start of the driver is the start of the queue.
LEMMA InitFifo == Init => Fifo!Init
<1>1. ASSUME NEW rg, NEW h PROVE Queued(rg, h, 0) = <<>>
  BY DEF Queued
<1> QED
  BY <1>1 DEF Init, Fifo!Init, contents

\* What the ring delimits, as a fact about the current state.
LEMMA RingFacts ==
  ASSUME RingInv
  PROVE  /\ ring \in [0..Capacity - 1 -> Reports \cup {None}]
         /\ head \in 0..Capacity - 1 /\ count \in 0..Capacity
         /\ tail = (head + count) % Capacity
         /\ \A i \in 0..Capacity - 1 : i < count => ring[(head + i) % Capacity] \in Reports
BY DEF RingInv, TypeOK, RingOK

\* EnqueueInputReport is a Put.
LEMMA EnqueueIsPut ==
  ASSUME RingInv, NEW t \in Threads, Enqueue(t)
  PROVE  Head(todo[t]) \in Reports /\ Fifo!Put(Head(todo[t]))
<1> DEFINE r == Head(todo[t])
<1>1. r \in Reports
  BY DEF RingInv, Enqueue, TypeOK, Steps
<1> HIDE DEF r
<1>2. contents' = Queued([ring EXCEPT ![(head + count) % Capacity] = r],
                         IF count = Capacity THEN Succ(head) ELSE head,
                         (IF count = Capacity THEN count - 1 ELSE count) + 1)
  BY RingFacts DEF contents, Enqueue, HeadKept, CountKept, Full, r
<1>3. contents' = Fifo!Pushed(contents, r)
  <2>1. /\ ring \in [0..Capacity - 1 -> Reports \cup {None}]
        /\ head \in 0..Capacity - 1 /\ count \in 0..Capacity
        /\ \A i \in 0..Capacity - 1 : i < count => ring[(head + i) % Capacity] \in Reports
    BY RingFacts
  <2>2. Queued([ring EXCEPT ![(head + count) % Capacity] = r],
               IF count = Capacity THEN Succ(head) ELSE head,
               (IF count = Capacity THEN count - 1 ELSE count) + 1)
        = Fifo!Pushed(Queued(ring, head, count), r)
    BY <1>1, <2>1, PushOne
  <2>3. contents = Queued(ring, head, count)
    BY DEF contents
  <2> QED
    BY <1>2, <2>2, <2>3
<1>4. UNCHANGED held
  BY DEF Enqueue
<1> QED
  BY <1>1, <1>3, <1>4 DEF Fifo!Put, r

\* The critical section of TryCompleteInputReport is a Take, or changes nothing.
LEMMA MatchIsTake ==
  ASSUME RingInv, NEW t \in Threads, Match(t)
  PROVE  Fifo!Take(t) \/ UNCHANGED <<contents, held>>
<1>1. CASE UNCHANGED <<held, head, count, reads>>
  BY <1>1 DEF Match, contents
<1>2. CASE /\ count > 0 /\ held' = [held EXCEPT ![t] = ring[head]]
           /\ head' = Succ(head) /\ count' = count - 1
  <2>1. count \in 1..Capacity
    BY <1>2, RingFacts
  <2>2. /\ contents # <<>> /\ Head(contents) = ring[head]
        /\ Tail(contents) = Queued(ring, Succ(head), count - 1)
    BY <2>1, RingFacts, TakeOne DEF contents
  <2>3. contents' = Queued(ring, Succ(head), count - 1)
    BY <1>2 DEF contents, Match
  <2>4. held[t] = None
    BY DEF Match
  <2> QED
    BY <1>2, <2>2, <2>3, <2>4 DEF Fifo!Take
<1> QED
  BY <1>1, <1>2 DEF Match

\* The completion of a request is a Give.
LEMMA CompleteIsGive ==
  ASSUME NEW t \in Threads, Complete(t)
  PROVE  Fifo!Give(t)
BY DEF Complete, queue, contents, Fifo!Give

\* Every step of the driver is a step of the queue or leaves it alone.
LEMMA NextIsFifo ==
  ASSUME RingInv, [Next]_vars
  PROVE  [Fifo!Next]_(Fifo!vars)
<1>1. CASE UNCHANGED <<queue, held>>
  BY <1>1 DEF queue, contents, Fifo!vars
<1>2. ASSUME NEW t \in Threads, Enqueue(t) PROVE Fifo!Next
  BY <1>2, EnqueueIsPut DEF Fifo!Next
<1>3. ASSUME NEW t \in Threads, Match(t) PROVE Fifo!Next \/ UNCHANGED <<contents, held>>
  BY <1>3, MatchIsTake DEF Fifo!Next
<1>4. ASSUME NEW t \in Threads, Complete(t) PROVE Fifo!Next
  BY <1>4, CompleteIsGive DEF Fifo!Next
<1> QED
  BY <1>1, <1>2, <1>3, <1>4, OtherSteps DEF Fifo!vars

\* EnqueueInputReport and TryCompleteInputReport implement a bounded queue that hands
\* its reports out in order and each one once, and loses only the oldest.
THEOREM RingImplementsFifo == Spec => FifoSpec
<1>1. Init => RingInv
  BY InitTypes, InitRing DEF RingInv
<1>2. RingInv /\ [Next]_vars => RingInv'
  BY NextRing
<1>3. RingInv /\ [Next]_vars => [Fifo!Next]_(Fifo!vars)
  BY NextIsFifo
<1> QED
  BY InitFifo, <1>1, <1>2, <1>3, PTL DEF Spec, FifoSpec, Fifo!Spec
=============================================================================
