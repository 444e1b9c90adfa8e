----------------------------- MODULE VirtualHid -----------------------------
(***************************************************************************)
(* The request handlers of the virtual HID driver,                         *)
(* native/vhidmini2/driver/vhidmini.c: the ring of input reports with its  *)
(* lock, the manual queue of parked read requests, and the assembly of RPC *)
(* messages from output reports.                                           *)
(*                                                                         *)
(* The default queue is sequential: a request is presented when the one    *)
(* before has left the queue.  A write leaves it when its handler is over  *)
(* (completed in EvtIoDeviceControl); a read leaves it when ReadReport     *)
(* forwards it, with a call of TryCompleteInputReport still to come, which *)
(* therefore runs beside the next handler.  A step is one critical section *)
(* of ReportLock or one call of the framework.  Requests that are refused  *)
(* for their report id or buffer size change nothing and are left out, as  *)
(* are the ones that only read (descriptors, strings, GetFeature,          *)
(* GetInputReport).  Operators whose name ends in X are mutated forms of   *)
(* the definition after them, for validating properties.                   *)
(***************************************************************************)
EXTENDS Naturals, Sequences, FiniteSets

CONSTANTS
  Threads,    \* framework threads that run handlers
  None,       \* no report, no thread
  Try,        \* the call TryCompleteInputReport()
  Capacity,   \* CODEX_MICRO_QUEUE_CAPACITY
  RpcChunks,  \* the chunks of 61 bytes RpcBuffer has room for
  MaxChunks,  \* bound: chunks of a message
  MaxParts,   \* bound: reports of a response
  MaxReads,   \* the read requests hidclass keeps at the driver
  MaxWrites   \* bound: write requests in a behaviour

\* "by" is the number of the write request that queued the report, "part" its place
\* among the reports of that request, "stale" the other messages of which an answer
\* took in chunks (history, as is everything named so below).
Reports == [by : 1..MaxWrites, part : 1..MaxParts, stale : SUBSET (1..MaxWrites)]
Steps   == Reports \cup {Try}

ASSUME CapacityAssumption == Capacity \in Nat \ {0}
ASSUME BoundAssumption    == /\ MaxWrites \in Nat /\ MaxReads \in Nat
                             /\ MaxChunks \in Nat \ {0} /\ MaxParts \in Nat \ {0}
                             /\ RpcChunks \in Nat \ {0}
ASSUME NoneAssumption     == None \notin Threads /\ None \notin Reports
ASSUME TryAssumption      == Try \notin Reports

VARIABLES
  ring, head, tail, count,  \* ReportQueue, ReportHead, ReportTail, ReportCount
  rpc,     \* RpcBuffer: for each chunk the message it is of; RpcLength is its length
  reads,   \* requests in ManualQueue
  todo,    \* the calls each thread has still to make, a report standing for
           \* EnqueueInputReport() of it
  held,    \* report and request a thread took and has not completed
  busy,    \* the thread whose request occupies the default queue
  sent,    \* the messages that clients are writing, each with its number, the chunks
           \* sent and the chunks in all; a message has the number of its first write
  writes,  \* number of write requests (history)
  gone,    \* messages that nothing more is written of, although no chunk closed them:
           \* given up half-way, or the last chunk was full and did not end a line (history)
  broken,  \* messages RpcBuffer did not hold in one piece: something of another client
           \* came between, a chunk before the last closed them, or a chunk of them met
           \* a full buffer (history)
  newest   \* by and part of the report that hidclass got last (history)

queue   == <<ring, head, tail, count>>
client  == <<rpc, sent, writes, gone, broken>>
threads == <<todo, held>>
vars    == <<queue, client, threads, reads, busy, newest>>

Messages ==
  {m \in [msg : 1..MaxWrites, done : 1..MaxChunks, size : 1..MaxChunks] : m.done <= m.size}

\* EvtDeviceAdd: the context is zeroed.
Init ==
  /\ ring = [i \in 0..Capacity - 1 |-> None] /\ head = 0 /\ tail = 0 /\ count = 0
  /\ rpc = <<>> /\ sent = {} /\ writes = 0 /\ gone = {} /\ broken = {}
  /\ reads = 0 /\ busy = None /\ newest = <<0, 0>>
  /\ todo = [t \in Threads |-> <<>>] /\ held = [t \in Threads |-> None]

-----------------------------------------------------------------------------
(* The ring                                                                *)

Succ(i) == (i + 1) % Capacity

\* EnqueueInputReport(): a full ring loses its oldest report.
Full == count = Capacity
CountKeptX == count
CountKept  == IF Full THEN count - 1 ELSE count
HeadKeptX == head
HeadKept  == IF Full THEN Succ(head) ELSE head

Enqueue(t) ==
  /\ held[t] = None /\ todo[t] # <<>> /\ Head(todo[t]) # Try
  /\ ring' = [ring EXCEPT ![tail] = Head(todo[t])]
  /\ head' = HeadKept
  /\ tail' = Succ(tail)
  /\ count' = CountKept + 1
  /\ todo' = [todo EXCEPT ![t] = Tail(@)]
  /\ UNCHANGED <<client, held, reads, busy, newest>>

\* TryCompleteInputReport(), under the lock: the oldest report and the oldest
\* request are taken when there is one of each.
Match(t) ==
  /\ held[t] = None /\ todo[t] # <<>> /\ Head(todo[t]) = Try
  /\ todo' = [todo EXCEPT ![t] = Tail(@)]
  /\ \/ /\ count > 0 /\ reads > 0
        /\ held' = [held EXCEPT ![t] = ring[head]]
        /\ head' = Succ(head) /\ count' = count - 1 /\ reads' = reads - 1
     \/ (count = 0 \/ reads = 0) /\ UNCHANGED <<held, head, count, reads>>
  /\ UNCHANGED <<ring, tail, client, busy, newest>>

\* ... and without the lock: the report is copied and the request completed.
Complete(t) ==
  /\ held[t] # None
  /\ newest' = <<held[t].by, held[t].part>>
  /\ held' = [held EXCEPT ![t] = None]
  /\ UNCHANGED <<queue, client, todo, reads, busy>>

-----------------------------------------------------------------------------
(* Requests                                                                *)

Idle(t) == todo[t] = <<>> /\ held[t] = None /\ busy # t

InFlight == Cardinality({t \in Threads : held[t] # None})

\* ReadReport(): the request is forwarded to ManualQueue, where another thread may
\* complete it before this one calls TryCompleteInputReport.
AfterForwardX == <<>>
AfterForward  == <<Try>>

ReadReport(t) ==
  /\ busy = None /\ Idle(t)
  /\ reads + InFlight < MaxReads /\ reads' = reads + 1
  /\ todo' = [todo EXCEPT ![t] = AfterForward]
  /\ UNCHANGED <<queue, client, held, busy, newest>>

\* A write request: what its handler does to the RPC state is in its action, the
\* calls it makes after that are in todo.
Write(t, calls) ==
  /\ busy = None /\ Idle(t) /\ busy' = t
  /\ writes < MaxWrites /\ writes' = writes + 1
  /\ todo' = [todo EXCEPT ![t] = calls]
  /\ UNCHANGED <<queue, held, reads, newest>>

Event == [by |-> writes + 1, part |-> 1, stale |-> {}]

\* WriteReport, SetFeature and SetOutputReport of the injection collection
Inject(t) == Write(t, <<Event, Try>>) /\ UNCHANGED <<rpc, sent, gone, broken>>

\* HandleOutputReport of a v.oai.hid or v.oai.rad notification; the caller tries again.
Notify(t) == Write(t, <<Event, Try, Try>>) /\ UNCHANGED <<rpc, sent, gone, broken>>

\* SendFramedJson of n reports, and the caller's last TryCompleteInputReport
Respond(n, stale) ==
  [i \in 1..2 * n + 1 |->
     IF i % 2 = 1 /\ i < 2 * n
     THEN [by |-> writes + 1, part |-> (i + 1) \div 2, stale |-> stale]
     ELSE Try]

\* HandleOutputReport of a chunk of an RPC message.  Any number of clients write, and
\* nothing keeps their messages apart: a chunk begins a new message or goes on with one.
NextChunk ==
  {m \in Messages :
     \/ m.msg = writes + 1 /\ m.done = 1
     \/ \E s \in sent : m = [s EXCEPT !.done = @ + 1]}

Others(m) == {s \in sent : s.msg # m.msg}
Rest(m)   == IF m.done < m.size THEN {m} ELSE {}
Torn(m)   == broken \cup {s.msg : s \in Others(m)}

\* RpcBuffer with a full chunk kept; the mutated form takes each chunk for the last.
ContentsX(m) == <<>>
Contents(m)  == Append(rpc, m.msg)
StaleIn(s, m) == {s[i] : i \in DOMAIN s} \ {m.msg}

\* RpcLength after a message was processed
AfterMessageX(m) == Contents(m)
AfterMessage(m)  == <<>>

\* RpcBuffer has no room: what it holds is thrown away, and the write fails.
Overflow(t) ==
  /\ Len(rpc) = RpcChunks
  /\ \E m \in NextChunk :
       sent' = Others(m) \cup Rest(m) /\ broken' = Torn(m) \cup {m.msg}
  /\ Write(t, <<>>)
  /\ rpc' = <<>> /\ UNCHANGED gone

\* A full chunk that does not end a line is kept, the last one of a message as well.
Chunk(t) ==
  /\ Len(rpc) < RpcChunks
  /\ \E m \in NextChunk :
       /\ sent' = Others(m) \cup Rest(m) /\ broken' = Torn(m)
       /\ gone' = IF m \in sent' THEN gone ELSE gone \cup {m.msg}
       /\ rpc' = Contents(m)
  /\ Write(t, <<Try>>)

\* A shorter chunk, or one that ends a line, is taken for the last, wherever it stands in
\* its message, and it may be short enough for the rest of a buffer without room for a
\* full one.  All that RpcBuffer holds is processed as one message, which is answered
\* with n reports, or with none when it has no method or no id.
LastChunk(t) ==
  /\ \E m \in NextChunk, n \in 0..MaxParts :
       /\ sent' = Others(m) \cup Rest(m) /\ broken' = Torn(m) \cup {r.msg : r \in Rest(m)}
       /\ Write(t, Respond(n, StaleIn(rpc, m)))
       /\ rpc' = AfterMessage(m)
  /\ UNCHANGED gone

\* WdfRequestComplete at the end of EvtIoDeviceControl
EndWrite(t) ==
  /\ busy = t /\ todo[t] = <<>> /\ held[t] = None
  /\ busy' = None
  /\ UNCHANGED <<queue, client, threads, reads, newest>>

\* A client goes away in the middle of a message; the driver does not hear of it.
Abandon ==
  /\ \E s \in sent : sent' = sent \ {s} /\ gone' = gone \cup {s.msg}
  /\ UNCHANGED <<queue, rpc, writes, broken, threads, reads, busy, newest>>

HandlerStep(t) == Enqueue(t) \/ Match(t) \/ Complete(t) \/ EndWrite(t)

Next ==
  \/ \E t \in Threads :
       \/ HandlerStep(t) \/ ReadReport(t)
       \/ Inject(t) \/ Notify(t) \/ Overflow(t) \/ Chunk(t) \/ LastChunk(t)
  \/ Abandon

Spec == Init /\ [][Next]_vars

\* A handler that was called runs to its end, and hidclass posts a read request for
\* each one that was completed.  Nothing is assumed of those who write.
FairSpec ==
  /\ Spec
  /\ \A t \in Threads : WF_vars(HandlerStep(t))
  /\ WF_vars(\E t \in Threads : ReadReport(t))

-----------------------------------------------------------------------------
(* Properties                                                              *)

\* Every field of the device context and of the handlers has its type.
TypeOK ==
  /\ ring \in [0..Capacity - 1 -> Reports \cup {None}]
  /\ head \in 0..Capacity - 1 /\ tail \in 0..Capacity - 1 /\ count \in 0..Capacity
  /\ rpc \in Seq(1..MaxWrites)
  /\ sent \subseteq Messages
  /\ writes \in 0..MaxWrites /\ gone \subseteq 1..MaxWrites /\ broken \subseteq 1..MaxWrites
  /\ reads \in Nat /\ busy \in Threads \cup {None}
  /\ todo \in [Threads -> Seq(Steps)]
  /\ held \in [Threads -> Reports \cup {None}]
  /\ newest \in (0..MaxWrites) \X (0..MaxParts)

\* The three ring fields agree, and what they delimit are reports, never the
\* zeroed memory of the start.
RingOK ==
  /\ tail = (head + count) % Capacity
  /\ \A i \in 0..Capacity - 1 : i < count => ring[(head + i) % Capacity] \in Reports

\* The ring read from its head is the queue of LossyFifo, whatever the handlers'
\* interleaving: reports are taken in the order they were queued and each one once.
Queued(rg, h, c) == [i \in 1..c |-> rg[(h + (i - 1)) % Capacity]]
contents == Queued(ring, head, count)
Fifo == INSTANCE LossyFifo WITH Takers <- Threads, fifo <- contents, hand <- held
FifoSpec == Fifo!Spec

\* When no handler is under way, reports and read requests are not both waiting: the
\* try of the later of the two has brought them together.
NoneStranded == (\A t \in Threads : Idle(t)) => count = 0 \/ reads = 0

\* Place in the order in which reports are queued.
Older(a, b) == a[1] < b[1] \/ (a[1] = b[1] /\ a[2] < b[2])
Place(r) == <<r.by, r.part>>

\* Whatever hidclass has got or is being given is older than all that waits in the
\* ring: only reports that were taken for read requests pending at the same time can
\* overtake each other, so that one request at a time gets them in the order they
\* were queued, although they are completed outside the lock (vhidmini.c:1556-1570).
InOrder ==
  \A i \in 0..count - 1 : LET waiting == Place(ring[(head + i) % Capacity]) IN
    /\ Older(newest, waiting)
    /\ \A t \in Threads : held[t] = None \/ Older(Place(held[t]), waiting)

\* Of every message being written that was not broken, RpcBuffer, which all clients share,
\* holds exactly what was written of it.
AssemblyInStep ==
  \A m \in sent : m.msg \notin broken =>
    Cardinality({i \in DOMAIN rpc : rpc[i] = m.msg}) = m.done

Visible == {ring[(head + i) % Capacity] : i \in 0..count - 1} \cup {held[t] : t \in Threads}

\* An answer is about chunks of one message, except for those of messages that were left
\* without a closing chunk or were broken; and one that was left unbroken spoils at most
\* one answer, for the whole buffer goes into it.
SpoilsOne ==
  \A r, s \in Visible \ {None} :
    /\ r.stale \subseteq gone \cup broken
    /\ r.by # s.by => r.stale \cap s.stale \subseteq broken

\* Once nothing is written any more, every queued report reaches hidclass.
Drains == <>[](count = 0 /\ InFlight = 0)
=============================================================================
