------------------------------ MODULE TraceRing ------------------------------
(***************************************************************************)
(* The trace ring: trace_emit (vmm/trace_producer.c, linked into the VMM   *)
(* and into uartrx) and its consumer, drain_trace and archive_record       *)
(* (tracer/tracer.c), at the grain of single accesses to shared memory.    *)
(*                                                                         *)
(* Every atomic load, store and read-modify-write is one step.  The copy   *)
(* of a record into or out of a slot is not atomic in the code: a producer *)
(* with pc "copy" is writing its slot and a tracer with tpc "archive" is   *)
(* reading one, and NoSlotRace says that the two never meet.  All index    *)
(* and lock accesses that order those copies are acquire/release pairs, so *)
(* where no slot is raced for the interleavings below are all there is.    *)
(*                                                                         *)
(* A record's payload is abstracted to the producer and the number of the  *)
(* call that emits it.                                                     *)
(***************************************************************************)
EXTENDS Integers, Sequences, FiniteSets

CONSTANTS
  Producers,        \* protection domains that link trace_producer.c
  RingCapacity,     \* TRACE_RING_CAPACITY
  ArchiveCapacity,  \* TRACE_ARCHIVE_CAPACITY
  MaxEmits          \* bound: calls of trace_emit per producer

ASSUME RingAssumption ==
  /\ RingCapacity \in Nat \ {0}
  /\ ArchiveCapacity \in Nat \ {0}
  /\ MaxEmits \in Nat

VARIABLES
  \* struct trace_ring, shared by all
  head, tail, next_seq, producer_lock, records,
  \* each producer: program counter, local `head`, the record it builds,
  \* and how often it has called trace_emit
  pc, myhead, rec, calls,
  \* the system counter, as of its last reading
  cntpct,
  \* the tracer's notification word, the channels of the current wake-up not
  \* handled yet, and the tracer's program counter
  notification, pending, tpc,
  \* struct trace_archive, private to the tracer
  archive, not_archived

ringVars   == <<head, tail, next_seq, producer_lock, records>>
emitVars   == <<pc, myhead, rec, calls>>
tracerVars == <<pending, tpc, archive, not_archived>>
vars == <<ringVars, emitVars, cntpct, notification, tracerVars>>

Slots == 0 .. (RingCapacity - 1)
Slot(i) == i % RingCapacity

Record == [seq: Nat, time: Nat, producer: Producers, call: Nat]
NoRecord == [seq |-> 0, time |-> 0]

Step(p, from, to) ==
  /\ pc[p] = from
  /\ pc' = [pc EXCEPT ![p] = to]

Init ==
  /\ head = 0 /\ tail = 0 /\ next_seq = 0 /\ producer_lock = 0
  /\ records = [i \in Slots |-> NoRecord]
  /\ pc = [p \in Producers |-> "idle"]
  /\ myhead = [p \in Producers |-> 0]
  /\ rec = [p \in Producers |-> NoRecord]
  /\ calls = [p \in Producers |-> 0]
  /\ cntpct = 0
  /\ notification = {} /\ pending = {} /\ tpc = "recv"
  /\ archive = <<>> /\ not_archived = 0
-----------------------------------------------------------------------------
(* trace_emit, by producer p *)

Call(p) ==
  /\ Step(p, "idle", "lock")
  /\ calls[p] < MaxEmits
  /\ calls' = [calls EXCEPT ![p] = @ + 1]
  /\ UNCHANGED <<ringVars, myhead, rec, cntpct, notification, tracerVars>>

\* Mutant: the lock is stored, not exchanged.
ProducerLock_Stored(p) ==
  /\ Step(p, "lock", "head")
  /\ producer_lock' = 1
  /\ UNCHANGED <<head, tail, next_seq, records, myhead, rec, calls, cntpct,
                 notification, tracerVars>>

\* producer_lock(): the exchange that finds 0.  One that finds 1, and the
\* relaxed spin that follows it, change nothing.
ProducerLock(p) ==
  /\ Step(p, "lock", "head")
  /\ producer_lock = 0
  /\ producer_lock' = 1
  /\ UNCHANGED <<head, tail, next_seq, records, myhead, rec, calls, cntpct,
                 notification, tracerVars>>

LoadHead(p) ==
  /\ Step(p, "head", "space")
  /\ myhead' = [myhead EXCEPT ![p] = head]
  /\ UNCHANGED <<ringVars, rec, calls, cntpct, notification, tracerVars>>

\* wait_for_space(): one round of the loop that finds the ring full ...
WaitForSpace(p) ==
  /\ pc[p] = "space"
  /\ myhead[p] - tail >= RingCapacity
  /\ notification' = notification \cup {p}
  /\ UNCHANGED <<ringVars, emitVars, cntpct, tracerVars>>

\* Mutants: one record too many; the tail left out of the comparison; head
\* moved when the slot is reserved, not when it is filled.
SpaceFound_OffByOne(p) ==
  /\ Step(p, "space", "seq")
  /\ myhead[p] - tail <= RingCapacity
  /\ UNCHANGED <<ringVars, myhead, rec, calls, cntpct, notification,
                 tracerVars>>
SpaceFound_NoTail(p) ==
  /\ Step(p, "space", "seq")
  /\ myhead[p] < RingCapacity
  /\ UNCHANGED <<ringVars, myhead, rec, calls, cntpct, notification,
                 tracerVars>>
SpaceFound_HeadEarly(p) ==
  /\ Step(p, "space", "seq")
  /\ myhead[p] - tail < RingCapacity
  /\ head' = myhead[p] + 1
  /\ UNCHANGED <<tail, next_seq, producer_lock, records, myhead, rec, calls,
                 cntpct, notification, tracerVars>>

\* ... and the test that ends it.
SpaceFound(p) ==
  /\ Step(p, "space", "seq")
  /\ myhead[p] - tail < RingCapacity
  /\ UNCHANGED <<ringVars, myhead, rec, calls, cntpct, notification,
                 tracerVars>>

TakeSeq(p) ==
  /\ Step(p, "seq", "time")
  /\ rec' = [rec EXCEPT ![p] = [seq |-> next_seq, time |-> 0,
                                producer |-> p, call |-> calls[p]]]
  /\ next_seq' = next_seq + 1
  /\ UNCHANGED <<head, tail, producer_lock, records, myhead, calls, cntpct,
                 notification, tracerVars>>

\* Mutant: the time was read before the lock was taken.
ReadTime_Early(p) ==
  /\ Step(p, "time", "copy")
  /\ \E t \in 0 .. cntpct, now \in {cntpct, cntpct + 1} :
       /\ cntpct' = now
       /\ rec' = [rec EXCEPT ![p].time = t]
  /\ UNCHANGED <<ringVars, myhead, calls, notification, tracerVars>>

\* read_cntpct(): at or after every earlier reading, on any core.
ReadTime(p) ==
  /\ Step(p, "time", "copy")
  /\ \E t \in {cntpct, cntpct + 1} :
       /\ cntpct' = t
       /\ rec' = [rec EXCEPT ![p].time = t]
  /\ UNCHANGED <<ringVars, myhead, calls, notification, tracerVars>>

Copy(p) ==
  /\ Step(p, "copy", "publish")
  /\ records' = [records EXCEPT ![Slot(myhead[p])] = rec[p]]
  /\ UNCHANGED <<head, tail, next_seq, producer_lock, myhead, rec, calls,
                 cntpct, notification, tracerVars>>

PublishHead(p) ==
  /\ Step(p, "publish", "unlock")
  /\ head' = myhead[p] + 1
  /\ UNCHANGED <<tail, next_seq, producer_lock, records, myhead, rec, calls,
                 cntpct, notification, tracerVars>>

\* Mutant: no notification follows.
ProducerUnlock_NoNotify(p) ==
  /\ Step(p, "unlock", "idle")
  /\ producer_lock' = 0
  /\ UNCHANGED <<head, tail, next_seq, records, myhead, rec, calls, cntpct,
                 notification, tracerVars>>

ProducerUnlock(p) ==
  /\ Step(p, "unlock", "notify")
  /\ producer_lock' = 0
  /\ UNCHANGED <<head, tail, next_seq, records, myhead, rec, calls, cntpct,
                 notification, tracerVars>>

Notify(p) ==
  /\ Step(p, "notify", "idle")
  /\ notification' = notification \cup {p}
  /\ UNCHANGED <<ringVars, myhead, rec, calls, cntpct, tracerVars>>

Emit(p) ==
  \/ Call(p) \/ ProducerLock(p) \/ LoadHead(p)
  \/ WaitForSpace(p) \/ SpaceFound(p)
  \/ TakeSeq(p) \/ ReadTime(p) \/ Copy(p)
  \/ PublishHead(p) \/ ProducerUnlock(p) \/ Notify(p)
-----------------------------------------------------------------------------
(* The tracer *)

\* libmicrokit's event loop: the kernel hands over, and clears, every
\* channel bit signalled since the last wake-up ...
Receive ==
  /\ tpc = "recv" /\ notification # {}
  /\ pending' = notification
  /\ notification' = {}
  /\ tpc' = "dispatch"
  /\ UNCHANGED <<ringVars, emitVars, cntpct, archive, not_archived>>

\* ... and the loop calls notified(ch) once for each of them.
Dispatch ==
  /\ tpc = "dispatch"
  /\ IF pending = {}
       THEN tpc' = "recv" /\ UNCHANGED pending
       ELSE /\ \E ch \in pending : pending' = pending \ {ch}
            /\ tpc' = "drain"
  /\ UNCHANGED <<ringVars, emitVars, cntpct, notification, archive,
                 not_archived>>

\* drain_trace(): the test of the loop
DrainTest ==
  /\ tpc = "drain"
  /\ tpc' = IF tail = head THEN "dispatch" ELSE "archive"
  /\ UNCHANGED <<ringVars, emitVars, cntpct, notification, pending, archive,
                 not_archived>>

\* Mutant: a full archive loses the record without counting it.
ArchiveRecord_Uncounted ==
  /\ tpc = "archive"
  /\ tpc' = "advance"
  /\ archive' = IF Len(archive) = ArchiveCapacity THEN archive
                ELSE Append(archive, records[Slot(tail)])
  /\ UNCHANGED <<not_archived, ringVars, emitVars, cntpct, notification,
                 pending>>

ArchiveRecord ==
  /\ tpc = "archive"
  /\ tpc' = "advance"
  /\ IF Len(archive) = ArchiveCapacity
       THEN not_archived' = not_archived + 1 /\ UNCHANGED archive
       ELSE /\ archive' = Append(archive, records[Slot(tail)])
            /\ UNCHANGED not_archived
  /\ UNCHANGED <<ringVars, emitVars, cntpct, notification, pending>>

AdvanceTail ==
  /\ tpc = "advance"
  /\ tpc' = "drain"
  /\ tail' = tail + 1
  /\ UNCHANGED <<head, next_seq, producer_lock, records, emitVars, cntpct,
                 notification, pending, archive, not_archived>>

Tracer == Receive \/ Dispatch \/ DrainTest \/ ArchiveRecord \/ AdvanceTail

Next == Tracer \/ \E p \in Producers : Emit(p)

Spec == Init /\ [][Next]_vars

\* Each protection domain has a core to itself (vmm/caiman.system.S), so each
\* keeps taking its next step.  Nothing is assumed of who wins the lock, and
\* nobody has to call trace_emit.
ProducerRuns(p) == Emit(p) /\ ~Call(p)
FairSpec ==
  /\ Spec
  /\ WF_vars(Tracer)
  /\ \A p \in Producers : WF_vars(ProducerRuns(p))
-----------------------------------------------------------------------------
(* Properties *)

TypeOK ==
  /\ head \in Nat /\ tail \in Nat /\ next_seq \in Nat /\ cntpct \in Nat
  /\ producer_lock \in {0, 1}
  /\ records \in [Slots -> Record \cup {NoRecord}]
  /\ pc \in [Producers -> {"idle", "lock", "head", "space", "seq", "time",
                           "copy", "publish", "unlock", "notify"}]
  /\ myhead \in [Producers -> Nat]
  /\ rec \in [Producers -> Record \cup {NoRecord}]
  /\ calls \in [Producers -> Nat]
  /\ notification \subseteq Producers /\ pending \subseteq Producers
  /\ tpc \in {"recv", "dispatch", "drain", "archive", "advance"}
  /\ archive \in Seq(Record) /\ not_archived \in Nat

\* A slot is never written while the tracer reads it, and never by two
\* producers at once: the plain structure copies of trace_emit and
\* archive_record are ordered by the indices and the lock.
NoSlotRace ==
  \A p \in Producers : pc[p] = "copy" =>
    /\ tpc = "archive" => Slot(myhead[p]) # Slot(tail)
    /\ \A q \in Producers \ {p} : pc[q] # "copy"

\* "A dump is always a gapless prefix of the trace" (docs/trace-format.md:13)
\* and "`time` never decreases as `seq` increases, across producers" (:123):
\* the archive holds seq 0, 1, 2, ... in order with non-decreasing times.
GaplessPrefix ==
  \A i \in 1 .. Len(archive) :
    /\ archive[i].seq = i - 1
    /\ i > 1 => archive[i - 1].time <= archive[i].time

\* "Nothing is dropped" (docs/trace-format.md:121): whatever the tracer has
\* taken from the ring is in the archive or, if that is full, counted.
NothingDropped ==
  /\ Len(archive) + not_archived = tail + (IF tpc = "advance" THEN 1 ELSE 0)
  /\ not_archived > 0 => Len(archive) = ArchiveCapacity

\* No lost wake-up: a tracer about to sleep with no notification pending
\* leaves published records behind only if their producer has yet to notify.
NoLostWakeup ==
  tpc = "recv" /\ notification = {} /\ tail # head =>
    \E p \in Producers : pc[p] \in {"unlock", "notify"}

\* Every published record is eventually taken from the ring.
EverythingDrained ==
  \A k \in 1 .. (MaxEmits * Cardinality(Producers)) : (head >= k) ~> (tail >= k)

\* A producer that waits for space, or is anywhere else inside the lock,
\* gets out of trace_emit: waiting with the lock held blocks nobody for ever.
LockReleased ==
  \A p \in Producers :
    (pc[p] \in {"head", "space", "seq", "time", "copy", "publish", "unlock"})
      ~> (pc[p] = "idle")

\* The trace as documented, implemented by the ring: the queue is what lies
\* between tail and head, less the record that is archived already while the
\* tracer is about to advance tail.
First == tail + (IF tpc = "advance" THEN 1 ELSE 0)
LogQueue == [i \in 1 .. (head - First) |-> records[Slot(First + i - 1)]]
LogIssued ==
  [p \in Producers |->
     calls[p] - (IF pc[p] \in {"idle", "unlock", "notify"} THEN 0 ELSE 1)]

Log == INSTANCE TraceLog WITH
  queue <- LogQueue, clock <- cntpct, issued <- LogIssued

\* Every behaviour of the ring is a behaviour of the documented trace.
ImplementsTraceLog == Log!Spec
-----------------------------------------------------------------------------
(* The inductive invariant behind the properties (TraceRingProofs) *)

Critical == {"head", "space", "seq", "time", "copy", "publish", "unlock"}
Numbered == {"time", "copy", "publish"}
InRing   == tail .. (head - 1)

LockInv ==
  /\ \A p \in Producers : pc[p] \in Critical => producer_lock = 1
  /\ \A p, q \in Producers :
       pc[p] \in Critical /\ pc[q] \in Critical => p = q

HeadInv ==
  \A p \in Producers :
    pc[p] \in {"space", "seq"} \cup Numbered => myhead[p] = head

SpaceInv ==
  /\ tail <= head
  /\ head - tail <= RingCapacity
  /\ \A p \in Producers :
       pc[p] \in {"seq"} \cup Numbered => head - tail < RingCapacity
  /\ tpc \in {"archive", "advance"} => tail < head

SeqInv ==
  /\ (\A p \in Producers : pc[p] \notin Numbered) => next_seq = head
  /\ \A p \in Producers : pc[p] \in Numbered =>
       /\ next_seq = head + 1
       /\ rec[p] \in Record
       /\ rec[p].seq = head
       /\ rec[p].producer = p
       /\ rec[p].call = calls[p]

SlotInv ==
  /\ \A i \in InRing :
       records[Slot(i)] \in Record /\ records[Slot(i)].seq = i
  /\ \A p \in Producers : pc[p] = "publish" => records[Slot(head)] = rec[p]

ArchiveInv ==
  /\ NothingDropped
  /\ Len(archive) <= ArchiveCapacity
  /\ \A k \in 1 .. Len(archive) : archive[k].seq = k - 1

TimeInv ==
  /\ \A p \in Producers : pc[p] \in {"copy", "publish"} => rec[p].time = cntpct
  /\ \A i \in InRing : records[Slot(i)].time <= cntpct
  /\ \A k \in 1 .. Len(archive) : archive[k].time <= cntpct
  /\ \A i, j \in InRing :
       i <= j => records[Slot(i)].time <= records[Slot(j)].time
  /\ \A k \in 1 .. Len(archive) : \A i \in InRing :
       archive[k].time <= records[Slot(i)].time
  /\ \A k, l \in 1 .. Len(archive) :
       k <= l => archive[k].time <= archive[l].time

\* NoLostWakeup, from the moment the tracer has run out of channels to serve.
WakeInv ==
  /\ tpc \in {"recv", "dispatch"}
  /\ tpc = "dispatch" => pending = {}
  /\ notification = {}
  /\ tail # head
  => \E p \in Producers : pc[p] \in {"unlock", "notify"}

\* The lock and the two indices give every slot one owner at a time, so what
\* lies between tail and head is a gapless, time-ordered run of records that
\* the archive continues.
RingInvariant ==
  /\ TypeOK /\ LockInv /\ HeadInv /\ SpaceInv /\ SeqInv /\ SlotInv
  /\ ArchiveInv /\ TimeInv /\ WakeInv
=============================================================================
