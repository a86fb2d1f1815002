-------------------------- MODULE TraceRingProofs --------------------------
(***************************************************************************)
(* Proofs about TraceRing, for any set of producers, any ring and archive  *)
(* capacity and any number of calls.  RingInvariant is inductive: one      *)
(* lemma per conjunct shows that every step preserves it, and the          *)
(* properties follow from it.  The last part proves that TraceRing         *)
(* implements TraceLog.                                                    *)
(***************************************************************************)
EXTENDS TraceRing, SequenceTheorems, TLAPS

(* Slots: indices less than a capacity apart use different slots *)

\* Two numbers less than C apart have different remainders.
LEMMA ModNe ==
  ASSUME NEW C \in Nat \ {0}, NEW i \in Nat, NEW j \in Nat, i < j, j - i < C
  PROVE  i % C # j % C
<1>1. ASSUME NEW n \in Nat
      PROVE  \E q \in Nat : n = C * q + (n % C)
  <2>1. n \div C \in Nat /\ n = C * (n \div C) + (n % C)
    BY SMT
  <2> QED
    BY <2>1
<1>2. PICK a \in Nat, b \in Nat : i = C * a + (i % C) /\ j = C * b + (j % C)
  BY <1>1
<1>3. i % C = j % C => j - i = C * (b - a)
  BY <1>2
<1>4. b - a >= 1 => C * (b - a) >= C
  OBVIOUS
<1>5. b - a <= 0 => C * (b - a) <= 0
  OBVIOUS
<1>6. b - a >= 1 \/ b - a <= 0
  OBVIOUS
<1> QED
  BY <1>3, <1>4, <1>5, <1>6

\* The slots of struct trace_ring: records[head % TRACE_RING_CAPACITY].
LEMMA SlotFacts ==
  /\ \A i \in Nat : Slot(i) \in Slots
  /\ \A i, j \in Nat : i < j /\ j - i < RingCapacity => Slot(i) # Slot(j)
<1>1. RingCapacity \in Nat \ {0}
  BY RingAssumption
<1>2. \A i \in Nat : i % RingCapacity \in 0 .. (RingCapacity - 1)
  BY <1>1
<1> QED
  BY <1>1, <1>2, ModNe DEF Slot, Slots

\* Stamping a record changes its time only.
LEMMA Stamp ==
  ASSUME NEW r \in Record, NEW t \in Nat
  PROVE  LET s == [r EXCEPT !.time = t]
         IN  /\ s \in Record /\ s.time = t /\ s.seq = r.seq
             /\ s.producer = r.producer /\ s.call = r.call
BY DEF Record

\* The elements of a sequence after Append.
LEMMA AppendCases ==
  ASSUME NEW a \in Seq(Record), NEW r \in Record,
         NEW k \in 1 .. Len(Append(a, r))
  PROVE  \/ k \in 1 .. Len(a) /\ Append(a, r)[k] = a[k]
         \/ k = Len(a) + 1 /\ Append(a, r)[k] = r
OBVIOUS

\* Appending the record numbered Len(a) keeps the numbers gapless.
LEMMA AppendNumbered ==
  ASSUME NEW a \in Seq(Record), NEW r \in Record, r.seq = Len(a),
         \A k \in 1 .. Len(a) : a[k].seq = k - 1
  PROVE  \A k \in 1 .. Len(Append(a, r)) : Append(a, r)[k].seq = k - 1
<1> TAKE k \in 1 .. Len(Append(a, r))
<1>1. Len(a) \in Nat
  OBVIOUS
<1>2. CASE k \in 1 .. Len(a) /\ Append(a, r)[k] = a[k]
  BY <1>2
<1>3. CASE k = Len(a) + 1 /\ Append(a, r)[k] = r
  BY <1>1, <1>3
<1> QED
  BY <1>2, <1>3, AppendCases

\* Appending a record no older than the others keeps the times ordered.
LEMMA AppendOrdered ==
  ASSUME NEW a \in Seq(Record), NEW r \in Record,
         \A k \in 1 .. Len(a) : a[k].time <= r.time,
         \A k, l \in 1 .. Len(a) : k <= l => a[k].time <= a[l].time
  PROVE  \A k, l \in 1 .. Len(Append(a, r)) :
           k <= l => Append(a, r)[k].time <= Append(a, r)[l].time
<1> DEFINE b == Append(a, r)
<1> TAKE k, l \in 1 .. Len(b)
<1> HAVE k <= l
<1>1. r.time \in Nat /\ Len(a) \in Nat
  BY DEF Record
<1>2. \/ k \in 1 .. Len(a) /\ b[k] = a[k]
      \/ k = Len(a) + 1 /\ b[k] = r
  BY AppendCases
<1>3. \/ l \in 1 .. Len(a) /\ b[l] = a[l]
      \/ l = Len(a) + 1 /\ b[l] = r
  BY AppendCases
<1> HIDE DEF b
<1> QED
  BY <1>1, <1>2, <1>3
\* Every time the tracer or a producer compares is a number.
LEMMA TimesAreNat ==
  RingInvariant =>
    /\ \A i \in InRing : records[Slot(i)].time \in Nat
    /\ \A k \in 1 .. Len(archive) : archive[k].time \in Nat
<1> SUFFICES ASSUME RingInvariant
             PROVE  /\ \A i \in InRing : records[Slot(i)].time \in Nat
                    /\ \A k \in 1 .. Len(archive) : archive[k].time \in Nat
  OBVIOUS
<1>1. \A i \in InRing : records[Slot(i)] \in Record
  BY DEF RingInvariant, SlotInv
<1>2. archive \in Seq(Record)
  BY DEF RingInvariant, TypeOK
<1>3. \A k \in 1 .. Len(archive) : archive[k] \in Record
  BY <1>2
<1>4. \A r \in Record : r.time \in Nat
  BY DEF Record
<1> QED
  BY <1>1, <1>3, <1>4

-----------------------------------------------------------------------------
(* Every step preserves each conjunct of the invariant *)

\* Types: what archive_record copies is a record because the slot lies
\* between tail and head.
LEMMA TypeOKStep == RingInvariant /\ [Next]_vars => TypeOK'
<1> SUFFICES ASSUME RingInvariant, [Next]_vars PROVE TypeOK'
  OBVIOUS
<1> USE RingAssumption DEF RingInvariant, Step, vars, ringVars, emitVars,
          tracerVars, TypeOK
<1>1. ASSUME NEW p \in Producers, Call(p) PROVE TypeOK'
  BY <1>1 DEF Call
<1>2. ASSUME NEW p \in Producers, ProducerLock(p) PROVE TypeOK'
  BY <1>2 DEF ProducerLock
<1>3. ASSUME NEW p \in Producers, LoadHead(p) PROVE TypeOK'
  BY <1>3 DEF LoadHead
<1>4. ASSUME NEW p \in Producers, WaitForSpace(p) PROVE TypeOK'
  BY <1>4 DEF WaitForSpace
<1>5. ASSUME NEW p \in Producers, SpaceFound(p) PROVE TypeOK'
  BY <1>5 DEF SpaceFound
<1>6. ASSUME NEW p \in Producers, TakeSeq(p) PROVE TypeOK'
  <2>1. rec'[p] \in Record
    BY <1>6 DEF TakeSeq, Record
  <2> QED
    BY <2>1, <1>6 DEF TakeSeq
<1>7. ASSUME NEW p \in Producers, ReadTime(p) PROVE TypeOK'
  <2>1. PICK t \in {cntpct, cntpct + 1} :
          cntpct' = t /\ rec' = [rec EXCEPT ![p] = [rec[p] EXCEPT !.time = t]]
    BY <1>7 DEF ReadTime
  <2>2. rec[p] \in Record
    BY <1>7 DEF ReadTime, SeqInv, Numbered
  <2>3. rec'[p] \in Record /\ cntpct' \in Nat
    BY <2>1, <2>2, Stamp
  <2> QED
    BY <2>1, <2>3, <1>7 DEF ReadTime
<1>8. ASSUME NEW p \in Producers, Copy(p) PROVE TypeOK'
  BY <1>8, SlotFacts DEF Copy
<1>9. ASSUME NEW p \in Producers, PublishHead(p) PROVE TypeOK'
  BY <1>9 DEF PublishHead
<1>10. ASSUME NEW p \in Producers, ProducerUnlock(p) PROVE TypeOK'
  BY <1>10 DEF ProducerUnlock
<1>11. ASSUME NEW p \in Producers, Notify(p) PROVE TypeOK'
  BY <1>11 DEF Notify
<1>12. CASE Receive
  BY <1>12 DEF Receive
<1>13. CASE Dispatch
  BY <1>13 DEF Dispatch
<1>14. CASE DrainTest
  BY <1>14 DEF DrainTest
<1>15. CASE ArchiveRecord
  <2>1. records[Slot(tail)] \in Record
    BY <1>15 DEF ArchiveRecord, SlotInv, SpaceInv, InRing
  <2>2. CASE Len(archive) = ArchiveCapacity
    BY <2>2, <1>15 DEF ArchiveRecord
  <2>3. CASE Len(archive) # ArchiveCapacity
    <3>1. archive' = Append(archive, records[Slot(tail)])
      BY <2>3, <1>15 DEF ArchiveRecord
    <3>2. archive' \in Seq(Record)
      BY <2>1, <3>1
    <3> QED
      BY <2>3, <3>2, <1>15 DEF ArchiveRecord
  <2> QED
    BY <2>2, <2>3
<1>16. CASE AdvanceTail
  BY <1>16 DEF AdvanceTail
<1>17. CASE UNCHANGED vars
  BY <1>17
<1> QED
  BY <1>1, <1>2, <1>3, <1>4, <1>5, <1>6, <1>7, <1>8, <1>9, <1>10, <1>11,
     <1>12, <1>13, <1>14, <1>15, <1>16, <1>17 DEF Next, Emit, Tracer

\* Mutual exclusion: producer_lock() lets one producer in,
\* producer_unlock() is the only way out.
LEMMA LockInvStep == RingInvariant /\ [Next]_vars => LockInv'
<1> SUFFICES ASSUME RingInvariant, [Next]_vars PROVE LockInv'
  OBVIOUS
<1> USE RingAssumption DEF RingInvariant, Step, vars, ringVars, emitVars,
          tracerVars, TypeOK, LockInv, Critical
<1>1. ASSUME NEW p \in Producers, Call(p) PROVE LockInv'
  BY <1>1 DEF Call
<1>2. ASSUME NEW p \in Producers, ProducerLock(p) PROVE LockInv'
  BY <1>2 DEF ProducerLock
<1>3. ASSUME NEW p \in Producers, LoadHead(p) PROVE LockInv'
  BY <1>3 DEF LoadHead
<1>4. ASSUME NEW p \in Producers, WaitForSpace(p) PROVE LockInv'
  BY <1>4 DEF WaitForSpace
<1>5. ASSUME NEW p \in Producers, SpaceFound(p) PROVE LockInv'
  BY <1>5 DEF SpaceFound
<1>6. ASSUME NEW p \in Producers, TakeSeq(p) PROVE LockInv'
  BY <1>6 DEF TakeSeq
<1>7. ASSUME NEW p \in Producers, ReadTime(p) PROVE LockInv'
  BY <1>7 DEF ReadTime
<1>8. ASSUME NEW p \in Producers, Copy(p) PROVE LockInv'
  BY <1>8 DEF Copy
<1>9. ASSUME NEW p \in Producers, PublishHead(p) PROVE LockInv'
  BY <1>9 DEF PublishHead
<1>10. ASSUME NEW p \in Producers, ProducerUnlock(p) PROVE LockInv'
  BY <1>10 DEF ProducerUnlock
<1>11. ASSUME NEW p \in Producers, Notify(p) PROVE LockInv'
  BY <1>11 DEF Notify
<1>12. CASE Receive
  BY <1>12 DEF Receive
<1>13. CASE Dispatch
  BY <1>13 DEF Dispatch
<1>14. CASE DrainTest
  BY <1>14 DEF DrainTest
<1>15. CASE ArchiveRecord
  BY <1>15 DEF ArchiveRecord
<1>16. CASE AdvanceTail
  BY <1>16 DEF AdvanceTail
<1>17. CASE UNCHANGED vars
  BY <1>17
<1> QED
  BY <1>1, <1>2, <1>3, <1>4, <1>5, <1>6, <1>7, <1>8, <1>9, <1>10, <1>11,
     <1>12, <1>13, <1>14, <1>15, <1>16, <1>17 DEF Next, Emit, Tracer

\* Only the producer that holds the lock moves head, so its local copy
\* stays current.
LEMMA HeadInvStep == RingInvariant /\ [Next]_vars => HeadInv'
<1> SUFFICES ASSUME RingInvariant, [Next]_vars PROVE HeadInv'
  OBVIOUS
<1> USE RingAssumption DEF RingInvariant, Step, vars, ringVars, emitVars,
          tracerVars, TypeOK, LockInv, HeadInv, Critical, Numbered
<1>1. ASSUME NEW p \in Producers, Call(p) PROVE HeadInv'
  BY <1>1 DEF Call
<1>2. ASSUME NEW p \in Producers, ProducerLock(p) PROVE HeadInv'
  BY <1>2 DEF ProducerLock
<1>3. ASSUME NEW p \in Producers, LoadHead(p) PROVE HeadInv'
  BY <1>3 DEF LoadHead
<1>4. ASSUME NEW p \in Producers, WaitForSpace(p) PROVE HeadInv'
  BY <1>4 DEF WaitForSpace
<1>5. ASSUME NEW p \in Producers, SpaceFound(p) PROVE HeadInv'
  BY <1>5 DEF SpaceFound
<1>6. ASSUME NEW p \in Producers, TakeSeq(p) PROVE HeadInv'
  BY <1>6 DEF TakeSeq
<1>7. ASSUME NEW p \in Producers, ReadTime(p) PROVE HeadInv'
  BY <1>7 DEF ReadTime
<1>8. ASSUME NEW p \in Producers, Copy(p) PROVE HeadInv'
  BY <1>8 DEF Copy
<1>9. ASSUME NEW p \in Producers, PublishHead(p) PROVE HeadInv'
  BY <1>9 DEF PublishHead
<1>10. ASSUME NEW p \in Producers, ProducerUnlock(p) PROVE HeadInv'
  BY <1>10 DEF ProducerUnlock
<1>11. ASSUME NEW p \in Producers, Notify(p) PROVE HeadInv'
  BY <1>11 DEF Notify
<1>12. CASE Receive
  BY <1>12 DEF Receive
<1>13. CASE Dispatch
  BY <1>13 DEF Dispatch
<1>14. CASE DrainTest
  BY <1>14 DEF DrainTest
<1>15. CASE ArchiveRecord
  BY <1>15 DEF ArchiveRecord
<1>16. CASE AdvanceTail
  BY <1>16 DEF AdvanceTail
<1>17. CASE UNCHANGED vars
  BY <1>17
<1> QED
  BY <1>1, <1>2, <1>3, <1>4, <1>5, <1>6, <1>7, <1>8, <1>9, <1>10, <1>11,
     <1>12, <1>13, <1>14, <1>15, <1>16, <1>17 DEF Next, Emit, Tracer

\* The ring never holds more than its capacity, and the space that
\* wait_for_space() found stays there.
LEMMA SpaceInvStep == RingInvariant /\ [Next]_vars => SpaceInv'
<1> SUFFICES ASSUME RingInvariant, [Next]_vars PROVE SpaceInv'
  OBVIOUS
<1> USE RingAssumption DEF RingInvariant, Step, vars, ringVars, emitVars,
          tracerVars, TypeOK, LockInv, HeadInv, SpaceInv, Critical, Numbered
<1>1. ASSUME NEW p \in Producers, Call(p) PROVE SpaceInv'
  BY <1>1 DEF Call
<1>2. ASSUME NEW p \in Producers, ProducerLock(p) PROVE SpaceInv'
  BY <1>2 DEF ProducerLock
<1>3. ASSUME NEW p \in Producers, LoadHead(p) PROVE SpaceInv'
  BY <1>3 DEF LoadHead
<1>4. ASSUME NEW p \in Producers, WaitForSpace(p) PROVE SpaceInv'
  BY <1>4 DEF WaitForSpace
<1>5. ASSUME NEW p \in Producers, SpaceFound(p) PROVE SpaceInv'
  BY <1>5 DEF SpaceFound
<1>6. ASSUME NEW p \in Producers, TakeSeq(p) PROVE SpaceInv'
  BY <1>6 DEF TakeSeq
<1>7. ASSUME NEW p \in Producers, ReadTime(p) PROVE SpaceInv'
  BY <1>7 DEF ReadTime
<1>8. ASSUME NEW p \in Producers, Copy(p) PROVE SpaceInv'
  BY <1>8 DEF Copy
<1>9. ASSUME NEW p \in Producers, PublishHead(p) PROVE SpaceInv'
  BY <1>9 DEF PublishHead
<1>10. ASSUME NEW p \in Producers, ProducerUnlock(p) PROVE SpaceInv'
  BY <1>10 DEF ProducerUnlock
<1>11. ASSUME NEW p \in Producers, Notify(p) PROVE SpaceInv'
  BY <1>11 DEF Notify
<1>12. CASE Receive
  BY <1>12 DEF Receive
<1>13. CASE Dispatch
  BY <1>13 DEF Dispatch
<1>14. CASE DrainTest
  BY <1>14 DEF DrainTest
<1>15. CASE ArchiveRecord
  BY <1>15 DEF ArchiveRecord
<1>16. CASE AdvanceTail
  BY <1>16 DEF AdvanceTail
<1>17. CASE UNCHANGED vars
  BY <1>17
<1> QED
  BY <1>1, <1>2, <1>3, <1>4, <1>5, <1>6, <1>7, <1>8, <1>9, <1>10, <1>11,
     <1>12, <1>13, <1>14, <1>15, <1>16, <1>17 DEF Next, Emit, Tracer

\* A record's number is its index in the ring: next_seq runs ahead of head
\* only between taking the number and publishing it.
LEMMA SeqInvStep == RingInvariant /\ [Next]_vars => SeqInv'
<1> SUFFICES ASSUME RingInvariant, [Next]_vars PROVE SeqInv'
  OBVIOUS
<1> USE RingAssumption DEF RingInvariant, Step, vars, ringVars, emitVars,
          tracerVars, TypeOK, LockInv, HeadInv, SeqInv, Critical, Numbered
<1>1. ASSUME NEW p \in Producers, Call(p) PROVE SeqInv'
  BY <1>1 DEF Call
<1>2. ASSUME NEW p \in Producers, ProducerLock(p) PROVE SeqInv'
  BY <1>2 DEF ProducerLock
<1>3. ASSUME NEW p \in Producers, LoadHead(p) PROVE SeqInv'
  BY <1>3 DEF LoadHead
<1>4. ASSUME NEW p \in Producers, WaitForSpace(p) PROVE SeqInv'
  BY <1>4 DEF WaitForSpace
<1>5. ASSUME NEW p \in Producers, SpaceFound(p) PROVE SeqInv'
  BY <1>5 DEF SpaceFound
<1>6. ASSUME NEW p \in Producers, TakeSeq(p) PROVE SeqInv'
  <2>1. /\ rec'[p] \in Record /\ rec'[p].seq = next_seq
        /\ rec'[p].producer = p /\ rec'[p].call = calls[p]
    BY <1>6 DEF TakeSeq, Record
  <2> QED
    BY <2>1, <1>6 DEF TakeSeq
<1>7. ASSUME NEW p \in Producers, ReadTime(p) PROVE SeqInv'
  <2>1. PICK t \in {cntpct, cntpct + 1} :
          cntpct' = t /\ rec' = [rec EXCEPT ![p] = [rec[p] EXCEPT !.time = t]]
    BY <1>7 DEF ReadTime
  <2>2. rec[p] \in Record /\ t \in Nat
    BY <1>7 DEF ReadTime
  <2>3. /\ rec'[p] \in Record /\ rec'[p].seq = rec[p].seq
        /\ rec'[p].producer = rec[p].producer /\ rec'[p].call = rec[p].call
    BY <2>1, <2>2, Stamp
  <2> QED
    BY <2>1, <2>3, <1>7 DEF ReadTime
<1>8. ASSUME NEW p \in Producers, Copy(p) PROVE SeqInv'
  BY <1>8 DEF Copy
<1>9. ASSUME NEW p \in Producers, PublishHead(p) PROVE SeqInv'
  BY <1>9 DEF PublishHead
<1>10. ASSUME NEW p \in Producers, ProducerUnlock(p) PROVE SeqInv'
  BY <1>10 DEF ProducerUnlock
<1>11. ASSUME NEW p \in Producers, Notify(p) PROVE SeqInv'
  BY <1>11 DEF Notify
<1>12. CASE Receive
  BY <1>12 DEF Receive
<1>13. CASE Dispatch
  BY <1>13 DEF Dispatch
<1>14. CASE DrainTest
  BY <1>14 DEF DrainTest
<1>15. CASE ArchiveRecord
  BY <1>15 DEF ArchiveRecord
<1>16. CASE AdvanceTail
  BY <1>16 DEF AdvanceTail
<1>17. CASE UNCHANGED vars
  BY <1>17
<1> QED
  BY <1>1, <1>2, <1>3, <1>4, <1>5, <1>6, <1>7, <1>8, <1>9, <1>10, <1>11,
     <1>12, <1>13, <1>14, <1>15, <1>16, <1>17 DEF Next, Emit, Tracer

\* What lies between tail and head is what was published there: the copy
\* goes to a slot that no unread record uses.
LEMMA SlotInvStep == RingInvariant /\ [Next]_vars => SlotInv'
<1> SUFFICES ASSUME RingInvariant, [Next]_vars PROVE SlotInv'
  OBVIOUS
<1> USE RingAssumption DEF RingInvariant, Step, vars, ringVars, emitVars,
          tracerVars, TypeOK, LockInv, HeadInv, SpaceInv, SeqInv, SlotInv,
          InRing, Critical, Numbered
<1>1. ASSUME NEW p \in Producers, Call(p) PROVE SlotInv'
  BY <1>1 DEF Call
<1>2. ASSUME NEW p \in Producers, ProducerLock(p) PROVE SlotInv'
  BY <1>2 DEF ProducerLock
<1>3. ASSUME NEW p \in Producers, LoadHead(p) PROVE SlotInv'
  BY <1>3 DEF LoadHead
<1>4. ASSUME NEW p \in Producers, WaitForSpace(p) PROVE SlotInv'
  BY <1>4 DEF WaitForSpace
<1>5. ASSUME NEW p \in Producers, SpaceFound(p) PROVE SlotInv'
  BY <1>5 DEF SpaceFound
<1>6. ASSUME NEW p \in Producers, TakeSeq(p) PROVE SlotInv'
  BY <1>6 DEF TakeSeq
<1>7. ASSUME NEW p \in Producers, ReadTime(p) PROVE SlotInv'
  BY <1>7 DEF ReadTime
<1>8. ASSUME NEW p \in Producers, Copy(p) PROVE SlotInv'
  BY <1>8, SlotFacts DEF Copy
<1>9. ASSUME NEW p \in Producers, PublishHead(p) PROVE SlotInv'
  BY <1>9 DEF PublishHead
<1>10. ASSUME NEW p \in Producers, ProducerUnlock(p) PROVE SlotInv'
  BY <1>10 DEF ProducerUnlock
<1>11. ASSUME NEW p \in Producers, Notify(p) PROVE SlotInv'
  BY <1>11 DEF Notify
<1>12. CASE Receive
  BY <1>12 DEF Receive
<1>13. CASE Dispatch
  BY <1>13 DEF Dispatch
<1>14. CASE DrainTest
  BY <1>14 DEF DrainTest
<1>15. CASE ArchiveRecord
  BY <1>15 DEF ArchiveRecord
<1>16. CASE AdvanceTail
  BY <1>16 DEF AdvanceTail
<1>17. CASE UNCHANGED vars
  BY <1>17
<1> QED
  BY <1>1, <1>2, <1>3, <1>4, <1>5, <1>6, <1>7, <1>8, <1>9, <1>10, <1>11,
     <1>12, <1>13, <1>14, <1>15, <1>16, <1>17 DEF Next, Emit, Tracer

\* The tracer stores or counts each record once, before it releases the
\* slot.
LEMMA ArchiveInvStep == RingInvariant /\ [Next]_vars => ArchiveInv'
<1> SUFFICES ASSUME RingInvariant, [Next]_vars PROVE ArchiveInv'
  OBVIOUS
<1> USE RingAssumption DEF RingInvariant, Step, vars, ringVars, emitVars,
          tracerVars, TypeOK, SpaceInv, ArchiveInv, NothingDropped
<1>1. ASSUME NEW p \in Producers, Call(p) PROVE ArchiveInv'
  BY <1>1 DEF Call
<1>2. ASSUME NEW p \in Producers, ProducerLock(p) PROVE ArchiveInv'
  BY <1>2 DEF ProducerLock
<1>3. ASSUME NEW p \in Producers, LoadHead(p) PROVE ArchiveInv'
  BY <1>3 DEF LoadHead
<1>4. ASSUME NEW p \in Producers, WaitForSpace(p) PROVE ArchiveInv'
  BY <1>4 DEF WaitForSpace
<1>5. ASSUME NEW p \in Producers, SpaceFound(p) PROVE ArchiveInv'
  BY <1>5 DEF SpaceFound
<1>6. ASSUME NEW p \in Producers, TakeSeq(p) PROVE ArchiveInv'
  BY <1>6 DEF TakeSeq
<1>7. ASSUME NEW p \in Producers, ReadTime(p) PROVE ArchiveInv'
  BY <1>7 DEF ReadTime
<1>8. ASSUME NEW p \in Producers, Copy(p) PROVE ArchiveInv'
  BY <1>8 DEF Copy
<1>9. ASSUME NEW p \in Producers, PublishHead(p) PROVE ArchiveInv'
  BY <1>9 DEF PublishHead
<1>10. ASSUME NEW p \in Producers, ProducerUnlock(p) PROVE ArchiveInv'
  BY <1>10 DEF ProducerUnlock
<1>11. ASSUME NEW p \in Producers, Notify(p) PROVE ArchiveInv'
  BY <1>11 DEF Notify
<1>12. CASE Receive
  BY <1>12 DEF Receive
<1>13. CASE Dispatch
  BY <1>13 DEF Dispatch
<1>14. CASE DrainTest
  BY <1>14 DEF DrainTest
<1>15. CASE ArchiveRecord
  <2>1. records[Slot(tail)] \in Record /\ records[Slot(tail)].seq = tail
    BY <1>15 DEF ArchiveRecord, SlotInv, InRing
  <2>2. /\ archive \in Seq(Record) /\ Len(archive) \in Nat
        /\ tail' = tail /\ tpc = "archive" /\ tpc' = "advance"
        /\ tail \in Nat /\ not_archived \in Nat
    BY <1>15 DEF ArchiveRecord
  <2>3. CASE Len(archive) = ArchiveCapacity
    <3>1. archive' = archive /\ not_archived' = not_archived + 1
      BY <2>3, <1>15 DEF ArchiveRecord
    <3>2. Len(archive) + not_archived = tail
      BY <2>2
    <3>3. Len(archive') + not_archived' = tail' + 1
      BY ONLY <2>2, <3>1, <3>2
    <3> QED
      BY <2>2, <2>3, <3>1, <3>3
  <2>4. CASE Len(archive) # ArchiveCapacity
    <3>1. /\ archive' = Append(archive, records[Slot(tail)])
          /\ not_archived' = not_archived
      BY <2>4, <1>15 DEF ArchiveRecord
    <3>2. Len(archive) = tail /\ not_archived = 0
      BY <2>2, <2>4
    <3>3. \A k \in 1 .. Len(archive') : archive'[k].seq = k - 1
      BY <2>1, <2>2, <3>1, <3>2, AppendNumbered
    <3>4. Len(archive') = Len(archive) + 1
      BY <2>1, <2>2, <3>1
    <3> QED
      BY <2>2, <2>4, <3>1, <3>2, <3>3, <3>4
  <2> QED
    BY <2>3, <2>4
<1>16. CASE AdvanceTail
  BY <1>16 DEF AdvanceTail
<1>17. CASE UNCHANGED vars
  BY <1>17
<1> QED
  BY <1>1, <1>2, <1>3, <1>4, <1>5, <1>6, <1>7, <1>8, <1>9, <1>10, <1>11,
     <1>12, <1>13, <1>14, <1>15, <1>16, <1>17 DEF Next, Emit, Tracer

\* Records are stamped inside the lock, so a later number never carries an
\* earlier time.
LEMMA TimeInvStep == RingInvariant /\ [Next]_vars => TimeInv'
<1> SUFFICES ASSUME RingInvariant, [Next]_vars PROVE TimeInv'
  OBVIOUS
<1> USE RingAssumption DEF RingInvariant, Step, vars, ringVars, emitVars,
          tracerVars, TypeOK, LockInv, HeadInv, SpaceInv, SlotInv, TimeInv,
          InRing, Critical, Numbered
<1>1. ASSUME NEW p \in Producers, Call(p) PROVE TimeInv'
  BY <1>1 DEF Call
<1>2. ASSUME NEW p \in Producers, ProducerLock(p) PROVE TimeInv'
  BY <1>2 DEF ProducerLock
<1>3. ASSUME NEW p \in Producers, LoadHead(p) PROVE TimeInv'
  BY <1>3 DEF LoadHead
<1>4. ASSUME NEW p \in Producers, WaitForSpace(p) PROVE TimeInv'
  BY <1>4 DEF WaitForSpace
<1>5. ASSUME NEW p \in Producers, SpaceFound(p) PROVE TimeInv'
  BY <1>5 DEF SpaceFound
<1>6. ASSUME NEW p \in Producers, TakeSeq(p) PROVE TimeInv'
  BY <1>6 DEF TakeSeq
<1>7. ASSUME NEW p \in Producers, ReadTime(p) PROVE TimeInv'
  <2>1. PICK t \in {cntpct, cntpct + 1} :
          cntpct' = t /\ rec' = [rec EXCEPT ![p] = [rec[p] EXCEPT !.time = t]]
    BY <1>7 DEF ReadTime
  <2>2. rec[p] \in Record /\ t \in Nat /\ t >= cntpct
    BY <1>7 DEF ReadTime, SeqInv
  <2>3. rec'[p].time = t
    BY <2>1, <2>2, Stamp
  <2>4. /\ \A i \in InRing : records[Slot(i)].time <= t
        /\ \A k \in 1 .. Len(archive) : archive[k].time <= t
    BY <2>2, TimesAreNat
  <2> QED
    BY <2>1, <2>3, <2>4, <1>7 DEF ReadTime
<1>8. ASSUME NEW p \in Producers, Copy(p) PROVE TimeInv'
  <2>1. \A i \in InRing : records'[Slot(i)] = records[Slot(i)]
    BY <1>8, SlotFacts DEF Copy
  <2>2. /\ InRing' = InRing /\ archive' = archive /\ cntpct' = cntpct
        /\ \A q \in Producers :
             pc'[q] \in {"copy", "publish"} => pc[q] \in {"copy", "publish"}
        /\ rec' = rec
    BY <1>8 DEF Copy
  <2> QED
    BY <2>1, <2>2
<1>9. ASSUME NEW p \in Producers, PublishHead(p) PROVE TimeInv'
  <2>1. /\ head' = head + 1 /\ tail' = tail /\ records' = records
        /\ archive' = archive /\ cntpct' = cntpct /\ rec' = rec
        /\ records[Slot(head)].time = cntpct
        /\ \A q \in Producers : pc'[q] \in {"copy", "publish"} => pc[q] = pc'[q]
    BY <1>9 DEF PublishHead
  <2>2. \A i \in InRing' : i \in InRing \/ i = head
    BY <2>1
  <2>3. \A i \in InRing' : records[Slot(i)].time <= cntpct
    BY <2>1, <2>2
  <2>4. \A i, j \in InRing' :
          i <= j => records[Slot(i)].time <= records[Slot(j)].time
    BY <2>1, <2>2
  <2>5. \A k \in 1 .. Len(archive) : \A i \in InRing' :
          archive[k].time <= records[Slot(i)].time
    BY <2>1, <2>2
  <2> QED
    BY <2>1, <2>3, <2>4, <2>5
<1>10. ASSUME NEW p \in Producers, ProducerUnlock(p) PROVE TimeInv'
  BY <1>10 DEF ProducerUnlock
<1>11. ASSUME NEW p \in Producers, Notify(p) PROVE TimeInv'
  BY <1>11 DEF Notify
<1>12. CASE Receive
  BY <1>12 DEF Receive
<1>13. CASE Dispatch
  BY <1>13 DEF Dispatch
<1>14. CASE DrainTest
  BY <1>14 DEF DrainTest
<1>15. CASE ArchiveRecord
  <2>1. CASE Len(archive) = ArchiveCapacity
    BY <2>1, <1>15 DEF ArchiveRecord
  <2>2. CASE Len(archive) # ArchiveCapacity
    <3> DEFINE r == records[Slot(tail)]
    <3>1. archive' = Append(archive, r)
      BY <2>2, <1>15 DEF ArchiveRecord
    <3>2. archive \in Seq(Record) /\ tail \in InRing /\ r \in Record
      BY <1>15 DEF ArchiveRecord
    <3>3. /\ tail' = tail /\ head' = head /\ records' = records
          /\ cntpct' = cntpct /\ pc' = pc /\ rec' = rec
      BY <1>15 DEF ArchiveRecord
    <3>4. /\ \A k, l \in 1 .. Len(archive) :
               k <= l => archive[k].time <= archive[l].time
          /\ \A k \in 1 .. Len(archive) : archive[k].time <= r.time
          /\ \A i \in InRing : r.time <= records[Slot(i)].time
          /\ r.time <= cntpct
      BY <3>2
    <3>5. \A k \in 1 .. Len(archive') :
            (k \in 1 .. Len(archive) /\ archive'[k] = archive[k]) \/ archive'[k] = r
      BY <3>1, <3>2, AppendCases
    <3>6. \A k \in 1 .. Len(archive') : archive'[k].time <= cntpct
      BY <3>4, <3>5
    <3>7. \A k \in 1 .. Len(archive') : \A i \in InRing :
            archive'[k].time <= records[Slot(i)].time
      BY <3>4, <3>5
    <3>8. \A k, l \in 1 .. Len(archive') :
            k <= l => archive'[k].time <= archive'[l].time
      BY <3>1, <3>2, <3>4, AppendOrdered
    <3> QED
      BY <3>3, <3>6, <3>7, <3>8
  <2> QED
    BY <2>1, <2>2
<1>16. CASE AdvanceTail
  <2>1. \A i \in InRing' : i \in InRing
    BY <1>16 DEF AdvanceTail
  <2> QED
    BY <2>1, <1>16 DEF AdvanceTail
<1>17. CASE UNCHANGED vars
  BY <1>17
<1> QED
  BY <1>1, <1>2, <1>3, <1>4, <1>5, <1>6, <1>7, <1>8, <1>9, <1>10, <1>11,
     <1>12, <1>13, <1>14, <1>15, <1>16, <1>17 DEF Next, Emit, Tracer

\* A record appears in the ring before its producer notifies, and the
\* tracer tests the ring after it consumed the notification.
LEMMA WakeInvStep == RingInvariant /\ [Next]_vars => WakeInv'
<1> SUFFICES ASSUME RingInvariant, [Next]_vars PROVE WakeInv'
  OBVIOUS
<1> USE RingAssumption DEF RingInvariant, Step, vars, ringVars, emitVars,
          tracerVars, TypeOK, WakeInv
<1>1. ASSUME NEW p \in Producers, Call(p) PROVE WakeInv'
  BY <1>1 DEF Call
<1>2. ASSUME NEW p \in Producers, ProducerLock(p) PROVE WakeInv'
  BY <1>2 DEF ProducerLock
<1>3. ASSUME NEW p \in Producers, LoadHead(p) PROVE WakeInv'
  BY <1>3 DEF LoadHead
<1>4. ASSUME NEW p \in Producers, WaitForSpace(p) PROVE WakeInv'
  BY <1>4 DEF WaitForSpace
<1>5. ASSUME NEW p \in Producers, SpaceFound(p) PROVE WakeInv'
  BY <1>5 DEF SpaceFound
<1>6. ASSUME NEW p \in Producers, TakeSeq(p) PROVE WakeInv'
  BY <1>6 DEF TakeSeq
<1>7. ASSUME NEW p \in Producers, ReadTime(p) PROVE WakeInv'
  BY <1>7 DEF ReadTime
<1>8. ASSUME NEW p \in Producers, Copy(p) PROVE WakeInv'
  BY <1>8 DEF Copy
<1>9. ASSUME NEW p \in Producers, PublishHead(p) PROVE WakeInv'
  BY <1>9 DEF PublishHead
<1>10. ASSUME NEW p \in Producers, ProducerUnlock(p) PROVE WakeInv'
  BY <1>10 DEF ProducerUnlock
<1>11. ASSUME NEW p \in Producers, Notify(p) PROVE WakeInv'
  BY <1>11 DEF Notify
<1>12. CASE Receive
  BY <1>12 DEF Receive
<1>13. CASE Dispatch
  BY <1>13 DEF Dispatch
<1>14. CASE DrainTest
  BY <1>14 DEF DrainTest
<1>15. CASE ArchiveRecord
  BY <1>15 DEF ArchiveRecord
<1>16. CASE AdvanceTail
  BY <1>16 DEF AdvanceTail
<1>17. CASE UNCHANGED vars
  BY <1>17
<1> QED
  BY <1>1, <1>2, <1>3, <1>4, <1>5, <1>6, <1>7, <1>8, <1>9, <1>10, <1>11,
     <1>12, <1>13, <1>14, <1>15, <1>16, <1>17 DEF Next, Emit, Tracer

-----------------------------------------------------------------------------
(* The theorems *)

\* The invariant holds of the empty ring.
LEMMA RingInit == Init => RingInvariant
BY RingAssumption DEF Init, RingInvariant, TypeOK, LockInv, HeadInv, SpaceInv,
   SeqInv, SlotInv, ArchiveInv, NothingDropped, TimeInv, WakeInv, Critical,
   Numbered, InRing

\* RingInvariant holds in every reachable state of the trace ring
\* (trace_producer.c:19-57 against tracer.c:179-202).
THEOREM RingInvariantHolds == Spec => []RingInvariant
<1>1. RingInvariant /\ [Next]_vars => RingInvariant'
  BY TypeOKStep, LockInvStep, HeadInvStep, SpaceInvStep, SeqInvStep,
     SlotInvStep, ArchiveInvStep, TimeInvStep, WakeInvStep DEF RingInvariant
<1> QED
  BY RingInit, <1>1, PTL DEF Spec

\* The ring's state is always well typed; in particular everything the
\* tracer archives is a record some producer built.
THEOREM TypeCorrect == Spec => []TypeOK
<1>1. RingInvariant => TypeOK
  BY DEF RingInvariant
<1> QED
  BY RingInvariantHolds, <1>1, PTL

\* The unsynchronised structure copies of trace_emit and archive_record never
\* touch one slot at the same time.
THEOREM SlotsNeverRaced == Spec => []NoSlotRace
<1>1. RingInvariant => NoSlotRace
  <2> SUFFICES ASSUME RingInvariant, NEW p \in Producers, pc[p] = "copy"
               PROVE  /\ tpc = "archive" => Slot(myhead[p]) # Slot(tail)
                      /\ \A q \in Producers \ {p} : pc[q] # "copy"
    BY DEF NoSlotRace
  <2>1. tpc = "archive" => Slot(myhead[p]) # Slot(tail)
    BY SlotFacts DEF RingInvariant, TypeOK, HeadInv, SpaceInv, Numbered
  <2>2. \A q \in Producers \ {p} : pc[q] # "copy"
    BY DEF RingInvariant, LockInv, Critical
  <2> QED
    BY <2>1, <2>2
<1> QED
  BY RingInvariantHolds, <1>1, PTL

\* A dump is a gapless, time-ordered prefix of the trace
\* (docs/trace-format.md, lines 13 and 123).
THEOREM ArchiveIsGapless == Spec => []GaplessPrefix
<1>1. RingInvariant => GaplessPrefix
  BY DEF RingInvariant, TypeOK, ArchiveInv, TimeInv, GaplessPrefix
<1> QED
  BY RingInvariantHolds, <1>1, PTL

\* Whatever left the ring is in the archive or counted
\* (docs/trace-format.md, line 121).
THEOREM NothingIsDropped == Spec => []NothingDropped
<1>1. RingInvariant => NothingDropped
  BY DEF RingInvariant, ArchiveInv
<1> QED
  BY RingInvariantHolds, <1>1, PTL

\* The tracer never goes to sleep on a published record that nobody is about
\* to announce (trace_producer.c:54-56 against tracer.c:191-202).
THEOREM WakeupsNotLost == Spec => []NoLostWakeup
<1>1. RingInvariant => NoLostWakeup
  BY DEF RingInvariant, WakeInv, NoLostWakeup
<1> QED
  BY RingInvariantHolds, <1>1, PTL
-----------------------------------------------------------------------------
(* TraceRing implements TraceLog: under the mapping of TraceRing!Log the   *)
(* publication of head is the append, archive_record the removal, a later  *)
(* reading of the counter a tick, and every other step is invisible.       *)


\* The mapped queue is a sequence of records, and its first index is the
\* number of records the tracer has dealt with.
LEMMA QueueFacts ==
  ASSUME RingInvariant
  PROVE  /\ First \in Nat /\ First <= head /\ tail <= First /\ head \in Nat
         /\ LogQueue \in Seq(Record)
         /\ Len(LogQueue) = head - First
         /\ \A i \in 1 .. (head - First) :
              LogQueue[i] = records[Slot(First + i - 1)]
         /\ Len(archive) + not_archived = First
<1>1. First \in Nat /\ First <= head /\ First >= tail
  BY DEF First, RingInvariant, TypeOK, SpaceInv
<1>2. \A i \in 1 .. (head - First) : First + i - 1 \in InRing
  BY <1>1 DEF InRing, RingInvariant, TypeOK
<1>3. \A i \in 1 .. (head - First) : records[Slot(First + i - 1)] \in Record
  BY <1>2 DEF RingInvariant, SlotInv
<1>4. head - First \in Nat
  BY <1>1 DEF RingInvariant, TypeOK
<1>5. LogQueue \in [1 .. (head - First) -> Record]
  BY <1>3 DEF LogQueue
<1>6. Len(archive) + not_archived = First
  BY DEF First, RingInvariant, TypeOK, ArchiveInv, NothingDropped
<1>7. head \in Nat
  BY DEF RingInvariant, TypeOK
<1>8. LogQueue \in Seq(Record) /\ Len(LogQueue) = head - First
  BY <1>4, <1>5
<1>9. \A i \in 1 .. (head - First) : LogQueue[i] = records[Slot(First + i - 1)]
  BY DEF LogQueue
<1> QED
  BY <1>1, <1>6, <1>7, <1>8, <1>9

\* The initial ring is the initial trace.
LEMMA MapInit == Init => Log!Init
BY RingAssumption DEF Init, Log!Init, LogQueue, LogIssued, First

\* A step that moves neither index, no slot between them, and counts no call.
LEMMA Stutter ==
  ASSUME RingInvariant, 
         First' = First, head' = head,
         \A i \in InRing : records'[Slot(i)] = records[Slot(i)],
         archive' = archive, not_archived' = not_archived, cntpct' = cntpct,
         LogIssued' = LogIssued
  PROVE  UNCHANGED Log!vars
<1>1. \A i \in 1 .. (head - First) : First + i - 1 \in InRing
  <2>1. First \in Nat /\ tail <= First /\ head \in Nat /\ tail \in Nat
    BY QueueFacts DEF RingInvariant, TypeOK
  <2>2. ASSUME NEW f \in Nat, NEW n \in Nat, NEW b \in Nat, b <= f,
               NEW i \in 1 .. (n - f)
        PROVE  f + i - 1 \in b .. (n - 1)
    BY <2>2
  <2> QED
    BY <2>1, <2>2 DEF InRing
<1>2. LogQueue' = LogQueue
  BY <1>1 DEF LogQueue
<1> QED
  BY <1>2 DEF Log!vars

\* Storing or counting the oldest record takes it off the queue.
LEMMA TakenFromQueue ==
  ASSUME RingInvariant, RingInvariant', tpc = "archive", tpc' = "advance",
         tail' = tail, head' = head, records' = records
  PROVE  /\ LogQueue # <<>>
         /\ Head(LogQueue) = records[Slot(tail)]
         /\ LogQueue' = Tail(LogQueue)
<1>1. /\ First = tail /\ First' = tail + 1 /\ tail < head
      /\ tail \in Nat /\ head \in Nat
  BY DEF First, RingInvariant, SpaceInv, TypeOK
<1>2. Len(LogQueue) = head - tail /\ LogQueue \in Seq(Record)
  BY <1>1, QueueFacts
<1>3. Head(LogQueue) = records[Slot(tail)] /\ LogQueue # <<>>
  BY <1>1, <1>2, QueueFacts
<1>4. LogQueue' = [i \in 1 .. (head - (tail + 1)) |-> records[Slot((tail + 1) + i - 1)]]
  BY <1>1 DEF LogQueue
<1>5. /\ Tail(LogQueue) \in Seq(Record) /\ Len(Tail(LogQueue)) = head - tail - 1
      /\ \A i \in 1 .. (head - tail - 1) : Tail(LogQueue)[i] = LogQueue[i + 1]
  BY <1>2, <1>3, HeadTailProperties
<1>6. \A i \in 1 .. (head - tail - 1) :
        /\ LogQueue[i + 1] = records[Slot((tail + 1) + i - 1)]
        /\ LogQueue[i + 1] \in Record
  <2> TAKE i \in 1 .. (head - tail - 1)
  <2>1. i + 1 \in 1 .. (head - First)
    BY <1>1
  <2>2. First + (i + 1) - 1 = (tail + 1) + i - 1
    BY <1>1
  <2> QED
    BY <1>2, <2>1, <2>2, QueueFacts
<1>7. head - (tail + 1) = head - tail - 1 /\ head - tail - 1 \in Nat
  BY <1>1
<1>8. LogQueue' \in Seq(Record) /\ Len(LogQueue') = head - tail - 1
  <2>1. LogQueue' \in [1 .. (head - tail - 1) -> Record]
    BY <1>4, <1>6, <1>7
  <2> QED
    BY <2>1, <1>7
<1>9. \A i \in 1 .. (head - tail - 1) : LogQueue'[i] = Tail(LogQueue)[i]
  BY <1>4, <1>5, <1>6, <1>7
<1>10. LogQueue' = Tail(LogQueue)
  BY <1>5, <1>8, <1>9, SeqEqual
<1> QED
  BY <1>3, <1>10

\* Publishing head appends the record just copied.
LEMMA AddedToQueue ==
  ASSUME RingInvariant, RingInvariant', tpc' = tpc, tail' = tail,
         head' = head + 1, records' = records
  PROVE  LogQueue' = Append(LogQueue, records[Slot(head)])
<1>1. First' = First /\ First \in Nat /\ First <= head /\ head \in Nat
  BY QueueFacts DEF First, RingInvariant, TypeOK
<1>2. LogQueue \in Seq(Record) /\ Len(LogQueue) = head - First
  BY QueueFacts
<1>3. LogQueue' = [i \in 1 .. (head + 1 - First) |-> records[Slot(First + i - 1)]]
  BY <1>1 DEF LogQueue
<1>4. /\ Append(LogQueue, records[Slot(head)]) =
           [i \in 1 .. (Len(LogQueue) + 1) |->
              IF i = Len(LogQueue) + 1 THEN records[Slot(head)] ELSE LogQueue[i]]
  BY <1>2
<1>5. \A i \in 1 .. (head + 1 - First) :
        records[Slot(First + i - 1)] =
          IF i = Len(LogQueue) + 1 THEN records[Slot(head)] ELSE LogQueue[i]
  <2> TAKE i \in 1 .. (head + 1 - First)
  <2>1. CASE i = head - First + 1
    <3>1. First + i - 1 = head
      BY <1>1, <2>1
    <3> QED
      BY <1>2, <2>1, <3>1
  <2>2. CASE i # head - First + 1
    <3>1. i \in 1 .. (head - First)
      BY <1>1, <2>2
    <3> QED
      BY <1>2, <2>2, <3>1, QueueFacts
  <2> QED
    BY <2>1, <2>2
<1>6. Len(LogQueue) + 1 = head + 1 - First
  BY <1>1, <1>2
<1> QED
  BY <1>3, <1>4, <1>5, <1>6

\* The one step of trace_emit that the trace sees.
LEMMA PublishRefines ==
  ASSUME RingInvariant, RingInvariant', NEW p \in Producers, PublishHead(p)
  PROVE  Log!Publish(p)
<1> DEFINE r == records[Slot(head)]
<1>1. pc[p] = "publish" /\ pc' = [pc EXCEPT ![p] = "unlock"]
  BY DEF PublishHead, Step
<1>2. /\ head' = head + 1 /\ tail' = tail /\ records' = records /\ tpc' = tpc
      /\ UNCHANGED <<archive, not_archived, cntpct, calls>>
  BY <1>1 DEF PublishHead, tracerVars, RingInvariant, HeadInv, Numbered
<1>3. LogQueue' = Append(LogQueue, r)
  BY <1>2, AddedToQueue
<1>4. head - tail < RingCapacity
  BY <1>1 DEF RingInvariant, SpaceInv, Numbered
<1>5. tail \in Nat /\ calls \in [Producers -> Nat]
  BY DEF RingInvariant, TypeOK
<1>6. /\ Len(LogQueue) < RingCapacity
      /\ Len(archive) + not_archived + Len(LogQueue) = head
  BY <1>4, <1>5, QueueFacts, RingAssumption
<1>7. LogIssued[p] + 1 = calls[p]
  BY <1>1, <1>5 DEF LogIssued
<1>8. LogIssued' = [LogIssued EXCEPT ![p] = @ + 1]
  <2> DEFINE f == [LogIssued EXCEPT ![p] = @ + 1]
  <2>1. \A q \in Producers : f[q] = IF q = p THEN calls[p] ELSE LogIssued[q]
    BY <1>7 DEF LogIssued
  <2>2. DOMAIN pc = Producers
    BY DEF RingInvariant, TypeOK
  <2>3. \A q \in Producers :
          LogIssued'[q] = IF q = p THEN calls[p] ELSE LogIssued[q]
    BY <1>1, <1>2, <1>5, <2>2 DEF LogIssued
  <2>4. f = [q \in Producers |-> IF q = p THEN calls[p] ELSE LogIssued[q]]
    <3>1. f = [q \in Producers |-> f[q]]
      BY DEF LogIssued
    <3> HIDE DEF f
    <3> QED
      BY <2>1, <3>1
  <2>5. LogIssued' = [q \in Producers |-> IF q = p THEN calls[p] ELSE LogIssued[q]]
    <3>1. LogIssued' = [q \in Producers |-> LogIssued'[q]]
      BY DEF LogIssued
    <3> QED
      BY <2>3, <3>1
  <2> QED
    BY <2>4, <2>5
<1>9. /\ r \in Record /\ r.seq = head /\ r.time = cntpct
      /\ r.producer = p /\ r.call = calls[p]
  BY <1>1 DEF RingInvariant, SeqInv, SlotInv, TimeInv, Numbered
<1>10. r = [seq |-> head, time |-> cntpct, producer |-> p, call |-> calls[p]]
  BY <1>9 DEF Record
<1> QED
  BY <1>2, <1>3, <1>6, <1>7, <1>8, <1>10 DEF Log!Publish

\* Every step of the ring is a step of the trace or none.
LEMMA StepRefines ==
  RingInvariant /\ RingInvariant' /\ [Next]_vars => [Log!Next]_(Log!vars)
<1> SUFFICES ASSUME RingInvariant, RingInvariant', [Next]_vars
             PROVE  Log!Next \/ UNCHANGED Log!vars
  OBVIOUS
<1> USE DEF RingInvariant, Step, vars, ringVars, emitVars, tracerVars, TypeOK
<1>1. ASSUME NEW p \in Producers, Call(p) PROVE UNCHANGED Log!vars
  BY <1>1, Stutter DEF Call, First, LogIssued
<1>2. ASSUME NEW p \in Producers, ProducerLock(p) PROVE UNCHANGED Log!vars
  BY <1>2, Stutter DEF ProducerLock, First, LogIssued
<1>3. ASSUME NEW p \in Producers, LoadHead(p) PROVE UNCHANGED Log!vars
  BY <1>3, Stutter DEF LoadHead, First, LogIssued
<1>4. ASSUME NEW p \in Producers, WaitForSpace(p) PROVE UNCHANGED Log!vars
  BY <1>4, Stutter DEF WaitForSpace, First, LogIssued
<1>5. ASSUME NEW p \in Producers, SpaceFound(p) PROVE UNCHANGED Log!vars
  BY <1>5, Stutter DEF SpaceFound, First, LogIssued
<1>6. ASSUME NEW p \in Producers, TakeSeq(p) PROVE UNCHANGED Log!vars
  BY <1>6, Stutter DEF TakeSeq, First, LogIssued
<1>7. ASSUME NEW p \in Producers, Copy(p) PROVE UNCHANGED Log!vars
  <2>1. myhead[p] = head /\ head - tail < RingCapacity
    BY <1>7 DEF Copy, HeadInv, SpaceInv, Numbered
  <2>2. \A i \in InRing : i \in Nat /\ i < head /\ head - i < RingCapacity
    BY <2>1, RingAssumption DEF InRing
  <2>3. \A i \in InRing : Slot(i) # Slot(head) /\ Slot(i) \in Slots
    BY <2>2, SlotFacts
  <2>4. \A i \in InRing : records'[Slot(i)] = records[Slot(i)]
    BY <1>7, <2>1, <2>3 DEF Copy
  <2> QED
    BY <1>7, <2>4, Stutter DEF Copy, First, LogIssued
<1>8. ASSUME NEW p \in Producers, ProducerUnlock(p) PROVE UNCHANGED Log!vars
  BY <1>8, Stutter DEF ProducerUnlock, First, LogIssued
<1>9. ASSUME NEW p \in Producers, Notify(p) PROVE UNCHANGED Log!vars
  BY <1>9, Stutter DEF Notify, First, LogIssued
<1>10. ASSUME NEW p \in Producers, ReadTime(p) PROVE Log!Tick \/ UNCHANGED Log!vars
  <2>1. /\ LogQueue' = LogQueue /\ LogIssued' = LogIssued
        /\ UNCHANGED <<archive, not_archived>>
    BY <1>10 DEF ReadTime, LogQueue, LogIssued, First
  <2>2. cntpct' = cntpct \/ (cntpct' \in Nat /\ cntpct' > cntpct)
    BY <1>10 DEF ReadTime
  <2> QED
    BY <2>1, <2>2 DEF Log!Tick, Log!vars
<1>11. ASSUME NEW p \in Producers, PublishHead(p) PROVE Log!Publish(p)
  BY <1>11, PublishRefines
<1>12. CASE Receive
  BY <1>12, Stutter DEF Receive, First, LogIssued
<1>13. CASE Dispatch
  BY <1>13, Stutter DEF Dispatch, First, LogIssued
<1>14. CASE DrainTest
  BY <1>14, Stutter DEF DrainTest, First, LogIssued
<1>15. CASE AdvanceTail
  BY <1>15, Stutter DEF AdvanceTail, First, LogIssued
<1>16. CASE ArchiveRecord
  <2>1. /\ LogQueue # <<>> /\ Head(LogQueue) = records[Slot(tail)]
        /\ LogQueue' = Tail(LogQueue)
    BY <1>16, TakenFromQueue DEF ArchiveRecord
  <2>2. LogIssued' = LogIssued /\ cntpct' = cntpct
    BY <1>16 DEF ArchiveRecord, LogIssued
  <2>3. CASE Len(archive) = ArchiveCapacity
    BY <1>16, <2>1, <2>2, <2>3 DEF ArchiveRecord, Log!Next, Log!Count
  <2>4. CASE Len(archive) # ArchiveCapacity
    <3>1. Len(archive) < ArchiveCapacity
      BY <2>4, RingAssumption DEF ArchiveInv
    <3> QED
      BY <1>16, <2>1, <2>2, <2>4, <3>1 DEF ArchiveRecord, Log!Next, Log!Store
  <2> QED
    BY <2>3, <2>4
<1>17. CASE UNCHANGED vars
  BY <1>17, Stutter DEF First, LogIssued
<1> QED
  BY <1>1, <1>2, <1>3, <1>4, <1>5, <1>6, <1>7, <1>8, <1>9, <1>10, <1>11,
     <1>12, <1>13, <1>14, <1>15, <1>16, <1>17
  DEF Next, Emit, Tracer, Log!Next

\* Every behaviour of the ring is, record by record, a behaviour of the trace
\* that docs/trace-format.md promises.
THEOREM RingImplementsLog == Spec => ImplementsTraceLog
<1>1. RingInvariant /\ RingInvariant' /\ [Next]_vars => [Log!Next]_(Log!vars)
  BY StepRefines
<1> QED
  BY MapInit, RingInvariantHolds, <1>1, PTL
  DEF Spec, ImplementsTraceLog, Log!Spec
=============================================================================
