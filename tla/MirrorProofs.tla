---------------------------- MODULE MirrorProofs ----------------------------
(***************************************************************************)
(* Proofs about Mirror, for any ring capacity, any length of the report    *)
(* that is below the room asked for, any output and any panel.             *)
(* MirrorInvariant is inductive: one lemma per conjunct shows that every   *)
(* step preserves it, and the properties of the ring follow.               *)
(*                                                                         *)
(* PanelInvariant, about what fbcon draws, is inductive together with it,  *)
(* for any panel that the display controller may report, any font and      *)
(* margins: the grid is the end of the page, and the panel is the grid     *)
(* wherever it is not marked to be drawn.                                  *)
(***************************************************************************)
EXTENDS Mirror, SequenceTheorems, TLAPS

\* What the console and the reports print.
Chars == {"LF", "d", "ctl"}
         \cup UNION {{text[k] : k \in 1 .. Len(text)} : text \in Texts}

CellType == [ch : Chars, kind : {"byte", "drop", "text"}, n : Nat]
Tpcs == {"idle", "body", "report?", "report", "room?", "store", "publish",
         "notify"}
Fpcs == {"init", "recv", "test", "read", "dead", "store", "render"}

\* The ring, the tracer's statics and fbcon's place in the ring are well typed.
TypeOK ==
  /\ head \in Nat /\ tail \in Nat /\ buf \in [Slots -> CellType]
  /\ notification \in BOOLEAN /\ mirror_pending \in BOOLEAN
  /\ mirror_dropped \in Nat /\ h \in Nat /\ c \in CellType /\ tpc \in Tpcs
  /\ output \in Texts /\ nput \in 0 .. Len(output)
  /\ t \in Nat /\ fpc \in Fpcs /\ account \in Nat /\ shown \in CellType

\* The tracer holds a byte that is neither stored nor dropped.
InHand == tpc \in {"report?", "report", "room?", "store"}

\* fbcon reads between the tail that the tracer sees and head; the tracer
\* writes at h and beyond, never more than the capacity from tail.  A report
\* leaves room for the byte that follows it, so after one no byte is dropped.
SpaceInv ==
  /\ tail <= t /\ t <= head /\ head <= h /\ h - tail <= Capacity
  /\ fpc = "read" => t < head
  /\ fpc \in {"init", "recv", "render"} => t = tail
  /\ tpc \notin {"room?", "store", "publish"} => h = head
  /\ tpc = "report" => h - tail + ReportRoom <= Capacity
  /\ tpc = "room?" /\ h # head =>
       mirror_dropped = 0 /\ h - tail + 1 <= Capacity
  /\ tpc = "store" => mirror_dropped = 0 /\ h - tail + 1 <= Capacity

\* What fbcon has not read is announced, will be when the line or the tracer's
\* event ends, or is found by the test that drain_ring has yet to make.
WakeInv ==
  /\ tpc = "idle" => ~mirror_pending
  /\ t # head => \/ notification \/ mirror_pending
                 \/ tpc = "notify"
                 \/ fpc \in {"test", "read", "dead"}

\* a counts, for each place in the ring, the console bytes that the cells
\* before it stand for: every byte in the ring knows its number, and what is
\* neither in the ring nor dropped without report is in the tracer's hand.
Counts(a) ==
  /\ fpc = "init" \/ geometry.ready => a[t] = account
  /\ \A i \in t .. (h - 1) :
       /\ a[i + 1] = a[i] + Stands(buf[Slot(i)])
       /\ buf[Slot(i)].kind = "byte" => buf[Slot(i)].n = a[i + 1]
  /\ a[h] + mirror_dropped = IF InHand THEN nput - 1 ELSE nput

\* The byte in hand is the last one printed, and the cells in the ring and on
\* the panel can be counted.
AccountInv ==
  /\ InHand => c.kind = "byte" /\ c.n = nput
  /\ DropsAccounted
  /\ \E a \in [Nat -> Nat] : Counts(a)

MirrorInvariant ==
  /\ TypeOK
  /\ SpaceInv
  /\ WakeInv
  /\ AccountInv
-----------------------------------------------------------------------------
(* Cells *)

\* A count that goes on from a[m] with d more.
LEMMA CountOn ==
  ASSUME NEW a \in [Nat -> Nat], NEW m \in Nat, NEW d \in Nat
  PROVE  \E b \in [Nat -> Nat] :
           /\ \A i \in Nat : i <= m => b[i] = a[i]
           /\ \A i \in Nat : i > m => b[i] = a[m] + d
<1> DEFINE b == [i \in Nat |-> IF i <= m THEN a[i] ELSE a[m] + d]
<1>1. b \in [Nat -> Nat]
  OBVIOUS
<1> WITNESS b \in [Nat -> Nat]
<1> QED
  OBVIOUS

\* Two numbers less than C apart have different remainders.
LEMMA ModNe ==
  ASSUME NEW C \in Nat \ {0}, NEW i \in Nat, NEW j \in Nat, i < j, j - i < C
  PROVE  i % C # j % C
<1>1. ASSUME NEW n \in Nat
      PROVE  \E q \in Nat : n = C * q + (n % C)
  <2>1. n \div C \in Nat /\ n = C * (n \div C) + (n % C)
    BY SMT
  <2> QED
    BY <2>1
<1>2. PICK a \in Nat, b \in Nat : i = C * a + (i % C) /\ j = C * b + (j % C)
  BY <1>1
<1>3. i % C = j % C => j - i = C * (b - a)
  BY <1>2
<1>4. b - a >= 1 => C * (b - a) >= C
  OBVIOUS
<1>5. b - a <= 0 => C * (b - a) <= 0
  OBVIOUS
<1>6. b - a >= 1 \/ b - a <= 0
  OBVIOUS
<1> QED
  BY <1>3, <1>4, <1>5, <1>6

\* The slots of struct console_ring: buf[head % CONSOLE_RING_CAPACITY].
LEMMA SlotFacts ==
  /\ \A i \in Nat : Slot(i) \in Slots
  /\ \A i, j \in Nat : i < j /\ j - i < Capacity => Slot(i) # Slot(j)
<1>1. Capacity \in Nat \ {0}
  BY MirrorAssumption
<1>2. \A i \in Nat : i % Capacity \in 0 .. (Capacity - 1)
  BY <1>1
<1> QED
  BY <1>1, <1>2, ModNe DEF Slot, Slots

\* mirror_report_dropped() writes the drop count into the cell at h and text
\* after it, and touches no cell that fbcon has yet to read.
LEMMA ReportWrites ==
  ASSUME TypeOK, SpaceInv, Report
  PROVE  \E len \in 2 .. ReportLen :
           /\ h' = h + len
           /\ buf' \in [Slots -> CellType]
           /\ \A i \in t .. (h - 1) : buf'[Slot(i)] = buf[Slot(i)]
           /\ buf'[Slot(h)].kind = "drop" /\ buf'[Slot(h)].n = mirror_dropped
           /\ \A i \in (h + 1) .. (h + len - 1) : buf'[Slot(i)].kind = "text"
<1> DEFINE cell(len, j) == CASE j = 0 -> Cell("LF", "drop", mirror_dropped)
                             [] j = len - 1 -> Cell("LF", "text", 0)
                             [] OTHER -> Cell("d", "text", 0)
           At(len, i) == {j \in 0 .. len - 1 : Slot(h + j) = i}
<1>1. PICK len \in 2 .. ReportLen :
        /\ buf' = [i \in Slots |->
                     IF At(len, i) = {} THEN buf[i]
                     ELSE cell(len, CHOOSE j \in At(len, i) : TRUE)]
        /\ h' = h + len
  BY DEF Report
<1> WITNESS len \in 2 .. ReportLen
<1>2. /\ h \in Nat /\ t \in Nat /\ tail \in Nat /\ t <= h /\ tail <= t
      /\ h - tail + ReportRoom <= Capacity /\ Capacity \in Nat
      /\ len \in Nat /\ len < ReportRoom /\ ReportRoom \in Nat /\ len >= 2
  BY MirrorAssumption DEF TypeOK, SpaceInv, Report
<1>3. \A j \in 0 .. len - 1 : cell(len, j) \in CellType
  <2>1. \A ch \in {"LF", "d"}, kind \in {"drop", "text"}, n \in Nat :
          Cell(ch, kind, n) \in CellType
    BY DEF Cell, CellType, Chars
  <2>2. mirror_dropped \in Nat
    BY DEF TypeOK
  <2> QED
    BY <2>1, <2>2
<1>4. \A i : (CHOOSE j \in At(len, i) : TRUE) \in At(len, i) \/ At(len, i) = {}
  OBVIOUS
<1>5. \A i \in t .. (h - 1) : Slot(i) \in Slots /\ At(len, Slot(i)) = {}
  <2> SUFFICES ASSUME NEW i \in t .. (h - 1), NEW j \in 0 .. len - 1
               PROVE  Slot(i) \in Slots /\ Slot(h + j) # Slot(i)
    OBVIOUS
  <2>1. i \in Nat /\ h + j \in Nat /\ i < h + j /\ (h + j) - i < Capacity
    BY <1>2
  <2> QED
    BY <2>1, SlotFacts
<1>6. \A k \in 0 .. len - 1 : Slot(h + k) \in Slots /\ At(len, Slot(h + k)) = {k}
  <2> TAKE k \in 0 .. len - 1
  <2>1. k \in Nat /\ h + k \in Nat
    BY <1>2
  <2>2. ASSUME NEW j \in 0 .. len - 1, j # k PROVE Slot(h + j) # Slot(h + k)
    <3>1. j \in Nat /\ h + j \in Nat
      BY <1>2
    <3>2. CASE j < k
      <4>1. h + j < h + k /\ (h + k) - (h + j) < Capacity
        BY <1>2, <2>1, <3>1, <3>2
      <4> QED
        BY <4>1, <2>1, <3>1, SlotFacts
    <3>3. CASE k < j
      <4>1. h + k < h + j /\ (h + j) - (h + k) < Capacity
        BY <1>2, <2>1, <3>1, <3>3
      <4> QED
        BY <4>1, <2>1, <3>1, SlotFacts
    <3> QED
      BY <2>1, <2>2, <3>1, <3>2, <3>3
  <2> QED
    BY <2>1, <2>2, SlotFacts
<1> HIDE DEF cell
<1>7. \A k \in 0 .. len - 1 : buf'[Slot(h + k)] = cell(len, k)
  <2> TAKE k \in 0 .. len - 1
  <2>1. (CHOOSE j \in At(len, Slot(h + k)) : TRUE) = k
    BY <1>6
  <2>2. At(len, Slot(h + k)) # {} /\ Slot(h + k) \in Slots
    BY <1>6
  <2> HIDE DEF At
  <2> QED
    BY <1>1, <2>1, <2>2
<1>8. \A i \in t .. (h - 1) : buf'[Slot(i)] = buf[Slot(i)]
  <2> HIDE DEF At
  <2> QED
    BY <1>1, <1>5
<1>9. buf' \in [Slots -> CellType]
  <2>1. \A i \in Slots : At(len, i) # {} =>
          (CHOOSE j \in At(len, i) : TRUE) \in 0 .. len - 1
    BY <1>4
  <2> HIDE DEF At
  <2> QED
    BY <1>1, <1>3, <2>1 DEF TypeOK
<1>10. buf'[Slot(h)].kind = "drop" /\ buf'[Slot(h)].n = mirror_dropped
  <2>1. buf'[Slot(h + 0)] = cell(len, 0)
    BY <1>2, <1>7
  <2>2. cell(len, 0) = Cell("LF", "drop", mirror_dropped) /\ h + 0 = h
    BY <1>2 DEF cell
  <2> QED
    BY <2>1, <2>2 DEF Cell
<1>11. \A i \in (h + 1) .. (h + len - 1) : buf'[Slot(i)].kind = "text"
  <2> TAKE i \in (h + 1) .. (h + len - 1)
  <2>1. i - h \in 0 .. len - 1 /\ h + (i - h) = i /\ i - h # 0
    BY <1>2
  <2>2. buf'[Slot(i)] = cell(len, i - h)
    BY <1>7, <2>1
  <2>3. cell(len, i - h).kind = "text"
    BY <2>1 DEF cell, Cell
  <2> QED
    BY <2>2, <2>3
<1> QED
  BY <1>1, <1>8, <1>9, <1>10, <1>11

\* mirror_putc() stores its byte in a cell that fbcon has yet to reach.
LEMMA StoreWrites ==
  ASSUME TypeOK, SpaceInv, Store
  PROVE  /\ h' = h + 1 /\ buf' \in [Slots -> CellType]
         /\ \A i \in t .. (h - 1) : buf'[Slot(i)] = buf[Slot(i)]
         /\ buf'[Slot(h)] = c
<1>1. buf' = [buf EXCEPT ![Slot(h)] = c] /\ h' = h + 1
  BY DEF Store
<1>2. buf \in [Slots -> CellType] /\ c \in CellType /\ Slot(h) \in Slots
  BY SlotFacts DEF TypeOK
<1>3. /\ h \in Nat /\ t \in Nat /\ tail \in Nat /\ tail <= t
      /\ h - tail + 1 <= Capacity /\ Capacity \in Nat
  BY MirrorAssumption DEF TypeOK, SpaceInv, Store
<1>4. \A i \in t .. (h - 1) : Slot(i) \in Slots /\ Slot(i) # Slot(h)
  <2> TAKE i \in t .. (h - 1)
  <2>1. i \in Nat /\ i < h /\ h - i < Capacity
    BY <1>3
  <2> QED
    BY <1>3, <2>1, SlotFacts
<1> QED
  BY <1>1, <1>2, <1>4

\* A report continues the count with the drops it reports.
LEMMA ReportCounts ==
  ASSUME TypeOK, SpaceInv, Report, NEW a \in [Nat -> Nat], Counts(a)
  PROVE  \E b \in [Nat -> Nat] : Counts(b)'
<1>1. PICK len \in 2 .. ReportLen :
        /\ h' = h + len
        /\ \A i \in t .. (h - 1) : buf'[Slot(i)] = buf[Slot(i)]
        /\ buf'[Slot(h)].kind = "drop" /\ buf'[Slot(h)].n = mirror_dropped
        /\ \A i \in (h + 1) .. (h + len - 1) : buf'[Slot(i)].kind = "text"
  BY ReportWrites
<1>2. /\ InHand /\ InHand' /\ mirror_dropped' = 0 /\ t' = t /\ fpc' = fpc
      /\ nput' = nput /\ geometry' = geometry /\ account' = account
  BY DEF Report, InHand, tracerVars, displayVars, fbconVars, history
<1>3. /\ h \in Nat /\ t \in Nat /\ t <= h /\ mirror_dropped \in Nat
      /\ len \in Nat /\ len >= 2 /\ nput \in Int
  BY MirrorAssumption DEF TypeOK, SpaceInv
<1>4. PICK b \in [Nat -> Nat] :
        /\ \A i \in Nat : i <= h => b[i] = a[i]
        /\ \A i \in Nat : i > h => b[i] = a[h] + mirror_dropped
  <2>1. h \in Nat /\ mirror_dropped \in Nat
    BY <1>3
  <2> QED
    BY <2>1, CountOn, Zenon
<1>5. a[h] \in Nat /\ a[h] + mirror_dropped = nput - 1
  BY <1>2, <1>3 DEF Counts
<1>6. \A i \in t .. (h' - 1) :
        /\ b[i + 1] = b[i] + Stands(buf'[Slot(i)])
        /\ buf'[Slot(i)].kind = "byte" => buf'[Slot(i)].n = b[i + 1]
  <2> TAKE i \in t .. (h' - 1)
  <2>1. i \in Nat /\ i + 1 \in Nat /\ i < h + len /\ t <= i
    BY <1>1, <1>3
  <2>2. CASE i < h
    <3>1. i \in t .. (h - 1) /\ i <= h /\ i + 1 <= h
      BY <1>3, <2>1, <2>2
    <3>2. /\ a[i + 1] = a[i] + Stands(buf[Slot(i)])
          /\ buf[Slot(i)].kind = "byte" => buf[Slot(i)].n = a[i + 1]
      BY <3>1 DEF Counts
    <3> QED
      BY <1>1, <1>4, <2>1, <3>1, <3>2
  <2>3. CASE i = h
    <3>1. Stands(buf'[Slot(i)]) = mirror_dropped /\ buf'[Slot(i)].kind # "byte"
      BY <1>1, <2>3 DEF Stands
    <3>2. b[i] = a[h] /\ b[i + 1] = a[h] + mirror_dropped
      BY <1>3, <1>4, <2>1, <2>3
    <3> QED
      BY <3>1, <3>2
  <2>4. CASE i > h
    <3>1. i \in (h + 1) .. (h + len - 1)
      BY <1>3, <2>1, <2>4
    <3>2. Stands(buf'[Slot(i)]) = 0 /\ buf'[Slot(i)].kind # "byte"
      BY <1>1, <3>1 DEF Stands
    <3>3. b[i] = a[h] + mirror_dropped /\ b[i + 1] = a[h] + mirror_dropped
      BY <1>3, <1>4, <2>1, <2>4
    <3> QED
      BY <1>3, <1>5, <3>2, <3>3
  <2> QED
    BY <1>3, <2>1, <2>2, <2>3, <2>4
<1>7. b[h'] + mirror_dropped' = nput - 1
  <2>1. h' \in Nat /\ h' > h
    BY <1>1, <1>3
  <2>2. b[h'] = a[h] + mirror_dropped
    BY <1>4, <2>1
  <2> QED
    BY <1>2, <1>3, <1>5, <2>2
<1>8. fpc = "init" \/ geometry.ready => b[t] = account
  BY <1>3, <1>4 DEF Counts
<1>9. Counts(b)'
  BY <1>2, <1>6, <1>7, <1>8 DEF Counts
<1> QED
  BY <1>9

\* A dropped byte leaves the tracer's hand for the drops.
LEMMA DropCounts ==
  ASSUME TypeOK, Drop, NEW a \in [Nat -> Nat], Counts(a)
  PROVE  Counts(a)'
<1>1. /\ InHand /\ ~InHand' /\ mirror_dropped' = mirror_dropped + 1
      /\ h' = h /\ nput' = nput /\ fpc' = fpc /\ geometry' = geometry
      /\ t' = t /\ account' = account /\ buf' = buf
  BY DEF Drop, InHand, displayVars, fbconVars, history
<1>2. a[h] \in Nat /\ nput \in Int /\ mirror_dropped \in Nat
  BY DEF TypeOK
<1>3. a[h] + mirror_dropped = nput - 1
  BY <1>1 DEF Counts
<1>4. a[h] + (mirror_dropped + 1) = nput
  BY <1>2, <1>3
<1> QED
  BY <1>1, <1>4 DEF Counts

\* A byte continues the count by itself.
LEMMA StoreCounts ==
  ASSUME TypeOK, SpaceInv, Store, c.kind = "byte", c.n = nput,
         NEW a \in [Nat -> Nat], Counts(a)
  PROVE  \E b \in [Nat -> Nat] : Counts(b)'
<1>1. /\ h' = h + 1 /\ buf'[Slot(h)] = c
      /\ \A i \in t .. (h - 1) : buf'[Slot(i)] = buf[Slot(i)]
  BY StoreWrites
<1>2. /\ InHand /\ ~InHand' /\ mirror_dropped' = mirror_dropped /\ t' = t
      /\ fpc' = fpc /\ nput' = nput /\ geometry' = geometry
      /\ account' = account
  BY DEF Store, InHand, mirrorVars, tracerVars, displayVars, fbconVars, history
<1>3. /\ h \in Nat /\ t \in Nat /\ t <= h /\ mirror_dropped = 0 /\ nput \in Int
  BY DEF TypeOK, SpaceInv, Store
<1>4. PICK b \in [Nat -> Nat] :
        /\ \A i \in Nat : i <= h => b[i] = a[i]
        /\ \A i \in Nat : i > h => b[i] = a[h] + 1
  <2>1. \A d \in Nat : \E b \in [Nat -> Nat] :
          /\ \A i \in Nat : i <= h => b[i] = a[i]
          /\ \A i \in Nat : i > h => b[i] = a[h] + d
    <3>1. h \in Nat
      BY <1>3
    <3> QED
      BY <3>1, CountOn, Zenon
  <2> QED
    BY <2>1
<1>5. a[h] \in Nat /\ a[h] = nput - 1
  BY <1>2, <1>3 DEF Counts
<1>6. b[h + 1] = nput /\ b[h] = nput - 1
  BY <1>3, <1>4, <1>5
<1>7. \A i \in t .. (h' - 1) :
        /\ b[i + 1] = b[i] + Stands(buf'[Slot(i)])
        /\ buf'[Slot(i)].kind = "byte" => buf'[Slot(i)].n = b[i + 1]
  <2> TAKE i \in t .. (h' - 1)
  <2>1. i \in Nat /\ i + 1 \in Nat /\ i < h + 1 /\ t <= i
    BY <1>1, <1>3
  <2>2. CASE i < h
    <3>1. i \in t .. (h - 1) /\ i <= h /\ i + 1 <= h
      BY <1>3, <2>1, <2>2
    <3>2. /\ a[i + 1] = a[i] + Stands(buf[Slot(i)])
          /\ buf[Slot(i)].kind = "byte" => buf[Slot(i)].n = a[i + 1]
      BY <3>1 DEF Counts
    <3> QED
      BY <1>1, <1>4, <2>1, <3>1, <3>2
  <2>3. CASE i = h
    <3>1. Stands(buf'[Slot(i)]) = 1 /\ buf'[Slot(i)].n = nput
      BY <1>1, <2>3 DEF Stands
    <3> QED
      BY <1>3, <1>6, <2>3, <3>1
  <2> QED
    BY <1>3, <2>1, <2>2, <2>3
<1>8. b[h'] + mirror_dropped' = nput
  BY <1>1, <1>2, <1>3, <1>6
<1>9. fpc = "init" \/ geometry.ready => b[t] = account
  BY <1>3, <1>4 DEF Counts
<1>10. Counts(b)'
  BY <1>2, <1>7, <1>8, <1>9 DEF Counts
<1> QED
  BY <1>10
-----------------------------------------------------------------------------
(* Every step preserves each conjunct of the invariant *)

\* Types: every cell is built by Cell and copied whole.
LEMMA TypeOKStep == MirrorInvariant /\ [Next]_vars => TypeOK'
<1> SUFFICES ASSUME MirrorInvariant, [Next]_vars PROVE TypeOK'
  OBVIOUS
<1> USE MirrorAssumption DEF MirrorInvariant, vars, ringVars, mirrorVars,
        tracerVars, displayVars, fbconVars, history, TypeOK, Tpcs, Fpcs
<1>1. CASE Notified
  BY <1>1 DEF Notified
<1>2. CASE PutC
  <2>1. nput + 1 \in 1 .. Len(output) /\ nput' = nput + 1
    BY <1>2 DEF PutC
  <2>2. output[nput + 1] \in Chars
    BY <2>1 DEF Chars
  <2>3. c' \in CellType
    BY <1>2, <2>1, <2>2 DEF PutC, Cell, CellType
  <2> QED
    BY <1>2, <2>1, <2>3 DEF PutC
<1>3. CASE ReportTest
  BY <1>3 DEF ReportTest
<1>4. CASE Report
  <2>1. h' \in Nat /\ buf' \in [Slots -> CellType]
    BY <1>4, ReportWrites
  <2> QED
    BY <1>4, <2>1 DEF Report
<1>5. CASE Drop
  BY <1>5 DEF Drop
<1>6. CASE RoomFound
  BY <1>6 DEF RoomFound
<1>7. CASE Store
  <2>1. h' \in Nat /\ buf' \in [Slots -> CellType]
    BY <1>7, StoreWrites
  <2> QED
    BY <1>7, <2>1 DEF Store
<1>8. CASE Publish
  BY <1>8 DEF Publish
<1>9. CASE NotifyLine
  BY <1>9 DEF NotifyLine
<1>10. CASE mirror_notify
  BY <1>10 DEF mirror_notify
<1>11. CASE FbconInit
  BY <1>11 DEF FbconInit
<1>12. CASE Receive
  BY <1>12 DEF Receive
<1>13. CASE DrainTest
  BY <1>13 DEF DrainTest
<1>14. CASE Read
  <2>1. buf[Slot(t)] \in CellType
    BY SlotFacts
  <2>2. Stands(buf[Slot(t)]) \in Nat
    BY <2>1 DEF Stands, CellType
  <2>3. shown' \in CellType /\ account' \in Nat
    BY <1>14, <2>1, <2>2 DEF Read
  <2>4. fpc' \in {"test", "dead"} /\ t' = t + 1
    BY <1>14 DEF Read
  <2> QED
    BY <1>14, <2>3, <2>4 DEF Read
<1>15. CASE PutSpace
  BY <1>15 DEF PutSpace
<1>16. CASE StoreTail
  BY <1>16 DEF StoreTail
<1>17. CASE render
  BY <1>17 DEF render
<1>18. CASE UNCHANGED vars
  BY <1>18
<1> QED
  BY <1>1, <1>2, <1>3, <1>4, <1>5, <1>6, <1>7, <1>8, <1>9, <1>10, <1>11,
     <1>12, <1>13, <1>14, <1>15, <1>16, <1>17, <1>18
     DEF Next, Tracer, FbconStep

\* Room: only fbcon moves tail, and it only makes room.
LEMMA SpaceInvStep == MirrorInvariant /\ [Next]_vars => SpaceInv'
<1> SUFFICES ASSUME MirrorInvariant, [Next]_vars PROVE SpaceInv'
  OBVIOUS
<1> USE MirrorAssumption DEF MirrorInvariant, vars, ringVars, mirrorVars,
        tracerVars, displayVars, fbconVars, history, TypeOK, SpaceInv
<1>1. CASE Notified
  BY <1>1 DEF Notified
<1>2. CASE PutC
  BY <1>2 DEF PutC
<1>3. CASE ReportTest
  BY <1>3 DEF ReportTest, mirror_has_room
<1>4. CASE Report
  <2>1. PICK len \in 2 .. ReportLen : h' = h + len
    BY <1>4, ReportWrites
  <2>2. /\ tpc' = "room?" /\ mirror_dropped' = 0 /\ head' = head
        /\ tail' = tail /\ t' = t /\ fpc' = fpc
        /\ head = h /\ h - tail + ReportRoom <= Capacity
    BY <1>4 DEF Report
  <2>3. h + len - tail + 1 <= Capacity /\ len \in Nat
    BY <2>1, <2>2
  <2> QED
    BY <2>1, <2>2, <2>3
<1>5. CASE Drop
  BY <1>5 DEF Drop, mirror_has_room
<1>6. CASE RoomFound
  BY <1>6 DEF RoomFound, mirror_has_room
<1>7. CASE Store
  BY <1>7 DEF Store
<1>8. CASE Publish
  BY <1>8 DEF Publish
<1>9. CASE NotifyLine
  BY <1>9 DEF NotifyLine
<1>10. CASE mirror_notify
  BY <1>10 DEF mirror_notify
<1>11. CASE FbconInit
  BY <1>11 DEF FbconInit
<1>12. CASE Receive
  BY <1>12 DEF Receive
<1>13. CASE DrainTest
  BY <1>13 DEF DrainTest
<1>14. CASE Read
  BY <1>14 DEF Read
<1>15. CASE PutSpace
  BY <1>15 DEF PutSpace
<1>16. CASE StoreTail
  BY <1>16 DEF StoreTail
<1>17. CASE render
  BY <1>17 DEF render
<1>18. CASE UNCHANGED vars
  BY <1>18
<1> QED
  BY <1>1, <1>2, <1>3, <1>4, <1>5, <1>6, <1>7, <1>8, <1>9, <1>10, <1>11,
     <1>12, <1>13, <1>14, <1>15, <1>16, <1>17, <1>18
     DEF Next, Tracer, FbconStep

\* head is published before the notification, and fbcon tests the ring after
\* it consumed one; a report is published with the byte that follows it.
LEMMA WakeInvStep == MirrorInvariant /\ [Next]_vars => WakeInv'
<1> SUFFICES ASSUME MirrorInvariant, [Next]_vars PROVE WakeInv'
  OBVIOUS
<1> USE MirrorAssumption DEF MirrorInvariant, vars, ringVars, mirrorVars,
        tracerVars, displayVars, fbconVars, history, TypeOK, SpaceInv,
        WakeInv
<1>1. CASE Notified
  BY <1>1 DEF Notified
<1>2. CASE PutC
  BY <1>2 DEF PutC
<1>3. CASE ReportTest
  BY <1>3 DEF ReportTest, mirror_has_room
<1>4. CASE Report
  BY <1>4 DEF Report
<1>5. CASE Drop
  BY <1>5 DEF Drop, mirror_has_room
<1>6. CASE RoomFound
  BY <1>6 DEF RoomFound, mirror_has_room
<1>7. CASE Store
  BY <1>7 DEF Store
<1>8. CASE Publish
  BY <1>8 DEF Publish
<1>9. CASE NotifyLine
  BY <1>9 DEF NotifyLine
<1>10. CASE mirror_notify
  BY <1>10 DEF mirror_notify
<1>11. CASE FbconInit
  BY <1>11 DEF FbconInit
<1>12. CASE Receive
  BY <1>12 DEF Receive
<1>13. CASE DrainTest
  BY <1>13 DEF DrainTest
<1>14. CASE Read
  BY <1>14 DEF Read
<1>15. CASE PutSpace
  BY <1>15 DEF PutSpace
<1>16. CASE StoreTail
  BY <1>16 DEF StoreTail
<1>17. CASE render
  BY <1>17 DEF render
<1>18. CASE UNCHANGED vars
  BY <1>18
<1> QED
  BY <1>1, <1>2, <1>3, <1>4, <1>5, <1>6, <1>7, <1>8, <1>9, <1>10, <1>11,
     <1>12, <1>13, <1>14, <1>15, <1>16, <1>17, <1>18
     DEF Next, Tracer, FbconStep

\* A byte enters the ring only after the drops before it, and leaves it once.
LEMMA AccountInvStep == MirrorInvariant /\ [Next]_vars => AccountInv'
<1> SUFFICES ASSUME MirrorInvariant, [Next]_vars PROVE AccountInv'
  OBVIOUS
<1> USE MirrorAssumption DEF MirrorInvariant, vars, ringVars, mirrorVars,
        tracerVars, displayVars, fbconVars, history, TypeOK, AccountInv,
        InHand, DropsAccounted
<1>1. CASE Notified
  <2>1. PICK a \in [Nat -> Nat] : Counts(a)
    OBVIOUS
  <2>2. Counts(a)'
    BY <1>1, <2>1 DEF Notified, Counts
  <2> QED
    BY <1>1, <2>1, <2>2 DEF Notified
<1>2. CASE PutC
  <2>1. PICK a \in [Nat -> Nat] : Counts(a)
    OBVIOUS
  <2>2. /\ h' = h /\ nput' = nput + 1 /\ InHand' /\ ~InHand /\ fpc' = fpc
        /\ geometry' = geometry /\ t' = t /\ account' = account /\ buf' = buf
        /\ mirror_dropped' = mirror_dropped
    BY <1>2 DEF PutC, SpaceInv
  <2>3. Counts(a)'
    BY <2>1, <2>2 DEF Counts
  <2>4. c'.kind = "byte" /\ c'.n = nput'
    BY <1>2 DEF PutC, Cell
  <2> QED
    BY <1>2, <2>3, <2>4 DEF PutC
<1>3. CASE ReportTest
  <2>1. PICK a \in [Nat -> Nat] : Counts(a)
    OBVIOUS
  <2>2. Counts(a)'
    BY <1>3, <2>1 DEF ReportTest, Counts
  <2> QED
    BY <1>3, <2>1, <2>2 DEF ReportTest
<1>4. CASE Report
  <2>1. PICK a \in [Nat -> Nat] : Counts(a)
    OBVIOUS
  <2>2. \E b \in [Nat -> Nat] : Counts(b)'
    BY <1>4, <2>1, ReportCounts
  <2>3. InHand /\ InHand' /\ c' = c /\ nput' = nput /\ UNCHANGED <<shown, account>>
    BY <1>4 DEF Report
  <2> QED
    BY <2>2, <2>3
<1>5. CASE Drop
  <2>1. PICK a \in [Nat -> Nat] : Counts(a)
    OBVIOUS
  <2>2. Counts(a)'
    BY <1>5, <2>1, DropCounts
  <2> QED
    BY <1>5, <2>1, <2>2 DEF Drop
<1>6. CASE RoomFound
  <2>1. PICK a \in [Nat -> Nat] : Counts(a)
    OBVIOUS
  <2>2. Counts(a)'
    BY <1>6, <2>1 DEF RoomFound, Counts
  <2> QED
    BY <1>6, <2>1, <2>2 DEF RoomFound
<1>7. CASE Store
  <2>1. PICK a \in [Nat -> Nat] : Counts(a)
    OBVIOUS
  <2>2. InHand /\ ~InHand' /\ UNCHANGED <<shown, account>>
    BY <1>7 DEF Store
  <2>3. \E b \in [Nat -> Nat] : Counts(b)'
    BY <1>7, <2>1, <2>2, StoreCounts
  <2> QED
    BY <2>2, <2>3
<1>8. CASE Publish
  <2>1. PICK a \in [Nat -> Nat] : Counts(a)
    OBVIOUS
  <2>2. Counts(a)'
    BY <1>8, <2>1 DEF Publish, Counts
  <2> QED
    BY <1>8, <2>1, <2>2 DEF Publish
<1>9. CASE NotifyLine
  <2>1. PICK a \in [Nat -> Nat] : Counts(a)
    OBVIOUS
  <2>2. Counts(a)'
    BY <1>9, <2>1 DEF NotifyLine, Counts
  <2> QED
    BY <1>9, <2>1, <2>2 DEF NotifyLine
<1>10. CASE mirror_notify
  <2>1. PICK a \in [Nat -> Nat] : Counts(a)
    OBVIOUS
  <2>2. Counts(a)'
    BY <1>10, <2>1 DEF mirror_notify, Counts
  <2> QED
    BY <1>10, <2>1, <2>2 DEF mirror_notify
<1>11. CASE FbconInit
  <2>1. PICK a \in [Nat -> Nat] : Counts(a)
    OBVIOUS
  <2>2. Counts(a)'
    BY <1>11, <2>1 DEF FbconInit, Counts
  <2> QED
    BY <1>11, <2>1, <2>2 DEF FbconInit
<1>12. CASE Receive
  <2>1. PICK a \in [Nat -> Nat] : Counts(a)
    OBVIOUS
  <2>2. t' = t
    BY <1>12 DEF Receive, SpaceInv
  <2>3. Counts(a)'
    BY <1>12, <2>1, <2>2 DEF Receive, Counts
  <2> QED
    BY <1>12, <2>1, <2>3 DEF Receive
<1>13. CASE DrainTest
  <2>1. PICK a \in [Nat -> Nat] : Counts(a)
    OBVIOUS
  <2>2. Counts(a)'
    BY <1>13, <2>1 DEF DrainTest, Counts
  <2> QED
    BY <1>13, <2>1, <2>2 DEF DrainTest
<1>14. CASE Read
  <2>1. PICK a \in [Nat -> Nat] : Counts(a)
    OBVIOUS
  <2>2. /\ t' = t + 1 /\ h' = h /\ buf' = buf /\ mirror_dropped' = mirror_dropped
        /\ nput' = nput /\ tpc' = tpc /\ c' = c /\ geometry' = geometry
        /\ fpc' # "init" /\ fpc = "read"
    BY <1>14 DEF Read
  <2>3. t \in t .. (h - 1) /\ t \in Nat
    BY <2>2 DEF SpaceInv
  <2>4. /\ a[t + 1] = a[t] + Stands(buf[Slot(t)])
        /\ buf[Slot(t)].kind = "byte" => buf[Slot(t)].n = a[t + 1]
    BY <2>1, <2>3 DEF Counts
  <2>5. \A i \in t' .. (h' - 1) : i \in t .. (h - 1)
    BY <2>2, <2>3
  <2>6. CASE geometry.ready
    <3>1. shown' = buf[Slot(t)] /\ account' = account + Stands(buf[Slot(t)])
      BY <1>14, <2>6 DEF Read
    <3>2. a[t] = account
      BY <2>1, <2>6 DEF Counts
    <3>3. a[t'] = account' /\ DropsAccounted'
      BY <2>2, <2>4, <3>1, <3>2
    <3>4. Counts(a)'
      BY <2>1, <2>2, <2>5, <3>3 DEF Counts
    <3> QED
      BY <2>1, <2>2, <3>3, <3>4
  <2>7. CASE ~geometry.ready
    <3>1. shown' = shown /\ account' = account
      BY <1>14, <2>7 DEF Read
    <3>2. Counts(a)'
      BY <2>1, <2>2, <2>5, <2>7 DEF Counts
    <3> QED
      BY <2>1, <2>2, <3>1, <3>2
  <2> QED
    BY <2>6, <2>7
<1>15. CASE PutSpace
  <2>1. PICK a \in [Nat -> Nat] : Counts(a)
    OBVIOUS
  <2>2. Counts(a)'
    BY <1>15, <2>1 DEF PutSpace, Counts
  <2> QED
    BY <1>15, <2>1, <2>2 DEF PutSpace
<1>16. CASE StoreTail
  <2>1. PICK a \in [Nat -> Nat] : Counts(a)
    OBVIOUS
  <2>2. Counts(a)'
    BY <1>16, <2>1 DEF StoreTail, Counts
  <2> QED
    BY <1>16, <2>1, <2>2 DEF StoreTail
<1>17. CASE render
  <2>1. PICK a \in [Nat -> Nat] : Counts(a)
    OBVIOUS
  <2>2. Counts(a)'
    BY <1>17, <2>1 DEF render, Counts
  <2> QED
    BY <1>17, <2>1, <2>2 DEF render
<1>18. CASE UNCHANGED vars
  <2>1. PICK a \in [Nat -> Nat] : Counts(a)
    OBVIOUS
  <2>2. Counts(a)'
    BY <1>18, <2>1 DEF Counts
  <2> QED
    BY <1>18, <2>1, <2>2
<1> QED
  BY <1>1, <1>2, <1>3, <1>4, <1>5, <1>6, <1>7, <1>8, <1>9, <1>10, <1>11,
     <1>12, <1>13, <1>14, <1>15, <1>16, <1>17, <1>18
     DEF Next, Tracer, FbconStep

-----------------------------------------------------------------------------
(* The theorems *)

\* The invariant holds when the tracer and fbcon start.
LEMMA MirrorInit == Init => MirrorInvariant
<1> SUFFICES ASSUME Init PROVE MirrorInvariant
  OBVIOUS
<1>1. Blank \in CellType /\ Blank.kind = "text"
  BY DEF Blank, Cell, CellType, Chars
<1>2. TypeOK
  <2>1. output \in Texts /\ nput \in 0 .. Len(output)
    BY MirrorAssumption DEF Init
  <2>2. buf \in [Slots -> CellType] /\ c \in CellType /\ shown \in CellType
    BY <1>1 DEF Init
  <2>3. notification \in BOOLEAN /\ mirror_pending \in BOOLEAN
    BY DEF Init
  <2>4. /\ head \in Nat /\ tail \in Nat /\ mirror_dropped \in Nat /\ h \in Nat
        /\ t \in Nat /\ account \in Nat /\ tpc \in Tpcs /\ fpc \in Fpcs
    BY DEF Init, Tpcs, Fpcs
  <2> QED
    BY <2>1, <2>2, <2>3, <2>4 DEF TypeOK
<1>3. SpaceInv /\ WakeInv
  BY MirrorAssumption DEF Init, SpaceInv, WakeInv
<1>4. AccountInv
  <2> DEFINE a == [i \in Nat |-> 0]
  <2>1. /\ head = 0 /\ h = 0 /\ t = 0 /\ account = 0 /\ mirror_dropped = 0
        /\ nput = 0 /\ ~InHand /\ shown.kind = "text"
    BY <1>1 DEF Init, InHand
  <2>2. a \in [Nat -> Nat] /\ a[0] = 0 /\ \A i \in 0 .. (0 - 1) : FALSE
    OBVIOUS
  <2> HIDE DEF a
  <2>3. Counts(a)
    BY <2>1, <2>2 DEF Counts
  <2> QED
    BY <2>1, <2>2, <2>3 DEF AccountInv, DropsAccounted
<1> QED
  BY <1>2, <1>3, <1>4 DEF MirrorInvariant

\* MirrorInvariant holds in every reachable state of the mirror (mirror_putc
\* and mirror_notify, tracer.c, against drain_ring, fbcon.c).
THEOREM MirrorInvariantHolds == Spec => []MirrorInvariant
<1>1. MirrorInvariant /\ [Next]_vars => MirrorInvariant'
  BY TypeOKStep, SpaceInvStep, WakeInvStep, AccountInvStep DEF MirrorInvariant
<1> QED
  BY MirrorInit, <1>1, PTL DEF Spec

\* The tracer never writes the cell that drain_ring is reading, not even with
\* a report as long as reports get.
THEOREM CellsNeverRaced == Spec => []NoSlotRace
<1>1. MirrorInvariant => NoSlotRace
  <2> SUFFICES ASSUME MirrorInvariant, fpc = "read" PROVE Slot(t) \notin Writing
    BY DEF NoSlotRace
  <2>1. /\ t \in Nat /\ h \in Nat /\ tail \in Nat /\ t < h /\ tail <= t
        /\ Capacity \in Nat /\ ReportLen \in Nat /\ ReportRoom \in Nat
        /\ ReportLen < ReportRoom
    BY MirrorAssumption DEF MirrorInvariant, TypeOK, SpaceInv
  <2>2. CASE tpc = "report"
    <3> SUFFICES ASSUME NEW j \in 0 .. ReportLen - 1 PROVE Slot(t) # Slot(h + j)
      BY <2>2 DEF Writing
    <3>1. h - tail + ReportRoom <= Capacity
      BY <2>2 DEF MirrorInvariant, SpaceInv
    <3>2. h + j \in Nat /\ t < h + j /\ (h + j) - t < Capacity
      BY <2>1, <3>1
    <3> QED
      BY <2>1, <3>2, SlotFacts
  <2>3. CASE tpc = "store"
    <3>1. h - tail + 1 <= Capacity
      BY <2>3 DEF MirrorInvariant, SpaceInv
    <3>2. h - t < Capacity
      BY <2>1, <3>1
    <3> QED
      BY <2>1, <2>3, <3>2, SlotFacts DEF Writing
  <2>4. CASE tpc \notin {"report", "store"}
    BY <2>4 DEF Writing
  <2> QED
    BY <2>2, <2>3, <2>4
<1> QED
  BY MirrorInvariantHolds, <1>1, PTL

\* The panel never lies about what is missing: mirror_report_dropped() is
\* printed before the first byte that follows the drops, with their number.
THEOREM DropsAreAccounted == Spec => []DropsAccounted
<1>1. MirrorInvariant => DropsAccounted
  BY DEF MirrorInvariant, AccountInv
<1> QED
  BY MirrorInvariantHolds, <1>1, PTL

\* When the tracer and fbcon both sleep, the ring is empty and all that
\* mirror_putc did not drop has been drawn.
THEOREM NothingIsLeftWaiting == Spec => []NothingWaits
<1>1. MirrorInvariant => NothingWaits
  <2> SUFFICES ASSUME MirrorInvariant, tpc = "idle", fpc = "recv", ~notification
               PROVE  /\ head = tail
                      /\ geometry.ready => account = nput - mirror_dropped
    BY DEF NothingWaits
  <2>1. t = tail /\ h = head
    BY DEF MirrorInvariant, SpaceInv
  <2>2. t = head
    BY DEF MirrorInvariant, WakeInv
  <2>3. PICK a \in [Nat -> Nat] : Counts(a)
    BY DEF MirrorInvariant, AccountInv
  <2>4. geometry.ready => account + mirror_dropped = nput
    BY <2>1, <2>2, <2>3 DEF Counts, InHand
  <2>5. account \in Nat /\ mirror_dropped \in Nat /\ nput \in Nat
    BY DEF MirrorInvariant, TypeOK
  <2> QED
    BY <2>1, <2>2, <2>4, <2>5
<1> QED
  BY MirrorInvariantHolds, <1>1, PTL
-----------------------------------------------------------------------------
(* The panel *)

Glyphs == Chars \cup {" "}

Geometries ==
  [ready : {TRUE}, stride : Nat, width : Nat, height : Nat, cols : Nat,
   rows : Nat]

\* What read_geometry() has made sure of.
Fits(g) ==
  /\ MARGIN_SIDE + g.cols * CELL_W + MARGIN_SIDE <= g.width
  /\ MARGIN_TOP + g.rows * CELL_H + MARGIN_BOTTOM <= g.height
  /\ (g.height - 1) * g.stride + g.width * BytesPerPixel <= FBCON_FB_SIZE
  /\ g.cols <= MAX_COLS /\ g.rows <= MAX_ROWS

Screens ==
  [grid : [Rows -> [Cols -> Glyphs]], dirty : [Rows -> BOOLEAN],
   scrolled : BOOLEAN, cur_row : Nat, cur_col : Nat, fault : BOOLEAN]

Line(g) == [0 .. g.cols - 1 -> Glyphs]

\* How many lines of the page have left the panel, and what row r shows.
First(g, lines) == IF Len(lines) > g.rows THEN Len(lines) - g.rows ELSE 0
Row(g, lines, r) ==
  IF First(g, lines) + r < Len(lines) THEN lines[First(g, lines) + r + 1]
                                      ELSE BlankLine(g)

\* The grid holds the end of the page, and the cursor is where the page ends.
GridIsPage(g, s, p) ==
  /\ p.lines \in Seq(Line(g)) /\ Len(p.lines) > 0 /\ p.col \in Nat
  /\ s.cur_col = p.col /\ s.cur_row = Len(p.lines) - 1 - First(g, p.lines)
  /\ \A r \in 0 .. g.rows - 1 : \A x \in 0 .. g.cols - 1 :
       s.grid[r][x] = Row(g, p.lines, r)[x]

\* A row of the panel that differs from the grid's is marked to be drawn.
MarksDiffer(g, s, pn) ==
  \A r \in 0 .. g.rows - 1 :
    s.scrolled \/ s.dirty[r] \/ \A x \in 0 .. g.cols - 1 : pn[r][x] = s.grid[r][x]

\* The grid s, the page p and the panel pn of a panel with rows.
GridOK(g, s, p, pn) ==
  /\ s \in Screens /\ ~s.fault /\ s.cur_row < g.rows
  /\ g.cols > 0 => GridIsPage(g, s, p)
  /\ MarksDiffer(g, s, pn)
-----------------------------------------------------------------------------
(* Geometry *)

\* A number of whole cells is not wider than the room for them.
LEMMA WholeCells ==
  ASSUME NEW room \in Nat, NEW size \in Nat \ {0}
  PROVE  room \div size \in Nat /\ (room \div size) * size <= room
<1>1. /\ room % size \in 0 .. (size - 1) /\ room \div size \in Nat
      /\ room = size * (room \div size) + (room % size)
  BY SMT
<1> QED
  BY <1>1

\* read_geometry() accepts only a panel whose cells and whose frame fit.
LEMMA GeometryFits ==
  ASSUME NEW reg \in Registers, read_geometry(reg.img, reg.stride).ready
  PROVE  /\ read_geometry(reg.img, reg.stride) \in Geometries
         /\ Fits(read_geometry(reg.img, reg.stride))
<1> DEFINE size == read_size(reg.img)
           width == size.width
           height == size.height
           stride == read_stride(reg.stride, width)
           cols == (width - 2 * MARGIN_SIDE) \div CELL_W
           rows == (height - MARGIN_TOP - MARGIN_BOTTOM) \div CELL_H
           g == [ready |-> TRUE, stride |-> stride, width |-> width,
                 height |-> height, cols |-> cols, rows |-> rows]
<1>1. width \in Nat /\ height \in Nat
  BY MirrorAssumption, FbconAssumption DEF read_size
<1>2. stride \in Nat
  BY <1>1, MirrorAssumption, FbconAssumption DEF read_stride, BytesPerPixel
<1>3. /\ read_geometry(reg.img, reg.stride) = g
      /\ ~(stride < width * BytesPerPixel) /\ ~(stride * height > FBCON_FB_SIZE)
      /\ ~(width <= 2 * MARGIN_SIDE) /\ ~(height <= MARGIN_TOP + MARGIN_BOTTOM)
      /\ ~(cols > MAX_COLS) /\ ~(rows > MAX_ROWS)
  BY DEF read_geometry, NoGeometry
<1> HIDE DEF size, width, height, stride
<1>4. /\ CELL_W \in Nat \ {0} /\ CELL_H \in Nat \ {0} /\ MAX_COLS \in Nat
      /\ MAX_ROWS \in Nat /\ MARGIN_TOP \in Nat /\ MARGIN_BOTTOM \in Nat
      /\ MARGIN_SIDE \in Nat /\ FBCON_FB_SIZE \in Nat
  BY FbconAssumption
<1>5. cols \in Nat /\ cols * CELL_W <= width - 2 * MARGIN_SIDE
  <2>1. width - 2 * MARGIN_SIDE \in Nat
    BY <1>1, <1>3, <1>4
  <2> QED
    BY <1>4, <2>1, WholeCells
<1>6. rows \in Nat /\ rows * CELL_H <= height - MARGIN_TOP - MARGIN_BOTTOM
  <2>1. height - MARGIN_TOP - MARGIN_BOTTOM \in Nat
    BY <1>1, <1>3, <1>4
  <2> QED
    BY <1>4, <2>1, WholeCells
<1> HIDE DEF cols, rows
<1>7. (height - 1) * stride + width * BytesPerPixel <= FBCON_FB_SIZE
  <2>1. (height - 1) * stride = stride * height - stride
    BY <1>1, <1>2
  <2>2. stride * height \in Nat /\ width * BytesPerPixel \in Nat
    BY <1>1, <1>2 DEF BytesPerPixel
  <2> QED
    BY <1>2, <1>3, <1>4, <2>1, <2>2
<1>8. g \in Geometries
  BY <1>1, <1>2, <1>5, <1>6 DEF Geometries
<1>9. MARGIN_SIDE + cols * CELL_W + MARGIN_SIDE <= width
  <2>1. cols * CELL_W \in Nat
    BY <1>4, <1>5
  <2> QED
    BY <1>1, <1>4, <1>5, <2>1
<1>10. MARGIN_TOP + rows * CELL_H + MARGIN_BOTTOM <= height
  <2>1. rows * CELL_H \in Nat
    BY <1>4, <1>6
  <2> QED
    BY <1>1, <1>4, <1>6, <2>1
<1>11. cols <= MAX_COLS /\ rows <= MAX_ROWS
  BY <1>3, <1>4, <1>5, <1>6
<1> QED
  BY <1>3, <1>7, <1>8, <1>9, <1>10, <1>11 DEF Fits
-----------------------------------------------------------------------------
(* The grid *)

\* newline(): the next row, or all rows one up.
LEMMA NewlineIs ==
  ASSUME NEW g \in Geometries, Fits(g), NEW s \in Screens, s.cur_row < g.rows
  PROVE  LET n == newline(g, s)
         IN  /\ n \in Screens /\ n.cur_col = 0 /\ n.fault = s.fault
             /\ n.cur_row < g.rows /\ n.dirty = s.dirty
             /\ s.cur_row + 1 < g.rows =>
                  /\ n.cur_row = s.cur_row + 1
                  /\ n.grid = s.grid /\ n.scrolled = s.scrolled
             /\ ~(s.cur_row + 1 < g.rows) =>
                  /\ n.cur_row = s.cur_row /\ n.scrolled
                  /\ \A r \in 0 .. g.rows - 1 : \A x \in 0 .. g.cols - 1 :
                       n.grid[r][x] =
                         IF r + 1 < g.rows THEN s.grid[r + 1][x] ELSE " "
<1> DEFINE start == [s EXCEPT !.cur_col = 0]
           n == newline(g, s)
<1>1. /\ g.rows \in Nat /\ g.cols \in Nat /\ g.cols <= MAX_COLS
      /\ g.rows <= MAX_ROWS /\ MAX_ROWS \in Nat /\ MAX_COLS \in Nat
      /\ g.rows # 0
  BY FbconAssumption DEF Geometries, Fits, Screens
<1>2. /\ start \in Screens /\ start.cur_col = 0 /\ start.fault = s.fault
      /\ start.cur_row = s.cur_row /\ start.dirty = s.dirty
      /\ start.grid = s.grid /\ start.scrolled = s.scrolled
  BY DEF Screens
<1>3. CASE s.cur_row + 1 < g.rows
  <2>1. n = [start EXCEPT !.cur_row = @ + 1]
    BY <1>3 DEF newline
  <2> HIDE DEF n, start
  <2>2. /\ n \in Screens /\ n.cur_row = s.cur_row + 1 /\ n.cur_col = 0
        /\ n.fault = s.fault /\ n.dirty = s.dirty /\ n.grid = s.grid
        /\ n.scrolled = s.scrolled
    BY <1>2, <2>1 DEF Screens
  <2> QED
    BY <1>3, <2>2 DEF n
<1>4. CASE ~(s.cur_row + 1 < g.rows)
  <2> DEFINE up == [r \in Rows |-> [x \in Cols |->
                      IF x < g.cols /\ r < g.rows
                        THEN IF r + 1 < g.rows THEN s.grid[r + 1][x] ELSE " "
                        ELSE s.grid[r][x]]]
  <2>1. n = [start EXCEPT !.scrolled = TRUE, !.grid = up]
    BY <1>1, <1>2, <1>4 DEF newline, scroll_grid
  <2>2. up \in [Rows -> [Cols -> Glyphs]]
    <3>1. \A r \in Rows : \A x \in Cols : s.grid[r][x] \in Glyphs
      BY DEF Screens
    <3>2. \A r \in Rows : r + 1 < g.rows => r + 1 \in Rows
      BY <1>1 DEF Rows
    <3>3. " " \in Glyphs
      BY DEF Glyphs
    <3> QED
      BY <3>1, <3>2, <3>3
  <2>3. \A r \in 0 .. g.rows - 1 : \A x \in 0 .. g.cols - 1 :
          up[r][x] = IF r + 1 < g.rows THEN s.grid[r + 1][x] ELSE " "
    <3> TAKE r \in 0 .. g.rows - 1
    <3> TAKE x \in 0 .. g.cols - 1
    <3>1. r \in Rows /\ x \in Cols /\ x < g.cols /\ r < g.rows
      BY <1>1 DEF Rows, Cols
    <3> QED
      BY <3>1
  <2> HIDE DEF n, start, up
  <2>4. /\ n \in Screens /\ n.cur_row = s.cur_row /\ n.cur_col = 0
        /\ n.fault = s.fault /\ n.dirty = s.dirty /\ n.grid = up
        /\ n.scrolled
    BY <1>2, <2>1, <2>2 DEF Screens
  <2> QED
    BY <1>4, <2>3, <2>4 DEF n
<1> QED
  BY <1>3, <1>4

\* NewLine(): one more line, blank.
LEMMA NewLineIs ==
  ASSUME NEW g \in Geometries, NEW p, p.lines \in Seq(Line(g))
  PROVE  /\ NewLine(g, p).lines \in Seq(Line(g))
         /\ Len(NewLine(g, p).lines) = Len(p.lines) + 1
         /\ \A k \in 1 .. Len(p.lines) : NewLine(g, p).lines[k] = p.lines[k]
         /\ NewLine(g, p).lines[Len(p.lines) + 1] = BlankLine(g)
         /\ NewLine(g, p).col = 0
<1>1. BlankLine(g) \in Line(g)
  BY DEF BlankLine, Line, Glyphs
<1> QED
  BY <1>1, AppendProperties DEF NewLine

\* Where a row is on the page, before and after a line was added.
LEMMA RowNumbers ==
  ASSUME NEW L \in Int, NEW rows \in Int, NEW r \in Int, r + 1 < rows
  PROVE  /\ (L - rows) + (r + 1) < L
         /\ (L - rows) + (r + 1) + 1 = L - rows + r + 2
         /\ (L + 1 - rows) + r < L + 1
         /\ (L + 1 - rows) + r + 1 = L - rows + r + 2
OBVIOUS

\* After newline() the grid is still the end of the page.
LEMMA NewlineKeeps ==
  ASSUME NEW g \in Geometries, Fits(g), NEW s, NEW p, NEW pn, GridOK(g, s, p, pn)
  PROVE  GridOK(g, newline(g, s), NewLine(g, p), pn)
<1> DEFINE n == newline(g, s)
           q == NewLine(g, p)
           L == Len(p.lines)
<1>1. s \in Screens /\ ~s.fault /\ s.cur_row < g.rows /\ s.cur_row \in Nat
  BY DEF GridOK, Screens
<1>2. g.rows \in Nat /\ g.cols \in Nat /\ g.rows > 0
  BY <1>1 DEF Geometries
<1> HIDE DEF n, q
<1>3. /\ n \in Screens /\ n.cur_col = 0 /\ n.fault = s.fault
      /\ n.cur_row < g.rows /\ n.dirty = s.dirty
  BY <1>1, NewlineIs DEF n
<1>4. ASSUME s.cur_row + 1 < g.rows
      PROVE  /\ n.cur_row = s.cur_row + 1
             /\ n.grid = s.grid /\ n.scrolled = s.scrolled
  BY <1>1, <1>4, NewlineIs DEF n
<1>5. ASSUME ~(s.cur_row + 1 < g.rows)
      PROVE  n.cur_row = s.cur_row /\ n.scrolled
  BY <1>1, <1>5, NewlineIs DEF n
<1>6. ASSUME ~(s.cur_row + 1 < g.rows),
             NEW r \in 0 .. g.rows - 1, NEW x \in 0 .. g.cols - 1
      PROVE  n.grid[r][x] = IF r + 1 < g.rows THEN s.grid[r + 1][x] ELSE " "
  BY <1>1, <1>6, NewlineIs DEF n
<1>7. MarksDiffer(g, n, pn)
  <2>1. CASE s.cur_row + 1 < g.rows
    BY <1>3, <1>4, <2>1 DEF GridOK, MarksDiffer
  <2>2. CASE ~(s.cur_row + 1 < g.rows)
    BY <1>5, <2>2 DEF MarksDiffer
  <2> QED
    BY <2>1, <2>2
<1>8. ASSUME g.cols > 0 PROVE GridIsPage(g, n, q)
  <2>1. /\ p.lines \in Seq(Line(g)) /\ L \in Nat /\ L > 0
        /\ s.cur_row = L - 1 - First(g, p.lines)
    BY <1>8 DEF GridOK, GridIsPage
  <2>2. ASSUME NEW r \in 0 .. g.rows - 1, NEW x \in 0 .. g.cols - 1
        PROVE  s.grid[r][x] = Row(g, p.lines, r)[x]
    BY <1>8 DEF GridOK, GridIsPage
  <2>3. q.lines \in Seq(Line(g)) /\ Len(q.lines) = L + 1 /\ q.col = 0
    BY <2>1, NewLineIs DEF q
  <2>4. /\ \A k \in 1 .. L : q.lines[k] = p.lines[k]
        /\ q.lines[L + 1] = BlankLine(g)
    BY <2>1, NewLineIs DEF q
  <2>5. \A x \in 0 .. g.cols - 1 : BlankLine(g)[x] = " "
    BY DEF BlankLine
  <2> HIDE DEF L
  <2>6. First(g, q.lines) = IF L + 1 > g.rows THEN L + 1 - g.rows ELSE 0
    BY <1>2, <2>1, <2>3 DEF First
  <2>7. First(g, p.lines) = IF L > g.rows THEN L - g.rows ELSE 0
    BY DEF First, L
  <2>8. CASE s.cur_row + 1 < g.rows
    <3>1. L < g.rows /\ First(g, p.lines) = 0 /\ First(g, q.lines) = 0
      BY <1>1, <1>2, <2>1, <2>6, <2>7, <2>8
    <3>2. \A r \in 0 .. g.rows - 1 : Row(g, q.lines, r) = Row(g, p.lines, r)
      <4> TAKE r \in 0 .. g.rows - 1
      <4>1. /\ Row(g, p.lines, r) = IF r < L THEN p.lines[r + 1] ELSE BlankLine(g)
            /\ Row(g, q.lines, r) =
                 IF r < L + 1 THEN q.lines[r + 1] ELSE BlankLine(g)
        BY <2>3, <3>1 DEF Row, L
      <4>2. r < L => r + 1 \in 1 .. L
        BY <2>1
      <4>3. CASE r < L
        BY <2>1, <2>4, <4>1, <4>2, <4>3
      <4>4. CASE r = L
        BY <2>1, <2>4, <4>1, <4>4
      <4>5. CASE r > L
        BY <2>1, <4>1, <4>5
      <4> QED
        BY <2>1, <4>3, <4>4, <4>5
    <3>3. n.cur_row = Len(q.lines) - 1 - First(g, q.lines)
      BY <1>4, <2>1, <2>3, <2>8, <3>1
    <3>4. ASSUME NEW r \in 0 .. g.rows - 1, NEW x \in 0 .. g.cols - 1
          PROVE  n.grid[r][x] = Row(g, q.lines, r)[x]
      BY <1>4, <2>2, <2>8, <3>2
    <3> QED
      BY <1>3, <2>1, <2>3, <3>3, <3>4 DEF GridIsPage
  <2>9. CASE ~(s.cur_row + 1 < g.rows)
    <3>1. /\ L >= g.rows /\ First(g, p.lines) = L - g.rows
          /\ First(g, q.lines) = L + 1 - g.rows
      BY <1>1, <1>2, <2>1, <2>6, <2>7, <2>9
    <3>2. ASSUME NEW r \in 0 .. g.rows - 1, NEW x \in 0 .. g.cols - 1
          PROVE  n.grid[r][x] = Row(g, q.lines, r)[x]
      <4> DEFINE k == L - g.rows + r + 2
      <4>1. CASE r + 1 < g.rows
        <5>1. r + 1 \in 0 .. g.rows - 1 /\ k \in 1 .. L
          <6>1. r \in Int /\ 0 <= r /\ g.rows \in Nat /\ L \in Nat
            BY <1>2, <2>1
          <6> QED
            BY <3>1, <4>1, <6>1
        <5>2. n.grid[r][x] = s.grid[r + 1][x]
          BY <1>6, <2>9, <4>1
        <5>3. s.grid[r + 1][x] = Row(g, p.lines, r + 1)[x]
          BY <2>2, <5>1
        <5>4. /\ (L - g.rows) + (r + 1) < L /\ (L - g.rows) + (r + 1) + 1 = k
              /\ (L + 1 - g.rows) + r < L + 1 /\ (L + 1 - g.rows) + r + 1 = k
          <6>1. r \in Int /\ g.rows \in Int /\ L \in Int
            BY <1>2, <2>1
          <6> QED
            BY <4>1, <6>1, RowNumbers
        <5> HIDE DEF k
        <5>5. Row(g, p.lines, r + 1) = p.lines[k]
          BY <3>1, <5>4 DEF Row, L
        <5>6. Row(g, q.lines, r) = q.lines[k]
          BY <2>3, <3>1, <5>4 DEF Row
        <5> QED
          BY <2>4, <5>1, <5>2, <5>3, <5>5, <5>6
      <4>2. CASE r + 1 = g.rows
        <5>1. ~(r + 1 < g.rows)
          BY <1>2, <4>2
        <5>2. n.grid[r][x] = IF r + 1 < g.rows THEN s.grid[r + 1][x] ELSE " "
          BY <1>6, <2>9
        <5>3. n.grid[r][x] = " "
          BY <5>1, <5>2, Zenon
        <5>4. (L + 1 - g.rows) + r < L + 1 /\ (L + 1 - g.rows) + r + 1 = L + 1
          BY <1>2, <2>1, <4>2
        <5>5. Row(g, q.lines, r) = q.lines[L + 1]
          BY <2>3, <3>1, <5>4 DEF Row
        <5> QED
          BY <2>4, <2>5, <5>3, <5>5
      <4> QED
        BY <1>2, <4>1, <4>2
    <3>3. n.cur_row = Len(q.lines) - 1 - First(g, q.lines)
      BY <1>2, <1>5, <2>1, <2>3, <2>9, <3>1
    <3> QED
      BY <1>3, <2>1, <2>3, <3>2, <3>3 DEF GridIsPage
  <2> QED
    BY <2>8, <2>9
<1> QED
  BY <1>1, <1>3, <1>7, <1>8 DEF GridOK, n, q

\* What put_printable() does once the cursor is inside the grid.
Glyph(n, ch) == [n EXCEPT !.grid[n.cur_row][n.cur_col] = ch,
                          !.dirty[n.cur_row] = TRUE,
                          !.cur_col = @ + 1]

\* It changes one cell, its row's dirty flag and the cursor's column.
LEMMA GlyphIs ==
  ASSUME NEW n \in Screens, n.cur_row \in Rows, n.cur_col \in Cols,
         NEW ch \in Glyphs
  PROVE  /\ Glyph(n, ch) \in Screens /\ Glyph(n, ch).cur_row = n.cur_row
         /\ Glyph(n, ch).cur_col = n.cur_col + 1
         /\ Glyph(n, ch).fault = n.fault
         /\ Glyph(n, ch).scrolled = n.scrolled
         /\ \A r \in Rows :
              Glyph(n, ch).dirty[r] = (IF r = n.cur_row THEN TRUE ELSE n.dirty[r])
         /\ \A r \in Rows : \A x \in Cols :
              Glyph(n, ch).grid[r][x] =
                IF r = n.cur_row /\ x = n.cur_col THEN ch ELSE n.grid[r][x]
<1> DEFINE row == [n.grid[n.cur_row] EXCEPT ![n.cur_col] = ch]
           grid == [n.grid EXCEPT ![n.cur_row] = row]
           dirty == [n.dirty EXCEPT ![n.cur_row] = TRUE]
           col == n.cur_col + 1
<1>1. /\ n.grid \in [Rows -> [Cols -> Glyphs]] /\ n.dirty \in [Rows -> BOOLEAN]
      /\ n.cur_row \in Nat /\ n.cur_col \in Nat
  BY DEF Screens
<1>2. row \in [Cols -> Glyphs]
  BY <1>1
<1>3. \A x \in Cols : row[x] = IF x = n.cur_col THEN ch ELSE n.grid[n.cur_row][x]
  BY <1>1
<1>4. Glyph(n, ch) = [n EXCEPT !.grid = grid, !.dirty = dirty, !.cur_col = col]
  BY DEF Glyph, Screens
<1> HIDE DEF row
<1>5. grid \in [Rows -> [Cols -> Glyphs]] /\ grid[n.cur_row] = row
  BY <1>1, <1>2
<1>6. \A r \in Rows : r # n.cur_row => grid[r] = n.grid[r]
  BY <1>1
<1>7. dirty \in [Rows -> BOOLEAN]
  BY <1>1
<1>8. \A r \in Rows : dirty[r] = (IF r = n.cur_row THEN TRUE ELSE n.dirty[r])
  BY <1>1
<1>9. col \in Nat
  BY <1>1
<1> HIDE DEF grid, dirty, col
<1>10. /\ Glyph(n, ch) \in Screens /\ Glyph(n, ch).cur_row = n.cur_row
       /\ Glyph(n, ch).cur_col = col /\ Glyph(n, ch).fault = n.fault
       /\ Glyph(n, ch).scrolled = n.scrolled /\ Glyph(n, ch).dirty = dirty
       /\ Glyph(n, ch).grid = grid
  BY <1>4, <1>5, <1>7, <1>9 DEF Screens
<1>11. \A r \in Rows : \A x \in Cols :
         grid[r][x] = IF r = n.cur_row /\ x = n.cur_col THEN ch ELSE n.grid[r][x]
  BY <1>3, <1>5, <1>6
<1> QED
  BY <1>8, <1>10, <1>11 DEF col

\* Place() on a line with room changes the last line, in one place.
LEMMA PlaceIs ==
  ASSUME NEW g \in Geometries, NEW lines \in Seq(Line(g)), Len(lines) > 0,
         NEW col \in 0 .. g.cols - 1, NEW ch \in Glyphs
  PROVE  LET new == [lines EXCEPT ![Len(lines)][col] = ch]
         IN  /\ new \in Seq(Line(g)) /\ Len(new) = Len(lines)
             /\ \A k \in 1 .. Len(lines) : k # Len(lines) => new[k] = lines[k]
             /\ \A x \in 0 .. g.cols - 1 :
                  new[Len(lines)][x] =
                    IF x = col THEN ch ELSE lines[Len(lines)][x]
<1> DEFINE L == Len(lines)
           last == [lines[L] EXCEPT ![col] = ch]
           new == [lines EXCEPT ![L] = last]
<1>1. L \in 1 .. L /\ lines[L] \in Line(g)
  OBVIOUS
<1>2. last \in Line(g)
  BY <1>1 DEF Line
<1>3. \A x \in 0 .. g.cols - 1 : last[x] = IF x = col THEN ch ELSE lines[L][x]
  BY <1>1 DEF Line
<1> HIDE DEF last
<1>4. new \in Seq(Line(g)) /\ Len(new) = L
  BY <1>1, <1>2, ExceptSeq
<1>5. \A j \in 1 .. L : new[j] = IF j = L THEN last ELSE lines[j]
  BY <1>1, <1>2, ExceptSeq
<1> QED
  BY <1>1, <1>3, <1>4, <1>5 DEF last

\* A glyph put where the cursor is goes to the end of the page.
LEMMA GlyphKeeps ==
  ASSUME NEW g \in Geometries, Fits(g), NEW n, NEW q, NEW pn, NEW ch \in Glyphs,
         GridOK(g, n, q, pn), n.cur_col \in Cols, g.cols > 0 => n.cur_col < g.cols
  PROVE  GridOK(g, Glyph(n, ch),
                [lines |-> [q.lines EXCEPT ![Len(q.lines)][q.col] = ch],
                 col |-> q.col + 1], pn)
<1> DEFINE m == Glyph(n, ch)
           new == [q.lines EXCEPT ![Len(q.lines)][q.col] = ch]
           L == Len(q.lines)
<1>1. /\ n \in Screens /\ ~n.fault /\ n.cur_row < g.rows /\ n.cur_row \in Nat
      /\ n.cur_col \in Nat
  BY DEF GridOK, Screens
<1>2. /\ g.rows \in Nat /\ g.cols \in Nat /\ g.cols <= MAX_COLS
      /\ g.rows <= MAX_ROWS /\ MAX_ROWS \in Nat /\ MAX_COLS \in Nat
  BY FbconAssumption DEF Geometries, Fits
<1>3. n.cur_row \in Rows
  BY <1>1, <1>2 DEF Rows
<1>4. /\ \A r \in 0 .. g.rows - 1 : r \in Rows
      /\ \A x \in 0 .. g.cols - 1 : x \in Cols
  BY <1>2 DEF Rows, Cols
<1> HIDE DEF m
<1>5. /\ m \in Screens /\ m.cur_row = n.cur_row /\ m.cur_col = n.cur_col + 1
      /\ m.fault = n.fault /\ m.scrolled = n.scrolled
      /\ \A r \in Rows :
           m.dirty[r] = (IF r = n.cur_row THEN TRUE ELSE n.dirty[r])
      /\ \A r \in Rows : \A x \in Cols :
           m.grid[r][x] =
             IF r = n.cur_row /\ x = n.cur_col THEN ch ELSE n.grid[r][x]
  BY <1>1, <1>3, GlyphIs DEF m
<1>6. ASSUME NEW r \in 0 .. g.rows - 1
      PROVE  m.dirty[r] = (IF r = n.cur_row THEN TRUE ELSE n.dirty[r])
  BY <1>4, <1>5
<1>7. ASSUME NEW r \in 0 .. g.rows - 1, NEW x \in 0 .. g.cols - 1
      PROVE  m.grid[r][x] =
               IF r = n.cur_row /\ x = n.cur_col THEN ch ELSE n.grid[r][x]
  BY <1>4, <1>5
<1>8. MarksDiffer(g, m, pn)
  <2> SUFFICES ASSUME NEW r \in 0 .. g.rows - 1, ~m.scrolled, ~m.dirty[r],
                      NEW x \in 0 .. g.cols - 1
               PROVE  pn[r][x] = m.grid[r][x]
    BY DEF MarksDiffer
  <2>1. r # n.cur_row /\ ~n.scrolled /\ ~n.dirty[r]
    BY <1>5, <1>6
  <2>2. pn[r][x] = n.grid[r][x]
    BY <2>1 DEF GridOK, MarksDiffer
  <2> QED
    BY <1>7, <2>1, <2>2
<1>9. ASSUME g.cols > 0 PROVE GridIsPage(g, m, [lines |-> new, col |-> q.col + 1])
  <2>1. /\ q.lines \in Seq(Line(g)) /\ L \in Nat /\ L > 0 /\ q.col \in Nat
        /\ n.cur_col = q.col /\ n.cur_row = L - 1 - First(g, q.lines)
    BY <1>9 DEF GridOK, GridIsPage
  <2>2. ASSUME NEW r \in 0 .. g.rows - 1, NEW x \in 0 .. g.cols - 1
        PROVE  n.grid[r][x] = Row(g, q.lines, r)[x]
    BY <1>9 DEF GridOK, GridIsPage
  <2>3. q.col \in 0 .. g.cols - 1
    BY <1>2, <1>9, <2>1
  <2> HIDE DEF new, L
  <2>4. /\ new \in Seq(Line(g)) /\ Len(new) = L
        /\ \A k \in 1 .. L : k # L => new[k] = q.lines[k]
        /\ \A x \in 0 .. g.cols - 1 :
             new[L][x] = IF x = q.col THEN ch ELSE q.lines[L][x]
    BY <2>1, <2>3, PlaceIs DEF new, L
  <2>5. /\ First(g, new) = First(g, q.lines) /\ First(g, new) \in Nat
        /\ First(g, new) = IF L > g.rows THEN L - g.rows ELSE 0
    BY <1>2, <2>1, <2>4 DEF First, L
  <2>6. ASSUME NEW r \in 0 .. g.rows - 1, NEW x \in 0 .. g.cols - 1
        PROVE  m.grid[r][x] = Row(g, new, r)[x]
    <3> DEFINE k == First(g, new) + r + 1
    <3>1. k \in Nat /\ k > 0 /\ (r = n.cur_row <=> k = L)
      BY <1>1, <2>1, <2>5
    <3>2. /\ Row(g, new, r) = IF k <= L THEN new[k] ELSE BlankLine(g)
          /\ Row(g, q.lines, r) = IF k <= L THEN q.lines[k] ELSE BlankLine(g)
      <4>1. First(g, new) + r < L <=> k <= L
        BY <2>1, <2>5
      <4> QED
        BY <2>4, <2>5, <4>1 DEF Row, L
    <3> HIDE DEF k
    <3>3. CASE r = n.cur_row
      <4>1. Row(g, new, r) = new[L] /\ Row(g, q.lines, r) = q.lines[L]
        BY <2>1, <3>1, <3>2, <3>3
      <4>2. n.grid[r][x] = q.lines[L][x]
        BY <2>2, <4>1
      <4>3. new[L][x] = IF x = q.col THEN ch ELSE q.lines[L][x]
        BY <2>4
      <4>4. m.grid[r][x] = IF x = q.col THEN ch ELSE n.grid[r][x]
        BY <1>7, <2>1, <3>3
      <4> QED
        BY <4>1, <4>2, <4>3, <4>4
    <3>4. CASE r # n.cur_row
      <4>1. m.grid[r][x] = Row(g, q.lines, r)[x]
        BY <1>7, <2>2, <3>4
      <4>2. k <= L => k \in 1 .. L /\ k # L
        BY <2>1, <3>1, <3>4
      <4>3. Row(g, new, r) = Row(g, q.lines, r)
        BY <2>4, <3>2, <4>2
      <4> QED
        BY <4>1, <4>3
    <3> QED
      BY <3>3, <3>4
  <2>7. m.cur_col = q.col + 1 /\ m.cur_row = Len(new) - 1 - First(g, new)
    BY <1>5, <2>1, <2>4, <2>5
  <2> QED
    BY <2>1, <2>4, <2>6, <2>7 DEF GridIsPage
<1> QED
  BY <1>1, <1>5, <1>8, <1>9 DEF GridOK, m

\* A printable character: a full line is left first, by the grid and the page.
LEMMA PrintKeeps ==
  ASSUME NEW g \in Geometries, Fits(g), NEW s, NEW p, NEW pn, NEW ch \in Glyphs,
         GridOK(g, s, p, pn)
  PROVE  GridOK(g, put_printable(g, s, ch), Place(g, p, ch), pn)
<1> DEFINE n == IF s.cur_col >= g.cols THEN newline(g, s) ELSE s
           q == IF p.col >= g.cols THEN NewLine(g, p) ELSE p
<1>1. s \in Screens /\ s.cur_col \in Nat /\ s.cur_row < g.rows
  BY DEF GridOK, Screens
<1>2. /\ g.rows \in Nat /\ g.cols \in Nat /\ g.cols <= MAX_COLS
      /\ g.rows <= MAX_ROWS /\ MAX_ROWS \in Nat /\ MAX_COLS \in Nat \ {0}
  BY FbconAssumption DEF Geometries, Fits
<1>3. GridOK(g, newline(g, s), NewLine(g, p), pn) /\ newline(g, s).cur_col = 0
  BY <1>1, NewlineKeeps, NewlineIs
<1>4. GridOK(g, n, q, pn)
  <2>1. CASE g.cols = 0
    <3>1. n = newline(g, s)
      BY <1>1, <2>1
    <3> QED
      BY <1>2, <1>3, <2>1, <3>1 DEF GridOK
  <2>2. CASE g.cols > 0
    <3>1. s.cur_col = p.col
      BY <2>2 DEF GridOK, GridIsPage
    <3> QED
      BY <1>3, <3>1
  <2> QED
    BY <1>2, <2>1, <2>2
<1>5. /\ n \in Screens /\ ~n.fault /\ n.cur_row < g.rows /\ n.cur_row \in Nat
  BY <1>4 DEF GridOK, Screens
<1>6. n.cur_col \in Cols /\ (g.cols > 0 => n.cur_col < g.cols)
  BY <1>1, <1>2, <1>3 DEF Cols
<1>7. n.cur_row \in Rows
  BY <1>2, <1>5 DEF Rows
<1>8. put_printable(g, s, ch) = Glyph(n, ch)
  BY <1>5, <1>6, <1>7 DEF put_printable, Glyph
<1>9. Place(g, p, ch) = [lines |-> [q.lines EXCEPT ![Len(q.lines)][q.col] = ch],
                         col |-> q.col + 1]
  BY DEF Place
<1> HIDE DEF n, q
<1> QED
  BY <1>4, <1>6, <1>8, <1>9, GlyphKeeps

\* put(): whatever the character, the grid is still the end of the page.
LEMMA PutKeeps ==
  ASSUME NEW g \in Geometries, Fits(g), NEW s, NEW p, NEW pn, NEW ch \in Glyphs,
         GridOK(g, s, p, pn)
  PROVE  GridOK(g, put(g, s, ch), IF g.cols = 0 THEN p ELSE Write(g, p, ch), pn)
<1>1. g.cols \in Nat
  BY DEF Geometries
<1>2. GridOK(g, put(g, s, ch), Write(g, p, ch), pn)
  <2>1. CASE ch = "LF"
    BY <2>1, NewlineKeeps DEF put, Write
  <2>2. CASE ch = "CR"
    <3> DEFINE n == [s EXCEPT !.cur_col = 0]
               q == [p EXCEPT !.col = 0]
    <3>1. put(g, s, ch) = n /\ Write(g, p, ch) = q
      BY <2>2 DEF put, Write
    <3>2. s \in Screens
      BY DEF GridOK
    <3>3. /\ n \in Screens /\ n.cur_col = 0 /\ n.cur_row = s.cur_row
          /\ n.grid = s.grid /\ n.dirty = s.dirty /\ n.scrolled = s.scrolled
          /\ n.fault = s.fault
      BY <3>2 DEF Screens
    <3>4. ASSUME g.cols > 0 PROVE q.lines = p.lines /\ q.col = 0
      BY <3>4 DEF GridOK, GridIsPage
    <3> HIDE DEF n, q
    <3>5. GridOK(g, n, q, pn)
      BY <3>3, <3>4 DEF GridOK, GridIsPage, MarksDiffer
    <3> QED
      BY <3>1, <3>5
  <2>3. CASE ch \in {"TAB", "ctl"}
    BY <2>3 DEF put, Write
  <2>4. CASE ch \notin {"LF", "CR", "TAB", "ctl"}
    BY <2>4, PrintKeeps DEF put, Write
  <2> QED
    BY <2>1, <2>2, <2>3, <2>4
<1> QED
  BY <1>1, <1>2 DEF GridOK
-----------------------------------------------------------------------------
(* The invariant *)

\* Nothing is marked to be drawn.
Clean(g, s) == ~s.scrolled /\ \A r \in 0 .. g.rows - 1 : ~s.dirty[r]

\* The geometry fits; a tab is still being put only inside drain_ring(), after
\* a byte was taken; and if the panel has a row, the grid is the end of the
\* page, the panel agrees with it but for the marked rows, and there are none
\* unless drain_ring() took a byte.
PanelInvariant ==
  /\ geometry = NoGeometry \/ (geometry \in Geometries /\ Fits(geometry))
  /\ fpc = "init" => ~geometry.ready
  /\ tab \in Nat
  /\ tab > 0 => fpc \in {"test", "dead"} /\ t # tail /\ geometry.ready
  /\ geometry.ready =>
       /\ panel \in [0 .. geometry.rows - 1 -> Line(geometry)]
       /\ geometry.rows > 0 =>
            /\ GridOK(geometry, screen, page, panel)
            /\ fpc # "render" /\ t = tail => Clean(geometry, screen)

\* init(): an empty grid is the end of an empty page, on a blank panel.
LEMMA InitPanel ==
  ASSUME NEW g \in Geometries, Fits(g)
  PROVE  /\ blank_panel(g) \in [0 .. g.rows - 1 -> Line(g)]
         /\ g.rows > 0 => /\ GridOK(g, clear_screen(g), EmptyPage(g), blank_panel(g))
                          /\ Clean(g, clear_screen(g))
<1> DEFINE s == clear_screen(g)
           p == EmptyPage(g)
<1>1. /\ g.rows \in Nat /\ g.cols \in Nat /\ g.cols <= MAX_COLS
      /\ g.rows <= MAX_ROWS /\ MAX_ROWS \in Nat /\ MAX_COLS \in Nat
  BY FbconAssumption DEF Geometries, Fits
<1>2. /\ \A r \in 0 .. g.rows - 1 : r \in Rows
      /\ \A x \in 0 .. g.cols - 1 : x \in Cols
  BY <1>1 DEF Rows, Cols
<1>3. blank_panel(g) \in [0 .. g.rows - 1 -> Line(g)]
  BY DEF blank_panel, Line, Glyphs
<1>4. /\ s \in Screens /\ ~s.fault /\ s.cur_row = 0 /\ s.cur_col = 0
      /\ ~s.scrolled /\ \A r \in Rows : ~s.dirty[r]
      /\ \A r \in Rows : \A x \in Cols : s.grid[r][x] = " "
  BY DEF clear_screen, Screens, Glyphs
<1>5. BlankLine(g) \in Line(g) /\ \A x \in 0 .. g.cols - 1 : BlankLine(g)[x] = " "
  BY DEF BlankLine, Line, Glyphs
<1>6. /\ p.lines \in Seq(Line(g)) /\ Len(p.lines) = 1 /\ p.col = 0
      /\ p.lines[1] = BlankLine(g)
  <2>1. p.lines = <<BlankLine(g)>> /\ p.col = 0
    BY DEF EmptyPage
  <2>2. ASSUME NEW S, NEW b \in S
        PROVE  <<b>> \in Seq(S) /\ Len(<<b>>) = 1 /\ <<b>>[1] = b
    OBVIOUS
  <2> HIDE DEF p
  <2> QED
    BY <1>5, <2>1, <2>2
<1>7. \A r \in 0 .. g.rows - 1 : \A x \in 0 .. g.cols - 1 :
        blank_panel(g)[r][x] = " "
  BY DEF blank_panel
<1> HIDE DEF s, p
<1>8. ASSUME g.rows > 0
      PROVE  GridOK(g, s, p, blank_panel(g)) /\ Clean(g, s)
  <2>1. First(g, p.lines) = 0
    BY <1>1, <1>6, <1>8 DEF First
  <2>2. \A r \in 0 .. g.rows - 1 : Row(g, p.lines, r) = BlankLine(g)
    <3> TAKE r \in 0 .. g.rows - 1
    <3>1. Row(g, p.lines, r) = IF r < 1 THEN p.lines[r + 1] ELSE BlankLine(g)
      BY <1>6, <2>1 DEF Row
    <3>2. r < 1 => r + 1 = 1
      BY <1>1
    <3> QED
      BY <1>6, <3>1, <3>2
  <2>3. GridIsPage(g, s, p)
    <3>1. s.cur_col = p.col /\ s.cur_row = Len(p.lines) - 1 - First(g, p.lines)
      <4>1. Len(p.lines) - 1 - First(g, p.lines) = 0
        BY <1>6, <2>1
      <4> QED
        BY <1>4, <1>6, <4>1
    <3>2. \A r \in 0 .. g.rows - 1 : \A x \in 0 .. g.cols - 1 :
            s.grid[r][x] = Row(g, p.lines, r)[x]
      BY <1>2, <1>4, <1>5, <2>2
    <3> QED
      BY <1>6, <3>1, <3>2 DEF GridIsPage
  <2>4. MarksDiffer(g, s, blank_panel(g))
    BY <1>2, <1>4, <1>7 DEF MarksDiffer
  <2>5. Clean(g, s)
    BY <1>2, <1>4 DEF Clean
  <2> QED
    BY <1>4, <1>8, <2>3, <2>4, <2>5 DEF GridOK
<1> QED
  BY <1>3, <1>8 DEF s, p

\* render(): what was marked is drawn, and the marks are gone.
LEMMA RenderKeeps ==
  ASSUME NEW g \in Geometries, Fits(g), NEW s, NEW p,
         NEW pn \in [0 .. g.rows - 1 -> Line(g)], GridOK(g, s, p, pn)
  PROVE  /\ draw_rows(g, s, pn) \in [0 .. g.rows - 1 -> Line(g)]
         /\ GridOK(g, drawn(g, s), p, draw_rows(g, s, pn))
         /\ Clean(g, drawn(g, s))
<1> DEFINE m == drawn(g, s)
           new == draw_rows(g, s, pn)
           clean == [r \in Rows |-> IF r < g.rows THEN FALSE ELSE s.dirty[r]]
<1>1. s \in Screens
  BY DEF GridOK
<1>2. /\ g.rows \in Nat /\ g.cols \in Nat /\ g.cols <= MAX_COLS
      /\ g.rows <= MAX_ROWS /\ MAX_ROWS \in Nat /\ MAX_COLS \in Nat
  BY FbconAssumption DEF Geometries, Fits
<1>3. /\ \A r \in 0 .. g.rows - 1 : r \in Rows /\ r < g.rows
      /\ \A x \in 0 .. g.cols - 1 : x \in Cols
  BY <1>2 DEF Rows, Cols
<1>4. clean \in [Rows -> BOOLEAN]
  BY <1>1 DEF Screens
<1>5. \A r \in 0 .. g.rows - 1 : clean[r] = FALSE
  BY <1>3
<1>6. m = [s EXCEPT !.scrolled = FALSE, !.dirty = clean]
  BY DEF drawn
<1> HIDE DEF clean, m
<1>7. /\ m \in Screens /\ m.grid = s.grid /\ m.cur_row = s.cur_row
      /\ m.cur_col = s.cur_col /\ m.fault = s.fault /\ ~m.scrolled
      /\ m.dirty = clean
  BY <1>1, <1>4, <1>6 DEF Screens
<1>8. \A r \in 0 .. g.rows - 1 :
        new[r] = IF s.scrolled \/ s.dirty[r]
                   THEN [x \in 0 .. g.cols - 1 |-> s.grid[r][x]] ELSE pn[r]
  BY DEF draw_rows
<1>9. \A r \in 0 .. g.rows - 1 :
        [x \in 0 .. g.cols - 1 |-> s.grid[r][x]] \in Line(g)
  BY <1>1, <1>3 DEF Screens, Line
<1>10. new \in [0 .. g.rows - 1 -> Line(g)]
  BY <1>8, <1>9 DEF draw_rows
<1> HIDE DEF new
<1>11. \A r \in 0 .. g.rows - 1 : \A x \in 0 .. g.cols - 1 :
         new[r][x] = s.grid[r][x]
  BY <1>8 DEF GridOK, MarksDiffer
<1>12. GridOK(g, m, p, new)
  BY <1>7, <1>11 DEF GridOK, GridIsPage, MarksDiffer
<1>13. Clean(g, m)
  BY <1>5, <1>7 DEF Clean
<1> QED
  BY <1>10, <1>12, <1>13 DEF m, new

\* A step that draws nothing, and leaves nothing undrawn that was drawn.
LEMMA PanelUnchanged ==
  ASSUME PanelInvariant, displayVars' = displayVars, page' = page,
         tab = 0 \/ (fpc' = fpc /\ t' = t /\ tail' = tail),
         fpc' # "init" \/ fpc = "init",
         geometry.ready /\ fpc' # "render" /\ t' = tail' =>
           fpc # "render" /\ t = tail
  PROVE  PanelInvariant'
<1>1. /\ geometry' = geometry /\ screen' = screen /\ panel' = panel
      /\ tab' = tab
  BY DEF displayVars
<1> QED
  BY <1>1 DEF PanelInvariant

\* A character put after a byte was taken.
LEMMA PanelPut ==
  ASSUME PanelInvariant, geometry.ready, NEW ch \in Glyphs,
         Put(put(geometry, screen, ch), ch), geometry' = geometry, panel' = panel,
         tab' \in Nat, fpc' \in {"test", "dead"}, t' # tail'
  PROVE  PanelInvariant'
<1>1. geometry \in Geometries /\ Fits(geometry)
  BY DEF PanelInvariant, NoGeometry
<1>2. /\ screen' = put(geometry, screen, ch)
      /\ page' = IF geometry.cols = 0 THEN page ELSE Write(geometry, page, ch)
  BY DEF Put
<1>3. ASSUME geometry.rows > 0 PROVE GridOK(geometry', screen', page', panel')
  <2>1. GridOK(geometry, screen, page, panel)
    BY <1>3 DEF PanelInvariant
  <2>2. GridOK(geometry, put(geometry, screen, ch),
               IF geometry.cols = 0 THEN page ELSE Write(geometry, page, ch), panel)
    BY <1>1, <2>1, PutKeeps
  <2> QED
    BY <1>2, <2>2
<1> QED
  BY <1>1, <1>3 DEF PanelInvariant

\* Every step preserves PanelInvariant.
LEMMA PanelStep ==
  MirrorInvariant /\ PanelInvariant /\ [Next]_vars => PanelInvariant'
<1> SUFFICES ASSUME MirrorInvariant, PanelInvariant, [Next]_vars
             PROVE  PanelInvariant'
  OBVIOUS
<1> USE DEF ringVars, tracerVars, fbconVars, history
<1>1. CASE Tracer
  <2>1. /\ UNCHANGED <<displayVars, fbconVars, tail>>
    BY <1>1 DEF Tracer, Notified, PutC, ReportTest, Report, Drop, RoomFound,
                Store, Publish, NotifyLine, mirror_notify
  <2> QED
    BY <2>1, PanelUnchanged
<1>2. CASE FbconInit
  <2>1. PICK reg \in Registers : geometry' = read_geometry(reg.img, reg.stride)
    BY <1>2 DEF FbconInit
  <2>2. /\ tab' = tab /\ t' = t /\ tail' = tail /\ fpc' = "recv" /\ tab = 0
    BY <1>2 DEF FbconInit, PanelInvariant
  <2>3. CASE geometry'.ready
    <3>1. geometry' \in Geometries /\ Fits(geometry')
      BY <2>1, <2>3, GeometryFits
    <3>2. /\ screen' = clear_screen(geometry') /\ panel' = blank_panel(geometry')
          /\ page' = EmptyPage(geometry')
      BY <1>2, <2>3 DEF FbconInit
    <3>3. /\ panel' \in [0 .. geometry'.rows - 1 -> Line(geometry')]
          /\ geometry'.rows > 0 => /\ GridOK(geometry', screen', page', panel')
                                   /\ Clean(geometry', screen')
      BY <3>1, <3>2, InitPanel
    <3> QED
      BY <2>2, <3>1, <3>3 DEF PanelInvariant
  <2>4. CASE ~geometry'.ready
    <3>1. geometry' = NoGeometry
      BY <2>1, <2>4 DEF read_geometry
    <3> QED
      BY <2>2, <2>4, <3>1 DEF PanelInvariant
  <2> QED
    BY <2>3, <2>4
<1>3. CASE Receive
  <2>1. /\ UNCHANGED <<displayVars, page, tail>> /\ fpc = "recv" /\ fpc' = "test"
        /\ t' = tail /\ t = tail /\ tab = 0
    BY <1>3 DEF Receive, MirrorInvariant, SpaceInv, PanelInvariant
  <2> QED
    BY <2>1, PanelUnchanged
<1>4. CASE DrainTest
  <2>1. /\ UNCHANGED <<displayVars, page, tail, t>> /\ fpc = "test" /\ tab = 0
        /\ fpc' \in {"read", "store"}
    BY <1>4 DEF DrainTest
  <2> QED
    BY <2>1, PanelUnchanged
<1>5. CASE Read
  <2>1. /\ t' = t + 1 /\ tail' = tail /\ geometry' = geometry /\ panel' = panel
        /\ fpc' \in {"test", "dead"} /\ fpc = "read"
    BY <1>5 DEF Read
  <2>2. t \in Nat /\ tail \in Nat /\ tail <= t /\ tab = 0
    BY <2>1 DEF MirrorInvariant, TypeOK, SpaceInv, PanelInvariant
  <2>3. t' # tail'
    BY <2>1, <2>2
  <2>4. CASE geometry.ready
    <3> DEFINE ch == buf[Slot(t)].ch
    <3>1. ch \in Glyphs
      BY <2>2, SlotFacts DEF MirrorInvariant, TypeOK, CellType, Glyphs
    <3>2. Put(put(geometry, screen, ch), ch) /\ tab' = spaces(ch)
      BY <1>5, <2>4 DEF Read
    <3>3. tab' \in Nat
      BY <3>2 DEF spaces, TAB_WIDTH
    <3> HIDE DEF ch
    <3> QED
      BY <2>1, <2>3, <2>4, <3>1, <3>2, <3>3, PanelPut
  <2>5. CASE ~geometry.ready
    <3>1. UNCHANGED <<displayVars, page>>
      BY <1>5, <2>1, <2>5 DEF Read, displayVars
    <3> QED
      BY <2>1, <2>2, <2>3, <3>1, PanelUnchanged
  <2> QED
    BY <2>4, <2>5
<1>6. CASE PutSpace
  <2>1. /\ t' = t /\ tail' = tail /\ geometry' = geometry /\ panel' = panel
        /\ fpc' \in {"test", "dead"} /\ tab > 0 /\ tab' = tab - 1
        /\ Put(put_printable(geometry, screen, " "), " ")
    BY <1>6 DEF PutSpace
  <2>2. t # tail /\ geometry.ready /\ tab' \in Nat
    <3>1. tab \in Nat /\ (tab > 0 => t # tail /\ geometry.ready)
      BY DEF PanelInvariant
    <3>2. tab > 0 /\ tab' = tab - 1
      BY <2>1
    <3>3. tab - 1 \in Nat
      BY <3>1, <3>2
    <3> QED
      BY <3>1, <3>2, <3>3
  <2>3. put(geometry, screen, " ") = put_printable(geometry, screen, " ")
    BY DEF put
  <2>4. " " \in Glyphs
    BY DEF Glyphs
  <2> QED
    BY <2>1, <2>2, <2>3, <2>4, PanelPut
<1>7. CASE StoreTail
  <2>1. /\ UNCHANGED <<displayVars, page, t>> /\ fpc = "store" /\ tail' = t
        /\ fpc' = IF t # tail /\ geometry.ready THEN "render" ELSE "recv"
    BY <1>7 DEF StoreTail
  <2>2. tab = 0
    BY <2>1 DEF PanelInvariant
  <2> QED
    BY <2>1, <2>2, PanelUnchanged
<1>8. CASE render
  <2>1. /\ panel' = draw_rows(geometry, screen, panel)
        /\ screen' = drawn(geometry, screen) /\ fpc = "render" /\ fpc' = "recv"
        /\ UNCHANGED <<geometry, tab, t, tail, page>>
    BY <1>8 DEF render
  <2>2. tab = 0
    BY <2>1 DEF PanelInvariant
  <2>3. ASSUME geometry.ready
        PROVE  /\ geometry \in Geometries /\ Fits(geometry)
               /\ panel \in [0 .. geometry.rows - 1 -> Line(geometry)]
    BY <2>3 DEF PanelInvariant, NoGeometry
  <2>4. ASSUME geometry.ready
        PROVE  panel' \in [0 .. geometry.rows - 1 -> Line(geometry)]
    <3>1. CASE geometry.rows > 0
      BY <2>1, <2>3, <2>4, <3>1, RenderKeeps DEF PanelInvariant
    <3>2. CASE ~(geometry.rows > 0)
      <4>1. \A r : r \notin 0 .. geometry.rows - 1
        BY <2>3, <2>4, <3>2 DEF Geometries
      <4> QED
        BY <2>1, <2>3, <2>4, <4>1 DEF draw_rows
    <3> QED
      BY <3>1, <3>2
  <2>5. ASSUME geometry.ready, geometry.rows > 0
        PROVE  /\ GridOK(geometry, screen', page, panel')
               /\ Clean(geometry, screen')
    BY <2>1, <2>3, <2>5, RenderKeeps DEF PanelInvariant
  <2> QED
    BY <2>1, <2>2, <2>4, <2>5 DEF PanelInvariant
<1>9. CASE UNCHANGED vars
  BY <1>9, PanelUnchanged DEF vars
<1> QED
  BY <1>1, <1>2, <1>3, <1>4, <1>5, <1>6, <1>7, <1>8, <1>9 DEF Next, FbconStep
-----------------------------------------------------------------------------
(* The theorems *)

\* PanelInvariant holds in every reachable state of fbcon (init, drain_ring,
\* put, render: fbcon.c).
THEOREM PanelInvariantHolds == Spec => []PanelInvariant
<1>1. Init => PanelInvariant
  BY DEF Init, PanelInvariant, NoGeometry
<1> QED
  BY MirrorInvariantHolds, PanelStep, <1>1, PTL DEF Spec

\* The geometry that read_geometry() accepts keeps every pixel fbcon draws in
\* the panel and in the framebuffer, and no index of put_printable(),
\* newline() or scroll_grid() leaves the grid on a panel with a row.
THEOREM FbconDrawsInside == Spec => []DrawsInside
<1>1. PanelInvariant => DrawsInside
  BY DEF PanelInvariant, NoGeometry, DrawsInside, Fits, GridOK
<1> QED
  BY PanelInvariantHolds, <1>1, PTL

\* When fbcon sleeps, the panel shows the last lines of all it was given: the
\* rows that render() skips are the ones that did not change.
THEOREM PanelShowsTheTail == Spec => []PanelShowsTail
<1>1. MirrorInvariant /\ PanelInvariant => PanelShowsTail
  <2> DEFINE g == geometry
             last == LastLines(g, page.lines)
  <2> SUFFICES ASSUME MirrorInvariant, PanelInvariant, fpc = "recv", g.ready,
                      g.cols > 0
               PROVE  panel = last
    BY DEF PanelShowsTail
  <2>1. /\ g \in Geometries /\ g.rows \in Nat
        /\ panel \in [0 .. g.rows - 1 -> Line(g)]
    <3>1. g \in Geometries /\ panel \in [0 .. g.rows - 1 -> Line(g)]
      BY DEF PanelInvariant, NoGeometry
    <3> QED
      BY <3>1 DEF Geometries
  <2>2. /\ last = [r \in 0 .. g.rows - 1 |-> Row(g, page.lines, r)]
    BY DEF LastLines, Row, First
  <2>3. CASE g.rows = 0
    <3>1. \A r : r \notin 0 .. g.rows - 1
      BY <2>3
    <3> QED
      BY <2>1, <2>2, <3>1
  <2>4. CASE g.rows > 0
    <3>1. t = tail
      BY DEF MirrorInvariant, SpaceInv
    <3>2. GridOK(g, screen, page, panel) /\ Clean(g, screen)
      BY <2>4, <3>1 DEF PanelInvariant
    <3>3. GridIsPage(g, screen, page) /\ MarksDiffer(g, screen, panel)
      BY <3>2 DEF GridOK
    <3>4. \A r \in 0 .. g.rows - 1 : \A x \in 0 .. g.cols - 1 :
            panel[r][x] = Row(g, page.lines, r)[x]
      BY <3>2, <3>3 DEF Clean, MarksDiffer, GridIsPage
    <3>5. \A r \in 0 .. g.rows - 1 : Row(g, page.lines, r) \in Line(g)
      <4> TAKE r \in 0 .. g.rows - 1
      <4>1. First(g, page.lines) \in Nat /\ Len(page.lines) \in Nat
        BY <2>1, <3>3 DEF GridIsPage, First
      <4>2. BlankLine(g) \in Line(g)
        BY DEF BlankLine, Line, Glyphs
      <4>3. ASSUME First(g, page.lines) + r < Len(page.lines)
            PROVE  page.lines[First(g, page.lines) + r + 1] \in Line(g)
        BY <4>1, <4>3, <3>3 DEF GridIsPage
      <4> QED
        BY <4>2, <4>3 DEF Row
    <3>6. \A r \in 0 .. g.rows - 1 : panel[r] = Row(g, page.lines, r)
      <4> TAKE r \in 0 .. g.rows - 1
      <4> DEFINE D == 0 .. g.cols - 1
                 v == panel[r]
                 w == Row(g, page.lines, r)
      <4>1. v \in [D -> Glyphs] /\ w \in [D -> Glyphs]
        BY <2>1, <3>5 DEF Line
      <4>2. \A x \in D : v[x] = w[x]
        BY <3>4
      <4> HIDE DEF D, v, w
      <4>3. v = w
        BY <4>1, <4>2
      <4> QED
        BY <4>3 DEF v, w
    <3> QED
      BY <2>1, <2>2, <3>6
  <2> QED
    BY <2>1, <2>3, <2>4
<1> QED
  BY MirrorInvariantHolds, PanelInvariantHolds, <1>1, PTL
=============================================================================
