------------------------- MODULE FreezewatchProofs -------------------------
(***************************************************************************)
(* Proofs about Freezewatch, for any limits and any amount of output and   *)
(* input: the watcher reports a freeze once, although it samples what it   *)
(* watches load by load and nothing is assumed of the system it watches.   *)
(***************************************************************************)
EXTENDS Freezewatch, TLAPS

\* What waits is counted, and the ring at hand is one of the two.  (The flags
\* and ages are well typed too, but no proof needs that.)
TypeOK ==
  /\ pending \in [Rings -> Nat] /\ old \in [Rings -> Nat]
  /\ fifo \in Nat /\ ring \in Rings /\ gap \in Int

Again == {"again head", "again tail"}

\* Old output is output that waits.
OldInv == \A p \in Rings : old[p] <= pending[p]

\* output_pending() begins with the VMM's ring.  Between its two loads of a
\* ring the watcher knows of at least the old output: if tail is where the
\* loaded head was, none of it is left.
GapInv ==
  /\ wpc \in {"txe", "rx", "rx again", "report?"} => ring = "vmm"
  /\ wpc \in {"tx tail", "again tail"} =>
       gap >= old[ring] \/ (gap = Passed /\ old[ring] = 0)

\* A watcher that is ready to report has seen, since its last report, each
\* ring drained of what waited then, and the FIFO empty; what it saw of one
\* ring stays true while it looks at the other.
ClearInv ==
  /\ fifo = 0 => rx_clear
  /\ wpc \in Again /\ ring = "uartrx" => old["vmm"] = 0
  /\ wpc = "rx again" => \A p \in Rings : old[p] = 0
  /\ ~reported => rx_clear /\ \A p \in Rings : old[p] = 0

WatchInvariant == TypeOK /\ OldInv /\ GapInv /\ ClearInv
-----------------------------------------------------------------------------
(* Every step preserves each conjunct of the invariant *)

\* A byte that enters a ring is not old.
LEMMA ProduceIs ==
  ASSUME TypeOK, NEW p \in Rings, Produce(p)
  PROVE  /\ pending' \in [Rings -> Nat]
         /\ \A q \in Rings : pending'[q] >= pending[q]
         /\ UNCHANGED <<live, tx_busy, fifo, wpc, reported, ring, gap, old,
                       rx_clear>>
<1>1. /\ pending' = [pending EXCEPT ![p] = @ + 1]
      /\ UNCHANGED <<live, tx_busy, fifo, wpc, reported, ring, gap, old,
                    rx_clear>>
  BY DEF Produce, ringVars, history
<1>2. pending \in [Rings -> Nat]
  BY DEF TypeOK
<1> QED
  BY <1>1, <1>2

\* The byte printed is the oldest of its ring.
LEMMA PrintByteIs ==
  ASSUME TypeOK, NEW p \in Rings, PrintByte(p)
  PROVE  /\ pending' \in [Rings -> Nat] /\ old' \in [Rings -> Nat]
         /\ pending[p] > 0
         /\ \A q \in Rings :
              /\ pending'[q] = IF q = p THEN pending[q] - 1 ELSE pending[q]
              /\ old'[q] = IF q = p /\ old[q] > 0 THEN old[q] - 1 ELSE old[q]
         /\ gap' = IF p = ring /\ wpc \in {"tx tail", "again tail"} /\ gap >= 0
                      THEN gap - 1 ELSE gap
         /\ UNCHANGED <<live, fifo, wpc, reported, ring, rx_clear>>
<1>1. pending[p] > 0 /\ pending' = [pending EXCEPT ![p] = @ - 1]
  BY DEF PrintByte
<1>2. old' = [old EXCEPT ![p] = IF @ > 0 THEN @ - 1 ELSE 0]
  BY DEF PrintByte
<1>3. /\ gap' = IF p = ring /\ wpc \in {"tx tail", "again tail"} /\ gap >= 0
                   THEN gap - 1 ELSE gap
      /\ UNCHANGED <<live, fifo, wpc, reported, ring, rx_clear>>
  BY DEF PrintByte
<1>4. pending \in [Rings -> Nat] /\ old \in [Rings -> Nat]
  BY DEF TypeOK
<1>5. pending[p] - 1 \in Nat
  BY <1>1, <1>4
<1>6. /\ pending' \in [Rings -> Nat]
      /\ \A q \in Rings : pending'[q] = IF q = p THEN pending[q] - 1 ELSE pending[q]
  BY <1>1, <1>4, <1>5
<1>7. (IF old[p] > 0 THEN old[p] - 1 ELSE 0) \in Nat
  BY <1>4
<1>8. /\ old' \in [Rings -> Nat]
      /\ \A q \in Rings :
           old'[q] = IF q = p /\ old[q] > 0 THEN old[q] - 1 ELSE old[q]
  BY <1>2, <1>4, <1>7
<1> QED
  BY <1>1, <1>3, <1>6, <1>8

\* Types.
LEMMA TypeOKStep == WatchInvariant /\ [Next]_vars => TypeOK'
<1> SUFFICES ASSUME WatchInvariant, [Next]_vars PROVE TypeOK'
  OBVIOUS
<1> USE FreezewatchAssumption DEF vars, sysVars, stallVars, ringVars, history
<1>1. CASE \E p \in Rings : Produce(p)
  BY <1>1, ProduceIs DEF WatchInvariant, TypeOK
<1>2. CASE \E p \in Rings : PrintByte(p)
  <2>1. PICK p \in Rings : PrintByte(p)
    BY <1>2
  <2>2. TypeOK
    BY DEF WatchInvariant
  <2>3. /\ pending' \in [Rings -> Nat] /\ old' \in [Rings -> Nat]
        /\ gap' = gap \/ gap' = gap - 1
        /\ UNCHANGED <<fifo, ring>>
    BY <2>1, <2>2, PrintByteIs
  <2> QED
    BY <2>2, <2>3 DEF TypeOK
<1>3. CASE PrintOther
  BY <1>3 DEF PrintOther, WatchInvariant, TypeOK
<1>4. CASE Transmitted
  BY <1>4 DEF Transmitted, WatchInvariant, TypeOK
<1>5. CASE Type
  BY <1>5 DEF Type, WatchInvariant, TypeOK
<1>6. CASE ReadChar
  BY <1>6 DEF ReadChar, WatchInvariant, TypeOK
<1>7. CASE Freeze
  BY <1>7 DEF Freeze, WatchInvariant, TypeOK
<1>8. CASE Tick
  BY <1>8 DEF Tick, WatchInvariant, TypeOK
<1>9. CASE LoadHead
  <2>1. gap' = pending[ring] /\ UNCHANGED <<pending, old, fifo, ring>>
    BY <1>9 DEF LoadHead
  <2> QED
    BY <2>1 DEF WatchInvariant, TypeOK
<1>10. CASE TxTail
  <2>1. /\ ring' \in Rings /\ gap' = 0
        /\ UNCHANGED <<pending, old, fifo>>
    BY <1>10 DEF TxTail, NextRing, Pending, Empty, Rings
  <2> QED
    BY <2>1 DEF WatchInvariant, TypeOK
<1>11. CASE SampleTx
  BY <1>11 DEF SampleTx, Goto, WatchInvariant, TypeOK
<1>12. CASE SampleRx
  BY <1>12 DEF SampleRx, Goto, WatchInvariant, TypeOK
<1>13. CASE AgainTail
  <2>1. /\ ring' \in Rings /\ gap' = 0
        /\ UNCHANGED <<pending, old, fifo>>
    BY <1>13 DEF AgainTail, NextRing, Pending, Empty, Rings
  <2> QED
    BY <2>1 DEF WatchInvariant, TypeOK
<1>14. CASE Rearm
  BY <1>14 DEF Rearm, Goto, WatchInvariant, TypeOK
<1>15. CASE ReportFreeze
  BY <1>15 DEF ReportFreeze, Goto, WatchInvariant, TypeOK
<1>16. CASE NoReport
  BY <1>16 DEF NoReport, Goto, WatchInvariant, TypeOK
<1>17. CASE UNCHANGED vars
  BY <1>17 DEF WatchInvariant, TypeOK
<1> QED
  BY <1>1, <1>2, <1>3, <1>4, <1>5, <1>6, <1>7, <1>8, <1>9, <1>10, <1>11,
     <1>12, <1>13, <1>14, <1>15, <1>16, <1>17 DEF Next, Environment, Watch

\* Bytes leave a ring in the order they came.
LEMMA OldInvStep == WatchInvariant /\ [Next]_vars => OldInv'
<1> SUFFICES ASSUME WatchInvariant, [Next]_vars PROVE OldInv'
  OBVIOUS
<1> USE FreezewatchAssumption DEF vars, sysVars, stallVars, ringVars, history
<1>1. CASE \E p \in Rings : Produce(p)
  BY <1>1, ProduceIs DEF WatchInvariant, OldInv, TypeOK
<1>2. CASE \E p \in Rings : PrintByte(p)
  <2>1. PICK p \in Rings : PrintByte(p)
    BY <1>2
  <2>2. TypeOK
    BY DEF WatchInvariant
  <2>3. /\ pending[p] > 0
        /\ \A q \in Rings :
             /\ pending'[q] = IF q = p THEN pending[q] - 1 ELSE pending[q]
             /\ old'[q] = IF q = p /\ old[q] > 0 THEN old[q] - 1 ELSE old[q]
    BY <2>1, <2>2, PrintByteIs
  <2> QED
    BY <2>2, <2>3 DEF WatchInvariant, OldInv, TypeOK
<1>3. CASE PrintOther
  BY <1>3 DEF PrintOther, WatchInvariant, OldInv, TypeOK
<1>4. CASE Transmitted
  BY <1>4 DEF Transmitted, WatchInvariant, OldInv, TypeOK
<1>5. CASE Type
  BY <1>5 DEF Type, WatchInvariant, OldInv, TypeOK
<1>6. CASE ReadChar
  BY <1>6 DEF ReadChar, WatchInvariant, OldInv, TypeOK
<1>7. CASE Freeze
  BY <1>7 DEF Freeze, WatchInvariant, OldInv, TypeOK
<1>8. CASE Tick
  BY <1>8 DEF Tick, WatchInvariant, OldInv, TypeOK
<1>9. CASE LoadHead
  BY <1>9 DEF LoadHead, Goto, WatchInvariant, OldInv, TypeOK
<1>10. CASE TxTail
  BY <1>10 DEF TxTail, Goto, NextRing, Pending, Empty, WatchInvariant, OldInv,
     TypeOK
<1>11. CASE SampleTx
  BY <1>11 DEF SampleTx, Goto, WatchInvariant, OldInv, TypeOK
<1>12. CASE SampleRx
  BY <1>12 DEF SampleRx, Goto, WatchInvariant, OldInv, TypeOK
<1>13. CASE AgainTail
  BY <1>13 DEF AgainTail, Goto, NextRing, Pending, Empty, WatchInvariant,
     OldInv, TypeOK
<1>14. CASE Rearm
  BY <1>14 DEF Rearm, Goto, WatchInvariant, OldInv, TypeOK
<1>15. CASE ReportFreeze
  <2>1. old' = pending /\ pending' = pending
    BY <1>15 DEF ReportFreeze
  <2> QED
    BY <2>1 DEF WatchInvariant, TypeOK, OldInv
<1>16. CASE NoReport
  BY <1>16 DEF NoReport, Goto, WatchInvariant, OldInv, TypeOK
<1>17. CASE UNCHANGED vars
  BY <1>17 DEF WatchInvariant, OldInv, TypeOK
<1> QED
  BY <1>1, <1>2, <1>3, <1>4, <1>5, <1>6, <1>7, <1>8, <1>9, <1>10, <1>11,
     <1>12, <1>13, <1>14, <1>15, <1>16, <1>17 DEF Next, Environment, Watch

\* What the watcher knows between two loads.
LEMMA GapInvStep == WatchInvariant /\ [Next]_vars => GapInv'
<1> SUFFICES ASSUME WatchInvariant, [Next]_vars PROVE GapInv'
  OBVIOUS
<1> USE FreezewatchAssumption DEF vars, sysVars, stallVars, ringVars, history
<1>1. CASE \E p \in Rings : Produce(p)
  BY <1>1, ProduceIs DEF WatchInvariant, GapInv, OldInv, Passed, TypeOK
<1>2. CASE \E p \in Rings : PrintByte(p)
  <2>1. PICK p \in Rings : PrintByte(p)
    BY <1>2
  <2>2. TypeOK /\ GapInv
    BY DEF WatchInvariant
  <2>3. /\ \A q \in Rings :
             old'[q] = IF q = p /\ old[q] > 0 THEN old[q] - 1 ELSE old[q]
        /\ gap' = IF p = ring /\ wpc \in {"tx tail", "again tail"} /\ gap >= 0
                     THEN gap - 1 ELSE gap
        /\ wpc' = wpc /\ ring' = ring
    BY <2>1, <2>2, PrintByteIs
  <2>4. ring \in Rings /\ old[ring] \in Nat /\ gap \in Int
    BY <2>2 DEF TypeOK
  <2>5. old'[ring] = IF ring = p /\ old[ring] > 0 THEN old[ring] - 1 ELSE old[ring]
    BY <2>3, <2>4
  <2>6. CASE p = ring /\ wpc \in {"tx tail", "again tail"} /\ gap >= 0
    <3>1. gap' = gap - 1 /\ gap >= old[ring]
      BY <2>2, <2>3, <2>4, <2>6 DEF GapInv, Passed
    <3>2. gap' >= old'[ring] \/ (gap' = -1 /\ old'[ring] = 0)
      <4>1. CASE old[ring] = 0
        <5>1. old'[ring] = 0
          BY <2>5, <4>1
        <5>2. gap' = -1 \/ gap' >= 0
          <6>1. gap \in Int /\ gap >= 0
            BY <2>4, <2>6
          <6>2. gap' = gap - 1
            BY <3>1
          <6> QED
            BY <6>1, <6>2
        <5> QED
          BY <5>1, <5>2
      <4>2. CASE old[ring] > 0
        <5>1. old'[ring] = old[ring] - 1
          BY <2>5, <2>6, <4>2
        <5> QED
          BY <2>4, <3>1, <5>1
      <4> QED
        BY <2>4, <4>1, <4>2
    <3> QED
      BY <2>2, <2>3, <3>2 DEF GapInv, Passed
  <2>7. CASE ~(p = ring /\ wpc \in {"tx tail", "again tail"} /\ gap >= 0)
    <3>1. gap' = gap
      BY <2>3, <2>7
    <3>2. wpc \in {"tx tail", "again tail"} =>
            gap >= old'[ring] \/ (gap = -1 /\ old'[ring] = 0)
      <4>1. old'[ring] <= old[ring] /\ old'[ring] \in Nat
        BY <2>4, <2>5
      <4>2. wpc \in {"tx tail", "again tail"} =>
              gap >= old[ring] \/ (gap = -1 /\ old[ring] = 0)
        BY <2>2 DEF GapInv, Passed
      <4>3. ASSUME old[ring] = 0 PROVE old'[ring] = 0
        BY <2>5, <4>3
      <4>4. ASSUME gap >= old[ring] PROVE gap >= old'[ring]
        BY <2>4, <4>1, <4>4
      <4> QED
        BY <4>2, <4>3, <4>4
    <3> QED
      BY <2>2, <2>3, <3>1, <3>2 DEF GapInv, Passed
  <2> QED
    BY <2>6, <2>7
<1>3. CASE PrintOther
  BY <1>3 DEF PrintOther, WatchInvariant, GapInv, OldInv, Passed, TypeOK
<1>4. CASE Transmitted
  BY <1>4 DEF Transmitted, WatchInvariant, GapInv, OldInv, Passed, TypeOK
<1>5. CASE Type
  BY <1>5 DEF Type, WatchInvariant, GapInv, OldInv, Passed, TypeOK
<1>6. CASE ReadChar
  BY <1>6 DEF ReadChar, WatchInvariant, GapInv, OldInv, Passed, TypeOK
<1>7. CASE Freeze
  BY <1>7 DEF Freeze, WatchInvariant, GapInv, OldInv, Passed, TypeOK
<1>8. CASE Tick
  BY <1>8 DEF Tick, WatchInvariant, GapInv, OldInv, Passed, TypeOK
<1>9. CASE LoadHead
  BY <1>9 DEF LoadHead, Goto, WatchInvariant, GapInv, OldInv, Passed, TypeOK
<1>10. CASE TxTail
  BY <1>10 DEF TxTail, Goto, NextRing, Pending, Empty, WatchInvariant, GapInv,
     OldInv, Passed, TypeOK
<1>11. CASE SampleTx
  BY <1>11 DEF SampleTx, Goto, WatchInvariant, GapInv, OldInv, Passed, TypeOK
<1>12. CASE SampleRx
  BY <1>12 DEF SampleRx, Goto, WatchInvariant, GapInv, OldInv, Passed, TypeOK
<1>13. CASE AgainTail
  BY <1>13 DEF AgainTail, Goto, NextRing, Pending, Empty, WatchInvariant,
     GapInv, OldInv, Passed, TypeOK
<1>14. CASE Rearm
  BY <1>14 DEF Rearm, Goto, WatchInvariant, GapInv, OldInv, Passed, TypeOK
<1>15. CASE ReportFreeze
  BY <1>15 DEF ReportFreeze, Goto, WatchInvariant, GapInv, OldInv, Passed,
     TypeOK
<1>16. CASE NoReport
  BY <1>16 DEF NoReport, Goto, WatchInvariant, GapInv, OldInv, Passed, TypeOK
<1>17. CASE UNCHANGED vars
  BY <1>17 DEF WatchInvariant, GapInv, OldInv, Passed, TypeOK
<1> QED
  BY <1>1, <1>2, <1>3, <1>4, <1>5, <1>6, <1>7, <1>8, <1>9, <1>10, <1>11,
     <1>12, <1>13, <1>14, <1>15, <1>16, <1>17 DEF Next, Environment, Watch

\* What was clear since the last report.
LEMMA ClearInvStep == WatchInvariant /\ [Next]_vars => ClearInv'
<1> SUFFICES ASSUME WatchInvariant, [Next]_vars PROVE ClearInv'
  OBVIOUS
<1> USE FreezewatchAssumption DEF vars, sysVars, stallVars, ringVars, history
<1>1. CASE \E p \in Rings : Produce(p)
  BY <1>1, ProduceIs DEF WatchInvariant, Again, ClearInv, Rings, TypeOK
<1>2. CASE \E p \in Rings : PrintByte(p)
  <2>1. PICK p \in Rings : PrintByte(p)
    BY <1>2
  <2>2. TypeOK /\ ClearInv
    BY DEF WatchInvariant
  <2>3. /\ \A q \in Rings :
             old'[q] = IF q = p /\ old[q] > 0 THEN old[q] - 1 ELSE old[q]
        /\ UNCHANGED <<fifo, wpc, reported, ring, rx_clear>>
    BY <2>1, <2>2, PrintByteIs
  <2>4. \A q \in Rings : old[q] = 0 => old'[q] = 0
    BY <2>3
  <2> QED
    BY <2>2, <2>3, <2>4 DEF ClearInv, Rings
<1>3. CASE PrintOther
  BY <1>3 DEF PrintOther, WatchInvariant, Again, ClearInv, GapInv, OldInv,
     Passed, Rings, TypeOK
<1>4. CASE Transmitted
  BY <1>4 DEF Transmitted, WatchInvariant, Again, ClearInv, GapInv, OldInv,
     Passed, Rings, TypeOK
<1>5. CASE Type
  <2>1. fifo' # 0
    BY <1>5 DEF Type, WatchInvariant, TypeOK
  <2> QED
    BY <1>5, <2>1 DEF Type, WatchInvariant, ClearInv
<1>6. CASE ReadChar
  BY <1>6 DEF ReadChar, WatchInvariant, Again, ClearInv, GapInv, OldInv,
     Passed, Rings, TypeOK
<1>7. CASE Freeze
  BY <1>7 DEF Freeze, WatchInvariant, Again, ClearInv, GapInv, OldInv, Passed,
     Rings, TypeOK
<1>8. CASE Tick
  BY <1>8 DEF Tick, WatchInvariant, Again, ClearInv, GapInv, OldInv, Passed,
     Rings, TypeOK
<1>9. CASE LoadHead
  BY <1>9 DEF LoadHead, Goto, WatchInvariant, Again, ClearInv, GapInv, OldInv,
     Passed, Rings, TypeOK
<1>10. CASE TxTail
  BY <1>10 DEF TxTail, Goto, NextRing, Pending, Empty, WatchInvariant, Again,
     ClearInv, GapInv, OldInv, Passed, Rings, TypeOK
<1>11. CASE SampleTx
  BY <1>11 DEF SampleTx, Goto, WatchInvariant, Again, ClearInv, GapInv,
     OldInv, Passed, Rings, TypeOK
<1>12. CASE SampleRx
  <2>1. /\ wpc = "rx" /\ wpc' = "again head"
        /\ UNCHANGED <<fifo, reported, ring, old, rx_clear>>
    BY <1>12 DEF SampleRx, Goto
  <2>2. ring = "vmm"
    BY <2>1 DEF WatchInvariant, GapInv
  <2> QED
    BY <2>1, <2>2 DEF WatchInvariant, ClearInv
<1>13. CASE AgainTail
  <2>1. wpc = "again tail" /\ UNCHANGED <<fifo, reported, old, rx_clear>>
    BY <1>13 DEF AgainTail, Goto
  <2>2. ring \in Rings /\ old[ring] \in Nat
    BY DEF WatchInvariant, TypeOK
  <2>3. gap = 0 => old[ring] = 0
    <3>1. gap >= old[ring] \/ gap = -1
      BY <2>1 DEF WatchInvariant, GapInv, Passed
    <3> QED
      BY <2>2, <3>1
  <2>4. \/ wpc' = "again head" /\ gap = 0 /\ ring = "vmm"
        \/ wpc' = "report?"
        \/ wpc' = "rx again" /\ gap = 0 /\ ring = "uartrx"
    BY <1>13 DEF AgainTail, Goto, NextRing, Pending, Empty
  <2>5. ring = "uartrx" => old["vmm"] = 0
    BY <2>1 DEF WatchInvariant, ClearInv, Again
  <2>6. ring' = "uartrx" /\ wpc' = "again head" => old["vmm"] = 0
    BY <2>3, <2>4
  <2>7. wpc' = "rx again" => \A p \in Rings : old[p] = 0
    BY <2>3, <2>4, <2>5 DEF Rings
  <2> QED
    BY <2>1, <2>4, <2>6, <2>7 DEF WatchInvariant, ClearInv, Again
<1>14. CASE Rearm
  <2>1. /\ wpc = "rx again" /\ wpc' = "report?"
        /\ UNCHANGED <<fifo, old, rx_clear>>
    BY <1>14 DEF Rearm, Goto
  <2>2. ~reported' => ~reported \/ fifo = 0
    <3>1. fifo > 0 \/ fifo = 0
      BY DEF WatchInvariant, TypeOK
    <3> QED
      BY <1>14, <3>1, Zenon DEF Rearm
  <2> QED
    BY <2>1, <2>2 DEF WatchInvariant, ClearInv, Again
<1>15. CASE ReportFreeze
  BY <1>15 DEF ReportFreeze, Goto, WatchInvariant, Again, ClearInv, GapInv,
     OldInv, Passed, Rings, TypeOK
<1>16. CASE NoReport
  BY <1>16 DEF NoReport, Goto, WatchInvariant, Again, ClearInv, GapInv,
     OldInv, Passed, Rings, TypeOK
<1>17. CASE UNCHANGED vars
  BY <1>17 DEF WatchInvariant, Again, ClearInv, GapInv, OldInv, Passed, Rings,
     TypeOK
<1> QED
  BY <1>1, <1>2, <1>3, <1>4, <1>5, <1>6, <1>7, <1>8, <1>9, <1>10, <1>11,
     <1>12, <1>13, <1>14, <1>15, <1>16, <1>17 DEF Next, Environment, Watch
-----------------------------------------------------------------------------
(* The theorems *)

\* The invariant holds at first.
LEMMA WatchInit == Init => WatchInvariant
<1> SUFFICES ASSUME Init PROVE WatchInvariant
  OBVIOUS
<1>1. /\ pending = [p \in Rings |-> 0] /\ old = [p \in Rings |-> 0]
      /\ wpc = "tx head" /\ ring = "vmm" /\ gap = 0 /\ fifo = 0
      /\ rx_clear = TRUE
  BY DEF Init
<1>2. \A p \in Rings : old[p] = 0 /\ pending[p] = 0
  BY <1>1
<1>3. TypeOK
  <2>1. pending \in [Rings -> Nat] /\ old \in [Rings -> Nat]
    BY <1>1
  <2>2. ring \in Rings
    BY <1>1 DEF Rings
  <2>3. fifo \in Nat /\ gap \in Int
    <3>1. fifo = 0 /\ gap = 0
      BY <1>1
    <3> QED
      BY <3>1
  <2> QED
    BY <2>1, <2>2, <2>3 DEF TypeOK
<1>4. OldInv
  BY <1>2 DEF OldInv
<1>5. GapInv /\ ClearInv
  BY <1>1, <1>2 DEF GapInv, ClearInv, Again
<1> QED
  BY <1>3, <1>4, <1>5 DEF WatchInvariant

\* The inductive invariant holds of every behaviour of the watcher
\* (freezewatch.c:109-127) in a system that does what it likes, when it likes.
THEOREM WatchInvariantHolds == Spec => []WatchInvariant
<1>1. WatchInvariant /\ [Next]_vars => WatchInvariant'
  BY TypeOKStep, OldInvStep, GapInvStep, ClearInvStep DEF WatchInvariant
<1> QED
  BY WatchInit, <1>1, PTL DEF Spec

\* watch_forever() reports a freeze once: between two reports all output that
\* waited at the first was printed, and the FIFO was empty
\* (docs/known-flaky.md:54).
THEOREM ReportsOnce == Spec => OneReportPerFreeze
<1> DEFINE Cleared == rx_clear /\ \A p \in Rings : old[p] = 0
<1>1. WatchInvariant /\ [Next]_vars => [Reports => Cleared]_vars
  <2> SUFFICES ASSUME WatchInvariant, Next, Reports
               PROVE  Cleared
    BY DEF vars
  <2>1. ReportFreeze
    BY DEF Next, Environment, Watch, Produce, PrintByte, PrintOther,
       Transmitted, Type, ReadChar, Freeze, Tick, LoadHead, TxTail, SampleTx,
       SampleRx, AgainTail, Rearm, NoReport, Goto, Reports
  <2> QED
    BY <2>1 DEF ReportFreeze, WatchInvariant, ClearInv
<1> QED
  BY WatchInvariantHolds, <1>1, PTL DEF Spec, OneReportPerFreeze
=============================================================================
