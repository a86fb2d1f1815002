---------------------------- MODULE TracerProofs ----------------------------
(***************************************************************************)
(* Proofs about Tracer, for any console ring capacity, any header interval *)
(* and any bounds on what is printed, recorded and typed.                  *)
(*                                                                         *)
(* TracerInvariant is inductive.  Its part about wake-ups (AwakeInv) says  *)
(* of everything that may wait for the tracer that its producer is still   *)
(* on the way to notify, that a notification is there, or that the tracer  *)
(* has yet to come to the place where it looks.                            *)
(***************************************************************************)
EXTENDS Tracer, TLAPS

Bytes == {"x", "LF"}

\* The stages of notified(), each with those before it.
TraceStages == {"trace"}
VmmStages == TraceStages \cup {"vmm", "advance vmm"}
UartrxStages == VmmStages \cup {"uartrx", "advance uartrx"}
DumpStages == UartrxStages \cup {"maybe_dump"}

\* The rings, the counters and everyone's place are well typed.
TypeOK ==
  /\ in_ring \in Nat
  /\ console \in [Producers -> Seq(Bytes)]
  /\ written \in [Producers -> Seq(Bytes)]
  /\ printed \in [Producers -> Seq(Bytes)]
  /\ notification \subseteq Producers /\ pending \subseteq Producers
  /\ tpc \in DumpStages \cup {"recv", "dispatch"}
  /\ vpc \in {"run", "notify"}
  /\ upc \in {"type", "record", "recorded", "dump", "prompt"}
  /\ text \in Seq(Bytes)

\* A byte that was printed and not given back is still in its ring; uartrx
\* prints only inside a command.
PlaceInv ==
  /\ \A p \in Producers : tpc = Advance(p) => console[p] # <<>>
  /\ text # <<>> => upc # "type"
  /\ tpc = "recv" => pending = {}

\* The tracer will come to one of these stages.
Coming(stages) == notification # {} \/ pending # {} \/ tpc \in stages

\* A record, a finished line of the VMM, uartrx's output and a dump request:
\* each is announced, or will be, or the tracer has yet to look for it.
AwakeTrace ==
  in_ring > 0 => vpc = "notify" \/ upc = "recorded" \/ Coming(TraceStages)
AwakeLine ==
  \A i \in 1 .. Len(console["vmm"]) :
    console["vmm"][i] = "LF" => vpc = "notify" \/ Coming(VmmStages)
AwakeUartrx ==
  console["uartrx"] # <<>> => upc # "type" \/ Coming(UartrxStages)
AwakeDump ==
  dump_requests # dumps_done => upc = "prompt" \/ Coming(DumpStages)
AwakeInv == AwakeTrace /\ AwakeLine /\ AwakeUartrx /\ AwakeDump

TracerInvariant == TypeOK /\ PlaceInv /\ AwakeInv /\ ConsoleExact
-----------------------------------------------------------------------------
(* Sequences *)

\* A byte is added behind what waits.
LEMMA AddByte ==
  ASSUME NEW S, NEW q \in Seq(S), NEW e \in S
  PROVE  Append(q, e) \in Seq(S) /\ Append(q, e) # <<>>
<1>1. Append(q, e) \in Seq(S)
  OBVIOUS
<1>2. Len(Append(q, e)) = Len(q) + 1 /\ Len(q) \in Nat /\ Len(<<>>) = 0
  OBVIOUS
<1> QED
  BY <1>1, <1>2

\* It comes after all that was printed and waits already.
LEMMA AddByteLast ==
  ASSUME NEW s \in Seq(Bytes), NEW q \in Seq(Bytes), NEW e \in Bytes
  PROVE  s \o Append(q, e) = Append(s \o q, e)
  OBVIOUS

\* The same, when the slot of the oldest byte is about to be given back.
LEMMA AddByteBehind ==
  ASSUME NEW S, NEW q \in Seq(S), NEW e \in S, q # <<>>
  PROVE  Tail(q) \in Seq(S) /\ Tail(Append(q, e)) = Append(Tail(q), e)
  OBVIOUS

\* The oldest byte goes from what waits to what was printed.
LEMMA MoveByte ==
  ASSUME NEW S, NEW s \in Seq(S), NEW q \in Seq(S), q # <<>>
  PROVE  /\ Head(q) \in S /\ Tail(q) \in Seq(S)
         /\ Append(s, Head(q)) \o Tail(q) = s \o q
  OBVIOUS

\* A line's end in what is left of a ring was in the ring.
LEMMA TailHolds ==
  ASSUME NEW S, NEW q \in Seq(S), q # <<>>, NEW i \in 1 .. Len(Tail(q))
  PROVE  i + 1 \in 1 .. Len(q) /\ Tail(q)[i] = q[i + 1]
  OBVIOUS

\* The tracer gives back a slot of one ring at a time.
LEMMA AdvanceDiffers ==
  ASSUME NEW p \in Producers, NEW q \in Producers, q # p
  PROVE  Advance(p) # Advance(q)
<1>1. Advance("vmm") # Advance("uartrx")
  BY DEF Advance
<1>2. CASE p = "vmm"
  BY <1>1, <1>2 DEF Producers
<1>3. CASE p = "uartrx"
  BY <1>1, <1>3 DEF Producers
<1> QED
  BY <1>2, <1>3 DEF Producers

\* PutChar adds one byte to one ring and to what its producer wrote.
LEMMA PutCharIs ==
  ASSUME TypeOK, NEW p \in Producers, NEW b \in Bytes, PutChar(p, b)
  PROVE  /\ console' \in [Producers -> Seq(Bytes)]
         /\ written' \in [Producers -> Seq(Bytes)]
         /\ console'[p] = Append(console[p], b)
         /\ written'[p] = Append(written[p], b)
         /\ \A q \in Producers : q # p => /\ console'[q] = console[q]
                                          /\ written'[q] = written[q]
<1>1. /\ console \in [Producers -> Seq(Bytes)] /\ written \in [Producers -> Seq(Bytes)]
      /\ console' = [console EXCEPT ![p] = Append(console[p], b)]
      /\ written' = [written EXCEPT ![p] = Append(written[p], b)]
  BY DEF TypeOK, PutChar
<1>2. Append(console[p], b) \in Seq(Bytes) /\ Append(written[p], b) \in Seq(Bytes)
  BY <1>1
<1> QED
  BY <1>1, <1>2

\* What the VMM prints, and when it goes on to notify.
LEMMA VmmPuts ==
  ASSUME VmmPutChar
  PROVE  \E b \in Bytes : /\ PutChar("vmm", b)
                          /\ vpc' = IF b = "LF" THEN "notify" ELSE "run"
<1>1. CASE Len(written["vmm"]) % 2 = 0
  <2>1. PutChar("vmm", "x") /\ vpc' = "run"
    BY <1>1 DEF VmmPutChar
  <2> QED
    BY <2>1 DEF Bytes
<1>2. CASE ~(Len(written["vmm"]) % 2 = 0)
  <2>1. PutChar("vmm", "LF") /\ vpc' = "notify"
    BY <1>2 DEF VmmPutChar
  <2> QED
    BY <2>1 DEF Bytes
<1> QED
  BY <1>1, <1>2

\* What uartrx prints, and the text that is left of its step.
LEMMA UartrxPuts ==
  ASSUME TypeOK, UartrxPutChar
  PROVE  /\ Head(text) \in Bytes /\ PutChar("uartrx", Head(text))
         /\ text' \in Seq(Bytes)
<1>1. text \in Seq(Bytes) /\ text # <<>> /\ text' = Tail(text)
  BY DEF TypeOK, UartrxPutChar
<1>2. Head(text) \in Bytes /\ Tail(text) \in Seq(Bytes)
  BY <1>1
<1> QED
  BY <1>1, <1>2 DEF UartrxPutChar
-----------------------------------------------------------------------------
(* Every step preserves each conjunct of the invariant *)

\* Types.
LEMMA TypeOKStep == TracerInvariant /\ [Next]_vars => TypeOK'
<1> SUFFICES ASSUME TracerInvariant, [Next]_vars PROVE TypeOK'
  OBVIOUS
<1> USE DEF vars, ringVars, consoles, dumpVars, outVars, tracerVars, prodVars
<1>1. CASE VmmEmit
  BY <1>1 DEF VmmEmit, TracerInvariant, TypeOK
<1>2. CASE VmmPutChar
  <2>1. PICK b \in Bytes : PutChar("vmm", b)
    BY <1>2, VmmPuts
  <2>2. /\ console' \in [Producers -> Seq(Bytes)]
        /\ written' \in [Producers -> Seq(Bytes)]
    BY <2>1, PutCharIs DEF Producers, TracerInvariant
  <2> QED
    BY <1>2, <2>2 DEF VmmPutChar, TracerInvariant, TypeOK
<1>3. CASE VmmWait
  BY <1>3 DEF VmmWait, WaitForRoom, Notify, TracerInvariant, TypeOK,
     Producers, TraceStages, VmmStages, UartrxStages, DumpStages
<1>4. CASE VmmNotify
  BY <1>4 DEF VmmNotify, Notify, TracerInvariant, TypeOK, Producers,
     TraceStages, VmmStages, UartrxStages, DumpStages
<1>5. CASE UartrxPutChar
  <2>1. /\ Head(text) \in Bytes /\ PutChar("uartrx", Head(text))
        /\ text' \in Seq(Bytes)
    BY <1>5, UartrxPuts DEF TracerInvariant
  <2>2. /\ console' \in [Producers -> Seq(Bytes)]
        /\ written' \in [Producers -> Seq(Bytes)]
    BY <2>1, PutCharIs DEF Producers, TracerInvariant
  <2> QED
    BY <1>5, <2>1, <2>2 DEF UartrxPutChar, TracerInvariant, TypeOK
<1>6. CASE UartrxWait
  BY <1>6 DEF UartrxWait, WaitForRoom, Notify, TracerInvariant, TypeOK,
     Producers, TraceStages, VmmStages, UartrxStages, DumpStages
<1>7. CASE EndLine
  <2>1. text' \in Seq(Bytes)
    BY <1>7 DEF EndLine, UStep, Bytes
  <2> QED
    BY <1>7, <2>1 DEF EndLine, UStep, TracerInvariant, TypeOK, Producers
<1>8. CASE RecordCommand
  <2>1. text' \in Seq(Bytes)
    BY <1>8 DEF RecordCommand, UStep, Bytes
  <2> QED
    BY <1>8, <2>1 DEF RecordCommand, UStep, TracerInvariant, TypeOK, Producers
<1>9. CASE RunCommand
  <2>1. text' \in Seq(Bytes)
    <3>1. text' = <<"LF">> \/ text' = <<"x">>
      BY <1>9 DEF RunCommand, UStep
    <3>2. <<"LF">> \in Seq(Bytes) /\ <<"x">> \in Seq(Bytes)
      BY DEF Bytes
    <3> QED
      BY <3>1, <3>2
  <2> QED
    BY <1>9, <2>1 DEF RunCommand, UStep, Notify, TracerInvariant, TypeOK,
       Producers
<1>10. CASE RequestDump
  <2>1. text' \in Seq(Bytes)
    BY <1>10 DEF RequestDump, UStep, Bytes
  <2> QED
    BY <1>10, <2>1 DEF RequestDump, UStep, TracerInvariant, TypeOK, Producers
<1>11. CASE Prompt
  <2>1. text' \in Seq(Bytes)
    BY <1>11 DEF Prompt, UStep, Bytes
  <2> QED
    BY <1>11, <2>1 DEF Prompt, UStep, Notify, TracerInvariant, TypeOK,
       Producers
<1>12. CASE Receive
  BY <1>12 DEF Receive, Goto, TracerInvariant, TypeOK, Producers, TraceStages,
     VmmStages, UartrxStages, DumpStages
<1>13. CASE Dispatch
  <2>1. pending' \subseteq Producers
    BY <1>13 DEF Dispatch, TracerInvariant, TypeOK
  <2>2. tpc' = "recv" \/ tpc' = "trace"
    BY <1>13 DEF Dispatch
  <2>3. tpc' \in DumpStages \cup {"recv", "dispatch"}
    BY <2>2 DEF DumpStages, UartrxStages, VmmStages, TraceStages
  <2> QED
    BY <1>13, <2>1, <2>3 DEF Dispatch, TracerInvariant, TypeOK
<1>14. CASE DrainTrace
  <2>1. in_ring' \in Nat
    BY <1>14 DEF DrainTrace, TracerInvariant, TypeOK
  <2>2. tpc' \in DumpStages
    BY <1>14 DEF DrainTrace, DumpStages, UartrxStages, VmmStages, TraceStages
  <2> QED
    BY <1>14, <2>1, <2>2 DEF DrainTrace, TracerInvariant, TypeOK
<1>15. CASE MaybeDump
  BY <1>15 DEF MaybeDump, Goto, TracerInvariant, TypeOK, Producers,
     TraceStages, VmmStages, UartrxStages, DumpStages
<1>16. ASSUME NEW p \in Producers, DrainConsole(p) PROVE TypeOK'
  <2>1. printed' \in [Producers -> Seq(Bytes)]
    <3>1. printed \in [Producers -> Seq(Bytes)] /\ console[p] \in Seq(Bytes)
      BY DEF TracerInvariant, TypeOK
    <3>2. CASE console[p] = <<>>
      BY <1>16, <3>1, <3>2 DEF DrainConsole
    <3>3. CASE console[p] # <<>>
      <4>1. Append(printed[p], Head(console[p])) \in Seq(Bytes)
        BY <3>1, <3>3
      <4> QED
        BY <1>16, <3>1, <3>3, <4>1 DEF DrainConsole
    <3> QED
      BY <3>2, <3>3
  <2>2. tpc' \in DumpStages
    BY <1>16 DEF DrainConsole, After, Advance, Producers, DumpStages,
       UartrxStages, VmmStages
  <2> QED
    BY <1>16, <2>1, <2>2 DEF DrainConsole, TracerInvariant, TypeOK
<1>17. ASSUME NEW p \in Producers, AdvanceTail(p) PROVE TypeOK'
  <2>1. console[p] \in Seq(Bytes) /\ console[p] # <<>>
    BY <1>17 DEF AdvanceTail, Goto, TracerInvariant, TypeOK, PlaceInv
  <2>2. Tail(console[p]) \in Seq(Bytes)
    BY <2>1
  <2>3. console' \in [Producers -> Seq(Bytes)]
    BY <1>17, <2>2 DEF AdvanceTail, TracerInvariant, TypeOK
  <2>4. tpc' \in DumpStages
    BY <1>17 DEF AdvanceTail, Goto, Producers, DumpStages, UartrxStages,
       VmmStages
  <2> QED
    BY <1>17, <2>3, <2>4 DEF AdvanceTail, TracerInvariant, TypeOK
<1>18. CASE UNCHANGED vars
  BY <1>18 DEF TracerInvariant, TypeOK
<1> QED
  BY <1>1, <1>2, <1>3, <1>4, <1>5, <1>6, <1>7, <1>8, <1>9, <1>10, <1>11,
     <1>12, <1>13, <1>14, <1>15, <1>16, <1>17, <1>18
     DEF Next, Vmm, Uartrx, TracerStep

\* The tracer gives back a byte that is there.
LEMMA PlaceInvStep == TracerInvariant /\ [Next]_vars => PlaceInv'
<1> SUFFICES ASSUME TracerInvariant, [Next]_vars PROVE PlaceInv'
  OBVIOUS
<1> USE DEF vars, ringVars, consoles, dumpVars, outVars, tracerVars, prodVars
<1>1. CASE VmmEmit
  BY <1>1 DEF VmmEmit, TracerInvariant, PlaceInv, Producers, TypeOK, Advance
<1>2. CASE VmmPutChar
  <2>1. PICK b \in Bytes : PutChar("vmm", b)
    BY <1>2, VmmPuts
  <2>2. /\ console'["vmm"] = Append(console["vmm"], b)
        /\ console'["uartrx"] = console["uartrx"]
        /\ console["vmm"] \in Seq(Bytes)
    BY <2>1, PutCharIs DEF Producers, TracerInvariant, TypeOK
  <2>3. console'["vmm"] # <<>>
    BY <2>2, AddByte
  <2> QED
    BY <1>2, <2>2, <2>3 DEF VmmPutChar, TracerInvariant, PlaceInv, Producers,
       Advance
<1>3. CASE VmmWait
  BY <1>3 DEF VmmWait, WaitForRoom, Notify, TracerInvariant, PlaceInv,
     Producers, TypeOK, Advance
<1>4. CASE VmmNotify
  BY <1>4 DEF VmmNotify, Notify, TracerInvariant, PlaceInv, Producers, TypeOK,
     Advance
<1>5. CASE UartrxPutChar
  <2>1. Head(text) \in Bytes /\ PutChar("uartrx", Head(text))
    BY <1>5, UartrxPuts DEF TracerInvariant
  <2>2. /\ console'["uartrx"] = Append(console["uartrx"], Head(text))
        /\ console'["vmm"] = console["vmm"]
        /\ console["uartrx"] \in Seq(Bytes)
    BY <2>1, PutCharIs DEF Producers, TracerInvariant, TypeOK
  <2>3. console'["uartrx"] # <<>>
    BY <2>1, <2>2, AddByte
  <2> QED
    BY <1>5, <2>2, <2>3
       DEF UartrxPutChar, TracerInvariant, PlaceInv, Producers, Advance
<1>6. CASE UartrxWait
  BY <1>6 DEF UartrxWait, WaitForRoom, Notify, TracerInvariant, PlaceInv,
     Producers, TypeOK, Advance
<1>7. CASE EndLine
  BY <1>7 DEF EndLine, UStep, TracerInvariant, PlaceInv, Producers, TypeOK,
     Advance
<1>8. CASE RecordCommand
  BY <1>8 DEF RecordCommand, UStep, TracerInvariant, PlaceInv, Producers,
     TypeOK, Advance
<1>9. CASE RunCommand
  BY <1>9 DEF RunCommand, UStep, Notify, TracerInvariant, PlaceInv, Producers,
     TypeOK, Advance
<1>10. CASE RequestDump
  BY <1>10 DEF RequestDump, UStep, TracerInvariant, PlaceInv, Producers,
     TypeOK, Advance
<1>11. CASE Prompt
  BY <1>11 DEF Prompt, UStep, Notify, TracerInvariant, PlaceInv, Producers,
     TypeOK, Advance
<1>12. CASE Receive
  BY <1>12 DEF Receive, Goto, TracerInvariant, PlaceInv, Producers, TypeOK,
     Advance
<1>13. CASE Dispatch
  BY <1>13 DEF Dispatch, TracerInvariant, PlaceInv, Producers, TypeOK, Advance
<1>14. CASE DrainTrace
  BY <1>14 DEF DrainTrace, TracerInvariant, PlaceInv, Producers, TypeOK,
     Advance
<1>15. CASE MaybeDump
  BY <1>15 DEF MaybeDump, Goto, TracerInvariant, PlaceInv, Producers, TypeOK,
     Advance
<1>16. ASSUME NEW p \in Producers, DrainConsole(p) PROVE PlaceInv'
  BY <1>16 DEF DrainConsole, After, Advance, TracerInvariant, PlaceInv,
     Producers, TypeOK, Advance
<1>17. ASSUME NEW p \in Producers, AdvanceTail(p) PROVE PlaceInv'
  BY <1>17 DEF AdvanceTail, Goto, Advance, TracerInvariant, PlaceInv,
     Producers, TypeOK, Advance
<1>18. CASE UNCHANGED vars
  BY <1>18 DEF TracerInvariant, PlaceInv
<1> QED
  BY <1>1, <1>2, <1>3, <1>4, <1>5, <1>6, <1>7, <1>8, <1>9, <1>10, <1>11,
     <1>12, <1>13, <1>14, <1>15, <1>16, <1>17, <1>18
     DEF Next, Vmm, Uartrx, TracerStep

\* No record waits for a tracer that sleeps.
LEMMA AwakeTraceStep == TracerInvariant /\ [Next]_vars => AwakeTrace'
<1> SUFFICES ASSUME TracerInvariant, [Next]_vars PROVE AwakeTrace'
  OBVIOUS
<1> USE DEF vars, ringVars, consoles, dumpVars, outVars, tracerVars, prodVars
<1>1. CASE VmmEmit
  BY <1>1 DEF VmmEmit, TracerInvariant, AwakeInv, AwakeTrace, Coming,
     TraceStages
<1>2. CASE VmmPutChar
  <2>1. in_ring' = in_ring /\ (vpc = "run") /\ UNCHANGED <<notification, pending, tpc, upc>>
    BY <1>2 DEF VmmPutChar
  <2> QED
    BY <2>1 DEF TracerInvariant, AwakeInv, AwakeTrace, Coming
<1>3. CASE VmmWait
  BY <1>3 DEF VmmWait, WaitForRoom, Notify, TracerInvariant, AwakeInv,
     AwakeTrace, Coming, TraceStages
<1>4. CASE VmmNotify
  BY <1>4 DEF VmmNotify, Notify, TracerInvariant, AwakeInv, AwakeTrace,
     Coming, TraceStages
<1>5. CASE UartrxPutChar
  BY <1>5 DEF UartrxPutChar, TracerInvariant, AwakeInv, AwakeTrace, Coming,
     TraceStages
<1>6. CASE UartrxWait
  BY <1>6 DEF UartrxWait, WaitForRoom, Notify, TracerInvariant, AwakeInv,
     AwakeTrace, Coming, TraceStages
<1>7. CASE EndLine
  BY <1>7 DEF EndLine, UStep, TracerInvariant, AwakeInv, AwakeTrace, Coming,
     TraceStages
<1>8. CASE RecordCommand
  BY <1>8 DEF RecordCommand, UStep, TracerInvariant, AwakeInv, AwakeTrace,
     Coming, TraceStages
<1>9. CASE RunCommand
  BY <1>9 DEF RunCommand, UStep, Notify, TracerInvariant, AwakeInv,
     AwakeTrace, Coming, TraceStages
<1>10. CASE RequestDump
  BY <1>10 DEF RequestDump, UStep, TracerInvariant, AwakeInv, AwakeTrace,
     Coming, TraceStages
<1>11. CASE Prompt
  BY <1>11 DEF Prompt, UStep, Notify, TracerInvariant, AwakeInv, AwakeTrace,
     Coming, TraceStages
<1>12. CASE Receive
  BY <1>12 DEF Receive, Goto, TracerInvariant, AwakeInv, AwakeTrace, Coming,
     TraceStages
<1>13. CASE Dispatch
  BY <1>13 DEF Dispatch, TracerInvariant, AwakeInv, AwakeTrace, Coming,
     TraceStages
<1>14. CASE DrainTrace
  <2>1. CASE in_ring > 0
    BY <1>14, <2>1 DEF DrainTrace, AwakeTrace, Coming, TraceStages
  <2>2. CASE ~(in_ring > 0)
    BY <1>14, <2>2 DEF DrainTrace, AwakeTrace
  <2> QED
    BY <2>1, <2>2
<1>15. CASE MaybeDump
  BY <1>15 DEF MaybeDump, Goto, TracerInvariant, AwakeInv, AwakeTrace,
     Coming, TraceStages
<1>16. ASSUME NEW p \in Producers, DrainConsole(p) PROVE AwakeTrace'
  BY <1>16 DEF DrainConsole, After, Advance, Producers, TracerInvariant,
     AwakeInv, AwakeTrace, Coming, TraceStages
<1>17. ASSUME NEW p \in Producers, AdvanceTail(p) PROVE AwakeTrace'
  BY <1>17 DEF AdvanceTail, Goto, Advance, Producers, TracerInvariant,
     AwakeInv, AwakeTrace, Coming, TraceStages
<1>18. CASE UNCHANGED vars
  BY <1>18 DEF TracerInvariant, AwakeInv, AwakeTrace, Coming, TraceStages
<1> QED
  BY <1>1, <1>2, <1>3, <1>4, <1>5, <1>6, <1>7, <1>8, <1>9, <1>10, <1>11,
     <1>12, <1>13, <1>14, <1>15, <1>16, <1>17, <1>18
     DEF Next, Vmm, Uartrx, TracerStep

\* No line that the VMM has finished waits for a tracer that sleeps.
LEMMA AwakeLineStep == TracerInvariant /\ [Next]_vars => AwakeLine'
<1> SUFFICES ASSUME TracerInvariant, [Next]_vars PROVE AwakeLine'
  OBVIOUS
<1> USE DEF vars, ringVars, consoles, dumpVars, outVars, tracerVars, prodVars
<1>1. CASE VmmEmit
  BY <1>1 DEF VmmEmit, TracerInvariant, AwakeInv, AwakeLine, Coming,
     VmmStages, TraceStages
<1>2. CASE VmmPutChar
  <2>1. PICK b \in Bytes : /\ PutChar("vmm", b)
                         /\ vpc' = IF b = "LF" THEN "notify" ELSE "run"
    BY <1>2, VmmPuts
  <2>2. console["vmm"] \in Seq(Bytes) /\ console'["vmm"] = Append(console["vmm"], b)
    BY <2>1, PutCharIs DEF Producers, TracerInvariant, TypeOK
  <2>3. CASE b = "LF"
    BY <2>1, <2>3 DEF AwakeLine
  <2>4. CASE b # "LF"
    <3>1. SUFFICES ASSUME NEW i \in 1 .. Len(console'["vmm"]), console'["vmm"][i] = "LF"
                   PROVE  Coming(VmmStages)'
      BY DEF AwakeLine
    <3>2. i \in 1 .. Len(console["vmm"]) /\ console["vmm"][i] = "LF"
      BY <2>2, <2>4, <3>1
    <3>3. vpc = "run" /\ UNCHANGED <<notification, pending, tpc>>
      BY <1>2 DEF VmmPutChar
    <3> QED
      BY <3>2, <3>3 DEF TracerInvariant, AwakeInv, AwakeLine, Coming
  <2> QED
    BY <2>3, <2>4
<1>3. CASE VmmWait
  BY <1>3 DEF VmmWait, WaitForRoom, Notify, TracerInvariant, AwakeInv,
     AwakeLine, Coming, VmmStages, TraceStages
<1>4. CASE VmmNotify
  BY <1>4 DEF VmmNotify, Notify, TracerInvariant, AwakeInv, AwakeLine,
     Coming, VmmStages, TraceStages
<1>5. CASE UartrxPutChar
  <2>1. Head(text) \in Bytes /\ PutChar("uartrx", Head(text))
    BY <1>5, UartrxPuts DEF TracerInvariant
  <2>2. console'["vmm"] = console["vmm"]
    BY <2>1, PutCharIs DEF Producers, TracerInvariant
  <2> QED
    BY <1>5, <2>2 DEF UartrxPutChar, TracerInvariant, AwakeInv, AwakeLine,
       Coming
<1>6. CASE UartrxWait
  BY <1>6 DEF UartrxWait, WaitForRoom, Notify, TracerInvariant, AwakeInv,
     AwakeLine, Coming, VmmStages, TraceStages
<1>7. CASE EndLine
  BY <1>7 DEF EndLine, UStep, TracerInvariant, AwakeInv, AwakeLine, Coming,
     VmmStages, TraceStages
<1>8. CASE RecordCommand
  BY <1>8 DEF RecordCommand, UStep, TracerInvariant, AwakeInv, AwakeLine,
     Coming, VmmStages, TraceStages
<1>9. CASE RunCommand
  BY <1>9 DEF RunCommand, UStep, Notify, TracerInvariant, AwakeInv,
     AwakeLine, Coming, VmmStages, TraceStages
<1>10. CASE RequestDump
  BY <1>10 DEF RequestDump, UStep, TracerInvariant, AwakeInv, AwakeLine,
     Coming, VmmStages, TraceStages
<1>11. CASE Prompt
  BY <1>11 DEF Prompt, UStep, Notify, TracerInvariant, AwakeInv, AwakeLine,
     Coming, VmmStages, TraceStages
<1>12. CASE Receive
  BY <1>12 DEF Receive, Goto, TracerInvariant, AwakeInv, AwakeLine, Coming,
     VmmStages, TraceStages
<1>13. CASE Dispatch
  BY <1>13 DEF Dispatch, TracerInvariant, AwakeInv, AwakeLine, Coming,
     VmmStages, TraceStages
<1>14. CASE DrainTrace
  BY <1>14 DEF DrainTrace, TracerInvariant, AwakeInv, AwakeLine, Coming,
     VmmStages, TraceStages
<1>15. CASE MaybeDump
  BY <1>15 DEF MaybeDump, Goto, TracerInvariant, AwakeInv, AwakeLine,
     Coming, VmmStages, TraceStages
<1>16. ASSUME NEW p \in Producers, DrainConsole(p) PROVE AwakeLine'
  <2>1. CASE p = "vmm" /\ console["vmm"] = <<>>
    <3>1. Len(console'["vmm"]) = 0
      BY <1>16, <2>1 DEF DrainConsole
    <3> QED
      BY <3>1 DEF AwakeLine
  <2>2. CASE ~(p = "vmm" /\ console["vmm"] = <<>>)
    BY <1>16, <2>2 DEF DrainConsole, After, Advance, Producers,
       TracerInvariant, AwakeInv, AwakeLine, Coming, VmmStages, TraceStages
  <2> QED
    BY <2>1, <2>2
<1>17. ASSUME NEW p \in Producers, AdvanceTail(p) PROVE AwakeLine'
  <2>1. console \in [Producers -> Seq(Bytes)] /\ console[p] # <<>>
    BY <1>17 DEF AdvanceTail, Goto, TracerInvariant, TypeOK, PlaceInv
  <2>2. CASE p = "vmm"
    BY <1>17, <2>2 DEF AdvanceTail, Goto, AwakeLine, Coming, VmmStages
  <2>3. CASE p = "uartrx"
    <3>1. console'["vmm"] = console["vmm"]
      BY <1>17, <2>1, <2>3 DEF AdvanceTail, Producers
    <3> QED
      BY <1>17, <2>3, <3>1 DEF AdvanceTail, Goto, Advance, TracerInvariant,
         AwakeInv, AwakeLine, Coming, VmmStages, TraceStages
  <2> QED
    BY <2>2, <2>3 DEF Producers
<1>18. CASE UNCHANGED vars
  BY <1>18 DEF TracerInvariant, AwakeInv, AwakeLine, Coming, VmmStages,
     TraceStages
<1> QED
  BY <1>1, <1>2, <1>3, <1>4, <1>5, <1>6, <1>7, <1>8, <1>9, <1>10, <1>11,
     <1>12, <1>13, <1>14, <1>15, <1>16, <1>17, <1>18
     DEF Next, Vmm, Uartrx, TracerStep

\* No output of uartrx waits for a tracer that sleeps.
LEMMA AwakeUartrxStep == TracerInvariant /\ [Next]_vars => AwakeUartrx'
<1> SUFFICES ASSUME TracerInvariant, [Next]_vars PROVE AwakeUartrx'
  OBVIOUS
<1> USE DEF vars, ringVars, consoles, dumpVars, outVars, tracerVars, prodVars
<1>1. CASE VmmEmit
  BY <1>1 DEF VmmEmit, TracerInvariant, AwakeInv, AwakeUartrx, Coming,
     UartrxStages, VmmStages, TraceStages
<1>2. CASE VmmPutChar
  <2>1. PICK b \in Bytes : PutChar("vmm", b)
    BY <1>2, VmmPuts
  <2>2. console'["uartrx"] = console["uartrx"]
    BY <2>1, PutCharIs DEF Producers, TracerInvariant
  <2> QED
    BY <1>2, <2>2 DEF VmmPutChar, TracerInvariant, AwakeInv, AwakeUartrx,
       Coming
<1>3. CASE VmmWait
  BY <1>3 DEF VmmWait, WaitForRoom, Notify, TracerInvariant, AwakeInv,
     AwakeUartrx, Coming, UartrxStages, VmmStages, TraceStages
<1>4. CASE VmmNotify
  BY <1>4 DEF VmmNotify, Notify, TracerInvariant, AwakeInv, AwakeUartrx,
     Coming, UartrxStages, VmmStages, TraceStages
<1>5. CASE UartrxPutChar
  BY <1>5 DEF UartrxPutChar, TracerInvariant, PlaceInv, AwakeUartrx
<1>6. CASE UartrxWait
  BY <1>6 DEF UartrxWait, WaitForRoom, Notify, TracerInvariant, AwakeInv,
     AwakeUartrx, Coming, UartrxStages, VmmStages, TraceStages
<1>7. CASE EndLine
  BY <1>7 DEF EndLine, UStep, TracerInvariant, AwakeInv, AwakeUartrx,
     Coming, UartrxStages, VmmStages, TraceStages
<1>8. CASE RecordCommand
  BY <1>8 DEF RecordCommand, UStep, TracerInvariant, AwakeInv, AwakeUartrx,
     Coming, UartrxStages, VmmStages, TraceStages
<1>9. CASE RunCommand
  BY <1>9 DEF RunCommand, UStep, Notify, TracerInvariant, AwakeInv,
     AwakeUartrx, Coming, UartrxStages, VmmStages, TraceStages
<1>10. CASE RequestDump
  BY <1>10 DEF RequestDump, UStep, TracerInvariant, AwakeInv, AwakeUartrx,
     Coming, UartrxStages, VmmStages, TraceStages
<1>11. CASE Prompt
  BY <1>11 DEF Prompt, UStep, Notify, TracerInvariant, AwakeInv,
     AwakeUartrx, Coming, UartrxStages, VmmStages, TraceStages
<1>12. CASE Receive
  BY <1>12 DEF Receive, Goto, TracerInvariant, AwakeInv, AwakeUartrx,
     Coming, UartrxStages, VmmStages, TraceStages
<1>13. CASE Dispatch
  BY <1>13 DEF Dispatch, TracerInvariant, AwakeInv, AwakeUartrx, Coming,
     UartrxStages, VmmStages, TraceStages
<1>14. CASE DrainTrace
  BY <1>14 DEF DrainTrace, TracerInvariant, AwakeInv, AwakeUartrx, Coming,
     UartrxStages, VmmStages, TraceStages
<1>15. CASE MaybeDump
  BY <1>15 DEF MaybeDump, Goto, TracerInvariant, AwakeInv, AwakeUartrx,
     Coming, UartrxStages, VmmStages, TraceStages
<1>16. ASSUME NEW p \in Producers, DrainConsole(p) PROVE AwakeUartrx'
  <2>1. CASE p = "uartrx" /\ console["uartrx"] = <<>>
    BY <1>16, <2>1 DEF DrainConsole, AwakeUartrx
  <2>2. CASE ~(p = "uartrx" /\ console["uartrx"] = <<>>)
    <3>1. tpc' \in UartrxStages
      BY <1>16, <2>2 DEF DrainConsole, After, Advance, Producers, UartrxStages,
         VmmStages
    <3> QED
      BY <3>1 DEF AwakeUartrx, Coming
  <2> QED
    BY <2>1, <2>2
<1>17. ASSUME NEW p \in Producers, AdvanceTail(p) PROVE AwakeUartrx'
  BY <1>17 DEF AdvanceTail, Goto, Producers, AwakeUartrx, Coming, UartrxStages,
     VmmStages
<1>18. CASE UNCHANGED vars
  BY <1>18 DEF TracerInvariant, AwakeInv, AwakeUartrx, Coming, UartrxStages,
     VmmStages, TraceStages
<1> QED
  BY <1>1, <1>2, <1>3, <1>4, <1>5, <1>6, <1>7, <1>8, <1>9, <1>10, <1>11,
     <1>12, <1>13, <1>14, <1>15, <1>16, <1>17, <1>18
     DEF Next, Vmm, Uartrx, TracerStep

\* No dump request waits for a tracer that sleeps.
LEMMA AwakeDumpStep == TracerInvariant /\ [Next]_vars => AwakeDump'
<1> SUFFICES ASSUME TracerInvariant, [Next]_vars PROVE AwakeDump'
  OBVIOUS
<1> USE DEF vars, ringVars, consoles, dumpVars, outVars, tracerVars, prodVars
<1>1. CASE VmmEmit
  BY <1>1 DEF VmmEmit, TracerInvariant, AwakeInv, AwakeDump, Coming,
     DumpStages, UartrxStages, VmmStages, TraceStages
<1>2. CASE VmmPutChar
  BY <1>2 DEF VmmPutChar, TracerInvariant, AwakeInv, AwakeDump, Coming
<1>3. CASE VmmWait
  BY <1>3 DEF VmmWait, WaitForRoom, Notify, TracerInvariant, AwakeInv,
     AwakeDump, Coming, DumpStages, UartrxStages, VmmStages, TraceStages
<1>4. CASE VmmNotify
  BY <1>4 DEF VmmNotify, Notify, TracerInvariant, AwakeInv, AwakeDump,
     Coming, DumpStages, UartrxStages, VmmStages, TraceStages
<1>5. CASE UartrxPutChar
  BY <1>5 DEF UartrxPutChar, TracerInvariant, AwakeInv, AwakeDump, Coming,
     DumpStages, UartrxStages, VmmStages, TraceStages
<1>6. CASE UartrxWait
  BY <1>6 DEF UartrxWait, WaitForRoom, Notify, TracerInvariant, AwakeInv,
     AwakeDump, Coming, DumpStages, UartrxStages, VmmStages, TraceStages
<1>7. CASE EndLine
  BY <1>7 DEF EndLine, UStep, TracerInvariant, AwakeInv, AwakeDump, Coming,
     DumpStages, UartrxStages, VmmStages, TraceStages
<1>8. CASE RecordCommand
  BY <1>8 DEF RecordCommand, UStep, TracerInvariant, AwakeInv, AwakeDump,
     Coming, DumpStages, UartrxStages, VmmStages, TraceStages
<1>9. CASE RunCommand
  BY <1>9 DEF RunCommand, UStep, Notify, TracerInvariant, AwakeInv,
     AwakeDump, Coming, DumpStages, UartrxStages, VmmStages, TraceStages
<1>10. CASE RequestDump
  BY <1>10 DEF RequestDump, UStep, TracerInvariant, AwakeInv, AwakeDump,
     Coming, DumpStages, UartrxStages, VmmStages, TraceStages
<1>11. CASE Prompt
  BY <1>11 DEF Prompt, UStep, Notify, TracerInvariant, AwakeInv, AwakeDump,
     Coming, DumpStages, UartrxStages, VmmStages, TraceStages
<1>12. CASE Receive
  BY <1>12 DEF Receive, Goto, TracerInvariant, AwakeInv, AwakeDump, Coming,
     DumpStages, UartrxStages, VmmStages, TraceStages
<1>13. CASE Dispatch
  BY <1>13 DEF Dispatch, TracerInvariant, AwakeInv, AwakeDump, Coming,
     DumpStages, UartrxStages, VmmStages, TraceStages
<1>14. CASE DrainTrace
  BY <1>14 DEF DrainTrace, TracerInvariant, AwakeInv, AwakeDump, Coming,
     DumpStages, UartrxStages, VmmStages, TraceStages
<1>15. CASE MaybeDump
  BY <1>15 DEF MaybeDump, Goto, TracerInvariant, AwakeInv, AwakeDump,
     Coming, DumpStages, UartrxStages, VmmStages, TraceStages
<1>16. ASSUME NEW p \in Producers, DrainConsole(p) PROVE AwakeDump'
  BY <1>16 DEF DrainConsole, After, Advance, Producers, TracerInvariant,
     AwakeInv, AwakeDump, Coming, DumpStages, UartrxStages, VmmStages,
     TraceStages
<1>17. ASSUME NEW p \in Producers, AdvanceTail(p) PROVE AwakeDump'
  BY <1>17 DEF AdvanceTail, Goto, Advance, Producers, TracerInvariant,
     AwakeInv, AwakeDump, Coming, DumpStages, UartrxStages, VmmStages,
     TraceStages
<1>18. CASE UNCHANGED vars
  BY <1>18 DEF TracerInvariant, AwakeInv, AwakeDump, Coming, DumpStages,
     UartrxStages, VmmStages, TraceStages
<1> QED
  BY <1>1, <1>2, <1>3, <1>4, <1>5, <1>6, <1>7, <1>8, <1>9, <1>10, <1>11,
     <1>12, <1>13, <1>14, <1>15, <1>16, <1>17, <1>18
     DEF Next, Vmm, Uartrx, TracerStep

\* A producer that adds a byte to its ring adds the same byte to what is there
\* to print, whether or not the tracer is about to give a slot back.
LEMMA PutCharExact ==
  ASSUME TracerInvariant, NEW p \in Producers, NEW b \in Bytes, PutChar(p, b),
         UNCHANGED <<tpc, printed>>
  PROVE  ConsoleExact'
<1>1. /\ console'[p] = Append(console[p], b) /\ written'[p] = Append(written[p], b)
      /\ \A q \in Producers : q # p => /\ console'[q] = console[q]
                                       /\ written'[q] = written[q]
  BY PutCharIs DEF TracerInvariant
<1>2. console[p] \in Seq(Bytes) /\ printed[p] \in Seq(Bytes)
  BY DEF TracerInvariant, TypeOK
<1> SUFFICES ASSUME NEW q \in Producers
             PROVE  printed[q] \o (IF tpc = Advance(q) THEN Tail(console'[q])
                                   ELSE console'[q]) = written'[q]
  BY Zenon DEF ConsoleExact, Advance
<1>3. printed[q] \o (IF tpc = Advance(q) THEN Tail(console[q]) ELSE console[q])
        = written[q]
  BY DEF TracerInvariant, ConsoleExact
<1>4. CASE q # p
  BY <1>1, <1>3, <1>4
<1>5. CASE q = p /\ tpc = Advance(p)
  <2>1. console[p] # <<>>
    BY <1>5 DEF TracerInvariant, PlaceInv
  <2>2. Tail(console[p]) \in Seq(Bytes) /\ Tail(console'[p]) = Append(Tail(console[p]), b)
    BY <1>1, <1>2, <2>1, AddByteBehind
  <2>3. printed[p] \o Append(Tail(console[p]), b) = Append(printed[p] \o Tail(console[p]), b)
    BY <1>2, <2>2, AddByteLast
  <2>4. printed[p] \o Tail(console[p]) = written[p]
    BY <1>3, <1>5
  <2> QED
    BY <1>1, <1>5, <2>2, <2>3, <2>4
<1>6. CASE q = p /\ tpc # Advance(p)
  <2>1. printed[p] \o Append(console[p], b) = Append(printed[p] \o console[p], b)
    BY <1>2, AddByteLast
  <2>2. printed[p] \o console[p] = written[p]
    BY <1>3, <1>6
  <2> QED
    BY <1>1, <1>6, <2>1, <2>2
<1> QED
  BY <1>4, <1>5, <1>6

\* Nothing printed or waiting is lost, doubled or reordered by any step.
LEMMA ConsoleExactStep == TracerInvariant /\ [Next]_vars => ConsoleExact'
<1> SUFFICES ASSUME TracerInvariant, [Next]_vars PROVE ConsoleExact'
  OBVIOUS
<1> USE DEF vars, ringVars, consoles, dumpVars, outVars, tracerVars, prodVars
<1>1. CASE VmmEmit
  BY <1>1 DEF VmmEmit, TracerInvariant, ConsoleExact, Producers, Advance
<1>2. CASE VmmPutChar
  <2>1. PICK b \in Bytes : PutChar("vmm", b)
    BY <1>2, VmmPuts
  <2>2. UNCHANGED <<tpc, printed>>
    BY <1>2 DEF VmmPutChar
  <2> QED
    BY <2>1, <2>2, PutCharExact DEF Producers
<1>3. CASE VmmWait
  BY <1>3 DEF VmmWait, WaitForRoom, Notify, TracerInvariant, ConsoleExact,
     Producers, Advance
<1>4. CASE VmmNotify
  BY <1>4 DEF VmmNotify, Notify, TracerInvariant, ConsoleExact, Producers,
     Advance
<1>5. CASE UartrxPutChar
  <2>1. Head(text) \in Bytes /\ PutChar("uartrx", Head(text))
    BY <1>5, UartrxPuts DEF TracerInvariant
  <2>2. UNCHANGED <<tpc, printed>>
    BY <1>5 DEF UartrxPutChar
  <2> QED
    BY <2>1, <2>2, PutCharExact DEF Producers
<1>6. CASE UartrxWait
  BY <1>6 DEF UartrxWait, WaitForRoom, Notify, TracerInvariant,
     ConsoleExact, Producers, Advance
<1>7. CASE EndLine
  BY <1>7 DEF EndLine, UStep, TracerInvariant, ConsoleExact, Producers,
     Advance
<1>8. CASE RecordCommand
  BY <1>8 DEF RecordCommand, UStep, TracerInvariant, ConsoleExact,
     Producers, Advance
<1>9. CASE RunCommand
  BY <1>9 DEF RunCommand, UStep, Notify, TracerInvariant, ConsoleExact,
     Producers, Advance
<1>10. CASE RequestDump
  BY <1>10 DEF RequestDump, UStep, TracerInvariant, ConsoleExact, Producers,
     Advance
<1>11. CASE Prompt
  BY <1>11 DEF Prompt, UStep, Notify, TracerInvariant, ConsoleExact,
     Producers, Advance
<1>12. CASE Receive
  BY <1>12 DEF Receive, Goto, TracerInvariant, ConsoleExact, Producers,
     Advance
<1>13. CASE Dispatch
  BY <1>13 DEF Dispatch, TracerInvariant, ConsoleExact, Producers, Advance
<1>14. CASE DrainTrace
  BY <1>14 DEF DrainTrace, TracerInvariant, ConsoleExact, Producers, Advance
<1>15. CASE MaybeDump
  BY <1>15 DEF MaybeDump, Goto, TracerInvariant, ConsoleExact, Producers,
     Advance
<1>16. ASSUME NEW p \in Producers, DrainConsole(p) PROVE ConsoleExact'
  <2>1. console[p] \in Seq(Bytes) /\ printed \in [Producers -> Seq(Bytes)]
    BY DEF TracerInvariant, TypeOK
  <2>2. tpc = p /\ console' = console /\ written' = written
    BY <1>16 DEF DrainConsole
  <2>3. \A q \in Producers : printed[q] \o console[q] = written[q]
    BY <2>2 DEF TracerInvariant, ConsoleExact, Advance, Producers
  <2>4. CASE console[p] = <<>>
    <3>1. printed' = printed /\ \A q \in Producers : tpc' # Advance(q)
      BY <1>16, <2>4 DEF DrainConsole, After, Advance, Producers
    <3> QED
      BY <2>2, <2>3, <3>1 DEF ConsoleExact, Advance
  <2>5. CASE console[p] # <<>>
    <3>1. /\ printed'[p] = Append(printed[p], Head(console[p]))
          /\ \A q \in Producers : q # p => printed'[q] = printed[q]
          /\ tpc' = Advance(p)
      BY <1>16, <2>1, <2>5 DEF DrainConsole
    <3>2. printed[p] \in Seq(Bytes)
      BY <2>1
    <3>3. Append(printed[p], Head(console[p])) \o Tail(console[p])
            = printed[p] \o console[p]
      BY <2>1, <2>5, <3>2, MoveByte, Zenon
    <3>4. printed'[p] \o Tail(console[p]) = written[p]
      BY <2>3, <3>1, <3>3
    <3>5. \A q \in Producers : q # p => tpc' # Advance(q)
      BY <3>1, AdvanceDiffers
    <3> QED
      BY <2>2, <2>3, <3>1, <3>4, <3>5 DEF ConsoleExact, Advance
  <2> QED
    BY <2>4, <2>5
<1>17. ASSUME NEW p \in Producers, AdvanceTail(p) PROVE ConsoleExact'
  <2>1. console \in [Producers -> Seq(Bytes)]
    BY DEF TracerInvariant, TypeOK
  <2>2. /\ tpc = Advance(p) /\ tpc' = p /\ printed' = printed /\ written' = written
        /\ console'[p] = Tail(console[p])
        /\ \A q \in Producers : q # p => console'[q] = console[q]
    BY <1>17, <2>1 DEF AdvanceTail, Goto
  <2>3. \A q \in Producers : tpc' # Advance(q) /\ (q # p => tpc # Advance(q))
    BY <2>2 DEF Advance, Producers
  <2>4. printed[p] \o console'[p] = written[p]
    BY <2>2 DEF TracerInvariant, ConsoleExact
  <2>5. \A q \in Producers : q # p => printed[q] \o console'[q] = written[q]
    BY <2>2, <2>3 DEF TracerInvariant, ConsoleExact
  <2> QED
    BY <2>2, <2>3, <2>4, <2>5 DEF ConsoleExact, Advance
<1>18. CASE UNCHANGED vars
  BY <1>18 DEF TracerInvariant, ConsoleExact
<1> QED
  BY <1>1, <1>2, <1>3, <1>4, <1>5, <1>6, <1>7, <1>8, <1>9, <1>10, <1>11,
     <1>12, <1>13, <1>14, <1>15, <1>16, <1>17, <1>18
     DEF Next, Vmm, Uartrx, TracerStep
-----------------------------------------------------------------------------
(* The theorems *)

\* The invariant holds at first.
LEMMA TracerInit == Init => TracerInvariant
<1> SUFFICES ASSUME Init PROVE TracerInvariant
  OBVIOUS
<1>1. <<>> \in Seq(Bytes)
  OBVIOUS
<1>2. \A p \in Producers : console[p] = <<>> /\ written[p] = <<>> /\ printed[p] = <<>>
  BY DEF Init
<1>3. TypeOK
  BY <1>1 DEF Init, TypeOK
<1>4. PlaceInv
  BY DEF Init, PlaceInv, Advance
<1>5. AwakeInv
  <2>1. console["vmm"] = <<>> /\ console["uartrx"] = <<>>
    BY <1>2 DEF Producers
  <2>2. Len(console["vmm"]) = 0
    BY <2>1
  <2> QED
    BY <2>1, <2>2 DEF Init, AwakeInv, AwakeTrace, AwakeLine, AwakeUartrx,
       AwakeDump
<1>6. ConsoleExact
  <2>1. <<>> \o <<>> = <<>>
    OBVIOUS
  <2>2. \A p \in Producers : tpc # Advance(p)
    BY DEF Init, Advance
  <2> QED
    BY <1>2, <2>1, <2>2 DEF ConsoleExact
<1> QED
  BY <1>3, <1>4, <1>5, <1>6 DEF TracerInvariant

\* The inductive invariant holds of every behaviour of the tracer and its two
\* producers, whatever the capacity of the console rings.
THEOREM TracerInvariantHolds == Spec => []TracerInvariant
<1>1. TracerInvariant /\ [Next]_vars => TracerInvariant'
  BY TypeOKStep, PlaceInvStep, AwakeTraceStep, AwakeLineStep, AwakeUartrxStep,
     AwakeDumpStep, ConsoleExactStep DEF TracerInvariant, AwakeInv
<1> QED
  BY TracerInit, <1>1, PTL DEF Spec

\* drain_console prints what a producer wrote, each byte once and in order,
\* whichever ring fills and however the three domains interleave.
THEOREM ConsoleIsExact == Spec => []ConsoleExact
<1>1. TracerInvariant => ConsoleExact
  BY DEF TracerInvariant
<1> QED
  BY TracerInvariantHolds, <1>1, PTL

\* A tracer that sleeps with nothing to wake it left no record, no finished
\* line, no prompt and no dump request behind, but those whose producer is
\* still to notify.
THEOREM NothingIsForgotten == Spec => []NothingForgotten
<1>1. TracerInvariant => NothingForgotten
  <2> SUFFICES ASSUME TracerInvariant, tpc = "recv", notification = {}
               PROVE  NothingForgotten
    BY DEF NothingForgotten
  <2>1. \A stages \in {TraceStages, VmmStages, UartrxStages, DumpStages} :
          ~Coming(stages)
    BY DEF TracerInvariant, PlaceInv, Coming, TraceStages, VmmStages,
       UartrxStages, DumpStages
  <2> QED
    BY <2>1 DEF NothingForgotten, TracerInvariant, AwakeInv, AwakeTrace,
       AwakeLine, AwakeUartrx, AwakeDump
<1> QED
  BY TracerInvariantHolds, <1>1, PTL
=============================================================================
