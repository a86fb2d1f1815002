------------------------------- MODULE Tracer -------------------------------
(***************************************************************************)
(* The tracer's event loop (tracer/tracer.c: notified, drain_trace,        *)
(* drain_console, maybe_dump, dump_archive) against the two domains that   *)
(* feed it: the VMM (trace_emit and _sddf_putchar, vmm/console_putchar.c)  *)
(* and uartrx (end_line, run_line, cmd_trace_dump and its console_putc).   *)
(*                                                                         *)
(* The trace ring is the FIFO of TraceLog, with its notification.  Each    *)
(* console ring has one producer and one consumer, whose indices order     *)
(* every access to it, so it is a bounded FIFO too; the consumer's two     *)
(* steps (print the byte, advance tail) are kept apart.  A dump prints the *)
(* archive in one step: nothing the tracer does in between changes it.     *)
(***************************************************************************)
EXTENDS TraceDecode

CONSTANTS
  ConsoleCapacity,  \* CONSOLE_RING_CAPACITY
  HeaderInterval,   \* TRACE_HEADER_INTERVAL
  MaxRecords,       \* bound: records the VMM emits
  MaxVmmChars,      \* bound: characters the VMM prints
  MaxLines          \* bound: lines typed

ASSUME TracerAssumption ==
  /\ ConsoleCapacity \in Nat \ {0}
  /\ HeaderInterval \in Nat \ {0}
  /\ MaxRecords \in Nat /\ MaxVmmChars \in Nat /\ MaxLines \in Nat

Producers == {"vmm", "uartrx"}

VARIABLES
  \* the trace ring, as a count of published records not yet archived, and
  \* the archive, as a count: records are numbered in order (TraceLog)
  in_ring, archived,
  \* per producer: its console ring, and all it ever wrote there
  console, written,
  \* struct trace_control, and the tracer's dumps_done
  dump_requests, dumps_done,
  \* what the console shows: per producer the bytes printed, and the lines of
  \* the last dump
  printed, dump,
  \* pending notification bits, those of the current wake-up, tracer's pc
  notification, pending, tpc,
  \* VMM: pc and what it has produced; uartrx: pc, the text it still has to
  \* print before its next step, and lines typed
  vpc, emitted, upc, text, lines,
  \* history: records published when the last dump was asked for
  recorded

ringVars   == <<in_ring, archived>>
consoles   == <<console, written>>
dumpVars   == <<dump_requests, dumps_done>>
outVars    == <<printed, dump>>
tracerVars == <<pending, tpc>>
prodVars   == <<vpc, emitted, upc, text, lines>>
vars == <<ringVars, consoles, dumpVars, outVars, notification, tracerVars,
          prodVars, recorded>>

Init ==
  /\ in_ring = 0 /\ archived = 0
  /\ console = [p \in Producers |-> <<>>]
  /\ written = [p \in Producers |-> <<>>]
  /\ dump_requests = 0 /\ dumps_done = 0
  /\ printed = [p \in Producers |-> <<>>] /\ dump = <<>>
  /\ notification = {} /\ pending = {} /\ tpc = "recv"
  /\ vpc = "run" /\ emitted = 0
  /\ upc = "type" /\ text = <<>> /\ lines = 0
  /\ recorded = 0

Notify(p) == notification' = notification \cup {p}
-----------------------------------------------------------------------------
(* Producers *)

\* Mutant: a full ring drops the byte.
PutChar_Drops(p, c) ==
  /\ console' = IF Len(console[p]) < ConsoleCapacity
                  THEN [console EXCEPT ![p] = Append(@, c)] ELSE console
  /\ written' = [written EXCEPT ![p] = Append(@, c)]

\* console_putc() and _sddf_putchar(): store a byte when there is room ...
PutChar(p, c) ==
  /\ Len(console[p]) < ConsoleCapacity
  /\ console' = [console EXCEPT ![p] = Append(@, c)]
  /\ written' = [written EXCEPT ![p] = Append(@, c)]

\* Mutant: the wait does not wake the tracer.
WaitForRoom_Silent(p) ==
  /\ Len(console[p]) = ConsoleCapacity
  /\ UNCHANGED vars

\* ... and a round of the loop that waits for it.
WaitForRoom(p) ==
  /\ Len(console[p]) = ConsoleCapacity
  /\ Notify(p)
  /\ UNCHANGED <<ringVars, consoles, dumpVars, outVars, tracerVars, prodVars,
                 recorded>>

\* The VMM makes a record, and notifies.
VmmEmit ==
  /\ vpc = "run" /\ emitted < MaxRecords
  /\ in_ring' = in_ring + 1
  /\ emitted' = emitted + 1
  /\ vpc' = "notify"
  /\ UNCHANGED <<archived, consoles, dumpVars, outVars, notification,
                 tracerVars, upc, text, lines, recorded>>

\* The VMM prints a byte, every other one a newline; only that notifies.
VmmPutChar ==
  /\ vpc = "run" /\ Len(written["vmm"]) < MaxVmmChars
  /\ LET c == IF Len(written["vmm"]) % 2 = 0 THEN "x" ELSE "LF"
     IN  /\ PutChar("vmm", c)
         /\ vpc' = IF c = "LF" THEN "notify" ELSE "run"
  /\ UNCHANGED <<ringVars, dumpVars, outVars, notification, tracerVars,
                 emitted, upc, text, lines, recorded>>

VmmWait ==
  /\ vpc = "run" /\ Len(written["vmm"]) < MaxVmmChars
  /\ WaitForRoom("vmm")

VmmNotify ==
  /\ vpc = "notify"
  /\ vpc' = "run"
  /\ Notify("vmm")
  /\ UNCHANGED <<ringVars, consoles, dumpVars, outVars, tracerVars, emitted,
                 upc, text, lines, recorded>>

Vmm == VmmEmit \/ VmmPutChar \/ VmmWait \/ VmmNotify

\* uartrx moves on when the text of its current step is in the ring.
UStep(from, to, next) ==
  /\ upc = from /\ text = <<>>
  /\ upc' = to /\ text' = next

UartrxPutChar ==
  /\ text # <<>>
  /\ PutChar("uartrx", Head(text))
  /\ text' = Tail(text)
  /\ UNCHANGED <<ringVars, dumpVars, outVars, notification, tracerVars, vpc,
                 emitted, upc, lines, recorded>>

UartrxWait == text # <<>> /\ WaitForRoom("uartrx")

\* end_line(): the echo of the line's end
EndLine ==
  /\ UStep("type", "record", <<"LF">>)
  /\ lines < MaxLines
  /\ lines' = lines + 1
  /\ UNCHANGED <<ringVars, consoles, dumpVars, outVars, notification,
                 tracerVars, vpc, emitted, recorded>>

\* record_command(): trace_emit, and its notification
RecordCommand ==
  /\ UStep("record", "recorded", <<>>)
  /\ in_ring' = in_ring + 1
  /\ UNCHANGED <<archived, consoles, dumpVars, outVars, notification,
                 tracerVars, vpc, emitted, lines, recorded>>

\* The command is trace-dump, which announces itself first, or another one.
RunCommand ==
  /\ \/ UStep("recorded", "dump", <<"LF">>)
     \/ UStep("recorded", "prompt", <<"x">>)
  /\ Notify("uartrx")
  /\ UNCHANGED <<ringVars, consoles, dumpVars, outVars, tracerVars, vpc,
                 emitted, lines, recorded>>

\* cmd_trace_dump(): the request; no notification of its own
RequestDump ==
  /\ UStep("dump", "prompt", <<"x">>)
  /\ dump_requests' = dump_requests + 1
  /\ recorded' = archived + in_ring
  /\ UNCHANGED <<ringVars, consoles, dumps_done, outVars, notification,
                 tracerVars, vpc, emitted, lines>>

\* Mutant: the prompt is not flushed.
Prompt_NoFlush ==
  /\ UStep("prompt", "type", <<>>)
  /\ UNCHANGED <<ringVars, consoles, dumpVars, outVars, notification,
                 tracerVars, vpc, emitted, lines, recorded>>

\* prompt(): printed, then flushed
Prompt ==
  /\ UStep("prompt", "type", <<>>)
  /\ Notify("uartrx")
  /\ UNCHANGED <<ringVars, consoles, dumpVars, outVars, tracerVars, vpc,
                 emitted, lines, recorded>>

Uartrx ==
  \/ UartrxPutChar \/ UartrxWait \/ EndLine \/ RecordCommand \/ RunCommand
  \/ RequestDump \/ Prompt
-----------------------------------------------------------------------------
(* The tracer: notified() once for each channel of a wake-up *)

Goto(from, to) == tpc = from /\ tpc' = to

Receive ==
  /\ Goto("recv", "dispatch")
  /\ notification # {}
  /\ pending' = notification
  /\ notification' = {}
  /\ UNCHANGED <<ringVars, consoles, dumpVars, outVars, prodVars, recorded>>

Dispatch ==
  /\ tpc = "dispatch"
  /\ IF pending = {}
       THEN tpc' = "recv" /\ UNCHANGED pending
       ELSE /\ \E ch \in pending : pending' = pending \ {ch}
            /\ tpc' = "trace"
  /\ UNCHANGED <<ringVars, consoles, dumpVars, outVars, notification,
                 prodVars, recorded>>

\* drain_trace(): one record, or on to the VMM's console
DrainTrace ==
  /\ tpc = "trace"
  /\ IF in_ring > 0
       THEN /\ in_ring' = in_ring - 1
            /\ archived' = archived + 1
            /\ UNCHANGED tpc
       ELSE tpc' = "vmm" /\ UNCHANGED ringVars
  /\ UNCHANGED <<consoles, dumpVars, outVars, notification, pending, prodVars,
                 recorded>>

\* drain_console(): print the oldest byte of p's ring, or move on ...
After(p) == IF p = "vmm" THEN "uartrx" ELSE "maybe_dump"
Advance(p) == IF p = "vmm" THEN "advance vmm" ELSE "advance uartrx"

DrainConsole(p) ==
  /\ tpc = p
  /\ IF console[p] = <<>>
       THEN tpc' = After(p) /\ UNCHANGED printed
       ELSE /\ printed' = [printed EXCEPT ![p] = Append(@, Head(console[p]))]
            /\ tpc' = Advance(p)
  /\ UNCHANGED <<ringVars, consoles, dumpVars, dump, notification, pending,
                 prodVars, recorded>>

\* ... then give its slot back.
AdvanceTail(p) ==
  /\ Goto(Advance(p), p)
  /\ console' = [console EXCEPT ![p] = Tail(@)]
  /\ UNCHANGED <<ringVars, written, dumpVars, outVars, notification, pending,
                 prodVars, recorded>>

\* dump_archive(): a header before the first record and after every
\* HeaderInterval records; the archive's i-th record has number i - 1
dump_archive ==
  LET lines_to[i \in 0 .. archived] ==
        IF i = 0 THEN <<>>
        ELSE lines_to[i - 1]
             \o (IF (i - 1) % HeaderInterval = 0 THEN <<HeaderLine>> ELSE <<>>)
             \o <<RecordLine(i - 1, "CMD")>>
  IN  Append(lines_to[archived], InfoLine(archived))

\* maybe_dump(): any number of requests since the last dump make one dump.
MaybeDump ==
  /\ Goto("maybe_dump", "dispatch")
  /\ IF dump_requests # dumps_done
       THEN /\ dumps_done' = dump_requests
            /\ dump' = dump_archive
       ELSE UNCHANGED <<dumps_done, dump>>
  /\ UNCHANGED <<ringVars, consoles, dump_requests, printed, notification,
                 pending, prodVars, recorded>>

TracerStep ==
  \/ Receive \/ Dispatch \/ DrainTrace \/ MaybeDump
  \/ \E p \in Producers : DrainConsole(p) \/ AdvanceTail(p)

Next == Vmm \/ Uartrx \/ TracerStep

Spec == Init /\ [][Next]_vars

\* One core per domain.  The VMM need not produce, and nobody has to type, but
\* both finish what they began.
FairSpec ==
  /\ Spec
  /\ WF_vars(TracerStep)
  /\ WF_vars(VmmNotify)
  /\ WF_vars(Uartrx /\ ~EndLine)
-----------------------------------------------------------------------------
(* Properties *)

\* Console output is neither lost nor doubled nor reordered: what was printed
\* for a producer and what waits in its ring make up what it wrote.
ConsoleExact ==
  \A p \in Producers :
    printed[p] \o (IF tpc = Advance(p) THEN Tail(console[p]) ELSE console[p])
      = written[p]

\* When the tracer sleeps with nothing to wake it, nothing that was announced
\* waits: no record, no finished VMM line, no prompt and no dump request,
\* unless the producer of it is still on its way to notify.  cmd_trace_dump
\* itself notifies nobody, so this rests on the prompt that follows.
NothingForgotten ==
  tpc = "recv" /\ notification = {} =>
    /\ in_ring > 0 => vpc = "notify" \/ upc = "recorded"
    /\ \A i \in 1 .. Len(console["vmm"]) :
         console["vmm"][i] = "LF" => vpc = "notify"
    /\ console["uartrx"] # <<>> => upc # "type"
    /\ dump_requests # dumps_done => upc = "prompt"

\* What the decoder says of a log can be relied on.  Whatever lines of a dump
\* another core's output breaks: as long as one header survives, every record
\* that survives is decoded, in order; without an error the decoded records are
\* the archive's first ones, and all that can be missing is a tail of records
\* whose prefix was hidden (DamageReported is about that tail); and a dump that
\* nothing broke decodes without one.
Numbered(log) == SelectSeq(log, LAMBDA l : l.type = "TRC")
DecodesTo(log, count) ==
  LET r == decode(log)
      intact(l, t) == l.type = t /\ l.ok /\ l.digit = TRACE_VERSION
      good == SelectSeq(log, LAMBDA l : intact(l, "TRC"))
      seqs == [i \in 1 .. Len(good) |-> good[i].seq]
      readable == \E i \in 1 .. Len(log) : intact(log[i], "TRH")
      damaged == \E i \in 1 .. Len(log) : log[i].type # "INFO" /\
                   ~(intact(log[i], "TRH") \/ intact(log[i], "TRC"))
  IN  /\ r.decoded = (IF readable THEN seqs ELSE <<>>)
      /\ r.errors = 0 =>
           /\ readable
           /\ r.decoded = [i \in 1 .. Len(Numbered(log)) |-> i - 1]
      /\ ~damaged => r.errors = 0 /\ Len(r.decoded) = count
Damaged(lines_out, hit) ==
  [i \in 1 .. Len(lines_out) |->
     IF i \in DOMAIN hit THEN Damage(lines_out[i], hit[i]) ELSE lines_out[i]]
Hits(lines_out) == [1 .. Len(lines_out) - 1 -> Damages]
DumpDecodes ==
  [][dump' # dump /\ archived > 0 =>
       \A hit \in Hits(dump') : DecodesTo(Damaged(dump', hit), archived)]_vars

\* A dump that was asked for is made.
DumpServed == (dump_requests # dumps_done) ~> (dump_requests = dumps_done)

\* The prompt comes back and is printed, however full the ring.
PromptPrinted ==
  (upc # "type") ~> (upc = "type" /\ console["uartrx"] = <<>>)

\* "trace-dump   print every trace record recorded so far" (uartrx.c:159):
\* a dump holds every record published before it was asked for.
DumpComplete ==
  [][dumps_done' # dumps_done => archived >= recorded]_vars

\* "A record damaged that way is reported as an error, never skipped"
\* (docs/trace-format.md:127): the decoder finds an error in every dump one of
\* whose records another core's output broke.
DamageReported ==
  [][dump' # dump /\ archived > 0 =>
       \A hit \in Hits(dump') :
         (\E i \in DOMAIN hit : dump'[i].type = "TRC" /\ hit[i] # "none")
           => decode(Damaged(dump', hit)).errors > 0]_vars
=============================================================================
