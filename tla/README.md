# Tensor-seL4: TLA+ models, model checks and proofs

Tensor-seL4 runs a traced guest VM on a Pixel phone's Tensor G4 under seL4 and
Microkit. This directory holds TLA+ modules that model the protection domains of
the system and the memory they share, TLC configurations that check them on
small instances, and TLAPS proofs about the rings, the event loops, the line
editor, the panel and the harness guest for all capacities, inputs and bounds.
`PROJECT.json` lists every run, mutant, mapped definition, finding, hazard and
theorem.

## 1. The system

Each protection domain (PD) has a core of its own (`vmm/caiman.system.S:40-100`)
and talks to the others through shared-memory rings and notifications only.

| Part | Source | State | Operations |
|---|---|---|---|
| VMM | `vmm/vmm.c`, `vmm/guest_control.c` | guest state, run number, vCPU, last fault | start, stop, status, regs; fault; notified |
| exit handlers | `vmm/smc_policy.c`, `smc_trace.c`, `mmio_*.c`, `exynos_uart_emul.c`, `guest_stats.c` | console line buffer, exit counters | one handler per kind of exit |
| trace producers | `vmm/trace_producer.c` (linked into VMM and uartrx) | `struct trace_ring`: head, tail, next_seq, lock, records | `trace_emit` |
| tracer | `tracer/tracer.c` | archive, `dumps_done`, `mirror_dropped`, `mirror_pending` | `notified`: drain trace, drain two console rings, dump, mirror |
| uartrx | `uartrx/uartrx.c` | line, `line_errors`, `last_was_cr`, `commands_received` | receive bytes, edit, parse, record, send to the VMM and wait |
| fbcon | `fbcon/fbcon.c` | geometry, character grid, changed rows, framebuffer | read the geometry, drain the mirror ring, render |
| freezewatch | `freezewatch/freezewatch.c` | two stall timers, `reported` | sample, report |
| breadcrumb | `vmm/breadcrumb.c` | phase, time and label of what the VMM does, and a count | written on every entry and exit of the VMM, read by uartrx after a time-out |
| shared memory | `include/trace/*.h` | trace ring, two console rings, mirror ring, command ring with the breadcrumb, archive, trace control | |
| harness guest | `guests/harness/*` | page tables, interrupt counters | regression, 7 lab modes, timer interrupt handler |
| decoder (host) | `tools/trace-decode.py` | first header, records held back, expected number | decode a log |

Interactions: VMM and uartrx both produce into the trace ring (lock) and each
into a console ring; the tracer consumes all three and produces into the mirror
ring, which fbcon consumes. uartrx produces commands for the VMM and polls
`completed_id`. freezewatch only reads. Hard behaviours: two producers and a
consumer on three cores without a common lock; waiting for a consumer with the
lock held; notifications that are sent after the data and may coalesce; a 2 s
time-out on a command that stays queued, and a report read while its subject
goes on; faults that are pending while a command stops or restarts the guest;
output that must be dropped rather than waited for, and input that is lost while
nobody reads; log lines broken by another core's output; samples taken one after
another and compared; page tables and interrupts of a guest that can be stopped
at any instruction.

The hazards in `PROJECT.json` name the lines where each of these bites and the
properties that would catch it.

## 2. Modules

| Module | Models | Grain of a step |
|---|---|---|
| `TraceLog` | what the trace promises (`docs/trace-format.md`): a bounded queue, numbered and stamped, into an archive | one record |
| `TraceRing` | `trace_emit` of every producer against `drain_trace` and `archive_record` | one access to shared memory |
| `Breadcrumb` | the VMM's breadcrumb and uartrx's reading of it | one store or load |
| `CmdChannel` | `cmd_to_vmm`, `wait_for_vmm` against `run_commands` and `fault`, composed with `Breadcrumb` | one access to `struct cmd_ring` |
| `GuestExits` | every exit handler as the set of its outcomes: records and whether the guest goes on | pure operators |
| `GuestControl` | lifecycle and event loop of the VMM, composed with `GuestExits`, the guest's vCPUs and uartrx | one record, one change of a vCPU |
| `Harness` | the harness guest beside the VMM's exit handlers (`GuestExits`), a virtual timer with its GIC, and an MMU with store buffer and TLB | one instruction others can tell apart |
| `TraceDecode` | the lines of a dump, and `decode` of `trace-decode.py` as a fold over a log | pure operators |
| `Tracer` | `notified` of the tracer against the VMM's and uartrx's console and trace output, and trace dumps, composed with `TraceDecode` | one byte, one record, one notification |
| `Fbcon` | geometry, grid, scrolling and the rows drawn, with a reference: the output as lines on an endless page | pure operators |
| `Mirror` | `mirror_putc`, `mirror_notify` against fbcon's `init`, `drain_ring`, `render`, composed with `Fbcon` | one access to the mirror ring |
| `Freezewatch` | `watch_forever` in a system that may do anything, and freeze | one load |
| `CommandLine` | `run_line` and the parsers, and the macros that take the argument apart, with a reference grammar | pure operators |
| `Uartrx` | the UART's FIFO, the receive loop, the line editor and its echo, and running a line (`CommandLine`) | one register access |

`TraceRingProofs`, `CmdChannelProofs`, `GuestControlProofs`, `TracerProofs`,
`MirrorProofs`, `FreezewatchProofs`, `UartrxProofs` and `HarnessProofs` hold the
theorems about the module they are named after (`MirrorProofs` about `Fbcon`
too).

`MC*.tla` extend the models for TLC; `MCGuestControl` adds the commands and exits of
two builds, `MCMirror` outputs and display registers, `MCHarness` the modes.
Composition is by extension where two parts share a step (`Breadcrumb` in
`CmdChannel`, `Fbcon` in `Mirror`, `GuestExits` in `GuestControl` and
`Harness`), and otherwise by abstraction: `TraceRing` is proved to implement
`TraceLog`, and `GuestControl` and `Tracer` use the trace as that FIFO;
`CmdChannel` shows that the command ring is a FIFO, which is how
`GuestControl` uses it.

How state corresponds: variables have the names of the C variables and struct
fields (`head`, `tail`, `next_seq`, `completed_id`, `mirror_dropped`, ...).
Program counters (`pc`, `tpc`, `vpc`, `upc`, `fpc`, `wpc`) stand for the place
in a function, between two accesses others can see. `notification` is the
pending word of a Microkit channel, `pending` the channels of the current
wake-up. Variables called history in their comment exist for the properties:
in `Mirror`, for example, `account` counts the console bytes that the cells
passed to `put()` so far stand for, a report standing for the drops it counts.

What is abstracted: record contents beyond number, time, producer and call;
console text to a few kinds of byte; registers and addresses to what the
handlers tell apart; a second of freezewatch's clock to a tick; uint64_t
indices to naturals (2^64 records or bytes are out of reach). uint64_t keeps a
width only in `CommandLine`, where a typed number can overflow it. Atomics are
acquire and release in the code wherever data is handed over, and the plain
accesses are shown not to race (`NoSlotRace`), so interleaving is sound.

External: the Microkit event loop, seL4's suspend and resume of a vCPU, libvmm
(each call succeeds or fails), Linux, the UART and the typist. `Harness` adds
the machine: seL4 masks the timer's interrupt until libvmm acknowledges it,
which it does on the guest's EOI (docs/trace-format.md:159); arming the timer
lowers its line at once; walks are speculative, entries are evicted at any time,
and a store reaches the walker at a barrier or earlier. That is the Arm
architecture's promise; docs/known-flaky.md:83 describes hardware that seemed
to break it, which the model does not. One core is modelled, on which a local
and a broadcast invalidation do the same. `Breadcrumb` lets relaxed stores and
loads take effect in any order that the release and the acquire of `seq` allow;
its crumbs are numbered from 0 again while nobody reads them (`Renumbered`),
which models no code but keeps a VMM that takes faults for ever finite.

`Freezewatch` assumes nothing of the system it watches: the tracer, uartrx and
the VMM act or do not, at any time and for as long as they like, and the
transmitter may send a byte between two looks of the watcher.

Two assumptions of `GuestControl` matter. Suspending a vCPU withdraws its
pending fault (`Suspend`); and a guest is uniprocessor, so that libvmm's PSCI
switches no other vCPU on, which is what the repository's device trees say. Its
command ring may drop a command whenever it holds one; how full it must be is
`CmdChannel`'s matter.

## 3. Runs

| Run | Checks | Bounds, and what happens within them |
|---|---|---|
| `trace_ring` | `TypeOK`, `NoSlotRace`, `GaplessPrefix`, `NothingDropped`, `NoLostWakeup`, `ImplementsTraceLog`, `EverythingDrained`, `LockReleased` | 2 producers, 2 calls each, ring of 2, archive of 3: the ring fills and wraps, producers wait inside the lock, the archive overflows |
| `cmd_channel` | `RunsInOrder`, `CompletedMeansRun`, `NoLostCommand`, `CrumbTrue`, `SentMeansEventuallyRun` | ring of 2, 3 lines, faults without end (but one while a breadcrumb is read), time-out at any poll: the ring fills behind a slow VMM and wraps, and the VMM moves on while its breadcrumb is read |
| `guest` | `OneGuest`, `RecordsInsideRun`, `LifecycleTraced`, `UnhandledStopsGuest`, `SmcGroups`, `StatsCountThisRun` | 2 vCPUs, 5 commands, 19 exits at the boundaries of every handler, 4 commands and exits in a behaviour: restart on another vCPU after a stop with a fault pending, failed starts, every failure of a call |
| `harness_lab` | `NoFalseReport`, `TimerCounted`, `TimerServed` | modes 0 to 8, reports after 2 rounds, any number of stops and starts at any instruction |
| `tracer` | `ConsoleExact`, `NothingForgotten`, `DumpServed`, `PromptPrinted`, `DumpDecodes` | console rings of 1 byte, 2 lines, a header every 2 records; every dump decoded with every line damaged in every way |
| `mirror` | `NoSlotRace`, `DropsAccounted`, `NothingWaits`, `PanelShowsTail`, `DrawsInside`, `TracerReturns` | ring of 4, reports of 2 or 3 bytes that ask for 4, outputs that wrap, scroll, overwrite and skip; 9 geometries, 5 of them refused |
| `freezewatch` | `OneReportPerFreeze`, `FreezeReported` | the code's limits of 3 and 4 s; up to 2 bytes in each console ring and in the FIFO, so that a ring is drained, and filled again, between the watcher's loads of its head and tail |
| `uartrx` | `EchoIsLine`, `ErrorsReported`, `LossReported`, `StartAsTyped` | lines of 2 characters, 5 bytes, a FIFO of 2 that overruns (it holds with 1, the UART without FIFO, too); every line of a verb and up to 4 words, 2-bit fields in a 6-bit word, so that numbers meet the end of both |
| `guest_smc`, `guest_line`, `tracer_dump`, `tracer_damage` | one documented statement each, which the code does not meet | see Findings |

Larger capacities and more calls only repeat wraps these bounds already reach;
for all safety properties but two the proofs of section 5 remove the bounds
altogether. Every property of a
passing run has a mutant of a mapped definition (a dropped guard, an
off-by-one, a missing notification) under which TLC refutes it.

Fairness. Every PD runs on its own core and is never preempted for good, so
each gets weak fairness for the steps it takes on its own; nobody has to type,
print or emit, and no assumption is made about who wins the lock. freezewatch
has strong fairness for the passing of a second, which is enabled at one point
of its loop only while time does not wait for it, and the UART sends what it
holds. In `Harness` the core executes, takes interrupts and has its exits
served; a timer need not expire and a table walk may take its time.

The VMM takes faults and notifications from one queue, and whether the kernel
delivers a notification while a guest faults all the time is open in the source
itself (`vmm/vmm.c:103`, docs/known-flaky.md:23-35). `CmdChannel` names this as
an assumption of its own, `DeliversNotifications`, strong fairness of the
notification's delivery: `SentMeansEventuallyRun` says that commands are run *if*
notifications get through among endless faults. With weak fairness of the VMM
instead TLC refutes it, by a storm of faults that never lets a notification
through. `GuestControl` states no liveness.

Deadlock is checked for freezewatch. Everywhere else the system may really
stop: the typist and the guest need not go on.

## 4. Findings

* `guest_smc`: docs/trace-format.md:77 says one SMC makes "a run of consecutive
  `seq` numbers". Each record takes the lock on its own, so a command recorded
  meanwhile falls between them. Among the VMM's records alone the group is
  intact (`SmcGroups`).
* `guest_line`: docs/trace-format.md:161 says "each run begins from the same
  state". The emulated UART's line buffer keeps the unfinished line of a
  stopped run and prints it as the start of the next one's.
* `tracer_dump`: `help` says `trace-dump` prints "every trace record recorded
  so far". The tracer drains first and looks for the request last, so records
  published in between, the trace-dump's own CMD record among them, are missing
  from that dump.
* `tracer_damage`: docs/trace-format.md:127 says a record damaged by another
  core's output "is reported as an error, never skipped". The decoder skips a
  line without a prefix and notices the gap by the next record's number only, so
  records whose prefix is hidden at the end of a dump are missed without an
  error; the tracer's count line, which the decoder does not read, tells.
  `DumpDecodes` shows that this is the only way to lose a record unnoticed.

Other limits are written into properties that hold:

* `StartAsTyped`: numbers are compared modulo the word, because `parse_decimal`
  wraps; `vcpu` with 2^64 + 1 is accepted as `vcpu 1`. The property does not
  object to that.
* `SmcGroups`: a forwarded call whose vCPU cannot be advanced after it was traced
  has a second exit, UNHANDLED, after its FORWARDED group, where
  docs/trace-format.md:77-82 describes one exit a call.
* `TimerCounted` and `TimerServed` are about runs that begin with a clean
  virtual GIC (`~carried`). Nothing else makes them fail: a timer interrupt
  pending or active when the guest is stopped is still in the virtual GIC of the
  next run (`guest_control.c:86`), and no property is about such a run. docs/trace-format.md:161 names this exception
  and adds that "The harness never uses the GIC"; since the lab modes it does
  (`lab.c:145-155`).
* `DrawsInside` excepts a panel that leaves room for no row, which
  `read_geometry` accepts and the first scroll does not survive; no property
  catches it. fbcon's death
  does not stop the tracer.
* `CrumbTrue`: a VMM that goes on during the report may have its phase, label
  and time taken from different events; only of one that hangs are they all of
  the event it hangs in.
* `LossReported`: an overrun may be reported with a line before the one that
  lost the byte (the status is read with the next byte), never with a later one
  and never not at all.
* `DumpDecodes` is stated for one dump: a second dump in the same log is decoded
  with a sequence error, and a dump of an empty archive, which has no header, is
  one.
* `PanelShowsTail` is about what fbcon is given: fbcon ignores backspace, so a
  character erased in uartrx stays on the panel, followed by a blank.

And one limit no property is about: freezewatch may report a system that runs.
docs/known-flaky.md:50 reasons that a live uartrx leaves the FIFO only for its
wait of up to 2 s for the VMM, but two lines typed ahead of unanswered commands
make that 4 s, and uartrx also stops reading while it waits for room in the trace
ring or in its console ring (`trace_producer.c:25-34`, `uartrx.c:50`) behind a
tracer that prints a dump (docs/trace-format.md:14). No bound on that follows
from the code, so none is stated.

## 5. Proofs

Every theorem is about `Spec`, none uses its fairness, and each holds for all
values of the constants that satisfy the named assumption of the module. Each proof module
has one inductive invariant (its parts were checked with TLC on the runs'
instances first), one lemma per part with one step per action, and the
properties as consequences. None of the properties is inductive alone; the
parts say why the code is right.

### The trace ring (`TraceRingProofs`, `RingAssumption`)

`TypeCorrect`, `SlotsNeverRaced`, `ArchiveIsGapless`, `NothingIsDropped`,
`WakeupsNotLost` for every set of producers, all positive capacities and any
number of calls, from `RingInvariant`:

* `LockInv`: whoever is between lock and unlock is the only one, and the lock
  is set as long;
* `HeadInv`: the local copy of head is the shared one until it is published;
* `SpaceInv`: at most the capacity lies between tail and head, and less once
  space was found; the tracer archives only from a ring that is not empty;
* `SeqInv`: `next_seq` is head, or one more between numbering and publishing;
* `SlotInv`: the slots from tail to head hold the records of those numbers;
* `ArchiveInv`: the archive and the count of the records not archived add up to
  tail, or one more between archiving and advancing;
* `TimeInv`: times in the archive, in the ring and in a producer's record do
  not decrease in that order, and none exceeds the counter;
* `WakeInv`: a record in the ring is being drained, is announced, or has a
  producer that will announce it.

`RingImplementsLog`: the ring implements `TraceLog`. The refinement maps the
queue to the slots from `First` (tail, or one more while the tracer advances)
to head, and the number of records issued to the calls that have published;
`PublishHead` is `Publish`, `ArchiveRecord` is `Store` or `Count`, reading the
counter is `Tick`, and everything else stutters.

### The command channel and the breadcrumb (`CmdChannelProofs`, `CmdAssumption`)

`CommandsRunInOrder`, `CompletionIsTrue`, `CommandsNotLost` from `CmdInvariant`:
`SpaceInv` as above; `EntryInv`, the entries between tail and head are what was
sent last and everything before has run, the entry at tail too once its handler
has returned; `IdInv`, ids grow along the ring and `completed_id` is that of the
last entry completed, which is why comparing ids tells a late completion from
one's own; `PhaseInv`; `WakeInv`, a command in the ring is announced, about to
be, or found by a test still to come.

`BreadcrumbIsTrue` from `CrumbInvariant`, which adds `DropInv` (each field is
of the last crumb that stores it, as far as the stores of the current one have
taken effect) and `ReportInv` (what uartrx loaded is at least as new as the
`seq` it loaded first). That crumbs are renumbered while nobody reads is the
lemma `RenumberedIs`: the new numbers keep every relation the invariant states.

### Guest control (`GuestControlProofs`, `GuestAssumption`)

`OnlyOneGuest`, `RecordsLieInsideRuns`, `LifecycleIsTraced` and
`UnhandledAlwaysStops` for any vCPUs, builds, commands and exits, from
`GuestInvariant`: `VcpuInv`, what the VMM believes of the vCPUs is what the
kernel has, also in the middle of a handler; `EmitInv`, what a handler has still
to emit; `ToldInv`, the trace's last GUEST record is the last thing that
happened to the guest, or that record is still to be emitted; `UnhandledInv`,
the VMM's last record is UNHANDLED only until the stop is recorded. They rest on
lemmas about `GuestExits` (`SmcOutcomes`, `MemoryOutcomes`, `FaultOutcomes`):
whatever a handler's calls return, only its last record may be UNHANDLED, and
then the guest does not go on. The properties speak of positions in the trace,
so that no induction over it is needed. The assumption on commands says that a
start names a vCPU number, as `GUEST_SELECT_VCPU` does.

`SmcsAreGroups` from `GroupInv`, which looks at the trace and at what is still
to be emitted as one text. `SmcGroups` alone is not inductive, since a record
emitted must follow the VMM's last one although uartrx's may lie between them.
The other parts are that what is to be emitted is itself made of groups
(`Chained`), that its first record may follow the VMM's last, which is the end
of a group if nothing is to be emitted (`Joined`), and that each argument,
result or exit still to come has its entry there or in the trace (`Owned`).

`SmcsAreCounted` from `CountInv`: the counter runs ahead of the trace by the SMC
that was counted and whose entry is still to be emitted (`Pending`), or by the
one whose registers could not be read (`Untraced`), and is zero until a start is
recorded.

### The tracer's loop (`TracerProofs`, `TracerAssumption`)

`ConsoleIsExact` and `NothingIsForgotten` for any capacity of the console rings,
from `TracerInvariant`: `PlaceInv`, a byte that was printed and not given back
is still in its ring, and a tracer that waits has no channel left to serve;
`AwakeTrace`, `AwakeLine`, `AwakeUartrx` and `AwakeDump`, everything that may
wait is announced, will be by its producer, or the tracer has yet to come to
the stage of `notified()` that looks for it. The order of the stages matters:
each is good only for what the stages from it on look for.

### The mirror and the panel (`MirrorProofs`)

`CellsNeverRaced`, `DropsAreAccounted`, `NothingIsLeftWaiting` for any capacity,
any report shorter than the room asked for and any output (`MirrorAssumption`),
from `MirrorInvariant`. `SpaceInv` orders the five indices,
`tail <= t <= head <= h <= tail + Capacity`, and says that after a report there
is room for the byte that made it, so a report is never followed by a drop it
does not count. `AccountInv` says there is a count of console bytes along the
ring that agrees with every cell in it; the invariant holds the count as an
existential, since no variable of the code has it.

`FbconDrawsInside` and `PanelShowsTheTail` for any panel registers, font and
margins (`FbconAssumption`), from `PanelInvariant`: an accepted geometry fits
(`Fits`); the grid is the end of the page (`GridIsPage`), through wrapping,
tabs, carriage returns and scrolling; and a row of the panel that differs from
the grid's is marked to be drawn (`MarksDiffer`). The page, an endless list of
lines written without a grid, is the reference.

### freezewatch (`FreezewatchProofs`, `FreezewatchAssumption`)

`ReportsOnce`, an action property, for any limits and amounts of output, from
`WatchInvariant`. No part of it assumes anything of the system that is watched.
`OldInv` says that of the bytes in a ring those that waited at the last report
are the oldest; `GapInv`, that between its loads of a ring's head and tail the
watcher is at least as far from the head as those bytes reach, so a tail equal to
that head means they are gone, although the ring may be filled again;
`ClearInv`, that what the watcher saw of one ring stays true while it looks at
the other and at the FIFO, so that a watcher ready to report has seen everything
it reported last cleared.

### The line editor (`UartrxProofs`, `UartrxAssumption`)

`LineFitsBuffer`, `TypistSeesTheLine`, `LinesReportTheirErrors` and
`NoLossUnnoticed` for any line length, FIFO depth and input, from
`LineInvariant`. `EchoIsLine` is inductive with the types: erasing writes a blank
over the character, and a line that takes no character echoes none. The errors
need `LastInv`, that `last_was_cr` is about the byte before, so that the line
ends the editor sees are those of the input, and `EveryErrorReported`, that an
error is reported with the line of its byte or noted for the line being typed.
A lost byte needs `LossInv`: its error is in the input, between the bytes it fell
between, or UERSTAT will be set with a byte yet to be read, no later than the
one that followed. Lines are numbered by the cardinality of the line ends
before them; the lemmas about `Ended` say how that grows with the input.

### The harness (`HarnessProofs`, `HarnessAssumption`)

`NoReportIsFalse` and `ExpiriesAreCounted` for any modes, any number of rounds
between reports, and any number of stops and starts. The invariant has to say
what is left of the program at every instruction and in every interrupt, and the
program's text is a sequence of operations whose length depends on `Rounds`. It
is stated through an automaton: a point says how far the guest is with its page
table, its timer and its interrupt handler; `Allowed` and `After` say which
operation may come next and where it leads. `Path(s, p, q)` says the operations
`s` lead from `p` to `q`, by the sequence of points passed, so that a loop of any
number of rounds is a path by one definition and without induction
(`RepeatPath`), and paths are put together function by function from
`uart_puts` to `harness_main`, which never returns (`MainPath`).
`HarnessInvariant` says that `todo` is a path from a point that `Describes` the
machine:

* `TablesAre`: nothing walks before the MMU is on, and then the descriptor is in
  memory and the TLB empty; with software updates the descriptor and every
  translation stay as they are; after barrier and invalidation a translation is
  one of the descriptor just written; after the write that descriptor is
  accessed and writable, so that the verdict is never FAIL;
* `VectorsAre`: vectors are installed before the timer runs, and it runs before
  interrupts are unmasked, so that an interrupt finds its handler; the handler
  runs masked;
* `TimerIs`, in a run without a carried interrupt: the mask in seL4 is set as
  long as the interrupt is pending, active or ended in the virtual GIC; active
  is the part of the handler from counting to end of interrupt; and an expiry is
  owed exactly while the timer is expired, but for the moment between counting
  it and arming the timer again.

The end of the program describes no machine, so a vCPU that runs is never there:
the loops do not return, and the SMC nobody handles stops the guest before
`resumed` is printed.

### Only model-checked

* All liveness (`EverythingDrained`, `LockReleased`, `SentMeansEventuallyRun`,
  `DumpServed`, `PromptPrinted`, `TracerReturns`, `FreezeReported`,
  `TimerServed`): fairness and ENABLED are beyond the prover.
* `StartAsTyped` and `DumpDecodes`: what a fold over a number's digits, a line's
  words or a log computes, for every input, takes induction over data.
* The violations in section 4.

## 6. Not modelled

* Linux as a guest, its device tree and init: `GuestControl` lets a guest take
  any exit, which includes what Linux does.
* gic-dump, pc-sample, tlbi-stress and CoreSight sampling (`diag/coresight.c`):
  straight-line reads of device registers and debug system calls that print what
  they read and change no state of the program.
* The heartbeat (`guest_stats.c:119`), a line of console output at most once a
  second, and the breadcrumb's `console_waits` counter: nothing depends on
  either.
* Glyphs, caches and the display controller's registers beyond the geometry.
* The formatting of records in `trace-decode.py`, the other host tools, images,
  build files, and the patches to seL4, Microkit and libvmm.

`PROJECT.json` gives a reason for each.

## 7. What could follow

* `CmdChannel` as an implementation of a FIFO, as `TraceRing` is of `TraceLog`;
  `CommandsRunInOrder` states the same of its histories.
* A guest with several vCPUs, once libvmm's PSCI starts and stops them: the
  VMM tracks one (`run_vcpu`).
* A harness on two cores, on which a broadcast and a local invalidation differ.
