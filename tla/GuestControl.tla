---------------------------- MODULE GuestControl ----------------------------
(***************************************************************************)
(* The VMM: the guest's lifecycle (vmm/guest_control.c), its commands and  *)
(* its event loop (vmm/vmm.c), with the guest's vCPUs faulting beside it   *)
(* and uartrx recording and sending commands beside both.                  *)
(*                                                                         *)
(* The trace is the FIFO that TraceLog describes and TraceRing implements; *)
(* the command ring is the FIFO of CmdChannel.  Handlers run to the end in *)
(* one protection domain, so only what others see splits them into steps:  *)
(* each record is emitted in a step of its own, and the vCPU starts, stops *)
(* or resumes in the step the code does it in.  A guest is uniprocessor,   *)
(* as every guest of the repository is: what libvmm does for a PSCI call   *)
(* is taken not to switch other vCPUs on or this one off.                  *)
(***************************************************************************)
EXTENDS GuestExits, FiniteSets

CONSTANTS
  NumVcpus,         \* GUEST_NUM_VCPUS
  Build,            \* which guest_image_load is linked in
  Commands,         \* accepted commands a user may type
  Faults,           \* exits a guest may take
  ConsoleLineMax,   \* CONSOLE_LINE_MAX
  MaxEvents         \* bound: commands typed and guest exits, together

ASSUME GuestAssumption ==
  /\ NumVcpus \in Nat \ {0}
  /\ Build \in {"linux", "harness", "lab"}
  /\ ConsoleLineMax \in Nat \ {0, 1}
  /\ \A c \in Commands : c.verb \in {"start", "stop", "status", "regs"}
  /\ \A c \in Commands : c.verb = "start" => c.vcpu \in Nat
  /\ MaxEvents \in Nat

VARIABLES
  \* guest_control.c
  state, run, run_vcpu, last_fault,
  \* guest_stats.c: counts; exynos_uart_emul.c: the line buffer, and what was
  \* printed from it
  stats, uart_line, printed,
  \* the guest's threads, as the kernel keeps them: "off", "running" or
  \* "faulted" (waiting for the VMM), and the exit they wait with
  vcpu, exit, exits,
  \* VMM: where the handler is, whose exit it handles, records still to emit
  vpc, cur, emitting,
  \* uartrx: the command recorded but not sent yet; commands typed; the FIFO
  \* of the command ring
  sending, typed, cmds,
  \* the trace, both producers
  trace

controlVars == <<state, run, run_vcpu, last_fault>>
deviceVars  == <<stats, uart_line, printed>>
vcpuVars    == <<vcpu, exit, exits>>
handlerVars == <<vpc, cur, emitting>>
typeVars    == <<sending, typed, cmds>>
vars == <<controlVars, deviceVars, vcpuVars, handlerVars, typeVars, trace>>

Vcpus == 0 .. (NumVcpus - 1)
None == "none"
NoExit == [label |-> None]
NoStats == [k \in ExitKinds |-> 0]

Init ==
  /\ state = "NOT_STARTED" /\ run = 0 /\ run_vcpu = 0 /\ last_fault = None
  /\ stats = NoStats /\ uart_line = <<>> /\ printed = <<>>
  /\ vcpu = [v \in Vcpus |-> "off"] /\ exit = [v \in Vcpus |-> NoExit]
  /\ exits = 0
  /\ vpc = "idle" /\ cur = 0 /\ emitting = <<>>
  /\ sending = <<>> /\ typed = 0 /\ cmds = <<>>
  /\ trace = <<>>
-----------------------------------------------------------------------------
(* uartrx: run_line() records the command, then hands it to the VMM *)

record_command(c) ==
  /\ sending = <<>>
  /\ typed + exits < MaxEvents
  /\ typed' = typed + 1
  /\ trace' = Append(trace, [kind |-> "CMD", verb |-> c.verb])
  /\ sending' = <<c>>
  /\ UNCHANGED <<controlVars, deviceVars, vcpuVars, handlerVars, cmds>>

\* A full ring drops the command: CmdChannel says when; here any ring that
\* holds a command may be full.
cmd_to_vmm ==
  /\ sending # <<>>
  /\ cmds' = cmds \o sending \/ (cmds # <<>> /\ cmds' = cmds)
  /\ sending' = <<>>
  /\ UNCHANGED <<controlVars, deviceVars, vcpuVars, handlerVars, typed, trace>>

Uartrx == (\E c \in Commands : record_command(c)) \/ cmd_to_vmm
-----------------------------------------------------------------------------
(* The guest: a running vCPU takes an exit and waits for the VMM *)

TakeExit(v) ==
  /\ vcpu[v] = "running"
  /\ typed + exits < MaxEvents
  /\ exits' = exits + 1
  /\ vcpu' = [vcpu EXCEPT ![v] = "faulted"]
  /\ \E f \in Faults : exit' = [exit EXCEPT ![v] = f]
  /\ UNCHANGED <<controlVars, deviceVars, handlerVars, typeVars, trace>>
-----------------------------------------------------------------------------
(* The VMM *)

\* trace_emit() of the next record of the handler at work
EmitRecord ==
  /\ emitting # <<>>
  /\ trace' = Append(trace, Head(emitting))
  /\ emitting' = Tail(emitting)
  /\ UNCHANGED <<controlVars, deviceVars, vcpuVars, vpc, cur, typeVars>>

\* A handler continues at `from` once its records are out.
Continue(from, to) == vpc = from /\ emitting = <<>> /\ vpc' = to

GuestEvent(event, r, v) ==
  <<[kind |-> "GUEST", event |-> event, run |-> r, vcpu |-> v]>>

\* run_commands() takes the oldest command, run_command() dispatches it.
NextCommand(verb) ==
  /\ vpc = "idle" /\ cmds # <<>>
  /\ Head(cmds).verb = verb
  /\ cmds' = Tail(cmds)
  /\ UNCHANGED <<sending, typed>>

\* guest_control_start(): refused while a guest runs.
StartRefused ==
  /\ NextCommand("start")
  /\ state = "RUNNING"
  /\ UNCHANGED <<controlVars, deviceVars, vcpuVars, handlerVars, trace>>

\* guest_image_load() of each build: a guest the build does not carry is
\* refused; placing one it carries in guest RAM may fail.
Load(carried, guest) == IF guest \in carried THEN BOOLEAN ELSE {FALSE}
guest_image_linux_load(guest) == Load({"default", "linux"}, guest)
guest_image_harness_load(guest) == Load({"default", "harness"}, guest)
guest_image_lab_load(guest) ==
  IF guest = "harness" THEN guest_image_harness_load(guest)
                       ELSE guest_image_linux_load(guest)
guest_image_load(guest) ==
  CASE Build = "linux"   -> guest_image_linux_load(guest)
    [] Build = "harness" -> guest_image_harness_load(guest)
    [] Build = "lab"     -> guest_image_lab_load(guest)

\* Mutant: a failed start takes a run number.
BootFails_Counts ==
  /\ NextCommand("start")
  /\ state # "RUNNING"
  /\ Head(cmds).vcpu >= NumVcpus \/ FALSE \in guest_image_load(Head(cmds).guest)
  /\ state' = "START_FAILED"
  /\ run' = run + 1
  /\ UNCHANGED <<run_vcpu, last_fault, deviceVars, vcpuVars, handlerVars,
                 trace>>

\* boot_fresh(), the failures that keep the last run's number and vCPU
BootFails ==
  /\ NextCommand("start")
  /\ state # "RUNNING"
  /\ Head(cmds).vcpu >= NumVcpus \/ FALSE \in guest_image_load(Head(cmds).guest)
  /\ state' = "START_FAILED"
  /\ UNCHANGED <<run, run_vcpu, last_fault, deviceVars, vcpuVars, handlerVars,
                 trace>>

\* Mutants: no test of whether a guest runs; the counters not reset.
Boots(counts) ==
  /\ NextCommand("start")
  /\ run_vcpu' = Head(cmds).vcpu
  /\ run' = run + 1
  /\ stats' = counts
  /\ emitting' = GuestEvent("STARTED", run + 1, Head(cmds).vcpu)
  /\ vpc' = "start"
  /\ UNCHANGED <<state, last_fault, uart_line, printed, vcpuVars, cur, trace>>
Boot_WhileRunning == Boots(NoStats) /\ Head(cmds).vcpu < NumVcpus
Boot_KeepsStats ==
  /\ Boots(stats) /\ state # "RUNNING"
  /\ TRUE \in guest_image_load(Head(cmds).guest)

\* boot_fresh(): the new run is traced before its vCPU is started.
Boot ==
  /\ NextCommand("start")
  /\ state # "RUNNING"
  /\ Head(cmds).vcpu < NumVcpus
  /\ TRUE \in guest_image_load(Head(cmds).guest)
  /\ run_vcpu' = Head(cmds).vcpu
  /\ run' = run + 1
  /\ stats' = NoStats
  /\ emitting' = GuestEvent("STARTED", run + 1, Head(cmds).vcpu)
  /\ vpc' = "start"
  /\ UNCHANGED <<state, last_fault, uart_line, printed, vcpuVars, cur, trace>>

\* start_vcpu(), and the state boot_fresh() leaves
StartVcpu ==
  /\ Continue("start", "idle")
  /\ vcpu' = [vcpu EXCEPT ![run_vcpu] = "running"]
  /\ state' = "RUNNING"
  /\ UNCHANGED <<run, run_vcpu, last_fault, deviceVars, exit, exits, cur,
                 emitting, typeVars, trace>>

StartVcpuFails ==
  /\ Continue("start", "idle")
  /\ state' = "START_FAILED"
  /\ UNCHANGED <<run, run_vcpu, last_fault, deviceVars, vcpuVars, cur,
                 emitting, typeVars, trace>>

\* The kernel's half of microkit_vcpu_stop(): suspending a thread that waits
\* with a fault withdraws the fault.
Suspend(v) ==
  /\ vcpu' = [vcpu EXCEPT ![v] = "off"]
  /\ exit' = [exit EXCEPT ![v] = NoExit]

\* Mutant: a fault that waits for the VMM survives the stop.
guest_control_stop_KeepsFault ==
  /\ NextCommand("stop")
  /\ state = "RUNNING"
  /\ IF vcpu[run_vcpu] = "faulted" THEN UNCHANGED <<vcpu, exit>>
                                   ELSE Suspend(run_vcpu)
  /\ state' = "STOPPED_BY_COMMAND"
  /\ emitting' = GuestEvent("STOPPED_BY_COMMAND", run, run_vcpu)
  /\ vpc' = "return"
  /\ UNCHANGED <<run, run_vcpu, last_fault, deviceVars, exits, cur, trace>>

guest_control_stop ==
  /\ NextCommand("stop")
  /\ state = "RUNNING"
  /\ Suspend(run_vcpu)
  /\ state' = "STOPPED_BY_COMMAND"
  /\ emitting' = GuestEvent("STOPPED_BY_COMMAND", run, run_vcpu)
  /\ vpc' = "return"
  /\ UNCHANGED <<run, run_vcpu, last_fault, deviceVars, exits, cur, trace>>

StopRefused ==
  /\ NextCommand("stop")
  /\ state # "RUNNING"
  /\ UNCHANGED <<controlVars, deviceVars, vcpuVars, handlerVars, trace>>

\* guest_control_status(), guest_control_regs(): console output only
Report ==
  /\ NextCommand("status") \/ NextCommand("regs")
  /\ UNCHANGED <<controlVars, deviceVars, vcpuVars, handlerVars, trace>>

\* Mutant: the guest goes on whatever the handler said.
Fault_AlwaysResumes(v) ==
  /\ vpc = "idle" /\ vcpu[v] = "faulted"
  /\ cur' = v
  /\ stats' = [stats EXCEPT ![exit_of(exit[v])] = @ + 1]
  /\ \E o \in handle_fault(v, exit[v]) : emitting' = o.records
  /\ vpc' = "resume"
  /\ UNCHANGED <<controlVars, uart_line, printed, vcpuVars, typeVars, trace>>

\* fault(): count the exit, let its handler act, and emit its records.  The
\* emulated UART's transmit register also feeds the console line.
Fault(v) ==
  /\ vpc = "idle" /\ vcpu[v] = "faulted"
  /\ cur' = v
  /\ stats' = [stats EXCEPT ![exit_of(exit[v])] = @ + 1]
  /\ \E o \in handle_fault(v, exit[v]) :
       /\ emitting' = o.records
       /\ vpc' = IF o.handled THEN "resume" ELSE "stop"
  /\ IF IsTransmit(exit[v])
       THEN LET put == console_putc(uart_line, exit[v].data, run, ConsoleLineMax)
            IN  /\ uart_line' = put.line
                /\ printed' = printed \o put.printed
       ELSE UNCHANGED <<uart_line, printed>>
  /\ UNCHANGED <<controlVars, vcpuVars, typeVars, trace>>

\* The reply to a handled fault
Resume ==
  /\ Continue("resume", "idle")
  /\ vcpu' = [vcpu EXCEPT ![cur] = "running"]
  /\ exit' = [exit EXCEPT ![cur] = NoExit]
  /\ UNCHANGED <<controlVars, deviceVars, exits, cur, emitting, typeVars, trace>>

guest_control_fault_stopped ==
  /\ Continue("stop", "return")
  /\ Suspend(cur)
  /\ last_fault' = fault_kind(exit[cur])
  /\ state' = "STOPPED_BY_FAULT"
  /\ emitting' = GuestEvent("STOPPED_BY_FAULT", run, run_vcpu)
  /\ UNCHANGED <<run, run_vcpu, deviceVars, exits, cur, typeVars, trace>>

Return ==
  /\ Continue("return", "idle")
  /\ UNCHANGED <<controlVars, deviceVars, vcpuVars, cur, emitting, typeVars,
                 trace>>

Vmm ==
  \/ EmitRecord \/ StartRefused \/ BootFails \/ Boot
  \/ StartVcpu \/ StartVcpuFails
  \/ guest_control_stop \/ StopRefused \/ Report
  \/ \E v \in Vcpus : Fault(v)
  \/ Resume \/ guest_control_fault_stopped \/ Return

Next == Uartrx \/ (\E v \in Vcpus : TakeExit(v)) \/ Vmm

Spec == Init /\ [][Next]_vars
-----------------------------------------------------------------------------
(* Properties *)

\* The guest the VMM believes in is the guest there is: exactly while a guest
\* is RUNNING its vCPU is alive, and no other vCPU ever is.  In particular a
\* stop leaves no fault behind that a later run would be blamed for.
OneGuest ==
  \A v \in Vcpus : vcpu[v] # "off" <=> state = "RUNNING" /\ v = run_vcpu

IsGuest(r) == r.kind = "GUEST"
IsVmm(r) == r.kind # "CMD"
IsUnhandled(r) == r.kind \in {"MMIO", "SMC_EXIT"} /\ r.flag = "UNHANDLED"

\* The j-th record is the last GUEST record among the first n of s; there is
\* none; the j-th record is the VMM's next one after the i-th.
LastGuest(s, n, j) ==
  j \in 1 .. n /\ IsGuest(s[j]) /\ \A k \in (j + 1) .. n : ~IsGuest(s[k])
NoGuest(s, n) == \A k \in 1 .. n : ~IsGuest(s[k])
NextVmm(s, i, j) == IsVmm(s[j]) /\ \A k \in (i + 1) .. (j - 1) : ~IsVmm(s[k])

\* "STARTED is recorded before the vCPU runs, so it precedes every record of
\* that run" (docs/trace-format.md:109): every access or SMC in the trace lies
\* after the STARTED of its own vCPU and before anything that ends that run.
RecordsInsideRun ==
  \A i \in 1 .. Len(trace) : trace[i].kind \notin {"CMD", "GUEST"} =>
    \E j \in 1 .. (i - 1) :
      /\ LastGuest(trace, i - 1, j)
      /\ trace[j].event = "STARTED" /\ trace[j].vcpu = trace[i].vcpu

\* GUEST records number the runs 1, 2, 3, ... and a stop always closes the run
\* that was started last, on the same vCPU.
Closes(r, started) ==
  /\ started.event = "STARTED"
  /\ started.run = r.run /\ started.vcpu = r.vcpu
RunsNumbered ==
  \A i \in 1 .. Len(trace) : IsGuest(trace[i]) =>
    \/ /\ trace[i].event = "STARTED" /\ trace[i].run = 1
       /\ NoGuest(trace, i - 1)
    \/ \E j \in 1 .. (i - 1) :
         /\ LastGuest(trace, i - 1, j)
         /\ IF trace[i].event = "STARTED" THEN trace[i].run = trace[j].run + 1
                                          ELSE Closes(trace[i], trace[j])

\* The trace tells the lifecycle (docs/trace-format.md:101-107): its GUEST
\* records number the runs, and between handlers the last one is what `status`
\* prints of the guest, failed starts included.
Told(event) ==
  \E j \in 1 .. Len(trace) :
    /\ LastGuest(trace, Len(trace), j)
    /\ trace[j] = GuestEvent(event, run, run_vcpu)[1]
LifecycleTraced ==
  /\ RunsNumbered
  /\ vpc = "idle" =>
       /\ state = "NOT_STARTED" => NoGuest(trace, Len(trace))
       /\ state = "RUNNING" => Told("STARTED")
       /\ state \in {"STOPPED_BY_COMMAND", "STOPPED_BY_FAULT"} => Told(state)

\* "UNHANDLED (...; the guest was stopped)" (docs/trace-format.md:73, :81): the
\* VMM's next record after an UNHANDLED one is the STOPPED_BY_FAULT.
UnhandledStopsGuest ==
  \A j \in 1 .. Len(trace) : \A i \in 1 .. (j - 1) :
    IsUnhandled(trace[i]) /\ NextVmm(trace, i, j) =>
      IsGuest(trace[j]) /\ trace[j].event = "STOPPED_BY_FAULT"

\* An SMC is one group of the VMM's records (docs/trace-format.md:77-82):
\* entry, three input pairs, exit, and unless refused three output pairs.
\* Record b may follow record a among the VMM's.
SmcRegs(v, first, dir) ==
  [kind |-> "SMC_REGS", vcpu |-> v, first |-> first, dir |-> dir]
SmcNext(a, b) ==
  CASE a.kind = "SMC_ENTER" -> b = SmcRegs(a.vcpu, 2, "in")
    [] a.kind = "SMC_REGS" /\ a.first < 6 ->
         b = SmcRegs(a.vcpu, a.first + 2, a.dir)
    [] a.kind = "SMC_REGS" /\ a.first >= 6 /\ a.dir = "in" ->
         b.kind = "SMC_EXIT" /\ b.vcpu = a.vcpu
    [] a.kind = "SMC_EXIT" /\ a.flag # "UNHANDLED" ->
         b = SmcRegs(a.vcpu, 2, "out")
    [] OTHER ->
         /\ b.kind # "SMC_REGS"
         /\ b.kind = "SMC_EXIT" => a.kind = "SMC_REGS" /\ b.vcpu = a.vcpu

\* The exit b answers the entry, or the forwarded call, a: only SMCCC_VERSION
\* is ever forwarded, only PSCI ever emulated, and only a forwarded call that
\* was traced may still stop the guest.
SmcHead(r) == r.kind \in {"SMC_ENTER", "SMC_EXIT"}
LastHead(s, n, j) ==
  j \in 1 .. n /\ SmcHead(s[j]) /\ \A k \in (j + 1) .. n : ~SmcHead(s[k])
Answers(a, b) ==
  IF a.kind = "SMC_ENTER"
    THEN /\ b.flag = "FORWARDED" => a.fid = SMCCC_VERSION_FID
         /\ b.flag = "EMULATED" => a.fid.service = SMCCC_SERVICE_STD
    ELSE a.flag = "FORWARDED" /\ b.flag = "UNHANDLED"

\* Whatever uartrx records between them, the VMM's records are such groups.
SmcGroups ==
  \A j \in 1 .. Len(trace) :
    /\ \A i \in 1 .. (j - 1) :
         IsVmm(trace[i]) /\ NextVmm(trace, i, j) => SmcNext(trace[i], trace[j])
    /\ trace[j].kind \in {"SMC_REGS", "SMC_EXIT"} =>
         \E i \in 1 .. (j - 1) :
           /\ LastHead(trace, j - 1, i)
           /\ trace[j].kind = "SMC_EXIT" => Answers(trace[i], trace[j])

\* `status` counts this run's exits only (docs/trace-format.md:159): between
\* handlers the SMC count is the number of SMCs traced since STARTED, or one
\* more after a stop on an SMC whose registers could not be read.
IsStarted(r) == IsGuest(r) /\ r.event = "STARTED"
SmcsOfRun ==
  {i \in 1 .. Len(trace) :
     /\ trace[i].kind = "SMC_ENTER"
     /\ \A j \in i .. Len(trace) : ~IsStarted(trace[j])}
StatsCountThisRun ==
  vpc = "idle" =>
    \/ stats["SMC"] = Cardinality(SmcsOfRun)
    \/ /\ stats["SMC"] = Cardinality(SmcsOfRun) + 1
       /\ state # "RUNNING" /\ last_fault = "SMC"

\* "One call produces a run of consecutive `seq` numbers"
\* (docs/trace-format.md:77), over the records of both producers.
SmcConsecutive ==
  \A i \in 1 .. (Len(trace) - 1) :
    trace[i].kind = "SMC_ENTER" => trace[i + 1].kind = "SMC_REGS"

\* "So each run begins from the same state" (docs/trace-format.md:161): a line
\* the console shows for a guest holds the output of one run.
LineOfOneRun ==
  \A i \in 1 .. Len(printed) :
    \A j, k \in 1 .. Len(printed[i]) : printed[i][j] = printed[i][k]
=============================================================================
