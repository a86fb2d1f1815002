------------------------------ MODULE Harness ------------------------------
(***************************************************************************)
(* The bare-metal guest (guests/harness/) beside the machine it exercises: *)
(* the VMM that handles its exits (GuestExits), the virtual timer and GIC, *)
(* and the stage-1 MMU with its TLB.                                       *)
(*                                                                         *)
(* A C function is the sequence of operations it performs; `todo` is what  *)
(* the vCPU still has to do, and an interrupt puts its handler in front.   *)
(* One character stands for a text.  The machine is the architecture's     *)
(* (Arm), and libvmm's and seL4's part what guests/harness/lab.c and       *)
(* docs/trace-format.md:159-161 rely on: seL4 masks the timer's interrupt  *)
(* until libvmm acknowledges it, which it does on the guest's EOI.         *)
(***************************************************************************)
EXTENDS GuestExits

CONSTANTS
  Modes,    \* harness modes `guest-start harness N` is given
  Rounds    \* bound: TLBI_REPORT_EVERY, WALK_REPORT_EVERY

ASSUME HarnessAssumption == Modes \subseteq Nat /\ Rounds \in Nat \ {0}

VARIABLES
  alive,    \* the vCPU runs
  todo,     \* operations it still has to do
  masked,   \* PSTATE.I
  vbar,     \* lab_vectors are installed
  printed,  \* texts printed in this run
  mmu,      \* "off", or on: with hardware updates "hw", without "sw"
  slot,     \* the test page's descriptor in memory: AF, read-only
  buffer,   \* a store to it that the table walker does not see yet
  tlb,      \* its cached translation: {} or {read-only}
  gic,      \* what the guest has enabled
  timer,    \* the virtual timer
  virq,     \* interrupt 27 in the virtual GIC
  vppi,     \* seL4 masks the timer until the VMM acknowledges it
  owed,     \* expiries minus timer_irqs
  carried   \* the run began with an interrupt of an earlier run in the vGIC

cpuVars == <<alive, todo, masked, vbar, printed>>
mmuVars == <<mmu, slot, buffer, tlb>>
irqVars == <<gic, timer, virq, vppi, owed, carried>>
vars == <<cpuVars, mmuVars, irqVars>>

Desc(af, ro) == [af |-> af, ro |-> ro]
TimerOff == [on |-> FALSE, expired |-> FALSE]

Init ==
  /\ alive = FALSE /\ todo = <<>> /\ masked = TRUE /\ vbar = FALSE
  /\ printed = {}
  /\ mmu = "off" /\ slot = Desc(FALSE, FALSE) /\ buffer = <<>> /\ tlb = {}
  /\ gic = {} /\ timer = TimerOff /\ virq = "idle" /\ vppi = FALSE
  /\ owed = 0 /\ carried = FALSE
-----------------------------------------------------------------------------
(* The program *)

Op(name) == <<[op |-> name]>>
ExitOp(name, f) == <<[op |-> name, exit |-> f]>>
Repeat(ops) == [i \in 1 .. Rounds * Len(ops) |-> ops[((i - 1) % Len(ops)) + 1]]

\* uart_putc(): poll the status, then transmit
uart_puts(text) == ExitOp("uart", Access("uart", "UTRSTAT", FALSE, TRUE, text))
                   \o ExitOp("uart", Access("uart", "UTXH", TRUE, TRUE, text))

smc0(service, func) == ExitOp("smc", Smc(Fid(service, func, TRUE)))

regression ==
  uart_puts("WTCON=") \o ExitOp("mmio", Access("watchdog", "WTCON", FALSE, TRUE, "-"))
  \o uart_puts("PSCI_VERSION=") \o smc0(4, 0)
  \o uart_puts("SMCCC_VERSION=") \o smc0(0, 0)
  \o smc0(2, 0)
  \o uart_puts("resumed")

\* Then the core waits for ever: nothing is left to do.
lab_bad_exception == uart_puts("unexpected exception")

report == uart_puts("report")

\* Mutants: the end of interrupt before the timer is armed again; none at all.
lab_irq_EoiFirst(spurious) ==
  IF spurious THEN <<>>
  ELSE Op("count") \o Op("eoi") \o Op("tval")
lab_irq_NoEoi(spurious) ==
  IF spurious THEN <<>> ELSE Op("count") \o Op("tval")

\* lab_irq() after it has read the interrupt's number
lab_irq(spurious) ==
  IF spurious THEN <<>>
  ELSE Op("count") \o Op("tval") \o Op("eoi")

timer_irqs_on ==
  Op("vbar")
  \o ExitOp("mmio", Access("vgic", "GICD_CTLR", TRUE, TRUE, "-"))
  \o ExitOp("mmio", Access("vgic", "GICR_ISENABLER0", TRUE, TRUE, "-"))
  \o Op("cpu_interface")
  \o Op("tval") \o Op("ctl") \o Op("daifclr")
  \o uart_puts("timer firing")

test_desc(hw_updates) == Desc(~hw_updates, hw_updates)

mmu_on(hw_updates) ==
  <<[op |-> "slot", desc |-> test_desc(hw_updates)]>> \o Op("dsb") \o Op("tlbi")
  \o <<[op |-> "sctlr", mmu |-> IF hw_updates THEN "hw" ELSE "sw"]>>
  \o uart_puts("MMU on") \o uart_puts("MMU registers")

tlbi_forever == Op("tlbi_loop")
tlbi_loop == Repeat(Op("tlbi")) \o report \o tlbi_forever

\* Mutant: the invalidation does not wait for the descriptor's store.
invalidate_page_NoBarrier == Op("tlbi") \o Op("dsb")

\* Broadcast or local, this core's translation goes.
invalidate_page == Op("dsb") \o Op("tlbi")

walk_round(hw_updates) ==
  <<[op |-> "slot", desc |-> test_desc(hw_updates)]>> \o invalidate_page
  \o Op("load") \o Op("store")

report_hw_update == Op("verdict")
verdict(desc) ==
  uart_puts("descriptor")
  \o uart_puts(IF desc.af /\ ~desc.ro THEN "updated" ELSE "FAIL")

walk_forever(first, hw_updates) ==
  <<[op |-> "walk_loop", first |-> first, hw_updates |-> hw_updates]>>
\* The outer loop of walk_forever(): hardware updates are looked at once.
walk_loop(first, hw_updates) ==
  Repeat(walk_round(hw_updates))
  \o (IF first /\ hw_updates THEN report_hw_update ELSE <<>>)
  \o report \o walk_forever(FALSE, hw_updates)

walk_with(timed, hw_updates) ==
  mmu_on(hw_updates) \o (IF timed THEN timer_irqs_on ELSE <<>>)
  \o uart_puts("tlbi kind") \o walk_forever(TRUE, hw_updates)

lab_run(mode) ==
  uart_puts("mode") \o
  CASE mode = 1        -> tlbi_forever
    [] mode = 2        -> timer_irqs_on \o tlbi_forever
    [] mode = 3        -> walk_with(FALSE, TRUE)
    [] mode \in {4, 6} -> walk_with(TRUE, TRUE)
    [] mode \in {5, 7} -> walk_with(TRUE, FALSE)
    [] OTHER           -> uart_puts("unknown mode")

harness_main(mode) ==
  uart_puts("hello") \o (IF mode # 0 THEN lab_run(mode) ELSE <<>>)
  \o regression
-----------------------------------------------------------------------------
(* The VMM: a run begins and ends *)

\* boot_fresh(): memory, registers and the timer are fresh; the virtual GIC
\* and the TLB are not.
Start(mode) ==
  /\ ~alive
  /\ alive' = TRUE /\ todo' = harness_main(mode)
  /\ masked' = TRUE /\ vbar' = FALSE /\ printed' = {}
  /\ mmu' = "off" /\ slot' = Desc(FALSE, FALSE) /\ buffer' = <<>>
  /\ timer' = TimerOff /\ owed' = 0
  /\ carried' = (virq # "idle" \/ vppi)
  /\ UNCHANGED <<tlb, gic, virq, vppi>>

\* guest_control_stop(), guest_control_fault_stopped()
Halt == alive' = FALSE /\ todo' = <<>>
Stop ==
  /\ alive /\ Halt
  /\ UNCHANGED <<masked, vbar, printed, mmuVars, irqVars>>

\* An exit: the program goes on if the VMM handles it, and ends otherwise.
Exit(f, next) ==
  \E o \in handle_fault(0, f) :
    IF o.handled THEN todo' = next /\ UNCHANGED alive ELSE Halt
-----------------------------------------------------------------------------
(* The vCPU executes an operation *)

At(name) == alive /\ todo # <<>> /\ Head(todo).op = name
Cur == Head(todo)
Rest == Tail(todo)
Does(name) == At(name) /\ todo' = Rest /\ UNCHANGED alive

Uart ==
  /\ At("uart")
  /\ Exit(Cur.exit, Rest)
  /\ printed' = IF Cur.exit.write THEN printed \cup {Cur.exit.data} ELSE printed
  /\ UNCHANGED <<masked, vbar, mmuVars, irqVars>>

\* smc0(), mmio_read32(), mmio_write32()
SmcOrMmio ==
  /\ At("smc") \/ At("mmio")
  /\ Exit(Cur.exit, Rest)
  /\ gic' = IF At("mmio") /\ Cur.exit.region = "vgic"
              THEN gic \cup {Cur.exit.offset} ELSE gic
  /\ UNCHANGED <<masked, vbar, printed, mmuVars, timer, virq, vppi, owed, carried>>

SystemRegister ==
  /\ \/ Does("vbar") /\ vbar' = TRUE /\ UNCHANGED <<masked, mmu, gic>>
     \/ Does("daifclr") /\ masked' = FALSE /\ UNCHANGED <<vbar, mmu, gic>>
     \/ Does("eret") /\ masked' = FALSE /\ UNCHANGED <<vbar, mmu, gic>>
     \/ Does("sctlr") /\ mmu' = Cur.mmu /\ UNCHANGED <<masked, vbar, gic>>
     \/ /\ Does("cpu_interface") /\ gic' = gic \cup {"cpu"}
        /\ UNCHANGED <<masked, vbar, mmu>>
  /\ UNCHANGED <<printed, slot, buffer, tlb, timer, virq, vppi, owed, carried>>

Timer ==
  /\ \/ /\ Does("tval") /\ timer' = [timer EXCEPT !.expired = FALSE]
        /\ UNCHANGED owed
     \/ Does("ctl") /\ timer' = [timer EXCEPT !.on = TRUE] /\ UNCHANGED owed
     \/ Does("count") /\ owed' = owed - 1 /\ UNCHANGED timer
  /\ UNCHANGED <<masked, vbar, printed, mmuVars, gic, virq, vppi, carried>>

\* Reading ICC_IAR1_EL1 makes a pending interrupt active; writing
\* ICC_EOIR1_EL1 ends it.
Iar ==
  /\ At("iar")
  /\ todo' = lab_irq(virq # "pending") \o Rest
  /\ virq' = IF virq = "pending" THEN "active" ELSE virq
  /\ UNCHANGED <<alive, masked, vbar, printed, mmuVars, gic, timer, vppi, owed,
                 carried>>

Eoi ==
  /\ Does("eoi")
  /\ virq' = "ended"
  /\ UNCHANGED <<masked, vbar, printed, mmuVars, gic, timer, vppi, owed, carried>>

\* The descriptor's store, the barrier that makes the walker see it, and the
\* invalidation.
Tables ==
  /\ \/ Does("slot") /\ buffer' = <<Cur.desc>> /\ UNCHANGED <<slot, tlb>>
     \/ /\ Does("dsb") /\ buffer' = <<>> /\ UNCHANGED tlb
        /\ slot' = IF buffer = <<>> THEN slot ELSE buffer[1]
     \/ Does("tlbi") /\ tlb' = {} /\ UNCHANGED <<slot, buffer>>
  /\ UNCHANGED <<masked, vbar, printed, mmu, irqVars>>

\* lab_vectors; without them (modes 1 and 3) an exception ends nowhere.
Vector(handler) == IF vbar THEN handler ELSE <<>>

\* An access to the test page, or the exception it raises
Translated(ok) ==
  IF ok THEN todo' = Rest /\ UNCHANGED masked
        ELSE todo' = Vector(lab_bad_exception) /\ masked' = TRUE

\* The test page is read, then written.  The first write through a read-only
\* translation makes it writable in the TLB and in memory, or faults.
Load ==
  /\ At("load")
  /\ tlb # {} \/ (mmu = "sw" /\ ~slot.af)
  /\ Translated(tlb # {})
  /\ UNCHANGED <<alive, vbar, printed, mmuVars, irqVars>>

Store ==
  /\ At("store") /\ tlb # {}
  /\ Translated(tlb = {FALSE} \/ mmu = "hw")
  /\ slot' = IF tlb = {TRUE} /\ mmu = "hw" THEN [slot EXCEPT !.ro = FALSE] ELSE slot
  /\ tlb' = IF mmu = "hw" THEN {FALSE} ELSE tlb
  /\ UNCHANGED <<alive, vbar, printed, mmu, buffer, irqVars>>

Control ==
  /\ \/ At("tlbi_loop") /\ todo' = tlbi_loop
     \/ At("walk_loop") /\ todo' = walk_loop(Cur.first, Cur.hw_updates)
     \/ At("verdict") /\ todo' = verdict(IF buffer = <<>> THEN slot ELSE buffer[1]) \o Rest
  /\ UNCHANGED <<alive, masked, vbar, printed, mmuVars, irqVars>>

GuestStep ==
  \/ Uart \/ SmcOrMmio \/ SystemRegister \/ Timer \/ Iar \/ Eoi \/ Tables
  \/ Load \/ Store \/ Control
-----------------------------------------------------------------------------
(* The machine *)

\* A table walk for an access, or by speculation, while the MMU is on
TableWalk ==
  /\ alive /\ tlb = {}
  /\ mmu = "hw" \/ (mmu = "sw" /\ slot.af)
  /\ slot' = [slot EXCEPT !.af = TRUE]
  /\ tlb' = {slot.ro}
  /\ UNCHANGED <<cpuVars, mmu, buffer, irqVars>>

Evict ==
  /\ tlb # {} /\ tlb' = {}
  /\ UNCHANGED <<cpuVars, mmu, slot, buffer, irqVars>>

\* A store reaches memory by itself.
Drain ==
  /\ buffer # <<>>
  /\ slot' = buffer[1] /\ buffer' = <<>>
  /\ UNCHANGED <<cpuVars, mmu, tlb, irqVars>>

Expire ==
  /\ alive /\ timer.on /\ ~timer.expired
  /\ timer' = [timer EXCEPT !.expired = TRUE]
  /\ owed' = owed + 1
  /\ UNCHANGED <<cpuVars, mmuVars, gic, virq, vppi, carried>>

\* The timer's interrupt: seL4 masks it and libvmm injects interrupt 27.
VppiEvent ==
  /\ alive /\ timer.expired /\ ~vppi
  /\ {"GICD_CTLR", "GICR_ISENABLER0"} \subseteq gic
  /\ Exit(OtherFault("VPPIEvent"), todo)
  /\ vppi' = TRUE /\ virq' = "pending"
  /\ UNCHANGED <<masked, vbar, printed, mmuVars, gic, timer, owed, carried>>

\* The guest's EOI: libvmm acknowledges and seL4 unmasks.
Maintenance ==
  /\ alive /\ virq = "ended"
  /\ Exit(OtherFault("VGICMaintenance"), todo)
  /\ vppi' = FALSE /\ virq' = "idle"
  /\ UNCHANGED <<masked, vbar, printed, mmuVars, gic, timer, owed, carried>>

\* An interrupt, or one that has gone by the time it is looked at
TakeIrq ==
  /\ alive /\ ~masked /\ "cpu" \in gic
  /\ masked' = TRUE
  /\ todo' = Vector(Op("iar") \o Op("eret") \o todo)
  /\ UNCHANGED <<alive, vbar, printed, mmuVars, irqVars>>
Irq == virq = "pending" /\ TakeIrq
SpuriousIrq == virq # "pending" /\ TakeIrq

Next ==
  \/ \E mode \in Modes : Start(mode)
  \/ Stop \/ GuestStep
  \/ TableWalk \/ Evict \/ Drain \/ Expire
  \/ VppiEvent \/ Maintenance \/ Irq \/ SpuriousIrq

\* The core executes and takes interrupts, and the VMM serves exits; nothing
\* makes anyone type, and a table walk may take its time.
Fairness ==
  WF_vars(GuestStep) /\ WF_vars(Irq) /\ WF_vars(VppiEvent) /\ WF_vars(Maintenance)
Spec == Init /\ [][Next]_vars /\ Fairness
-----------------------------------------------------------------------------
(* Properties *)

\* The harness's verdicts are about the machine and the VMM, never of its own
\* making: on a machine that keeps the architecture's rules, whenever walks,
\* evictions and stores happen and however an earlier run was cut short, each
\* round's write goes through a walk of the descriptor just written
\* (lab.c:250-254), no exception is unexpected (lab.c:113) or meets a core
\* without vectors, and the regression ends at the SMC nobody handles
\* (harness.c:46-47).
NoFalseReport ==
  /\ printed \cap {"FAIL", "unexpected exception", "resumed"} = {}
  /\ alive => todo # <<>>

\* `timer irqs` counts expiries, each once (lab.c:105-108), in every run that
\* starts with a clean virtual GIC.
TimerCounted ==
  ~carried => (owed \in {0, 1} /\ (owed = 1 => timer.expired))

\* The timer keeps firing: an expiry is served and the timer armed again, in
\* every run that starts with a clean virtual GIC.
TimerServed ==
  (timer.expired /\ ~carried) ~> (~timer.expired \/ ~alive)
=============================================================================
