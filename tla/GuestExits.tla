----------------------------- MODULE GuestExits -----------------------------
(***************************************************************************)
(* What the VMM does with one guest exit, as functions of the exit: the    *)
(* classification of vmm/guest_stats.c, the policy of vmm/smc_policy.c,    *)
(* the devices of vmm/exynos_uart_emul.c and vmm/mmio_forward.c, and the   *)
(* records vmm/smc_trace.c and vmm/mmio_trace.c make of them.              *)
(*                                                                         *)
(* A handler's result is a set of possible outcomes, each with the records *)
(* it emits, in order, and whether the guest may go on.  There is more     *)
(* than one outcome where a kernel or libvmm call may fail.                *)
(***************************************************************************)
EXTENDS Integers, Sequences

(* Exits, abstracted to what the VMM tells apart *)

\* A function ID: service call range, function number, and whether the other
\* bits are those of a fast 32-bit call with no bits 23:16.
Fid(service, func, fast32) ==
  [service |-> service, func |-> func, fast32 |-> fast32]

Smc(fid) == [label |-> "VCPUFault", ec |-> "SMC", fid |-> fid]
VcpuFault(ec) == [label |-> "VCPUFault", ec |-> ec]
OtherFault(label) == [label |-> label]

\* A memory access: region of the address, offset in it, direction, whether
\* it is an aligned 32-bit access, and the character written.
Access(region, offset, write, word, data) ==
  [label |-> "VMFault", region |-> region, offset |-> offset,
   write |-> write, word |-> word, data |-> data]

ExitKinds == {"MEMORY", "SMC", "WFX", "SYSREG", "VPPI", "VGIC_MAINTENANCE",
              "OTHER"}

\* exit_of(), vcpu_exit_of()
exit_of(f) ==
  CASE f.label = "VMFault"         -> "MEMORY"
    [] f.label = "VCPUFault"       -> IF f.ec \in {"SMC", "WFX", "SYSREG"}
                                        THEN f.ec ELSE "OTHER"
    [] f.label = "VPPIEvent"       -> "VPPI"
    [] f.label = "VGICMaintenance" -> "VGIC_MAINTENANCE"
    [] OTHER                       -> "OTHER"

\* smc_fault_hsr()
IsSmc(f) == f.label = "VCPUFault" /\ f.ec = "SMC"

\* guest_fault_of(), and the kind handle_fault() gives an SMC
fault_kind(f) ==
  IF IsSmc(f) THEN "SMC"
  ELSE IF f.label = "VMFault" THEN "MEMORY"
  ELSE IF f.label = "VCPUFault" THEN "VCPU"
  ELSE "OTHER"
-----------------------------------------------------------------------------
(* SMC *)

PSCI_MAX == 31
SMCCC_SERVICE_STD == 4
SMCCC_VERSION_FID == Fid(0, 0, TRUE)

\* Mutant: every call of the architecture service is forwarded.
smc_policy_WholeService(fid) ==
  IF fid.service = SMCCC_SERVICE_STD /\ fid.func < PSCI_MAX
    THEN "EMULATE_PSCI"
  ELSE IF fid.service = SMCCC_VERSION_FID.service
    THEN "FORWARD"
  ELSE "UNHANDLED"

smc_policy(fid) ==
  IF fid.service = SMCCC_SERVICE_STD /\ fid.func < PSCI_MAX
    THEN "EMULATE_PSCI"
  ELSE IF fid = SMCCC_VERSION_FID
    THEN "FORWARD"
  ELSE "UNHANDLED"

smc_trace_regs(v, dir) ==
  [i \in 1 .. 3 |-> [kind |-> "SMC_REGS", vcpu |-> v, first |-> 2 * i,
                     dir |-> dir]]
smc_trace_enter(v, fid) ==
  <<[kind |-> "SMC_ENTER", vcpu |-> v, fid |-> fid]>> \o smc_trace_regs(v, "in")
smc_trace_exit(v, flag) ==
  <<[kind |-> "SMC_EXIT", vcpu |-> v, flag |-> flag]>> \o smc_trace_regs(v, "out")
smc_trace_unhandled(v) ==
  <<[kind |-> "SMC_EXIT", vcpu |-> v, flag |-> "UNHANDLED"]>>

Handled(records) == [handled |-> TRUE, records |-> records]
NotHandled(records) == [handled |-> FALSE, records |-> records]

\* read_regs() may fail before anything is traced; libvmm may refuse a PSCI
\* call, or the registers may be unreadable after it; and the vCPU may fail
\* to advance after a forwarded call was traced.
smc_policy_handle(v, fid) ==
  LET enter == smc_trace_enter(v, fid)
      refused == NotHandled(enter \o smc_trace_unhandled(v))
      psci == {Handled(enter \o smc_trace_exit(v, "EMULATED")), refused}
      forwarded == enter \o smc_trace_exit(v, "FORWARDED")
      forward == {Handled(forwarded),
                  NotHandled(forwarded \o smc_trace_unhandled(v))}
  IN  {NotHandled(<<>>)} \cup
      (CASE smc_policy(fid) = "EMULATE_PSCI" -> psci
         [] smc_policy(fid) = "FORWARD"      -> forward
         [] smc_policy(fid) = "UNHANDLED"    -> {refused})
-----------------------------------------------------------------------------
(* Memory accesses *)

mmio_trace(v, flag) == <<[kind |-> "MMIO", vcpu |-> v, flag |-> flag]>>

\* uart_fault(): the status registers read, the transmit register written
uart_fault(f) ==
  IF f.write THEN f.offset = "UTXH"
             ELSE f.offset \in {"UFCON", "UTRSTAT", "UFSTAT"}

\* forward_access_supported()
forward_access_supported(f) == ~f.write /\ f.word

\* guest_fault_handle() on a memory fault, as libvmm dispatches it: the
\* registered handlers, its own vGIC (which traces nothing), or nobody.  What
\* a handler has done, libvmm may still fail to complete.
memory_handle(v, f) ==
  LET unhandled == mmio_trace(v, "UNHANDLED")
      done(records) == {Handled(records), NotHandled(records \o unhandled)}
      refused == {NotHandled(unhandled)}
  IN  CASE f.region = "uart" ->
             IF uart_fault(f) THEN done(mmio_trace(v, "EMULATED")) ELSE refused
        [] f.region = "watchdog" ->
             IF forward_access_supported(f)
               THEN done(mmio_trace(v, "FORWARDED")) ELSE refused
        [] f.region = "vgic" -> done(<<>>)
        [] OTHER -> refused

\* handle_fault(): what may come of exit f of vCPU v.  libvmm decides about
\* every other vCPU exception.
handle_fault(v, f) ==
  IF IsSmc(f) THEN smc_policy_handle(v, f.fid)
  ELSE IF f.label = "VMFault" THEN memory_handle(v, f)
  ELSE {Handled(<<>>), NotHandled(<<>>)}
-----------------------------------------------------------------------------
(* The emulated UART's console line *)

\* console_putc(): the line buffer after character c, and the lines printed.
\* A character is represented by the run that wrote it.
console_putc(line, c, writer, max) ==
  IF c = "CR" THEN [line |-> line, printed |-> <<>>]
  ELSE IF c = "LF" THEN [line |-> <<>>, printed |-> <<line>>]
  ELSE IF Len(line) = max - 1
    THEN [line |-> <<writer>>, printed |-> <<line>>]
  ELSE [line |-> Append(line, writer), printed |-> <<>>]

IsTransmit(f) ==
  f.label = "VMFault" /\ f.region = "uart" /\ f.write /\ f.offset = "UTXH"
=============================================================================
