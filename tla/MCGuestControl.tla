--------------------------- MODULE MCGuestControl ---------------------------
(***************************************************************************)
(* GuestControl for the lab build (several vCPUs, every guest) and for the *)
(* harness build (one vCPU, the watchdog forwarded).                       *)
(***************************************************************************)
EXTENDS GuestControl

Start(guest, v) == [verb |-> "start", guest |-> guest, vcpu |-> v]
Verb(verb) == [verb |-> verb]

\* The lab build: two of its vCPUs, one it does not have, and the commands
\* that change the guest or do not.
LabCommands == {Start("linux", 0), Start("harness", 1), Start("linux", 2),
                Verb("stop"), Verb("regs")}

\* A guest stopped and started again.
RestartCommands == {Start("linux", 0), Verb("stop")}

\* The harness build, which does not carry Linux.
HarnessCommands == {Start("harness", 0), Start("linux", 0), Verb("regs")}

\* Console output only.
PrintFaults == {Access("uart", "UTXH", TRUE, TRUE, c) : c \in {"x", "LF"}}

\* Every kind of exit, at the boundaries of the policy.
AllFaults ==
  {Smc(Fid(4, 30, TRUE)), Smc(Fid(4, 31, TRUE)), Smc(Fid(0, 0, TRUE)),
   Smc(Fid(0, 0, FALSE)),
   Access("uart", "UTXH", TRUE, TRUE, "CR"),
   Access("uart", "UTXH", TRUE, TRUE, "x"),
   Access("uart", "UFSTAT", FALSE, TRUE, "-"),
   Access("uart", "UFSTAT", TRUE, TRUE, "-"),
   Access("uart", "ULCON", FALSE, TRUE, "-"),
   Access("watchdog", "WTCON", FALSE, TRUE, "-"),
   Access("watchdog", "WTCON", TRUE, TRUE, "-"),
   Access("watchdog", "WTCON", FALSE, FALSE, "-"),
   Access("vgic", "GICD", TRUE, TRUE, "-"),
   Access("none", "none", FALSE, TRUE, "-"),
   VcpuFault("WFX"), VcpuFault("SYSREG"), VcpuFault("FPU"),
   OtherFault("VGICMaintenance"), OtherFault("UserException")}
=============================================================================
