----------------------------- MODULE CmdChannel -----------------------------
(***************************************************************************)
(* The command channel from uartrx to the VMM: cmd_to_vmm and wait_for_vmm *)
(* (uartrx/uartrx.c) against run_commands (vmm/vmm.c), at the grain of     *)
(* single accesses to struct cmd_ring.                                     *)
(*                                                                         *)
(* run_commands does not copy an entry: run_command reads it in place, and *)
(* completed_id is read from it again afterwards.  The 2 s deadline is a   *)
(* choice: the wait may end at any poll and ends at the latest after       *)
(* PollLimit of them; then uartrx reads the VMM's Breadcrumb, which the    *)
(* VMM's two entry points keep.  What a command or a fault does to the     *)
(* guest is GuestControl's.                                                *)
(***************************************************************************)
EXTENDS Breadcrumb, Sequences

CONSTANTS
  CmdRingCapacity,  \* CMD_RING_CAPACITY
  PollLimit,        \* polls of completed_id within VMM_REPLY_TIMEOUT_MS
  MaxLines,         \* bound: command lines typed
  MaxFaults         \* bound: faults while a breadcrumb is read

ASSUME CmdAssumption ==
  /\ CmdRingCapacity \in Nat \ {0}
  /\ PollLimit \in Nat
  /\ MaxLines \in Nat /\ MaxFaults \in Nat

VARIABLES
  \* struct cmd_ring
  head, tail, completed_id, entries,
  \* uartrx: program counter, number of the last line, polls of this wait
  upc, commands_received, polls,
  \* the VMM: notification bit, program counter, faults during reports
  notified, vpc, faults,
  \* history: ids published, and ids run
  sent, executed

ringVars == <<head, tail, completed_id, entries>>
uartVars == <<upc, commands_received, polls>>
crumbVars == <<crumb, dropping, report>>
vmmVars  == <<notified, vpc, faults>>
history  == <<sent, executed>>
vars == <<ringVars, uartVars, vmmVars, crumbVars, history>>

Slots == 0 .. (CmdRingCapacity - 1)
Slot(i) == i % CmdRingCapacity
id == commands_received

Init ==
  /\ head = 0 /\ tail = 0 /\ completed_id = 0
  /\ entries = [i \in Slots |-> 0]
  /\ upc = "ready" /\ commands_received = 0 /\ polls = 0
  /\ notified = FALSE /\ vpc = "recv" /\ faults = 0
  /\ CrumbInit
  /\ sent = <<>> /\ executed = <<>>
-----------------------------------------------------------------------------
(* uartrx *)

UStep(from, to) == upc = from /\ upc' = to

\* run_line(): every non-empty line takes the next number; it is answered
\* here (a rejected line, or a command uartrx runs itself) or goes to the VMM.
RunLine ==
  /\ upc = "ready"
  /\ commands_received < MaxLines
  /\ commands_received' = commands_received + 1
  /\ upc' \in {"ready", "room"}
  /\ UNCHANGED <<ringVars, polls, vmmVars,
                 crumbVars, history>>

\* Mutant: one command too many.
RoomTest_OffByOne ==
  /\ upc = "room"
  /\ upc' = IF head - tail > CmdRingCapacity THEN "ready" ELSE "write"
  /\ UNCHANGED <<ringVars, commands_received, polls, vmmVars,
                 crumbVars, history>>

\* cmd_to_vmm(): dropped when the ring is full
RoomTest ==
  /\ upc = "room"
  /\ upc' = IF head - tail >= CmdRingCapacity THEN "ready" ELSE "write"
  /\ UNCHANGED <<ringVars, commands_received, polls, vmmVars,
                 crumbVars, history>>

WriteEntry ==
  /\ UStep("write", "publish")
  /\ entries' = [entries EXCEPT ![Slot(head)] = id]
  /\ UNCHANGED <<head, tail, completed_id, commands_received, polls, vmmVars,
                 crumbVars, history>>

PublishHead ==
  /\ UStep("publish", "notify")
  /\ head' = head + 1
  /\ sent' = Append(sent, id)
  /\ UNCHANGED <<tail, completed_id, entries, commands_received, polls,
                 vmmVars, crumbVars, executed>>

\* Mutant: the VMM is not notified.
NotifyVmm_Missing ==
  /\ UStep("notify", "wait")
  /\ polls' = 0
  /\ UNCHANGED <<ringVars, commands_received, vmmVars,
                 crumbVars, history>>

NotifyVmm ==
  /\ UStep("notify", "wait")
  /\ notified' = TRUE
  /\ polls' = 0
  /\ UNCHANGED <<ringVars, commands_received, vpc, faults, crumbVars, history>>

\* wait_for_vmm(): the load that ends the wait, ...
SeeCompletion ==
  /\ UStep("wait", "ready")
  /\ completed_id >= id
  /\ UNCHANGED <<ringVars, commands_received, polls, vmmVars,
                 crumbVars, history>>

\* ... the load that does not, ...
SeeNoCompletion ==
  /\ UStep("wait", "deadline")
  /\ completed_id < id
  /\ UNCHANGED <<ringVars, commands_received, polls, vmmVars,
                 crumbVars, history>>

\* ... and the test of the deadline that follows it.
TryAgain ==
  /\ UStep("deadline", "wait")
  /\ polls < PollLimit
  /\ polls' = polls + 1
  /\ UNCHANGED <<ringVars, commands_received, vmmVars,
                 crumbVars, history>>

GiveUp ==
  /\ UStep("deadline", "report")
  /\ UNCHANGED <<ringVars, commands_received, polls, vmmVars, crumbVars,
                 history>>

\* report_vmm_breadcrumb(), a load at a time
ReadCrumb ==
  /\ upc = "report"
  /\ LoadSeq \/ LoadField
  /\ UNCHANGED <<ringVars, uartVars, vmmVars, history>>

EndReport ==
  /\ UStep("report", "ready")
  /\ ReportDone
  /\ report' = NoReport
  /\ UNCHANGED <<ringVars, commands_received, polls, vmmVars, crumb, dropping,
                 history>>

Uartrx ==
  \/ RunLine \/ RoomTest \/ WriteEntry \/ PublishHead \/ NotifyVmm
  \/ SeeCompletion \/ SeeNoCompletion \/ TryAgain \/ GiveUp
  \/ ReadCrumb \/ EndReport
-----------------------------------------------------------------------------
(* The VMM *)

VStep(from, to) == vpc = from /\ vpc' = to

\* notified(): the breadcrumb first
Notified ==
  /\ VStep("recv", "enter")
  /\ notified
  /\ notified' = FALSE
  /\ breadcrumb_enter("NOTIFIED")
  /\ UNCHANGED <<ringVars, uartVars, faults, report, history>>

\* fault(): likewise, at any time and as often as the guest likes
Fault ==
  /\ VStep("recv", "enter")
  /\ upc = "report" => faults < MaxFaults
  /\ faults' = IF upc = "report" THEN faults + 1 ELSE faults
  /\ breadcrumb_enter("FAULT")
  /\ UNCHANGED <<ringVars, uartVars, notified, report, history>>

SetPhase ==
  /\ vpc \in {"enter", "leave"}
  /\ \/ StoreField /\ UNCHANGED vpc
     \/ /\ StoreSeq
        /\ vpc' = CASE dropping.is = "IDLE" -> "recv"
                    [] dropping.is = "FAULT" -> "fault"
                    [] dropping.is = "NOTIFIED" -> "test"
  /\ UNCHANGED <<ringVars, uartVars, notified, faults, history>>

\* handle_fault() is done
EndFault ==
  /\ VStep("fault", "leave")
  /\ breadcrumb_leave
  /\ UNCHANGED <<ringVars, uartVars, notified, faults, crumb, report, history>>

\* Mutant: the command is reported complete before it runs.
LoopTest_CompletesEarly ==
  /\ VStep("test", "run") /\ tail # head
  /\ completed_id' = entries[Slot(tail)]
  /\ UNCHANGED <<head, tail, entries, uartVars, notified, faults,
                 crumbVars, history>>

LoopTest ==
  /\ VStep("test", "run") /\ tail # head
  /\ UNCHANGED <<ringVars, uartVars, notified, faults, crumbVars, history>>

\* The ring is empty: run_commands() and handle_notification() return.
LoopEnd ==
  /\ VStep("test", "leave") /\ tail = head
  /\ breadcrumb_leave
  /\ UNCHANGED <<ringVars, uartVars, notified, faults, crumb, report, history>>

RunCommand ==
  /\ VStep("run", "complete")
  /\ executed' = Append(executed, entries[Slot(tail)])
  /\ UNCHANGED <<ringVars, uartVars, notified, faults, crumbVars, sent>>

StoreCompleted ==
  /\ VStep("complete", "advance")
  /\ completed_id' = entries[Slot(tail)]
  /\ UNCHANGED <<head, tail, entries, uartVars, notified, faults,
                 crumbVars, history>>

\* Mutant: one command for each notification.
AdvanceTail_Once ==
  /\ VStep("advance", "leave")
  /\ tail' = tail + 1
  /\ breadcrumb_leave
  /\ UNCHANGED <<head, completed_id, entries, uartVars, notified, faults, crumb,
                 report, history>>

AdvanceTail ==
  /\ VStep("advance", "test")
  /\ tail' = tail + 1
  /\ UNCHANGED <<head, completed_id, entries, uartVars, notified, faults,
                 crumbVars, history>>

Vmm ==
  \/ Notified \/ Fault \/ SetPhase \/ EndFault
  \/ LoopTest \/ LoopEnd \/ RunCommand \/ StoreCompleted \/ AdvanceTail

Next == Uartrx \/ Vmm

Spec == Init /\ [][Next]_vars

\* uartrx and the VMM have cores of their own; nobody has to type, and no
\* guest has to fault.  A guest may fault for ever, and weak fairness would
\* let its faults take every turn of the event loop: SF is the assumption that
\* the kernel nevertheless delivers a notification that waits.  The source
\* leaves open whether it does ("WFx-storm deafness", vmm/vmm.c:103).
DeliversNotifications == SF_vars(Notified)
FairSpec ==
  /\ Spec
  /\ WF_vars(Vmm /\ ~Fault)
  /\ WF_vars(Uartrx /\ ~RunLine)
  /\ DeliversNotifications
-----------------------------------------------------------------------------
(* Properties *)

\* Every command runs at most once and in the order typed, whatever timed out
\* in between: what run_commands has run is a prefix of what was sent.
RunsInOrder ==
  /\ Len(executed) <= Len(sent)
  /\ \A k \in 1 .. Len(executed) : executed[k] = sent[k]

\* completed_id never claims a command that has not run, so a late answer to
\* an earlier, timed-out command is never taken for the current one.
CompletedMeansRun ==
  \A k \in 1 .. Len(sent) : sent[k] <= completed_id => k <= Len(executed)

\* A VMM that goes back to its event loop leaves a command in the ring only
\* if uartrx has yet to notify it.
NoLostCommand ==
  vpc = "recv" /\ ~notified /\ tail # head => upc = "notify"

\* The phase the VMM is in, as report_vmm_breadcrumb() would name it.
PhaseOf == CASE vpc = "recv"  -> "IDLE"
             [] vpc = "fault" -> "FAULT"
             [] OTHER         -> "NOTIFIED"

\* What a time-out says of the VMM is about the event it names: no field is
\* older than the seq printed with it, and of a VMM that hung before the
\* report, the phase and all fields are those of what it hangs in.
CrumbTrue ==
  upc = "report" /\ ReportDone =>
    /\ \A f \in Fields : report[f] >= LastStore(f, report.seq)
    /\ crumb.seq = report.seq /\ vpc \notin {"enter", "leave"} =>
         /\ report.is = PhaseOf
         /\ \A f \in Fields : report[f] = LastStore(f, report.seq)

\* Every command that reached the ring runs, even after its wait timed out and
\* among any number of faults, if notifications that wait are delivered (of
\* the finitely many lines, all that were sent have run in the end).
SentMeansEventuallyRun == <>[](executed = sent)
=============================================================================
