---------------------------- MODULE Freezewatch ----------------------------
(***************************************************************************)
(* The watchdog domain (freezewatch/freezewatch.c): a loop on a core of    *)
(* its own that samples the console rings and the UART and reports once    *)
(* when output or received characters have been stuck too long.  It makes  *)
(* no system call, so it runs when the rest of the system is frozen.       *)
(*                                                                         *)
(* One Tick is a second.  A stall's `since' is kept as its age at the      *)
(* loop's reading of the clock, capped at the limit (now - since is only   *)
(* compared with it); NotStuck is since = 0.                               *)
(*                                                                         *)
(* The rest of the system is the environment, and nothing is assumed of    *)
(* how soon it acts: the tracer may print other things while output waits  *)
(* (a dump), uartrx may leave the FIFO alone (it waits for the VMM, or for *)
(* room in a ring behind that dump), and a character may be sent between   *)
(* two looks at the transmitter.  So a trigger may fire on a system that   *)
(* is not frozen.  tlbi-stress, which asks the typist to wait, is left     *)
(* out.                                                                    *)
(***************************************************************************)
EXTENDS Integers

CONSTANTS
  TxStallSeconds,  \* TX_STALL_SECONDS, 3
  RxStallSeconds,  \* RX_STALL_SECONDS, 4
  MaxPending,      \* bound: bytes waiting in a console ring
  TypeAhead        \* bound: characters received and not yet read

ASSUME FreezewatchAssumption ==
  /\ TxStallSeconds \in Nat \ {0} /\ RxStallSeconds \in Nat \ {0}
  /\ MaxPending \in Nat /\ TypeAhead \in Nat

NotStuck == -1
Passed == -1
Rings == {"vmm", "uartrx"}

VARIABLES
  \* the system: not frozen; bytes from tail to head of each console ring;
  \* the transmitter is busy; characters in the receive FIFO
  live, pending, tx_busy, fifo,
  \* watch_forever(): pc, tx and rx stalls and whether they fired, reported
  wpc, tx, rx, tx_fired, rx_fired, reported,
  \* output_pending(): the ring at hand, and how far its tail is now from the
  \* head that was loaded, or Passed
  ring, gap,
  \* history: of the bytes that waited at the last report, those that still
  \* do; the FIFO was empty at some time since
  old, rx_clear

sysVars   == <<live, pending, tx_busy, fifo>>
stallVars == <<tx, rx, tx_fired, rx_fired>>
ringVars  == <<ring, gap>>
history   == <<old, rx_clear>>
vars == <<sysVars, wpc, stallVars, reported, ringVars, history>>

Init ==
  /\ live = TRUE /\ pending = [p \in Rings |-> 0] /\ tx_busy = FALSE
  /\ fifo = 0
  /\ wpc = "tx head" /\ tx = NotStuck /\ rx = NotStuck
  /\ tx_fired = FALSE /\ rx_fired = FALSE /\ reported = FALSE
  /\ ring = "vmm" /\ gap = 0
  /\ old = [p \in Rings |-> 0] /\ rx_clear = TRUE
-----------------------------------------------------------------------------
(* The environment *)

\* The VMM or uartrx puts a byte in its ring.
Produce(p) ==
  /\ live /\ pending[p] < MaxPending
  /\ pending' = [pending EXCEPT ![p] = @ + 1]
  /\ UNCHANGED <<live, tx_busy, fifo, wpc, stallVars, reported, ringVars,
                 history>>

\* The tracer prints the oldest byte of a ring ...
PrintByte(p) ==
  /\ live /\ pending[p] > 0
  /\ pending' = [pending EXCEPT ![p] = @ - 1]
  /\ old' = [old EXCEPT ![p] = IF @ > 0 THEN @ - 1 ELSE 0]
  /\ gap' = IF p = ring /\ wpc \in {"tx tail", "again tail"} /\ gap >= 0
               THEN gap - 1 ELSE gap
  /\ tx_busy' = TRUE
  /\ UNCHANGED <<live, fifo, wpc, stallVars, reported, ring, rx_clear>>

\* ... or something else: a line of a dump.
PrintOther ==
  /\ live /\ ~tx_busy
  /\ tx_busy' = TRUE
  /\ UNCHANGED <<live, pending, fifo, wpc, stallVars, reported, ringVars,
                 history>>

\* The last byte has left the UART.
Transmitted ==
  /\ tx_busy
  /\ tx_busy' = FALSE
  /\ UNCHANGED <<live, pending, fifo, wpc, stallVars, reported, ringVars,
                 history>>

\* A character arrives, frozen or not.
Type ==
  /\ fifo < TypeAhead
  /\ fifo' = fifo + 1
  /\ UNCHANGED <<live, pending, tx_busy, wpc, stallVars, reported, ringVars,
                 history>>

\* uartrx reads one.
ReadChar ==
  /\ live /\ fifo > 0
  /\ fifo' = fifo - 1
  /\ rx_clear' = (rx_clear \/ fifo' = 0)
  /\ UNCHANGED <<live, pending, tx_busy, wpc, stallVars, reported, ringVars,
                 old>>

\* Every core but the watcher's stops.
Freeze ==
  /\ live
  /\ live' = FALSE
  /\ UNCHANGED <<pending, tx_busy, fifo, wpc, stallVars, reported, ringVars,
                 history>>

Environment ==
  \/ \E p \in Rings : Produce(p) \/ PrintByte(p)
  \/ PrintOther \/ Transmitted \/ Type \/ ReadChar \/ Freeze

Older(s, limit) == IF s = NotStuck \/ s = limit THEN s ELSE s + 1

\* A second passes before the loop reads the clock; none or several may.
Tick ==
  /\ wpc = "tx head" /\ ring = "vmm"
  /\ tx' = Older(tx, TxStallSeconds)
  /\ rx' = Older(rx, RxStallSeconds)
  /\ UNCHANGED <<sysVars, wpc, tx_fired, rx_fired, reported, ringVars, history>>
-----------------------------------------------------------------------------
(* watch_forever(), a step for each read of the shared state *)

Goto(from, to) == wpc = from /\ wpc' = to

\* stalled(): the stall's new age, and whether it is past the limit
Stall(s, is_stuck) == IF ~is_stuck THEN NotStuck ELSE IF s = NotStuck THEN 0 ELSE s
Fired(s, limit) == s # NotStuck /\ s >= limit

\* ring_pending(), for output_pending() in tx_stuck() and again further on:
\* head first ...
LoadHead ==
  /\ Goto("tx head", "tx tail") \/ Goto("again head", "again tail")
  /\ gap' = pending[ring]
  /\ UNCHANGED <<sysVars, stallVars, reported, ring, history>>

\* ... then tail.  The VMM's ring is the first, uartrx's is only read if that
\* is empty.
NextRing == gap = 0 /\ ring = "vmm" /\ ring' = "uartrx" /\ gap' = 0
Pending  == gap # 0 /\ ring' = "vmm" /\ gap' = 0
Empty    == gap = 0 /\ ring = "uartrx" /\ ring' = "vmm" /\ gap' = 0

\* tx_stuck() without output: TXE is not read.
TxTail ==
  /\ \/ Goto("tx tail", "tx head") /\ NextRing /\ UNCHANGED <<tx, tx_fired>>
     \/ Goto("tx tail", "txe") /\ Pending /\ UNCHANGED <<tx, tx_fired>>
     \/ Goto("tx tail", "rx") /\ Empty /\ tx' = NotStuck /\ tx_fired' = FALSE
  /\ UNCHANGED <<sysVars, rx, rx_fired, reported, history>>

\* tx_stuck() with output pending: is the transmitter empty, too?
SampleTx ==
  /\ Goto("txe", "rx")
  /\ tx' = Stall(tx, ~tx_busy)
  /\ tx_fired' = Fired(tx', TxStallSeconds)
  /\ UNCHANGED <<sysVars, rx, rx_fired, reported, ringVars, history>>

\* Mutant: no trigger for received characters (docs/known-flaky.md:50).
SampleRx_NoTrigger ==
  /\ Goto("rx", "again head")
  /\ UNCHANGED <<sysVars, stallVars, reported, ringVars, history>>

SampleRx ==
  /\ Goto("rx", "again head")
  /\ rx' = Stall(rx, fifo > 0)
  /\ rx_fired' = Fired(rx', RxStallSeconds)
  /\ UNCHANGED <<sysVars, tx, tx_fired, reported, ringVars, history>>

\* Mutant: output that is not stuck lets the watcher's own output re-arm it
\* (docs/known-flaky.md:54).
AgainTail_NotStuck ==
  /\ \/ Goto("again tail", "again head") /\ NextRing
     \/ Goto("again tail", "report?") /\ Pending /\ tx # NotStuck
     \/ Goto("again tail", "rx again") /\ Pending /\ tx = NotStuck
     \/ Goto("again tail", "rx again") /\ Empty
  /\ UNCHANGED <<sysVars, stallVars, reported, history>>

\* output_pending() again: with output, the FIFO is not looked at.
AgainTail ==
  /\ \/ Goto("again tail", "again head") /\ NextRing
     \/ Goto("again tail", "report?") /\ Pending
     \/ Goto("again tail", "rx again") /\ Empty
  /\ UNCHANGED <<sysVars, stallVars, reported, history>>

\* Only an empty console and an empty FIFO make it ready to report again.
Rearm ==
  /\ Goto("rx again", "report?")
  /\ reported' = (reported /\ fifo > 0)
  /\ UNCHANGED <<sysVars, stallVars, ringVars, history>>

\* report_freeze() writes to the UART itself.
ReportFreeze ==
  /\ Goto("report?", "tx head")
  /\ ~reported /\ (tx_fired \/ rx_fired)
  /\ reported' = TRUE
  /\ tx_busy' = TRUE
  /\ old' = pending /\ rx_clear' = (fifo = 0)
  /\ UNCHANGED <<live, pending, fifo, stallVars, ringVars>>

NoReport ==
  /\ Goto("report?", "tx head")
  /\ reported \/ ~(tx_fired \/ rx_fired)
  /\ UNCHANGED <<sysVars, stallVars, reported, ringVars, history>>

Watch ==
  \/ LoadHead \/ TxTail \/ SampleTx \/ SampleRx \/ AgainTail \/ Rearm
  \/ ReportFreeze \/ NoReport
-----------------------------------------------------------------------------
Next == Environment \/ Tick \/ Watch

Spec == Init /\ [][Next]_vars

\* The watcher's core is its own and it is never frozen; time passes, also
\* between two rounds of its loop (hence SF: Tick waits at one point of the
\* loop); the UART sends what it holds.
FairSpec ==
  /\ Spec
  /\ WF_vars(Watch) /\ SF_vars(Tick) /\ WF_vars(Transmitted)
-----------------------------------------------------------------------------
(* Properties *)

Reports == wpc = "report?" /\ reported' # reported

\* "It repeated its report about 17 times, because its own UART output
\* re-armed it; that's fixed" (docs/known-flaky.md:54): between two reports
\* every byte that waited in a console ring at the first was printed, and the
\* receive FIFO was empty at some time.  A system that stays frozen does
\* neither, so it is reported once.
OneReportPerFreeze ==
  [][Reports => rx_clear /\ \A p \in Rings : old[p] = 0]_vars

\* A freeze with output or input pending is reported, unless what was reported
\* before it has not cleared yet.
FreezeReported ==
  (~live /\ (fifo > 0 \/ \E p \in Rings : pending[p] > 0)) ~> reported
=============================================================================
