-------------------------- MODULE CmdChannelProofs --------------------------
(***************************************************************************)
(* Proofs about CmdChannel, for any ring capacity and any number of        *)
(* commands, polls and faults.  CmdInvariant is inductive: one lemma per   *)
(* conjunct shows that every step preserves it, and the properties follow. *)
(***************************************************************************)
EXTENDS CmdChannel, SequenceTheorems, TLAPS

Upcs == {"ready", "room", "write", "publish", "notify", "wait", "deadline",
         "report"}
Vpcs == {"recv", "enter", "test", "run", "complete", "advance", "leave",
         "fault"}
Phases == {"IDLE", "NOTIFIED", "FAULT"}

\* The state is well typed.
TypeOK ==
  /\ head \in Nat /\ tail \in Nat /\ completed_id \in Nat
  /\ entries \in [Slots -> Nat]
  /\ upc \in Upcs /\ commands_received \in Nat /\ polls \in Nat
  /\ notified \in BOOLEAN /\ vpc \in Vpcs /\ faults \in Nat
  /\ dropping \in [is : Phases, fields : SUBSET Fields]
  /\ sent \in Seq(Nat) /\ executed \in Seq(Nat)

Submitting == upc \in {"room", "write", "publish"}
Serving    == vpc \in {"run", "complete", "advance"}

\* The ring never holds more than its capacity, the room that cmd_to_vmm found
\* stays there, and the entry that run_commands works on stays in the ring.
SpaceInv ==
  /\ tail <= head /\ head - tail <= CmdRingCapacity
  /\ upc \in {"write", "publish"} => head - tail < CmdRingCapacity
  /\ Serving => tail < head

\* What lies between tail and head is what was sent last; what was sent
\* before it has run, and so has the entry at tail once run_command returned.
EntryInv ==
  /\ Len(sent) = head
  /\ Len(executed) = IF vpc \in {"complete", "advance"} THEN tail + 1 ELSE tail
  /\ \A k \in 1 .. Len(executed) : executed[k] = sent[k]
  /\ \A i \in tail .. (head - 1) : entries[Slot(i)] = sent[i + 1]
  /\ upc = "publish" => entries[Slot(head)] = commands_received

\* Ids grow along the ring, and completed_id is the id of the last entry that
\* completed.
IdInv ==
  /\ Submitting => commands_received > 0
  /\ \A k \in 1 .. Len(sent) :
       /\ sent[k] > 0 /\ sent[k] <= commands_received
       /\ Submitting => sent[k] < commands_received
  /\ \A k, l \in 1 .. Len(sent) : k < l => sent[k] < sent[l]
  /\ completed_id = IF vpc = "advance" THEN sent[tail + 1]
                    ELSE IF tail = 0 THEN 0 ELSE sent[tail]

\* The crumb being dropped is the one of the event being handled.
PhaseInv ==
  /\ vpc = "enter" => dropping.is \in {"NOTIFIED", "FAULT"}
  /\ vpc = "leave" => dropping.is = "IDLE"

\* A command in the ring is announced, about to be, or will be found by the
\* loop test that run_commands has yet to make.
WakeInv ==
  tail # head =>
    \/ notified
    \/ upc = "notify"
    \/ vpc = "enter" /\ dropping.is = "NOTIFIED"
    \/ vpc = "test"
    \/ Serving

\* The parts that concern the ring and the wake-ups.
CmdInvariant ==
  /\ TypeOK
  /\ SpaceInv
  /\ EntryInv
  /\ IdInv
  /\ PhaseInv
  /\ WakeInv

Loaded  == Nat \cup {Unread}
Settled == vpc \notin {"enter", "leave"}

\* The breadcrumb is well typed.
CrumbTypeOK ==
  /\ crumb \in [seq : Nat, phase : Nat, since : Nat, label : Nat, is : Phases]
  /\ report \in [seq : Loaded, phase : Loaded, since : Loaded, label : Loaded,
                 is : Phases \cup {"none"}]

\* An event is entered with an odd seq and left with an even one; each field
\* is of the last crumb that stores it, the one being dropped included as far
\* as its stores are done.
DropInv ==
  /\ crumb.seq % 2 = (IF vpc \in {"recv", "enter"} THEN 0 ELSE 1)
  /\ \A f \in Fields :
       crumb[f] = LastStore(f, IF Settled \/ f \in dropping.fields
                               THEN crumb.seq ELSE crumb.seq + 1)
  /\ vpc = "leave" => "label" \notin dropping.fields
  /\ Settled => crumb.is = PhaseOf
  /\ ~Settled /\ "phase" \notin dropping.fields => crumb.is = dropping.is

\* What uartrx has loaded is at least as new as the seq it loaded first, and
\* no newer while the VMM has not begun the next crumb.
ReportInv ==
  /\ upc # "report" => report = NoReport
  /\ report.seq <= crumb.seq
  /\ \A f \in Fields : report[f] # Unread =>
       /\ report.seq # Unread
       /\ report[f] >= LastStore(f, report.seq)
       /\ Settled /\ crumb.seq = report.seq => report[f] = crumb[f]
  /\ Settled /\ crumb.seq = report.seq /\ report.phase # Unread =>
       report.is = crumb.is

\* Everything the proofs about the breadcrumb rest on.
CrumbInvariant ==
  /\ CmdInvariant
  /\ CrumbTypeOK
  /\ DropInv
  /\ ReportInv
-----------------------------------------------------------------------------
(* Slots and histories *)

\* Two numbers less than C apart have different remainders.
LEMMA ModNe ==
  ASSUME NEW C \in Nat \ {0}, NEW i \in Nat, NEW j \in Nat, i < j, j - i < C
  PROVE  i % C # j % C
<1>1. ASSUME NEW n \in Nat
      PROVE  \E q \in Nat : n = C * q + (n % C)
  <2>1. n \div C \in Nat /\ n = C * (n \div C) + (n % C)
    BY SMT
  <2> QED
    BY <2>1
<1>2. PICK a \in Nat, b \in Nat : i = C * a + (i % C) /\ j = C * b + (j % C)
  BY <1>1
<1>3. i % C = j % C => j - i = C * (b - a)
  BY <1>2
<1>4. b - a >= 1 => C * (b - a) >= C
  OBVIOUS
<1>5. b - a <= 0 => C * (b - a) <= 0
  OBVIOUS
<1>6. b - a >= 1 \/ b - a <= 0
  OBVIOUS
<1> QED
  BY <1>3, <1>4, <1>5, <1>6

\* The slots of struct cmd_ring: entries[head % CMD_RING_CAPACITY].
LEMMA SlotFacts ==
  /\ \A i \in Nat : Slot(i) \in Slots
  /\ \A i, j \in Nat : i < j /\ j - i < CmdRingCapacity => Slot(i) # Slot(j)
<1>1. CmdRingCapacity \in Nat \ {0}
  BY CmdAssumption
<1>2. \A i \in Nat : i % CmdRingCapacity \in 0 .. (CmdRingCapacity - 1)
  BY <1>1
<1> QED
  BY <1>1, <1>2, ModNe DEF Slot, Slots

\* The slot cmd_to_vmm writes is none of those in the ring.
LEMMA HeadSlotIsFree ==
  ASSUME TypeOK, SpaceInv, upc = "write"
  PROVE  \A i \in tail .. (head - 1) : Slot(i) # Slot(head) /\ Slot(i) \in Slots
<1> TAKE i \in tail .. (head - 1)
<1>1. i \in Nat /\ head \in Nat /\ i < head
  BY DEF TypeOK
<1>2. head - i < CmdRingCapacity
  BY <1>1, CmdAssumption DEF TypeOK, SpaceInv
<1> QED
  BY <1>1, <1>2, SlotFacts

\* What publishing a command appends to the history.
LEMMA SentGrows ==
  ASSUME TypeOK, EntryInv, PublishHead
  PROVE  /\ Len(sent') = head + 1 /\ sent'[head + 1] = commands_received
         /\ \A k \in 1 .. head : sent'[k] = sent[k]
<1>1. sent' = Append(sent, commands_received) /\ Len(sent) = head
  BY DEF PublishHead, id, EntryInv
<1>2. sent \in Seq(Nat) /\ commands_received \in Nat
  BY DEF TypeOK
<1> QED
  BY <1>1, <1>2, AppendProperties

\* The id published is the largest so far.
LEMMA SentIncreases ==
  ASSUME TypeOK, EntryInv, IdInv, PublishHead
  PROVE  /\ \A k \in 1 .. Len(sent') :
              sent'[k] > 0 /\ sent'[k] <= commands_received
         /\ \A k, l \in 1 .. Len(sent') : k < l => sent'[k] < sent'[l]
<1>1. /\ Len(sent') = head + 1 /\ sent'[head + 1] = commands_received
      /\ \A k \in 1 .. head : sent'[k] = sent[k]
  BY SentGrows
<1>2. head \in Nat /\ commands_received \in Nat /\ Len(sent) = head
  BY DEF TypeOK, EntryInv
<1>3. commands_received > 0
  BY DEF PublishHead, UStep, IdInv, Submitting
<1>4. \A k \in 1 .. head :
        sent[k] \in Nat /\ sent[k] > 0 /\ sent[k] < commands_received
  BY <1>2 DEF PublishHead, UStep, IdInv, Submitting, TypeOK
<1>5. \A k, l \in 1 .. head : k < l => sent[k] < sent[l]
  BY <1>2 DEF IdInv
<1>6. ASSUME NEW k \in 1 .. (head + 1), NEW l \in 1 .. (head + 1), k < l
      PROVE  sent'[k] < sent'[l]
  <2>1. k \in 1 .. head
    BY <1>2, <1>6
  <2>2. CASE l = head + 1
    BY <2>1, <2>2, <1>1, <1>4
  <2>3. CASE l \in 1 .. head
    BY <2>1, <2>3, <1>1, <1>5, <1>6
  <2> QED
    BY <2>2, <2>3, <1>2
<1>7. ASSUME NEW k \in 1 .. (head + 1)
      PROVE  sent'[k] > 0 /\ sent'[k] <= commands_received
  <2>1. CASE k = head + 1
    BY <2>1, <1>1, <1>2, <1>3
  <2>2. CASE k \in 1 .. head
    BY <2>2, <1>1, <1>2, <1>4
  <2> QED
    BY <2>1, <2>2, <1>2
<1> QED
  BY <1>1, <1>6, <1>7

\* set_phase() stores fields, and its last store ends the event's entry or
\* exit.
LEMMA SetPhaseSteps ==
  ASSUME TypeOK, PhaseInv, SetPhase
  PROVE  /\ dropping'.is = dropping.is
         /\ dropping' \in [is : Phases, fields : SUBSET Fields]
         /\ \/ vpc' = vpc /\ vpc \in {"enter", "leave"}
            \/ vpc = "enter" /\ dropping.is = "NOTIFIED" /\ vpc' = "test"
            \/ vpc = "enter" /\ dropping.is = "FAULT" /\ vpc' = "fault"
            \/ vpc = "leave" /\ vpc' = "recv"
<1>1. CASE StoreField /\ UNCHANGED vpc
  <2>1. PICK f \in dropping.fields :
          dropping' = [dropping EXCEPT !.fields = @ \ {f}]
    BY <1>1 DEF StoreField
  <2>2. dropping'.is = dropping.is
    BY <2>1 DEF TypeOK
  <2>3. dropping' \in [is : Phases, fields : SUBSET Fields]
    BY <2>1 DEF TypeOK
  <2> QED
    BY <1>1, <2>2, <2>3 DEF SetPhase
<1>2. CASE /\ StoreSeq
           /\ vpc' = CASE dropping.is = "IDLE" -> "recv"
                       [] dropping.is = "FAULT" -> "fault"
                       [] dropping.is = "NOTIFIED" -> "test"
  <2>1. dropping' = dropping
    BY <1>2 DEF StoreSeq
  <2>2. /\ dropping.is = "IDLE" => vpc' = "recv"
        /\ dropping.is = "FAULT" => vpc' = "fault"
        /\ dropping.is = "NOTIFIED" => vpc' = "test"
    BY <1>2
  <2> QED
    BY <2>1, <2>2 DEF SetPhase, TypeOK, PhaseInv
<1> QED
  BY <1>1, <1>2 DEF SetPhase

-----------------------------------------------------------------------------
(* Every step preserves each conjunct of the invariant *)

\* Types: entries are numbers, and so is all that is copied from them.
LEMMA TypeOKStep == CmdInvariant /\ [Next]_vars => TypeOK'
<1> SUFFICES ASSUME CmdInvariant, [Next]_vars PROVE TypeOK'
  OBVIOUS
<1> USE CmdAssumption DEF CmdInvariant, vars, ringVars, uartVars, vmmVars,
      crumbVars, history, UStep, VStep, TypeOK, Upcs, Vpcs, Phases
<1>1. CASE RunLine
  BY <1>1 DEF RunLine
<1>2. CASE RoomTest
  BY <1>2 DEF RoomTest
<1>3. CASE WriteEntry
  BY <1>3, SlotFacts DEF WriteEntry, id
<1>4. CASE PublishHead
  BY <1>4, AppendProperties DEF PublishHead, id
<1>5. CASE NotifyVmm
  BY <1>5 DEF NotifyVmm
<1>6. CASE SeeCompletion
  BY <1>6 DEF SeeCompletion
<1>7. CASE SeeNoCompletion
  BY <1>7 DEF SeeNoCompletion
<1>8. CASE TryAgain
  BY <1>8 DEF TryAgain
<1>9. CASE GiveUp
  BY <1>9 DEF GiveUp
<1>10. CASE ReadCrumb
  BY <1>10 DEF ReadCrumb, LoadSeq, LoadField
<1>11. CASE EndReport
  BY <1>11 DEF EndReport
<1>12. CASE Notified
  BY <1>12 DEF Notified, breadcrumb_enter
<1>13. CASE Fault
  BY <1>13 DEF Fault, breadcrumb_enter
<1>14. CASE SetPhase
  BY <1>14, SetPhaseSteps DEF SetPhase
<1>15. CASE EndFault
  BY <1>15 DEF EndFault, breadcrumb_leave, Fields
<1>16. CASE LoopTest
  BY <1>16 DEF LoopTest
<1>17. CASE LoopEnd
  BY <1>17 DEF LoopEnd, breadcrumb_leave, Fields
<1>18. CASE RunCommand
  <2>1. entries[Slot(tail)] \in Nat
    BY SlotFacts
  <2> QED
    BY <1>18, <2>1 DEF RunCommand
<1>19. CASE StoreCompleted
  BY <1>19, SlotFacts DEF StoreCompleted
<1>20. CASE AdvanceTail
  BY <1>20 DEF AdvanceTail
<1>21. CASE UNCHANGED vars
  BY <1>21
<1> QED
  BY <1>1, <1>2, <1>3, <1>4, <1>5, <1>6, <1>7, <1>8, <1>9, <1>10, <1>11,
     <1>12, <1>13, <1>14, <1>15, <1>16, <1>17, <1>18, <1>19, <1>20, <1>21
     DEF Next, Uartrx, Vmm

\* Room: cmd_to_vmm is the only producer, so the room it found is not taken
\* before it writes.
LEMMA SpaceInvStep == CmdInvariant /\ [Next]_vars => SpaceInv'
<1> SUFFICES ASSUME CmdInvariant, [Next]_vars PROVE SpaceInv'
  OBVIOUS
<1> USE CmdAssumption DEF CmdInvariant, vars, ringVars, uartVars, vmmVars,
      crumbVars, history, UStep, VStep, TypeOK, SpaceInv, Serving
<1>1. CASE RunLine
  BY <1>1 DEF RunLine
<1>2. CASE RoomTest
  BY <1>2 DEF RoomTest
<1>3. CASE WriteEntry
  BY <1>3 DEF WriteEntry
<1>4. CASE PublishHead
  BY <1>4 DEF PublishHead
<1>5. CASE NotifyVmm
  BY <1>5 DEF NotifyVmm
<1>6. CASE SeeCompletion
  BY <1>6 DEF SeeCompletion
<1>7. CASE SeeNoCompletion
  BY <1>7 DEF SeeNoCompletion
<1>8. CASE TryAgain
  BY <1>8 DEF TryAgain
<1>9. CASE GiveUp
  BY <1>9 DEF GiveUp
<1>10. CASE ReadCrumb
  BY <1>10 DEF ReadCrumb, LoadSeq, LoadField
<1>11. CASE EndReport
  BY <1>11 DEF EndReport
<1>12. CASE Notified
  BY <1>12 DEF Notified, breadcrumb_enter
<1>13. CASE Fault
  BY <1>13 DEF Fault, breadcrumb_enter
<1>14. CASE SetPhase
  BY <1>14, SetPhaseSteps DEF SetPhase
<1>15. CASE EndFault
  BY <1>15 DEF EndFault, breadcrumb_leave
<1>16. CASE LoopTest
  BY <1>16 DEF LoopTest
<1>17. CASE LoopEnd
  BY <1>17 DEF LoopEnd, breadcrumb_leave
<1>18. CASE RunCommand
  BY <1>18 DEF RunCommand
<1>19. CASE StoreCompleted
  BY <1>19 DEF StoreCompleted
<1>20. CASE AdvanceTail
  BY <1>20 DEF AdvanceTail
<1>21. CASE UNCHANGED vars
  BY <1>21
<1> QED
  BY <1>1, <1>2, <1>3, <1>4, <1>5, <1>6, <1>7, <1>8, <1>9, <1>10, <1>11,
     <1>12, <1>13, <1>14, <1>15, <1>16, <1>17, <1>18, <1>19, <1>20, <1>21
     DEF Next, Uartrx, Vmm

\* breadcrumb_enter names the event, breadcrumb_leave idleness.
LEMMA PhaseInvStep == CmdInvariant /\ [Next]_vars => PhaseInv'
<1> SUFFICES ASSUME CmdInvariant, [Next]_vars PROVE PhaseInv'
  OBVIOUS
<1> USE CmdAssumption DEF CmdInvariant, vars, ringVars, uartVars, vmmVars,
      crumbVars, history, UStep, VStep, TypeOK, PhaseInv
<1>1. CASE RunLine
  BY <1>1 DEF RunLine
<1>2. CASE RoomTest
  BY <1>2 DEF RoomTest
<1>3. CASE WriteEntry
  BY <1>3 DEF WriteEntry
<1>4. CASE PublishHead
  BY <1>4 DEF PublishHead
<1>5. CASE NotifyVmm
  BY <1>5 DEF NotifyVmm
<1>6. CASE SeeCompletion
  BY <1>6 DEF SeeCompletion
<1>7. CASE SeeNoCompletion
  BY <1>7 DEF SeeNoCompletion
<1>8. CASE TryAgain
  BY <1>8 DEF TryAgain
<1>9. CASE GiveUp
  BY <1>9 DEF GiveUp
<1>10. CASE ReadCrumb
  BY <1>10 DEF ReadCrumb, LoadSeq, LoadField
<1>11. CASE EndReport
  BY <1>11 DEF EndReport
<1>12. CASE Notified
  BY <1>12 DEF Notified, breadcrumb_enter
<1>13. CASE Fault
  BY <1>13 DEF Fault, breadcrumb_enter
<1>14. CASE SetPhase
  BY <1>14, SetPhaseSteps DEF SetPhase
<1>15. CASE EndFault
  BY <1>15 DEF EndFault, breadcrumb_leave
<1>16. CASE LoopTest
  BY <1>16 DEF LoopTest
<1>17. CASE LoopEnd
  BY <1>17 DEF LoopEnd, breadcrumb_leave
<1>18. CASE RunCommand
  BY <1>18 DEF RunCommand
<1>19. CASE StoreCompleted
  BY <1>19 DEF StoreCompleted
<1>20. CASE AdvanceTail
  BY <1>20 DEF AdvanceTail
<1>21. CASE UNCHANGED vars
  BY <1>21
<1> QED
  BY <1>1, <1>2, <1>3, <1>4, <1>5, <1>6, <1>7, <1>8, <1>9, <1>10, <1>11,
     <1>12, <1>13, <1>14, <1>15, <1>16, <1>17, <1>18, <1>19, <1>20, <1>21
     DEF Next, Uartrx, Vmm

\* The head is published before the notification, and the VMM tests the ring
\* after it consumed one.
LEMMA WakeInvStep == CmdInvariant /\ [Next]_vars => WakeInv'
<1> SUFFICES ASSUME CmdInvariant, [Next]_vars PROVE WakeInv'
  OBVIOUS
<1> USE CmdAssumption DEF CmdInvariant, vars, ringVars, uartVars, vmmVars,
      crumbVars, history, UStep, VStep, TypeOK, SpaceInv, PhaseInv, WakeInv,
      Serving
<1>1. CASE RunLine
  BY <1>1 DEF RunLine
<1>2. CASE RoomTest
  BY <1>2 DEF RoomTest
<1>3. CASE WriteEntry
  BY <1>3 DEF WriteEntry
<1>4. CASE PublishHead
  BY <1>4 DEF PublishHead
<1>5. CASE NotifyVmm
  BY <1>5 DEF NotifyVmm
<1>6. CASE SeeCompletion
  BY <1>6 DEF SeeCompletion
<1>7. CASE SeeNoCompletion
  BY <1>7 DEF SeeNoCompletion
<1>8. CASE TryAgain
  BY <1>8 DEF TryAgain
<1>9. CASE GiveUp
  BY <1>9 DEF GiveUp
<1>10. CASE ReadCrumb
  BY <1>10 DEF ReadCrumb, LoadSeq, LoadField
<1>11. CASE EndReport
  BY <1>11 DEF EndReport
<1>12. CASE Notified
  BY <1>12 DEF Notified, breadcrumb_enter
<1>13. CASE Fault
  BY <1>13 DEF Fault, breadcrumb_enter
<1>14. CASE SetPhase
  BY <1>14, SetPhaseSteps DEF SetPhase
<1>15. CASE EndFault
  BY <1>15 DEF EndFault, breadcrumb_leave
<1>16. CASE LoopTest
  BY <1>16 DEF LoopTest
<1>17. CASE LoopEnd
  BY <1>17 DEF LoopEnd, breadcrumb_leave
<1>18. CASE RunCommand
  BY <1>18 DEF RunCommand
<1>19. CASE StoreCompleted
  BY <1>19 DEF StoreCompleted
<1>20. CASE AdvanceTail
  BY <1>20 DEF AdvanceTail
<1>21. CASE UNCHANGED vars
  BY <1>21
<1> QED
  BY <1>1, <1>2, <1>3, <1>4, <1>5, <1>6, <1>7, <1>8, <1>9, <1>10, <1>11,
     <1>12, <1>13, <1>14, <1>15, <1>16, <1>17, <1>18, <1>19, <1>20, <1>21
     DEF Next, Uartrx, Vmm

\* cmd_to_vmm writes a slot outside tail .. head - 1 and publishes it last;
\* run_commands reads the slot at tail, which stays what was sent.
LEMMA EntryInvStep == CmdInvariant /\ [Next]_vars => EntryInv'
<1> SUFFICES ASSUME CmdInvariant, [Next]_vars PROVE EntryInv'
  OBVIOUS
<1> USE CmdAssumption DEF CmdInvariant, vars, ringVars, uartVars, vmmVars,
      crumbVars, history, UStep, VStep, TypeOK, SpaceInv, EntryInv, Serving
<1>1. CASE RunLine
  BY <1>1 DEF RunLine
<1>2. CASE RoomTest
  BY <1>2 DEF RoomTest
<1>3. CASE WriteEntry
  <2>1. \A i \in tail .. (head - 1) :
          Slot(i) # Slot(head) /\ Slot(i) \in Slots
    BY <1>3, HeadSlotIsFree DEF WriteEntry
  <2>2. \A i \in tail .. (head - 1) : entries'[Slot(i)] = entries[Slot(i)]
    BY <1>3, <2>1 DEF WriteEntry
  <2>3. Slot(head) \in Slots
    BY SlotFacts
  <2>4. entries'[Slot(head)] = commands_received
    BY <1>3, <2>3 DEF WriteEntry, id
  <2> QED
    BY <1>3, <2>2, <2>4 DEF WriteEntry
<1>4. CASE PublishHead
  <2>1. /\ sent' = Append(sent, commands_received)
        /\ head' = head + 1 /\ tail' = tail /\ entries' = entries
        /\ upc' # "publish" /\ executed' = executed /\ vpc' = vpc
        /\ entries[Slot(head)] = commands_received
    BY <1>4 DEF PublishHead, id
  <2>2. /\ Len(sent') = head + 1 /\ sent'[head + 1] = commands_received
        /\ \A k \in 1 .. head : sent'[k] = sent[k]
    BY <1>4, SentGrows
  <2>3. \A i \in tail .. (head' - 1) : entries[Slot(i)] = sent'[i + 1]
    <3> TAKE i \in tail .. (head' - 1)
    <3>1. CASE i = head
      BY <3>1, <2>1, <2>2
    <3>2. CASE i # head
      <4>1. i \in tail .. (head - 1) /\ i + 1 \in 1 .. head
        BY <3>2, <2>1
      <4> QED
        BY <4>1, <2>2
    <3> QED
      BY <3>1, <3>2
  <2>4. \A k \in 1 .. Len(executed) : executed[k] = sent'[k]
    BY <2>2
  <2> QED
    BY <2>1, <2>2, <2>3, <2>4
<1>5. CASE NotifyVmm
  BY <1>5 DEF NotifyVmm
<1>6. CASE SeeCompletion
  BY <1>6 DEF SeeCompletion
<1>7. CASE SeeNoCompletion
  BY <1>7 DEF SeeNoCompletion
<1>8. CASE TryAgain
  BY <1>8 DEF TryAgain
<1>9. CASE GiveUp
  BY <1>9 DEF GiveUp
<1>10. CASE ReadCrumb
  BY <1>10 DEF ReadCrumb, LoadSeq, LoadField
<1>11. CASE EndReport
  BY <1>11 DEF EndReport
<1>12. CASE Notified
  BY <1>12 DEF Notified, breadcrumb_enter
<1>13. CASE Fault
  BY <1>13 DEF Fault, breadcrumb_enter
<1>14. CASE SetPhase
  BY <1>14, SetPhaseSteps DEF SetPhase
<1>15. CASE EndFault
  BY <1>15 DEF EndFault, breadcrumb_leave
<1>16. CASE LoopTest
  BY <1>16 DEF LoopTest
<1>17. CASE LoopEnd
  BY <1>17 DEF LoopEnd, breadcrumb_leave
<1>18. CASE RunCommand
  <2>1. /\ executed' = Append(executed, entries[Slot(tail)])
        /\ entries[Slot(tail)] = sent[tail + 1] /\ Len(executed) = tail
    BY <1>18 DEF RunCommand
  <2>2. entries[Slot(tail)] \in Nat
    BY SlotFacts
  <2>3. /\ Len(executed') = tail + 1 /\ executed'[tail + 1] = sent[tail + 1]
        /\ \A k \in 1 .. tail : executed'[k] = executed[k]
    BY <2>1, <2>2, AppendProperties
  <2>4. \A k \in 1 .. Len(executed') : executed'[k] = sent[k]
    BY <2>1, <2>3
  <2> QED
    BY <1>18, <2>3, <2>4 DEF RunCommand
<1>19. CASE StoreCompleted
  BY <1>19 DEF StoreCompleted
<1>20. CASE AdvanceTail
  BY <1>20 DEF AdvanceTail
<1>21. CASE UNCHANGED vars
  BY <1>21
<1> QED
  BY <1>1, <1>2, <1>3, <1>4, <1>5, <1>6, <1>7, <1>8, <1>9, <1>10, <1>11,
     <1>12, <1>13, <1>14, <1>15, <1>16, <1>17, <1>18, <1>19, <1>20, <1>21
     DEF Next, Uartrx, Vmm

\* run_line() numbers the lines upwards, and completed_id is read back from
\* the entry that run_command has just run.
LEMMA IdInvStep == CmdInvariant /\ [Next]_vars => IdInv'
<1> SUFFICES ASSUME CmdInvariant, [Next]_vars PROVE IdInv'
  OBVIOUS
<1> USE CmdAssumption DEF CmdInvariant, vars, ringVars, uartVars, vmmVars,
      crumbVars, history, UStep, VStep, TypeOK, SpaceInv, IdInv, Serving,
      Submitting
<1>1. CASE RunLine
  BY <1>1 DEF RunLine
<1>2. CASE RoomTest
  BY <1>2 DEF RoomTest
<1>3. CASE WriteEntry
  BY <1>3 DEF WriteEntry
<1>4. CASE PublishHead
  <2>1. /\ sent' = Append(sent, commands_received)
        /\ tail' = tail /\ completed_id' = completed_id /\ vpc' = vpc
        /\ commands_received' = commands_received /\ upc' = "notify"
        /\ Len(sent) = head /\ upc = "publish"
    BY <1>4 DEF PublishHead, id, EntryInv
  <2>2. Len(sent') = head + 1 /\ \A k \in 1 .. head : sent'[k] = sent[k]
    BY <1>4, SentGrows
  <2>3. completed_id = IF vpc = "advance" THEN sent'[tail + 1]
                       ELSE IF tail = 0 THEN 0 ELSE sent'[tail]
    BY <2>2
  <2>4. /\ \A k \in 1 .. Len(sent') :
             sent'[k] > 0 /\ sent'[k] <= commands_received
        /\ \A k, l \in 1 .. Len(sent') : k < l => sent'[k] < sent'[l]
    BY <1>4, SentIncreases
  <2> QED
    BY <2>1, <2>3, <2>4
<1>5. CASE NotifyVmm
  BY <1>5 DEF NotifyVmm
<1>6. CASE SeeCompletion
  BY <1>6 DEF SeeCompletion
<1>7. CASE SeeNoCompletion
  BY <1>7 DEF SeeNoCompletion
<1>8. CASE TryAgain
  BY <1>8 DEF TryAgain
<1>9. CASE GiveUp
  BY <1>9 DEF GiveUp
<1>10. CASE ReadCrumb
  BY <1>10 DEF ReadCrumb, LoadSeq, LoadField
<1>11. CASE EndReport
  BY <1>11 DEF EndReport
<1>12. CASE Notified
  BY <1>12 DEF Notified, breadcrumb_enter
<1>13. CASE Fault
  BY <1>13 DEF Fault, breadcrumb_enter
<1>14. CASE SetPhase
  BY <1>14, SetPhaseSteps DEF SetPhase
<1>15. CASE EndFault
  BY <1>15 DEF EndFault, breadcrumb_leave
<1>16. CASE LoopTest
  BY <1>16 DEF LoopTest
<1>17. CASE LoopEnd
  BY <1>17 DEF LoopEnd, breadcrumb_leave
<1>18. CASE RunCommand
  BY <1>18 DEF RunCommand
<1>19. CASE StoreCompleted
  BY <1>19 DEF StoreCompleted, EntryInv
<1>20. CASE AdvanceTail
  BY <1>20 DEF AdvanceTail
<1>21. CASE UNCHANGED vars
  BY <1>21
<1> QED
  BY <1>1, <1>2, <1>3, <1>4, <1>5, <1>6, <1>7, <1>8, <1>9, <1>10, <1>11,
     <1>12, <1>13, <1>14, <1>15, <1>16, <1>17, <1>18, <1>19, <1>20, <1>21
     DEF Next, Uartrx, Vmm

-----------------------------------------------------------------------------
(* The theorems *)

\* The invariant holds when both domains start.
LEMMA CmdInit == Init => CmdInvariant
<1> SUFFICES ASSUME Init PROVE CmdInvariant
  OBVIOUS
<1>1. TypeOK
  <2>1. dropping \in [is : Phases, fields : SUBSET Fields]
    BY DEF Init, CrumbInit, Phases
  <2>2. entries \in [Slots -> Nat] /\ notified \in BOOLEAN
    BY DEF Init
  <2>3. sent \in Seq(Nat) /\ executed \in Seq(Nat)
    BY DEF Init
  <2>4. /\ head \in Nat /\ tail \in Nat /\ completed_id \in Nat
        /\ commands_received \in Nat /\ polls \in Nat /\ faults \in Nat
        /\ upc \in Upcs /\ vpc \in Vpcs
    BY DEF Init, Upcs, Vpcs
  <2> QED
    BY <2>1, <2>2, <2>3, <2>4 DEF TypeOK
<1>2. SpaceInv /\ EntryInv /\ IdInv
  <2>1. /\ head = 0 /\ tail = 0 /\ Len(sent) = 0 /\ Len(executed) = 0
        /\ completed_id = 0 /\ upc = "ready" /\ vpc = "recv"
    BY DEF Init
  <2>2. \A k \in 1 .. 0 : FALSE
    OBVIOUS
  <2>3. \A i \in 0 .. (0 - 1) : FALSE
    OBVIOUS
  <2>4. SpaceInv
    BY <2>1, CmdAssumption DEF SpaceInv, Serving
  <2>5. EntryInv
    BY <2>1, <2>2, <2>3 DEF EntryInv
  <2>6. IdInv
    BY <2>1, <2>2 DEF IdInv, Submitting
  <2> QED
    BY <2>4, <2>5, <2>6
<1>3. PhaseInv /\ WakeInv
  BY DEF Init, PhaseInv, WakeInv
<1> QED
  BY <1>1, <1>2, <1>3 DEF CmdInvariant

\* Every access of either domain preserves it.
LEMMA CmdStep == CmdInvariant /\ [Next]_vars => CmdInvariant'
BY TypeOKStep, SpaceInvStep, EntryInvStep, IdInvStep, PhaseInvStep,
   WakeInvStep DEF CmdInvariant

\* CmdInvariant holds in every reachable state of the command channel
\* (uartrx.c's cmd_to_vmm and wait_for_vmm against vmm.c's run_commands).
THEOREM CmdInvariantHolds == Spec => []CmdInvariant
BY CmdInit, CmdStep, PTL DEF Spec

\* run_commands runs every command at most once and in the order typed,
\* whatever wait timed out in between.
THEOREM CommandsRunInOrder == Spec => []RunsInOrder
<1>1. CmdInvariant => RunsInOrder
  BY DEF CmdInvariant, TypeOK, SpaceInv, EntryInv, Serving, RunsInOrder, Vpcs
<1> QED
  BY CmdInvariantHolds, <1>1, PTL

\* completed_id never claims a command that has not run: wait_for_vmm's
\* "completed_id >= id" cannot be met by the answer to an earlier command.
THEOREM CompletionIsTrue == Spec => []CompletedMeansRun
<1>1. CmdInvariant => CompletedMeansRun
  <2> SUFFICES ASSUME CmdInvariant, NEW k \in 1 .. Len(sent),
                      sent[k] <= completed_id
               PROVE  k <= Len(executed)
    BY DEF CompletedMeansRun
  <2>1. sent \in Seq(Nat) /\ tail \in Nat /\ head \in Nat /\ Len(sent) = head
    BY DEF CmdInvariant, TypeOK, EntryInv
  <2>2. sent[k] > 0 /\ \A l \in 1 .. Len(sent) : l < k => sent[l] < sent[k]
    BY DEF CmdInvariant, IdInv
  <2>3. CASE vpc = "advance"
    <3>1. completed_id = sent[tail + 1] /\ tail < head
      BY <2>3 DEF CmdInvariant, IdInv, SpaceInv, Serving
    <3>2. Len(executed) = tail + 1
      BY <2>3 DEF CmdInvariant, EntryInv
    <3> QED
      BY <2>1, <2>2, <3>1, <3>2
  <2>4. CASE vpc # "advance"
    <3>1. completed_id = IF tail = 0 THEN 0 ELSE sent[tail]
      BY <2>4 DEF CmdInvariant, IdInv
    <3>2. tail <= head /\ Len(executed) >= tail
      BY <2>1 DEF CmdInvariant, EntryInv, SpaceInv
    <3>3. tail = 0 \/ tail \in 1 .. Len(sent)
      BY <2>1, <3>2
    <3> QED
      BY <2>1, <2>2, <3>1, <3>2, <3>3
  <2> QED
    BY <2>3, <2>4
<1> QED
  BY CmdInvariantHolds, <1>1, PTL

\* run_commands never goes back to the event loop with a command in the ring
\* that nobody is about to announce (vmm.c's loop against cmd_to_vmm's
\* publish, then notify).
THEOREM CommandsNotLost == Spec => []NoLostCommand
<1>1. CmdInvariant => NoLostCommand
  BY DEF CmdInvariant, WakeInv, Serving, NoLostCommand
<1> QED
  BY CmdInvariantHolds, <1>1, PTL

-----------------------------------------------------------------------------
(* The breadcrumb *)

\* What LastStore computes: it grows with n, only the label lags, and only
\* behind an even n.
LEMMA LastStoreFacts ==
  /\ \A f \in Fields, n \in Nat : LastStore(f, n) \in Nat
  /\ \A f \in Fields, n \in Nat, m \in Nat :
       n <= m => LastStore(f, n) <= LastStore(f, m)
  /\ \A f \in Fields, n \in Nat : n % 2 = 0 => LastStore(f, n + 1) = n + 1
  /\ \A f \in Fields, n \in Nat : f # "label" => LastStore(f, n) = n
  /\ \A n \in Nat : n % 2 = 1 => LastStore("label", n + 1) = LastStore("label", n)
BY DEF LastStore

\* A store of set_phase() or breadcrumb_enter() changes its field only.
LEMMA StoreFieldIs ==
  ASSUME TypeOK, CrumbTypeOK, StoreField
  PROVE  \E f \in dropping.fields :
           /\ f \in Fields
           /\ crumb' \in [seq : Nat, phase : Nat, since : Nat, label : Nat,
                          is : Phases]
           /\ crumb'.seq = crumb.seq /\ crumb'[f] = crumb.seq + 1
           /\ \A g \in Fields \ {f} : crumb'[g] = crumb[g]
           /\ crumb'.is = IF f = "phase" THEN dropping.is ELSE crumb.is
           /\ dropping'.is = dropping.is
           /\ dropping'.fields = dropping.fields \ {f}
           /\ report' = report
<1>1. PICK f \in dropping.fields :
        /\ crumb' = [crumb EXCEPT ![f] = crumb.seq + 1,
                                  !.is = IF f = "phase" THEN dropping.is ELSE @]
        /\ dropping' = [dropping EXCEPT !.fields = @ \ {f}]
        /\ report' = report
  BY DEF StoreField
<1> WITNESS f \in dropping.fields
<1>2. f \in Fields
  BY DEF TypeOK
<1>3. dropping'.is = dropping.is /\ dropping'.fields = dropping.fields \ {f}
  BY <1>1 DEF TypeOK
<1>4. dropping.is \in Phases
  BY DEF TypeOK
<1>5. CASE f = "phase"
  <2> DEFINE c == crumb.seq + 1
  <2>1. c \in Nat
    BY DEF CrumbTypeOK
  <2>2. crumb' = [crumb EXCEPT !.phase = c, !.is = dropping.is]
    BY <1>1, <1>5 DEF CrumbTypeOK
  <2> HIDE DEF c
  <2>3. /\ crumb' \in [seq : Nat, phase : Nat, since : Nat, label : Nat,
                       is : Phases]
        /\ crumb'.seq = crumb.seq /\ crumb'[f] = c
        /\ \A g \in Fields \ {f} : crumb'[g] = crumb[g]
        /\ crumb'.is = dropping.is
    BY <1>4, <1>5, <2>1, <2>2 DEF CrumbTypeOK, Fields
  <2> QED
    BY <1>1, <1>2, <1>3, <1>5, <2>3 DEF c
<1>6. CASE f = "since"
  <2> DEFINE c == crumb.seq + 1
  <2>1. c \in Nat
    BY DEF CrumbTypeOK
  <2>2. crumb' = [crumb EXCEPT !.since = c]
    BY <1>1, <1>6 DEF CrumbTypeOK
  <2> HIDE DEF c
  <2>3. /\ crumb' \in [seq : Nat, phase : Nat, since : Nat, label : Nat,
                       is : Phases]
        /\ crumb'.seq = crumb.seq /\ crumb'[f] = c
        /\ \A g \in Fields \ {f} : crumb'[g] = crumb[g]
        /\ crumb'.is = crumb.is
    BY <1>4, <1>6, <2>1, <2>2 DEF CrumbTypeOK, Fields
  <2> QED
    BY <1>1, <1>2, <1>3, <1>6, <2>3 DEF c
<1>7. CASE f = "label"
  <2> DEFINE c == crumb.seq + 1
  <2>1. c \in Nat
    BY DEF CrumbTypeOK
  <2>2. crumb' = [crumb EXCEPT !.label = c]
    BY <1>1, <1>7 DEF CrumbTypeOK
  <2> HIDE DEF c
  <2>3. /\ crumb' \in [seq : Nat, phase : Nat, since : Nat, label : Nat,
                       is : Phases]
        /\ crumb'.seq = crumb.seq /\ crumb'[f] = c
        /\ \A g \in Fields \ {f} : crumb'[g] = crumb[g]
        /\ crumb'.is = crumb.is
    BY <1>4, <1>7, <2>1, <2>2 DEF CrumbTypeOK, Fields
  <2> QED
    BY <1>1, <1>2, <1>3, <1>7, <2>3 DEF c
<1> QED
  BY <1>2, <1>5, <1>6, <1>7 DEF Fields

\* A load of report_vmm_breadcrumb() changes its field only.
LEMMA LoadFieldIs ==
  ASSUME CrumbTypeOK, LoadField
  PROVE  \E f \in Fields :
           /\ report[f] = Unread
           /\ report'[f] = crumb[f] /\ report'.seq = report.seq
           /\ \A g \in Fields \ {f} : report'[g] = report[g]
           /\ report'.is = IF f = "phase" THEN crumb.is ELSE report.is
           /\ report.seq # Unread /\ crumb' = crumb /\ dropping' = dropping
           /\ report' \in [seq : Loaded, phase : Loaded, since : Loaded,
                           label : Loaded, is : Phases \cup {"none"}]
<1>1. PICK f \in Fields :
        /\ report[f] = Unread
        /\ report' = [report EXCEPT ![f] = crumb[f],
                                    !.is = IF f = "phase" THEN crumb.is ELSE @]
  BY DEF LoadField
<1> WITNESS f \in Fields
<1>2. report.seq # Unread /\ crumb' = crumb /\ dropping' = dropping
  BY DEF LoadField
<1>3. CASE f = "phase"
  BY <1>1, <1>2, <1>3 DEF CrumbTypeOK, Fields, Loaded
<1>4. CASE f = "since"
  BY <1>1, <1>2, <1>4 DEF CrumbTypeOK, Fields, Loaded
<1>5. CASE f = "label"
  BY <1>1, <1>2, <1>5 DEF CrumbTypeOK, Fields, Loaded
<1> QED
  BY <1>3, <1>4, <1>5 DEF Fields

\* The load of seq is the first.
LEMMA LoadSeqIs ==
  ASSUME CrumbTypeOK, LoadSeq
  PROVE  /\ report.seq = Unread /\ report'.seq = crumb.seq
         /\ \A g \in Fields : report'[g] = report[g]
         /\ report'.is = report.is /\ crumb' = crumb /\ dropping' = dropping
         /\ report' \in [seq : Loaded, phase : Loaded, since : Loaded,
                         label : Loaded, is : Phases \cup {"none"}]
BY DEF LoadSeq, CrumbTypeOK, Fields, Loaded

\* The increment of seq is the last store.
LEMMA StoreSeqIs ==
  ASSUME CrumbTypeOK, StoreSeq
  PROVE  /\ dropping.fields = {} /\ crumb'.seq = crumb.seq + 1
         /\ \A g \in Fields : crumb'[g] = crumb[g]
         /\ crumb'.is = crumb.is /\ dropping' = dropping /\ report' = report
         /\ crumb' \in [seq : Nat, phase : Nat, since : Nat, label : Nat,
                        is : Phases]
BY DEF StoreSeq, CrumbTypeOK, Fields

\* breadcrumb_enter() finds the crumb of an idle VMM: the fields are those of
\* its number, also if it is numbered anew, which a report does not see.
LEMMA RenumberedIs ==
  ASSUME CrumbInvariant, vpc = "recv", crumb' = Renumbered
  PROVE  /\ crumb' \in [seq : Nat, phase : Nat, since : Nat, label : Nat,
                        is : Phases]
         /\ crumb'.seq % 2 = 0
         /\ \A g \in Fields : crumb'[g] = LastStore(g, crumb'.seq)
         /\ report.seq # Unread => crumb' = crumb
<1>1. CASE report.seq = Unread
  BY <1>1 DEF Renumbered, FirstCrumb, Fields, LastStore, Phases
<1>2. CASE report.seq # Unread
  BY <1>2 DEF Renumbered, CrumbInvariant, CrumbTypeOK, DropInv, Settled
<1> QED
  BY <1>1, <1>2

\* Types: seq only counts, and the loads are of numbers stored.
LEMMA CrumbTypeOKStep == CrumbInvariant /\ [Next]_vars => CrumbTypeOK'
<1> SUFFICES ASSUME CrumbInvariant, [Next]_vars PROVE CrumbTypeOK'
  OBVIOUS
<1> USE CmdAssumption DEF CrumbInvariant, CmdInvariant, vars, ringVars,
      uartVars, vmmVars, crumbVars, history, UStep, VStep, CrumbTypeOK
<1>1. CASE RunLine
  BY <1>1 DEF RunLine
<1>2. CASE RoomTest
  BY <1>2 DEF RoomTest
<1>3. CASE WriteEntry
  BY <1>3 DEF WriteEntry
<1>4. CASE PublishHead
  BY <1>4 DEF PublishHead
<1>5. CASE NotifyVmm
  BY <1>5 DEF NotifyVmm
<1>6. CASE SeeCompletion
  BY <1>6 DEF SeeCompletion
<1>7. CASE SeeNoCompletion
  BY <1>7 DEF SeeNoCompletion
<1>8. CASE TryAgain
  BY <1>8 DEF TryAgain
<1>9. CASE GiveUp
  BY <1>9 DEF GiveUp
<1>10. CASE ReadCrumb
  <2>1. CASE LoadSeq
    BY <2>1, LoadSeqIs
  <2>2. CASE LoadField
    BY <2>2, LoadFieldIs
  <2> QED
    BY <1>10, <2>1, <2>2 DEF ReadCrumb
<1>11. CASE EndReport
  BY <1>11 DEF EndReport, NoReport, Loaded
<1>12. CASE Notified
  BY <1>12, RenumberedIs DEF Notified, breadcrumb_enter
<1>13. CASE Fault
  BY <1>13, RenumberedIs DEF Fault, breadcrumb_enter
<1>14. CASE SetPhase
  <2>1. CASE StoreSeq
    BY <2>1, StoreSeqIs
  <2>2. CASE StoreField
    BY <2>2, StoreFieldIs
  <2> QED
    BY <1>14, <2>1, <2>2 DEF SetPhase
<1>15. CASE EndFault
  BY <1>15 DEF EndFault, breadcrumb_leave
<1>16. CASE LoopTest
  BY <1>16 DEF LoopTest
<1>17. CASE LoopEnd
  BY <1>17 DEF LoopEnd, breadcrumb_leave
<1>18. CASE RunCommand
  BY <1>18 DEF RunCommand
<1>19. CASE StoreCompleted
  BY <1>19 DEF StoreCompleted
<1>20. CASE AdvanceTail
  BY <1>20 DEF AdvanceTail
<1>21. CASE UNCHANGED vars
  BY <1>21
<1> QED
  BY <1>1, <1>2, <1>3, <1>4, <1>5, <1>6, <1>7, <1>8, <1>9, <1>10, <1>11,
     <1>12, <1>13, <1>14, <1>15, <1>16, <1>17, <1>18, <1>19, <1>20, <1>21
     DEF Next, Uartrx, Vmm

\* breadcrumb_enter and breadcrumb_leave alternate, and each sets the fields
\* it says before it counts seq.
LEMMA DropInvStep == CrumbInvariant /\ [Next]_vars => DropInv'
<1> SUFFICES ASSUME CrumbInvariant, [Next]_vars PROVE DropInv'
  OBVIOUS
<1> USE CmdAssumption DEF CrumbInvariant, CmdInvariant, vars, ringVars,
      uartVars, vmmVars, crumbVars, history, UStep, VStep, DropInv, Settled,
      PhaseOf
<1>1. CASE RunLine
  BY <1>1 DEF RunLine
<1>2. CASE RoomTest
  BY <1>2 DEF RoomTest
<1>3. CASE WriteEntry
  BY <1>3 DEF WriteEntry
<1>4. CASE PublishHead
  BY <1>4 DEF PublishHead
<1>5. CASE NotifyVmm
  BY <1>5 DEF NotifyVmm
<1>6. CASE SeeCompletion
  BY <1>6 DEF SeeCompletion
<1>7. CASE SeeNoCompletion
  BY <1>7 DEF SeeNoCompletion
<1>8. CASE TryAgain
  BY <1>8 DEF TryAgain
<1>9. CASE GiveUp
  BY <1>9 DEF GiveUp
<1>10. CASE ReadCrumb
  BY <1>10, LoadSeqIs, LoadFieldIs DEF ReadCrumb
<1>11. CASE EndReport
  BY <1>11 DEF EndReport
<1>12. CASE Notified
  <2>1. /\ vpc' = "enter" /\ vpc = "recv" /\ crumb' = Renumbered
        /\ dropping'.fields = Fields
    BY <1>12 DEF Notified, breadcrumb_enter
  <2>2. /\ crumb'.seq % 2 = 0
        /\ \A g \in Fields : crumb'[g] = LastStore(g, crumb'.seq)
    BY <2>1, RenumberedIs
  <2> QED
    BY <2>1, <2>2 DEF Fields
<1>13. CASE Fault
  <2>1. /\ vpc' = "enter" /\ vpc = "recv" /\ crumb' = Renumbered
        /\ dropping'.fields = Fields
    BY <1>13 DEF Fault, breadcrumb_enter
  <2>2. /\ crumb'.seq % 2 = 0
        /\ \A g \in Fields : crumb'[g] = LastStore(g, crumb'.seq)
    BY <2>1, RenumberedIs
  <2> QED
    BY <2>1, <2>2 DEF Fields
<1>14. CASE SetPhase
  <2>1. CASE StoreField /\ UNCHANGED vpc
    <3>1. PICK f \in dropping.fields :
            /\ f \in Fields
            /\ crumb'.seq = crumb.seq /\ crumb'[f] = crumb.seq + 1
            /\ \A g \in Fields \ {f} : crumb'[g] = crumb[g]
            /\ crumb'.is = IF f = "phase" THEN dropping.is ELSE crumb.is
            /\ dropping'.is = dropping.is
            /\ dropping'.fields = dropping.fields \ {f}
      BY <2>1, StoreFieldIs
    <3>2. crumb.seq \in Nat /\ vpc \in {"enter", "leave"} /\ vpc' = vpc
      BY <1>14, <2>1 DEF SetPhase, CrumbTypeOK
    <3>3. crumb'[f] = LastStore(f, crumb.seq + 1)
      <4>1. CASE vpc = "enter"
        BY <3>1, <3>2, <4>1, LastStoreFacts
      <4>2. CASE vpc = "leave"
        BY <3>1, <3>2, <4>2, LastStoreFacts
      <4> QED
        BY <3>2, <4>1, <4>2
    <3>4. \A g \in Fields :
            crumb'[g] = LastStore(g, IF g \in dropping'.fields
                                     THEN crumb.seq ELSE crumb.seq + 1)
      BY <3>1, <3>2, <3>3
    <3> QED
      BY <3>1, <3>2, <3>4
  <2>2. CASE /\ StoreSeq
             /\ vpc' = CASE dropping.is = "IDLE" -> "recv"
                         [] dropping.is = "FAULT" -> "fault"
                         [] dropping.is = "NOTIFIED" -> "test"
    <3>1. /\ dropping.fields = {} /\ crumb'.seq = crumb.seq + 1
          /\ \A g \in Fields : crumb'[g] = crumb[g]
          /\ crumb'.is = crumb.is /\ dropping' = dropping
      BY <2>2, StoreSeqIs
    <3>2. crumb.seq \in Nat /\ vpc \in {"enter", "leave"}
      BY <1>14 DEF SetPhase, CrumbTypeOK
    <3>3. /\ vpc = "enter" => vpc' \in {"fault", "test"}
          /\ vpc = "leave" => vpc' = "recv"
          /\ vpc' = "recv" => dropping.is = "IDLE"
          /\ vpc' = "fault" => dropping.is = "FAULT"
          /\ vpc' = "test" => dropping.is = "NOTIFIED"
      BY <2>2, <3>2 DEF PhaseInv
    <3>4. crumb'.is = PhaseOf'
      BY <3>1, <3>2, <3>3
    <3>5. crumb'.seq % 2 = (IF vpc' \in {"recv", "enter"} THEN 0 ELSE 1)
      BY <3>1, <3>2, <3>3
    <3>6. \A g \in Fields : crumb'[g] = LastStore(g, crumb'.seq)
      BY <3>1, <3>2
    <3> QED
      BY <3>2, <3>3, <3>4, <3>5, <3>6
  <2> QED
    BY <1>14, <2>1, <2>2 DEF SetPhase
<1>15. CASE EndFault
  <2>1. /\ vpc' = "leave" /\ vpc = "fault" /\ crumb' = crumb
        /\ dropping'.fields = {"phase", "since"}
    BY <1>15 DEF EndFault, breadcrumb_leave
  <2>2. crumb.seq \in Nat /\ crumb.seq % 2 = 1
    BY <2>1 DEF CrumbTypeOK
  <2>3. crumb["label"] = LastStore("label", crumb.seq + 1)
    BY <2>1, <2>2, LastStoreFacts DEF Fields
  <2>4. \A f \in {"phase", "since"} : crumb[f] = LastStore(f, crumb.seq)
    BY <2>1 DEF Fields
  <2> QED
    BY <2>1, <2>2, <2>3, <2>4 DEF Fields
<1>16. CASE LoopTest
  BY <1>16 DEF LoopTest
<1>17. CASE LoopEnd
  <2>1. /\ vpc' = "leave" /\ vpc = "test" /\ crumb' = crumb
        /\ dropping'.fields = {"phase", "since"}
    BY <1>17 DEF LoopEnd, breadcrumb_leave
  <2>2. crumb.seq \in Nat /\ crumb.seq % 2 = 1
    BY <2>1 DEF CrumbTypeOK
  <2>3. crumb["label"] = LastStore("label", crumb.seq + 1)
    BY <2>1, <2>2, LastStoreFacts DEF Fields
  <2>4. \A f \in {"phase", "since"} : crumb[f] = LastStore(f, crumb.seq)
    BY <2>1 DEF Fields
  <2> QED
    BY <2>1, <2>2, <2>3, <2>4 DEF Fields
<1>18. CASE RunCommand
  BY <1>18 DEF RunCommand
<1>19. CASE StoreCompleted
  BY <1>19 DEF StoreCompleted
<1>20. CASE AdvanceTail
  BY <1>20 DEF AdvanceTail
<1>21. CASE UNCHANGED vars
  BY <1>21
<1> QED
  BY <1>1, <1>2, <1>3, <1>4, <1>5, <1>6, <1>7, <1>8, <1>9, <1>10, <1>11,
     <1>12, <1>13, <1>14, <1>15, <1>16, <1>17, <1>18, <1>19, <1>20, <1>21
     DEF Next, Uartrx, Vmm

\* report_vmm_breadcrumb loads seq first, and the fields it loads afterwards
\* are stored before the VMM counts seq on.
LEMMA ReportInvStep == CrumbInvariant /\ [Next]_vars => ReportInv'
<1> SUFFICES ASSUME CrumbInvariant, [Next]_vars PROVE ReportInv'
  OBVIOUS
<1> USE CmdAssumption DEF CrumbInvariant, CmdInvariant, vars, ringVars,
      uartVars, vmmVars, crumbVars, history, UStep, VStep, ReportInv, Settled
<1>1. CASE RunLine
  BY <1>1 DEF RunLine
<1>2. CASE RoomTest
  BY <1>2 DEF RoomTest
<1>3. CASE WriteEntry
  BY <1>3 DEF WriteEntry
<1>4. CASE PublishHead
  BY <1>4 DEF PublishHead
<1>5. CASE NotifyVmm
  BY <1>5 DEF NotifyVmm
<1>6. CASE SeeCompletion
  BY <1>6 DEF SeeCompletion
<1>7. CASE SeeNoCompletion
  BY <1>7 DEF SeeNoCompletion
<1>8. CASE TryAgain
  BY <1>8 DEF TryAgain
<1>9. CASE GiveUp
  BY <1>9 DEF GiveUp
<1>10. CASE ReadCrumb
  <2>1. CASE LoadSeq
    <3>1. /\ report.seq = Unread /\ report'.seq = crumb.seq
          /\ \A g \in Fields : report'[g] = report[g]
          /\ crumb' = crumb /\ vpc' = vpc /\ upc' = "report"
      BY <1>10, <2>1, LoadSeqIs DEF ReadCrumb
    <3>2. \A g \in Fields : report'[g] = Unread
      BY <3>1
    <3>3. crumb.seq \in Nat
      BY DEF CrumbTypeOK
    <3> QED
      BY <3>1, <3>2, <3>3 DEF Fields
  <2>2. CASE LoadField
    <3>1. PICK f \in Fields :
            /\ report[f] = Unread
            /\ report'[f] = crumb[f] /\ report'.seq = report.seq
            /\ \A g \in Fields \ {f} : report'[g] = report[g]
            /\ report'.is = IF f = "phase" THEN crumb.is ELSE report.is
            /\ report.seq # Unread
      BY <2>2, LoadFieldIs
    <3>2. crumb' = crumb /\ vpc' = vpc /\ upc' = "report"
      BY <1>10, <2>2 DEF ReadCrumb, LoadField
    <3>3. crumb.seq \in Nat /\ report.seq \in Nat /\ report.seq <= crumb.seq
      BY <3>1 DEF CrumbTypeOK, Loaded
    <3>4. crumb[f] >= LastStore(f, report.seq)
      <4>1. crumb[f] = LastStore(f, crumb.seq) \/ crumb[f] = LastStore(f, crumb.seq + 1)
        BY DEF DropInv
      <4>2. /\ LastStore(f, report.seq) <= LastStore(f, crumb.seq)
            /\ LastStore(f, report.seq) <= LastStore(f, crumb.seq + 1)
            /\ LastStore(f, report.seq) \in Nat /\ LastStore(f, crumb.seq) \in Nat
            /\ LastStore(f, crumb.seq + 1) \in Nat
        BY <3>3, LastStoreFacts
      <4> QED
        BY <4>1, <4>2
    <3>5. \A g \in Fields : report'[g] # Unread =>
            /\ report'[g] >= LastStore(g, report.seq)
            /\ Settled /\ crumb.seq = report.seq => report'[g] = crumb[g]
      BY <3>1, <3>4
    <3>6. Settled /\ crumb.seq = report.seq /\ report'["phase"] # Unread =>
            report'.is = crumb.is
      BY <3>1 DEF Fields
    <3> QED
      BY <3>1, <3>2, <3>3, <3>5, <3>6
  <2> QED
    BY <1>10, <2>1, <2>2 DEF ReadCrumb
<1>11. CASE EndReport
  <2>1. report' = NoReport /\ crumb' = crumb /\ upc' = "ready"
    BY <1>11 DEF EndReport
  <2>2. crumb.seq \in Nat
    BY DEF CrumbTypeOK
  <2> QED
    BY <2>1, <2>2 DEF NoReport, Unread, Fields
<1>12. CASE Notified
  <2>1. /\ vpc' = "enter" /\ vpc = "recv" /\ crumb' = Renumbered
        /\ report' = report /\ upc' = upc
    BY <1>12 DEF Notified, breadcrumb_enter
  <2>2. crumb'.seq \in Nat /\ (report.seq # Unread => crumb' = crumb)
    BY <2>1, RenumberedIs
  <2>3. CASE report.seq = Unread
    BY <2>1, <2>2, <2>3 DEF Unread
  <2>4. CASE report.seq # Unread
    BY <2>1, <2>2, <2>4
  <2> QED
    BY <2>3, <2>4
<1>13. CASE Fault
  <2>1. /\ vpc' = "enter" /\ vpc = "recv" /\ crumb' = Renumbered
        /\ report' = report /\ upc' = upc
    BY <1>13 DEF Fault, breadcrumb_enter
  <2>2. crumb'.seq \in Nat /\ (report.seq # Unread => crumb' = crumb)
    BY <2>1, RenumberedIs
  <2>3. CASE report.seq = Unread
    BY <2>1, <2>2, <2>3 DEF Unread
  <2>4. CASE report.seq # Unread
    BY <2>1, <2>2, <2>4
  <2> QED
    BY <2>3, <2>4
<1>14. CASE SetPhase
  <2>1. CASE StoreField /\ UNCHANGED vpc
    <3>1. crumb'.seq = crumb.seq /\ report' = report
      BY <2>1, StoreFieldIs
    <3> QED
      BY <1>14, <2>1, <3>1 DEF SetPhase
  <2>2. CASE StoreSeq
    <3>1. crumb'.seq = crumb.seq + 1 /\ report' = report /\ upc' = upc
      BY <1>14, <2>2, StoreSeqIs DEF SetPhase
    <3>2. crumb.seq \in Nat /\ report.seq \in Int
      BY DEF CrumbTypeOK, Loaded, Unread
    <3>3. report.seq <= crumb'.seq /\ report.seq # crumb'.seq
      BY <3>1, <3>2
    <3> QED
      BY <3>1, <3>3
  <2> QED
    BY <1>14, <2>1, <2>2 DEF SetPhase
<1>15. CASE EndFault
  <2>1. vpc' = "leave" /\ crumb' = crumb /\ report' = report /\ upc' = upc
    BY <1>15 DEF EndFault
  <2> QED
    BY <2>1
<1>16. CASE LoopTest
  BY <1>16 DEF LoopTest
<1>17. CASE LoopEnd
  <2>1. vpc' = "leave" /\ crumb' = crumb /\ report' = report /\ upc' = upc
    BY <1>17 DEF LoopEnd
  <2> QED
    BY <2>1
<1>18. CASE RunCommand
  BY <1>18 DEF RunCommand
<1>19. CASE StoreCompleted
  BY <1>19 DEF StoreCompleted
<1>20. CASE AdvanceTail
  BY <1>20 DEF AdvanceTail
<1>21. CASE UNCHANGED vars
  BY <1>21
<1> QED
  BY <1>1, <1>2, <1>3, <1>4, <1>5, <1>6, <1>7, <1>8, <1>9, <1>10, <1>11,
     <1>12, <1>13, <1>14, <1>15, <1>16, <1>17, <1>18, <1>19, <1>20, <1>21
     DEF Next, Uartrx, Vmm

\* CrumbInvariant holds in every reachable state of the command channel and
\* its breadcrumb (vmm/breadcrumb.c against report_vmm_breadcrumb, uartrx.c).
THEOREM CrumbInvariantHolds == Spec => []CrumbInvariant
<1>1. Init => CrumbInvariant
  <2> SUFFICES ASSUME Init PROVE CrumbInvariant
    OBVIOUS
  <2>1. /\ vpc = "recv" /\ upc = "ready" /\ report = NoReport
        /\ crumb = [seq |-> 0, phase |-> 0, since |-> 0, label |-> 0,
                    is |-> "IDLE"]
    BY DEF Init, CrumbInit, FirstCrumb
  <2>2. CrumbTypeOK
    BY <2>1 DEF CrumbTypeOK, NoReport, Loaded, Phases
  <2>3. DropInv
    BY <2>1 DEF DropInv, Settled, PhaseOf, Fields, LastStore
  <2>4. ReportInv
    BY <2>1 DEF ReportInv, NoReport, Unread, Fields
  <2> QED
    BY <2>2, <2>3, <2>4, CmdInit DEF CrumbInvariant
<1>2. CrumbInvariant /\ [Next]_vars => CrumbInvariant'
  BY CmdStep, CrumbTypeOKStep, DropInvStep, ReportInvStep DEF CrumbInvariant
<1> QED
  BY <1>1, <1>2, PTL DEF Spec

\* What the time-out report says is about the event it names: no field is
\* older than the seq printed with it, and if the VMM has not moved since, the
\* phase and every field are those of what it hangs in.
THEOREM BreadcrumbIsTrue == Spec => []CrumbTrue
<1>1. CrumbInvariant => CrumbTrue
  <2> SUFFICES ASSUME CrumbInvariant, ReportDone
               PROVE  /\ \A f \in Fields : report[f] >= LastStore(f, report.seq)
                      /\ crumb.seq = report.seq /\ Settled =>
                           /\ report.is = PhaseOf
                           /\ \A f \in Fields :
                                report[f] = LastStore(f, report.seq)
    BY DEF CrumbTrue, Settled
  <2>1. \A f \in Fields : report[f] # Unread
    BY DEF ReportDone
  <2>2. \A f \in Fields : report[f] >= LastStore(f, report.seq)
    BY <2>1 DEF CrumbInvariant, ReportInv
  <2>3. ASSUME crumb.seq = report.seq, Settled
        PROVE  /\ report.is = PhaseOf
               /\ \A f \in Fields : report[f] = LastStore(f, report.seq)
    <3>1. crumb.is = PhaseOf /\ \A f \in Fields : crumb[f] = LastStore(f, crumb.seq)
      BY <2>3 DEF CrumbInvariant, DropInv
    <3>2. \A f \in Fields : report[f] = crumb[f]
      BY <2>1, <2>3 DEF CrumbInvariant, ReportInv
    <3>3. report.phase # Unread
      BY <2>1 DEF Fields
    <3>4. report.is = crumb.is
      BY <2>3, <3>3 DEF CrumbInvariant, ReportInv
    <3> QED
      BY <2>3, <3>1, <3>2, <3>4
  <2> QED
    BY <2>2, <2>3
<1> QED
  BY CrumbInvariantHolds, <1>1, PTL
=============================================================================
