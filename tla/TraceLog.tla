------------------------------ MODULE TraceLog ------------------------------
(***************************************************************************)
(* What the trace promises, independently of the shared ring:              *)
(* docs/trace-format.md, "Transport", "Record" and "Guarantees and         *)
(* limits".  Records enter a bounded queue, numbered without gaps and      *)
(* stamped with a clock that never runs backwards; they leave it in the    *)
(* same order for an archive whose contents never change, and once the     *)
(* archive is full they are counted instead of stored.                     *)
(***************************************************************************)
EXTENDS Integers, Sequences

CONSTANTS
  Producers,        \* who calls trace_emit
  RingCapacity,     \* records that may wait to be archived
  ArchiveCapacity   \* records the archive holds

VARIABLES
  queue,            \* published, not yet archived
  archive,          \* archived, oldest first
  not_archived,     \* records counted because the archive was full
  clock,            \* the system counter
  issued            \* records published so far, per producer

vars == <<queue, archive, not_archived, clock, issued>>

Init ==
  /\ queue = <<>>
  /\ archive = <<>>
  /\ not_archived = 0
  /\ clock = 0
  /\ issued = [p \in Producers |-> 0]

Tick ==
  /\ clock' \in Nat
  /\ clock' > clock
  /\ UNCHANGED <<queue, archive, not_archived, issued>>

\* The next record: numbered by everything published before it.
Publish(p) ==
  /\ Len(queue) < RingCapacity
  /\ queue' = Append(queue,
                [seq      |-> Len(archive) + not_archived + Len(queue),
                 time     |-> clock,
                 producer |-> p,
                 call     |-> issued[p] + 1])
  /\ issued' = [issued EXCEPT ![p] = @ + 1]
  /\ UNCHANGED <<archive, not_archived, clock>>

Store ==
  /\ queue # <<>>
  /\ Len(archive) < ArchiveCapacity
  /\ archive' = Append(archive, Head(queue))
  /\ queue' = Tail(queue)
  /\ UNCHANGED <<not_archived, clock, issued>>

Count ==
  /\ queue # <<>>
  /\ Len(archive) = ArchiveCapacity
  /\ not_archived' = not_archived + 1
  /\ queue' = Tail(queue)
  /\ UNCHANGED <<archive, clock, issued>>

Next == Tick \/ (\E p \in Producers : Publish(p)) \/ Store \/ Count

Spec == Init /\ [][Next]_vars
=============================================================================
