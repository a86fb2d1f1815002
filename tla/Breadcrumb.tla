----------------------------- MODULE Breadcrumb -----------------------------
(***************************************************************************)
(* The VMM's breadcrumb (vmm/breadcrumb.c): what it is doing and since     *)
(* when, written into the command ring's page for uartrx to read when the  *)
(* VMM does not answer (report_vmm_breadcrumb, uartrx/uartrx.c).           *)
(*                                                                         *)
(* A field is represented by the number of the crumb that stored it; label *)
(* stands for label, mr0 and mr1.  Stores and loads are relaxed, so they   *)
(* may take effect in any order, but no store after the increment of seq   *)
(* that releases them and no load before the load of seq that acquires.    *)
(* Crumbs are only compared with what a report holds, so while nobody      *)
(* reads they are counted from 0 again (Renumbered), which keeps a VMM     *)
(* that goes on for ever in finitely many states and models no code.       *)
(***************************************************************************)
EXTENDS Integers

VARIABLES
  crumb,   \* struct vmm_breadcrumb; "is" is the phase's value
  dropping, \* the VMM: the phase being set, and its fields not stored yet
  report   \* uartrx: the fields loaded so far, Unread before

Fields == {"phase", "since", "label"}
Unread == -1
NoReport == [seq |-> Unread, phase |-> Unread, since |-> Unread,
             label |-> Unread, is |-> "none"]

\* The crumb of a VMM in its event loop, numbered from 0.
FirstCrumb == [seq |-> 0, phase |-> 0, since |-> 0, label |-> 0, is |-> "IDLE"]

CrumbInit ==
  /\ crumb = FirstCrumb
  /\ dropping = [is |-> "IDLE", fields |-> {}]
  /\ report = NoReport

Renumbered == IF report.seq = Unread THEN FirstCrumb ELSE crumb

\* out of the event loop
breadcrumb_enter(phase) ==
  /\ crumb' = Renumbered
  /\ dropping' = [is |-> phase, fields |-> Fields]

\* Mutant: the phase stays.
breadcrumb_leave_KeepsPhase == dropping' = [is |-> "IDLE", fields |-> {"since"}]

breadcrumb_leave == dropping' = [is |-> "IDLE", fields |-> {"phase", "since"}]

\* set_phase(), with the stores of breadcrumb_enter() before it: the fields in
\* any order ...
StoreField ==
  /\ \E f \in dropping.fields :
       /\ crumb' = [crumb EXCEPT ![f] = crumb.seq + 1,
                                 !.is = IF f = "phase" THEN dropping.is ELSE @]
       /\ dropping' = [dropping EXCEPT !.fields = @ \ {f}]
  /\ UNCHANGED report

\* ... then seq.
StoreSeq ==
  /\ dropping.fields = {}
  /\ crumb' = [crumb EXCEPT !.seq = @ + 1]
  /\ UNCHANGED <<dropping, report>>

\* report_vmm_breadcrumb(): seq first ...
LoadSeq ==
  /\ report.seq = Unread
  /\ report' = [report EXCEPT !.seq = crumb.seq]
  /\ UNCHANGED <<crumb, dropping>>

\* ... then the rest.
LoadField ==
  /\ report.seq # Unread
  /\ \E f \in Fields :
       /\ report[f] = Unread
       /\ report' = [report EXCEPT ![f] = crumb[f],
                                   !.is = IF f = "phase" THEN crumb.is ELSE @]
  /\ UNCHANGED <<crumb, dropping>>

ReportDone == \A f \in Fields \cup {"seq"} : report[f] # Unread

\* The crumb that last stored f among the first n: entering a phase stores
\* all fields, leaving it all but the label, and the two alternate.
LastStore(f, n) == IF f = "label" /\ n > 0 /\ n % 2 = 0 THEN n - 1 ELSE n
=============================================================================
