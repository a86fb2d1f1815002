------------------------- MODULE GuestControlProofs -------------------------
(***************************************************************************)
(* Proofs about GuestControl, for any number of vCPUs, any build, any set  *)
(* of commands and of exits, and any bounds.                               *)
(*                                                                         *)
(* The invariant is in four parts: what the VMM believes of the guest is   *)
(* what the kernel has (VcpuInv), a handler emits only the records its     *)
(* place allows (EmitInv), the trace's last GUEST record is the last thing *)
(* that happened to the guest (ToldInv), and an UNHANDLED record is last   *)
(* only while the VMM is about to record the stop (UnhandledInv).  On it   *)
(* rest GroupInv, about the records of an SMC, and CountInv, about the     *)
(* statistics of the run.                                                  *)
(***************************************************************************)
EXTENDS GuestControl, FiniteSetTheorems, SequenceTheorems, TLAPS

States == {"NOT_STARTED", "START_FAILED", "RUNNING", "STOPPED_BY_COMMAND",
           "STOPPED_BY_FAULT"}
Stopped == {"STOPPED_BY_COMMAND", "STOPPED_BY_FAULT"}
Events == Stopped \cup {"STARTED"}
Verbs == {"start", "stop", "status", "regs"}
Flags == {"EMULATED", "FORWARDED", "UNHANDLED"}
Fids == {f.fid : f \in {g \in Faults : IsSmc(g)}}

\* What the handlers of a guest exit record of the vCPUs V, and all records.
ExitRecords(V) ==
  [kind : {"SMC_ENTER"}, vcpu : V, fid : Fids]
  \cup [kind : {"SMC_REGS"}, vcpu : V, first : Nat, dir : {"in", "out"}]
  \cup [kind : {"SMC_EXIT", "MMIO"}, vcpu : V, flag : Flags]
CmdRecords == [kind : {"CMD"}, verb : Verbs]
GuestRecords == [kind : {"GUEST"}, event : Events, run : Nat, vcpu : Vcpus]
Records == CmdRecords \cup GuestRecords \cup ExitRecords(Vcpus)

\* The guest, the handler and the trace are well typed.
TypeOK ==
  /\ state \in States /\ run \in Nat /\ run_vcpu \in Vcpus /\ cur \in Vcpus
  /\ vcpu \in [Vcpus -> {"off", "running", "faulted"}]
  /\ exit \in [Vcpus -> Faults \cup {NoExit}]
  /\ vpc \in {"idle", "start", "resume", "stop", "return"}
  /\ sending \in Seq(Commands) /\ cmds \in Seq(Commands)
  /\ trace \in Seq(Records) /\ emitting \in Seq(Records)

\* Only the vCPU of the run that is RUNNING is alive; a handler of its exit
\* runs while it waits, and a vCPU that waits has an exit.
VcpuInv ==
  /\ OneGuest
  /\ vpc \in {"start", "return"} => state # "RUNNING"
  /\ vpc \in {"resume", "stop"} =>
       state = "RUNNING" /\ cur = run_vcpu /\ vcpu[cur] = "faulted"
  /\ \A v \in Vcpus : vcpu[v] = "faulted" => exit[v] \in Faults

\* What is still to be emitted: the start or the end of the run, or records of
\* the exit that is handled, of which only the last may be UNHANDLED, and only
\* if the guest is to be stopped.
EmitInv ==
  /\ vpc = "idle" => emitting = <<>>
  /\ vpc = "start" => emitting \in {<<>>, GuestEvent("STARTED", run, run_vcpu)}
  /\ vpc \in {"resume", "stop"} =>
       /\ emitting \in Seq(ExitRecords({cur}))
       /\ \A i \in 1 .. (Len(emitting) - 1) : ~IsUnhandled(emitting[i])
  /\ vpc = "resume" => \A i \in 1 .. Len(emitting) : ~IsUnhandled(emitting[i])
  /\ vpc = "return" =>
       state \in Stopped /\ emitting \in {<<>>, GuestEvent(state, run, run_vcpu)}

\* The run of the trace's last GUEST record is r, which is 0 if there is none.
LastRun(r) ==
  \/ NoGuest(trace, Len(trace)) /\ r = 0
  \/ \E j \in 1 .. Len(trace) :
       LastGuest(trace, Len(trace), j) /\ trace[j].run = r

\* The record of a start, or of a stop, is still to be emitted.
Starting == vpc = "start" /\ emitting # <<>>
Stopping == vpc = "return" /\ emitting # <<>>

ToldInv ==
  /\ LastRun(IF Starting THEN run - 1 ELSE run)
  /\ state = "RUNNING" \/ (vpc = "start" /\ ~Starting) \/ Stopping =>
       Told("STARTED")
  /\ state \in Stopped /\ vpc # "start" /\ ~Stopping => Told(state)
  /\ state = "NOT_STARTED" /\ vpc # "start" => NoGuest(trace, Len(trace))

\* The VMM's last record is UNHANDLED only until STOPPED_BY_FAULT is emitted.
UnhandledLast(s) ==
  \E i \in 1 .. Len(s) :
    IsUnhandled(s[i]) /\ \A k \in (i + 1) .. Len(s) : ~IsVmm(s[k])
UnhandledInv ==
  UnhandledLast(trace) => \/ vpc = "stop" /\ emitting = <<>>
                          \/ Stopping /\ state = "STOPPED_BY_FAULT"

GuestInvariant ==
  /\ TypeOK /\ VcpuInv /\ EmitInv /\ ToldInv /\ UnhandledInv
  /\ RecordsInsideRun /\ RunsNumbered /\ UnhandledStopsGuest
-----------------------------------------------------------------------------
(* What the handlers of an exit record *)

\* Records of vCPU v, none of which is UNHANDLED; and records of which only
\* the last may be.
NoneUnhandled(v, s) ==
  /\ s \in Seq(ExitRecords({v}))
  /\ \A i \in 1 .. Len(s) : ~IsUnhandled(s[i])
LastUnhandled(v, s) ==
  /\ s \in Seq(ExitRecords({v}))
  /\ \A i \in 1 .. (Len(s) - 1) : ~IsUnhandled(s[i])

\* Concatenation.
LEMMA ConcatIs ==
  ASSUME NEW S, NEW s \in Seq(S), NEW t \in Seq(S)
  PROVE  /\ s \o t \in Seq(S) /\ Len(s \o t) = Len(s) + Len(t)
         /\ \A i \in 1 .. (Len(s) + Len(t)) :
              (s \o t)[i] = IF i <= Len(s) THEN s[i] ELSE t[i - Len(s)]
  OBVIOUS

\* Two runs of records without UNHANDLED make one.
LEMMA ConcatNone ==
  ASSUME NEW v, NEW s, NEW t, NoneUnhandled(v, s), NoneUnhandled(v, t)
  PROVE  NoneUnhandled(v, s \o t)
<1> DEFINE S == ExitRecords({v})
<1>1. s \in Seq(S) /\ t \in Seq(S) /\ Len(s) \in Nat /\ Len(t) \in Nat
  BY DEF NoneUnhandled
<1> HIDE DEF S
<1>2. /\ s \o t \in Seq(S) /\ Len(s \o t) = Len(s) + Len(t)
      /\ \A i \in 1 .. (Len(s) + Len(t)) :
           (s \o t)[i] = IF i <= Len(s) THEN s[i] ELSE t[i - Len(s)]
  BY <1>1, ConcatIs
<1>3. ASSUME NEW i \in 1 .. Len(s \o t) PROVE ~IsUnhandled((s \o t)[i])
  <2>1. CASE i <= Len(s)
    BY <1>1, <1>2, <2>1 DEF NoneUnhandled
  <2>2. CASE ~(i <= Len(s))
    <3>1. i - Len(s) \in 1 .. Len(t) /\ (s \o t)[i] = t[i - Len(s)]
      BY <1>1, <1>2, <2>2
    <3> QED
      BY <3>1 DEF NoneUnhandled
  <2> QED
    BY <2>1, <2>2
<1> QED
  BY <1>2, <1>3 DEF NoneUnhandled, S

\* One more record, UNHANDLED or not.
LEMMA ConcatLast ==
  ASSUME NEW v, NEW s, NEW r \in ExitRecords({v}), NoneUnhandled(v, s)
  PROVE  LastUnhandled(v, s \o <<r>>)
<1> DEFINE S == ExitRecords({v})
           t == <<r>>
<1>1. t \in Seq(S) /\ Len(t) = 1
  OBVIOUS
<1>2. s \in Seq(S) /\ Len(s) \in Nat
  BY DEF NoneUnhandled
<1> HIDE DEF S, t
<1>3. /\ s \o t \in Seq(S) /\ Len(s \o t) = Len(s) + 1
      /\ \A i \in 1 .. Len(s) : (s \o t)[i] = s[i]
  BY <1>1, <1>2, ConcatIs
<1> QED
  BY <1>2, <1>3 DEF NoneUnhandled, LastUnhandled, S, t

\* A single record.
LEMMA OneRecord ==
  ASSUME NEW v, NEW r \in ExitRecords({v})
  PROVE  /\ LastUnhandled(v, <<r>>)
         /\ ~IsUnhandled(r) => NoneUnhandled(v, <<r>>)
  BY DEF LastUnhandled, NoneUnhandled

\* No record at all, as for a fault that is not traced.
LEMMA NoRecord ==
  ASSUME NEW v
  PROVE  NoneUnhandled(v, <<>>) /\ LastUnhandled(v, <<>>)
  BY DEF LastUnhandled, NoneUnhandled

\* Where no record is UNHANDLED, none but the last is.
LEMMA NoneIsLast ==
  ASSUME NEW v, NEW s, NoneUnhandled(v, s)
  PROVE  LastUnhandled(v, s)
  BY DEF LastUnhandled, NoneUnhandled

\* smc_trace.c: three pairs of registers, and what is around them.
LEMMA SmcRecords ==
  ASSUME NEW v, NEW fid \in Fids, NEW flag \in {"EMULATED", "FORWARDED"}
  PROVE  /\ NoneUnhandled(v, smc_trace_enter(v, fid))
         /\ NoneUnhandled(v, smc_trace_exit(v, flag))
         /\ \A s : NoneUnhandled(v, s) =>
                     LastUnhandled(v, s \o smc_trace_unhandled(v))
<1>1. ASSUME NEW dir \in {"in", "out"} PROVE NoneUnhandled(v, smc_trace_regs(v, dir))
  <2> DEFINE r(i) == [kind |-> "SMC_REGS", vcpu |-> v, first |-> 2 * i, dir |-> dir]
  <2>1. \A i \in 1 .. 3 : r(i) \in ExitRecords({v}) /\ ~IsUnhandled(r(i))
    BY <1>1 DEF ExitRecords, IsUnhandled
  <2>2. smc_trace_regs(v, dir) = [i \in 1 .. 3 |-> r(i)]
    BY DEF smc_trace_regs
  <2> HIDE DEF r
  <2>3. [i \in 1 .. 3 |-> r(i)] \in Seq(ExitRecords({v}))
    BY <2>1
  <2>4. Len([i \in 1 .. 3 |-> r(i)]) = 3
    OBVIOUS
  <2> QED
    BY <2>1, <2>2, <2>3, <2>4 DEF NoneUnhandled
<1> DEFINE enter == [kind |-> "SMC_ENTER", vcpu |-> v, fid |-> fid]
           done == [kind |-> "SMC_EXIT", vcpu |-> v, flag |-> flag]
           unhandled == [kind |-> "SMC_EXIT", vcpu |-> v, flag |-> "UNHANDLED"]
<1>2. enter \in ExitRecords({v}) /\ ~IsUnhandled(enter)
  BY DEF ExitRecords, IsUnhandled
<1>3. done \in ExitRecords({v}) /\ ~IsUnhandled(done)
  BY DEF ExitRecords, IsUnhandled, Flags
<1>4. unhandled \in ExitRecords({v})
  BY DEF ExitRecords, Flags
<1> HIDE DEF enter, done, unhandled
<1>5. NoneUnhandled(v, <<enter>> \o smc_trace_regs(v, "in"))
  BY <1>1, <1>2, OneRecord, ConcatNone
<1>6. NoneUnhandled(v, <<done>> \o smc_trace_regs(v, "out"))
  BY <1>1, <1>3, OneRecord, ConcatNone
<1>7. ASSUME NEW s, NoneUnhandled(v, s) PROVE LastUnhandled(v, s \o <<unhandled>>)
  BY <1>4, <1>7, ConcatLast
<1> QED
  BY <1>5, <1>6, <1>7
     DEF smc_trace_enter, smc_trace_exit, smc_trace_unhandled, enter, done,
         unhandled

\* What may come of an exit: its records are of its vCPU, and only the last
\* one may be UNHANDLED, and only if the guest may not go on.
OutcomeOK(v, o) ==
  LastUnhandled(v, o.records) /\ (o.handled => NoneUnhandled(v, o.records))

\* What a handler returns is such an outcome when its records are.
LEMMA OutcomeIs ==
  ASSUME NEW v, NEW s
  PROVE  /\ NoneUnhandled(v, s) => OutcomeOK(v, Handled(s))
         /\ LastUnhandled(v, s) => OutcomeOK(v, NotHandled(s))
  BY NoneIsLast DEF OutcomeOK, Handled, NotHandled

\* smc_policy_handle(): refused, emulated, forwarded or not finished.
LEMMA SmcOutcomes ==
  ASSUME NEW v, NEW fid \in Fids, NEW o \in smc_policy_handle(v, fid)
  PROVE  OutcomeOK(v, o)
<1> DEFINE enter == smc_trace_enter(v, fid)
           refused == NotHandled(enter \o smc_trace_unhandled(v))
           emulated == Handled(enter \o smc_trace_exit(v, "EMULATED"))
           forwarded == enter \o smc_trace_exit(v, "FORWARDED")
           unfinished == NotHandled(forwarded \o smc_trace_unhandled(v))
<1>1. o \in {NotHandled(<<>>), refused, emulated, Handled(forwarded), unfinished}
  BY DEF smc_policy_handle, smc_policy
<1> HIDE DEF enter
<1>2. NoneUnhandled(v, enter)
  BY SmcRecords DEF enter
<1>3. OutcomeOK(v, NotHandled(<<>>))
  BY NoRecord, OutcomeIs
<1>4. OutcomeOK(v, refused)
  BY <1>2, SmcRecords, OutcomeIs
<1>5. OutcomeOK(v, emulated)
  BY <1>2, SmcRecords, ConcatNone, OutcomeIs
<1>6. NoneUnhandled(v, forwarded)
  BY <1>2, SmcRecords, ConcatNone
<1> HIDE DEF forwarded, refused, emulated
<1>7. OutcomeOK(v, Handled(forwarded)) /\ OutcomeOK(v, unfinished)
  BY <1>6, SmcRecords, OutcomeIs
<1> QED
  BY <1>1, <1>3, <1>4, <1>5, <1>7

\* memory_handle(): emulated or forwarded, or reported UNHANDLED.
LEMMA MemoryOutcomes ==
  ASSUME NEW v, NEW f, NEW o \in memory_handle(v, f)
  PROVE  OutcomeOK(v, o)
<1> DEFINE rec(flag) == [kind |-> "MMIO", vcpu |-> v, flag |-> flag]
           unhandled == mmio_trace(v, "UNHANDLED")
<1>1. \A flag : mmio_trace(v, flag) = <<rec(flag)>>
  BY DEF mmio_trace
<1>2. \A flag \in Flags : rec(flag) \in ExitRecords({v})
  BY DEF ExitRecords
<1>3. \A flag \in {"EMULATED", "FORWARDED"} : flag \in Flags /\ ~IsUnhandled(rec(flag))
  BY DEF IsUnhandled, Flags
<1>4. "UNHANDLED" \in Flags
  BY DEF Flags
<1> HIDE DEF rec
<1>5. \A flag \in {"EMULATED", "FORWARDED"} : NoneUnhandled(v, mmio_trace(v, flag))
  BY <1>1, <1>2, <1>3, OneRecord
<1>6. LastUnhandled(v, unhandled)
  BY <1>1, <1>2, <1>4, OneRecord
<1>7. \A s : NoneUnhandled(v, s) => LastUnhandled(v, s \o unhandled)
  BY <1>1, <1>2, <1>4, ConcatLast
<1> HIDE DEF unhandled
<1>8. \/ o = NotHandled(unhandled)
      \/ \E s : NoneUnhandled(v, s)
                /\ o \in {Handled(s), NotHandled(s \o unhandled)}
  <2>1. \/ o \in {NotHandled(unhandled)}
        \/ \E flag \in {"EMULATED", "FORWARDED"} :
             o \in {Handled(mmio_trace(v, flag)),
                    NotHandled(mmio_trace(v, flag) \o unhandled)}
        \/ o \in {Handled(<<>>), NotHandled(<<>> \o unhandled)}
    BY DEF memory_handle, unhandled
  <2> QED
    BY <1>5, <2>1, NoRecord
<1> QED
  BY <1>6, <1>7, <1>8, OutcomeIs

\* handle_fault(): any exit of the guest.
LEMMA FaultOutcomes ==
  ASSUME NEW v, NEW f \in Faults, NEW o \in handle_fault(v, f)
  PROVE  OutcomeOK(v, o)
<1>1. CASE IsSmc(f)
  <2>1. f.fid \in Fids
    BY <1>1 DEF Fids
  <2> QED
    BY <1>1, <2>1, SmcOutcomes DEF handle_fault
<1>2. CASE ~IsSmc(f) /\ f.label = "VMFault"
  BY <1>2, MemoryOutcomes DEF handle_fault
<1>3. CASE ~IsSmc(f) /\ f.label # "VMFault"
  <2>1. o \in {Handled(<<>>), NotHandled(<<>>)}
    BY <1>3 DEF handle_fault
  <2> QED
    BY <2>1, NoRecord, OutcomeIs
<1> QED
  BY <1>1, <1>2, <1>3
-----------------------------------------------------------------------------
(* A trace that grows *)

\* The last GUEST record before and after one more record.
LEMMA GrownTrace ==
  ASSUME NEW S, NEW s \in Seq(S), NEW r \in S
  PROVE  LET t == Append(s, r)
             L == Len(s)
         IN  /\ \A n \in 0 .. L : \A j :
                  LastGuest(t, n, j) <=> LastGuest(s, n, j)
             /\ \A n \in 0 .. L : NoGuest(t, n) <=> NoGuest(s, n)
             /\ ~IsGuest(r) =>
                  /\ \A j : LastGuest(s, L, j) => LastGuest(t, L + 1, j)
                  /\ NoGuest(s, L) => NoGuest(t, L + 1)
             /\ IsGuest(r) => LastGuest(t, L + 1, L + 1)
<1> DEFINE t == Append(s, r)
           L == Len(s)
<1>1. L \in Nat /\ t \in Seq(S) /\ Len(t) = L + 1
  BY AppendProperties
<1>2. (\A i \in 1 .. L : t[i] = s[i]) /\ t[L + 1] = r
  BY AppendProperties
<1> HIDE DEF t, L
<1>3. \A n \in 0 .. L : \A j : LastGuest(t, n, j) <=> LastGuest(s, n, j)
  BY <1>1, <1>2 DEF LastGuest
<1>4. \A n \in 0 .. L : NoGuest(t, n) <=> NoGuest(s, n)
  BY <1>1, <1>2 DEF NoGuest
<1>5. ASSUME ~IsGuest(r), NEW j, LastGuest(s, L, j) PROVE LastGuest(t, L + 1, j)
  <2>1. j \in 1 .. (L + 1) /\ IsGuest(t[j])
    BY <1>1, <1>2, <1>5 DEF LastGuest
  <2>2. ASSUME NEW k \in (j + 1) .. (L + 1) PROVE ~IsGuest(t[k])
    <3>1. CASE k = L + 1
      BY <1>2, <1>5, <3>1
    <3>2. CASE k # L + 1
      <4>1. k \in (j + 1) .. L /\ k \in 1 .. L
        BY <1>1, <2>1, <3>2
      <4> QED
        BY <1>2, <1>5, <4>1 DEF LastGuest
    <3> QED
      BY <3>1, <3>2
  <2> QED
    BY <2>1, <2>2 DEF LastGuest
<1>6. ASSUME ~IsGuest(r), NoGuest(s, L) PROVE NoGuest(t, L + 1)
  <2> SUFFICES ASSUME NEW k \in 1 .. (L + 1) PROVE ~IsGuest(t[k])
    BY DEF NoGuest
  <2>1. k = L + 1 \/ k \in 1 .. L
    BY <1>1
  <2> QED
    BY <1>2, <1>6, <2>1 DEF NoGuest
<1>7. ASSUME IsGuest(r) PROVE LastGuest(t, L + 1, L + 1)
  BY <1>1, <1>2, <1>7 DEF LastGuest
<1> QED
  BY <1>3, <1>4, <1>5, <1>6, <1>7 DEF t, L

\* An exit's record lies inside its run.
LEMMA RecordsInsideRunGrows ==
  ASSUME TypeOK, RecordsInsideRun, NEW r \in Records, trace' = Append(trace, r),
         r.kind \in {"CMD", "GUEST"} \/
           \E j \in 1 .. Len(trace) :
             /\ LastGuest(trace, Len(trace), j)
             /\ trace[j].event = "STARTED" /\ trace[j].vcpu = r.vcpu
  PROVE  RecordsInsideRun'
<1> DEFINE L == Len(trace)
<1>1. trace \in Seq(Records) /\ L \in Nat
  BY DEF TypeOK
<1>2. /\ Len(trace') = L + 1 /\ trace'[L + 1] = r
      /\ \A i \in 1 .. L : trace'[i] = trace[i]
  BY <1>1, AppendProperties
<1>3. \A n \in 0 .. L : \A j : LastGuest(trace, n, j) => LastGuest(trace', n, j)
  BY <1>1, GrownTrace
<1> SUFFICES ASSUME NEW i \in 1 .. (L + 1), trace'[i].kind \notin {"CMD", "GUEST"}
             PROVE  \E j \in 1 .. (i - 1) :
                      /\ LastGuest(trace', i - 1, j)
                      /\ trace'[j].event = "STARTED"
                      /\ trace'[j].vcpu = trace'[i].vcpu
  BY <1>2 DEF RecordsInsideRun
<1> HIDE DEF L
<1>4. PICK j \in 1 .. (i - 1) :
        /\ LastGuest(trace, i - 1, j)
        /\ trace[j].event = "STARTED" /\ trace[j].vcpu = trace'[i].vcpu
  <2>1. CASE i = L + 1
    <3>1. i - 1 = Len(trace) /\ trace'[i] = r
      BY <1>1, <1>2, <2>1 DEF L
    <3> QED
      BY <3>1
  <2>2. CASE i # L + 1
    <3>1. i \in 1 .. Len(trace) /\ trace'[i] = trace[i]
      BY <1>1, <1>2, <2>2 DEF L
    <3> QED
      BY <3>1 DEF RecordsInsideRun
  <2> QED
    BY <2>1, <2>2
<1>5. i - 1 \in 0 .. L /\ j \in 1 .. L
  BY <1>1
<1> QED
  BY <1>2, <1>3, <1>4, <1>5

\* What a GUEST record may follow.
GuestFollows(r, s) ==
  \/ /\ r.event = "STARTED" /\ r.run = 1 /\ NoGuest(s, Len(s))
  \/ \E j \in 1 .. Len(s) :
       /\ LastGuest(s, Len(s), j)
       /\ IF r.event = "STARTED" THEN r.run = s[j].run + 1 ELSE Closes(r, s[j])

\* A GUEST record that fits what came before keeps the runs numbered.
LEMMA RunsNumberedGrows ==
  ASSUME TypeOK, RunsNumbered, NEW r \in Records, trace' = Append(trace, r),
         IsGuest(r) => GuestFollows(r, trace)
  PROVE  RunsNumbered'
<1> DEFINE L == Len(trace)
           Follows(q, s, n) ==
             \/ q.event = "STARTED" /\ q.run = 1 /\ NoGuest(s, n)
             \/ \E j \in 1 .. n :
                  /\ LastGuest(s, n, j)
                  /\ IF q.event = "STARTED" THEN q.run = s[j].run + 1
                                            ELSE Closes(q, s[j])
<1>1. trace \in Seq(Records) /\ L \in Nat
  BY DEF TypeOK
<1>2. /\ Len(trace') = L + 1 /\ trace'[L + 1] = r
      /\ \A i \in 1 .. L : trace'[i] = trace[i]
  BY <1>1, AppendProperties
<1>3. /\ \A n \in 0 .. L : \A j : LastGuest(trace, n, j) => LastGuest(trace', n, j)
      /\ \A n \in 0 .. L : NoGuest(trace, n) => NoGuest(trace', n)
  BY <1>1, GrownTrace
<1> SUFFICES ASSUME NEW i \in 1 .. (L + 1), IsGuest(trace'[i])
             PROVE  Follows(trace'[i], trace', i - 1)
  BY <1>2 DEF RunsNumbered
<1>4. Follows(trace'[i], trace, i - 1)
  <2>1. CASE i = L + 1
    <3>1. i - 1 = Len(trace) /\ trace'[i] = r
      BY <1>1, <1>2, <2>1
    <3> QED
      BY <3>1 DEF GuestFollows
  <2>2. CASE i # L + 1
    <3>1. i \in 1 .. Len(trace) /\ trace'[i] = trace[i]
      BY <1>1, <1>2, <2>2
    <3> QED
      BY <3>1 DEF RunsNumbered
  <2> QED
    BY <2>1, <2>2
<1>5. i - 1 \in 0 .. L /\ \A j \in 1 .. (i - 1) : trace'[j] = trace[j]
  BY <1>1, <1>2
<1> QED
  BY <1>3, <1>4, <1>5

\* The record after an UNHANDLED one.
LEMMA UnhandledGrows ==
  ASSUME TypeOK, UnhandledStopsGuest, NEW r \in Records,
         trace' = Append(trace, r),
         UnhandledLast(trace) =>
           ~IsVmm(r) \/ (IsGuest(r) /\ r.event = "STOPPED_BY_FAULT")
  PROVE  UnhandledStopsGuest'
<1> DEFINE L == Len(trace)
<1>1. trace \in Seq(Records) /\ L \in Nat
  BY DEF TypeOK
<1>2. /\ Len(trace') = L + 1 /\ trace'[L + 1] = r
      /\ \A i \in 1 .. L : trace'[i] = trace[i]
  BY <1>1, AppendProperties
<1> SUFFICES ASSUME NEW j \in 1 .. (L + 1), NEW i \in 1 .. (j - 1),
                    IsUnhandled(trace'[i]), NextVmm(trace', i, j)
             PROVE  IsGuest(trace'[j]) /\ trace'[j].event = "STOPPED_BY_FAULT"
  BY <1>2 DEF UnhandledStopsGuest
<1>3. /\ i \in 1 .. L /\ trace'[i] = trace[i]
      /\ \A k \in (i + 1) .. (j - 1) : trace'[k] = trace[k]
  BY <1>1, <1>2
<1>4. IsVmm(trace'[j]) /\ \A k \in (i + 1) .. (j - 1) : ~IsVmm(trace[k])
  BY <1>3 DEF NextVmm
<1>5. CASE j = L + 1
  <2>1. j - 1 = Len(trace) /\ trace'[j] = r
    BY <1>1, <1>2, <1>5
  <2>2. UnhandledLast(trace)
    BY <1>3, <1>4, <2>1 DEF UnhandledLast
  <2> QED
    BY <1>4, <2>1, <2>2
<1>6. CASE j # L + 1
  <2>1. j \in 1 .. Len(trace) /\ trace'[j] = trace[j]
    BY <1>1, <1>2, <1>6
  <2>2. NextVmm(trace, i, j) /\ IsUnhandled(trace[i])
    BY <1>3, <1>4, <2>1 DEF NextVmm
  <2> QED
    BY <2>1, <2>2 DEF UnhandledStopsGuest
<1> QED
  BY <1>5, <1>6

\* Whether an UNHANDLED record is the VMM's last one.
LEMMA UnhandledLastGrows ==
  ASSUME NEW S, NEW s \in Seq(S), NEW r \in S, UnhandledLast(Append(s, r))
  PROVE  IsUnhandled(r) \/ (~IsVmm(r) /\ UnhandledLast(s))
<1> DEFINE t == Append(s, r)
           L == Len(s)
<1>1. /\ L \in Nat /\ Len(t) = L + 1 /\ t[L + 1] = r
      /\ \A i \in 1 .. L : t[i] = s[i]
  BY AppendProperties
<1> HIDE DEF t, L
<1>2. PICK i \in 1 .. (L + 1) :
        IsUnhandled(t[i]) /\ \A k \in (i + 1) .. (L + 1) : ~IsVmm(t[k])
  BY <1>1 DEF UnhandledLast, t
<1>3. CASE i = L + 1
  BY <1>1, <1>2, <1>3
<1>4. CASE i # L + 1
  <2>1. i \in 1 .. L /\ L + 1 \in (i + 1) .. (L + 1)
    BY <1>1, <1>4
  <2>2. \A k \in (i + 1) .. L : k \in 1 .. L /\ k \in (i + 1) .. (L + 1)
    BY <1>1, <2>1
  <2>3. ~IsVmm(r)
    BY <1>1, <1>2, <2>1
  <2>4. IsUnhandled(s[i]) /\ \A k \in (i + 1) .. L : ~IsVmm(s[k])
    BY <1>1, <1>2, <2>1, <2>2
  <2> QED
    BY <2>1, <2>3, <2>4 DEF UnhandledLast, L
<1> QED
  BY <1>3, <1>4

\* A record that is not the guest's leaves what the trace tells of it ...
LEMMA ToldKept ==
  ASSUME TypeOK, NEW r \in Records, ~IsGuest(r), trace' = Append(trace, r),
         UNCHANGED <<run, run_vcpu>>
  PROVE  /\ \A event : Told(event) => Told(event)'
         /\ \A n : LastRun(n) => LastRun(n)'
         /\ NoGuest(trace, Len(trace)) => NoGuest(trace, Len(trace))'
<1> DEFINE L == Len(trace)
<1>1. trace \in Seq(Records) /\ L \in Nat
  BY DEF TypeOK
<1>2. /\ Len(trace') = L + 1 /\ \A i \in 1 .. L : trace'[i] = trace[i]
  BY <1>1, AppendProperties
<1>3. /\ \A j : LastGuest(trace, L, j) => LastGuest(trace', L + 1, j)
      /\ NoGuest(trace, L) => NoGuest(trace', L + 1)
  BY <1>1, GrownTrace
<1>4. \A j \in 1 .. L : j \in 1 .. (L + 1)
  BY <1>1
<1>5. ASSUME NEW event, Told(event) PROVE Told(event)'
  <2>1. PICK j \in 1 .. L : /\ LastGuest(trace, L, j)
                            /\ trace[j] = GuestEvent(event, run, run_vcpu)[1]
    BY <1>5 DEF Told
  <2> QED
    BY <1>2, <1>3, <1>4, <2>1 DEF Told
<1>6. ASSUME NEW n, LastRun(n) PROVE LastRun(n)'
  <2>1. CASE NoGuest(trace, L) /\ n = 0
    BY <1>2, <1>3, <2>1 DEF LastRun
  <2>2. CASE \E j \in 1 .. L : LastGuest(trace, L, j) /\ trace[j].run = n
    BY <1>2, <1>3, <1>4, <2>2 DEF LastRun
  <2> QED
    BY <1>6, <2>1, <2>2 DEF LastRun
<1> QED
  BY <1>2, <1>3, <1>5, <1>6

\* ... and one of its own replaces it.
LEMMA ToldNew ==
  ASSUME TypeOK, NEW event \in Events, UNCHANGED <<run, run_vcpu>>,
         trace' = Append(trace, GuestEvent(event, run, run_vcpu)[1])
  PROVE  Told(event)' /\ LastRun(run)'
<1> DEFINE L == Len(trace)
           r == GuestEvent(event, run, run_vcpu)[1]
<1>1. trace \in Seq(Records) /\ L \in Nat /\ run \in Nat /\ run_vcpu \in Vcpus
  BY DEF TypeOK
<1>2. r \in Records /\ IsGuest(r) /\ r.run = run
  BY <1>1 DEF GuestEvent, Records, GuestRecords, IsGuest
<1> HIDE DEF r
<1>3. Len(trace') = L + 1 /\ trace'[L + 1] = r
  BY <1>1, <1>2, AppendProperties DEF r
<1>4. LastGuest(trace', L + 1, L + 1)
  BY <1>1, <1>2, GrownTrace DEF r
<1>5. L + 1 \in 1 .. (L + 1)
  BY <1>1
<1> QED
  BY <1>2, <1>3, <1>4, <1>5 DEF Told, LastRun, r

\* A step that leaves the trace and the run alone leaves what is told of it.
LEMMA ToldSame ==
  ASSUME UNCHANGED <<trace, run, run_vcpu>>
  PROVE  /\ \A event : Told(event) => Told(event)'
         /\ \A n : LastRun(n) => LastRun(n)'
         /\ NoGuest(trace, Len(trace)) => NoGuest(trace, Len(trace))'
  BY DEF Told, LastRun
-----------------------------------------------------------------------------
(* Emitting a record *)

\* The first record of a sequence and the rest.
LEMMA HeadTailIs ==
  ASSUME NEW S, NEW s \in Seq(S), s # <<>>
  PROVE  /\ Head(s) \in S /\ Head(s) = s[1] /\ Tail(s) \in Seq(S)
         /\ Len(s) \in Nat \ {0} /\ Len(Tail(s)) = Len(s) - 1
         /\ \A i \in 1 .. Len(Tail(s)) : Tail(s)[i] = s[i + 1]
         /\ Len(s) = 1 => Tail(s) = <<>>
<1>1. /\ Head(s) \in S /\ Head(s) = s[1] /\ Tail(s) \in Seq(S)
      /\ Len(s) \in Nat \ {0} /\ Len(Tail(s)) = Len(s) - 1
  OBVIOUS
<1>2. \A i \in 1 .. Len(Tail(s)) : Tail(s)[i] = s[i + 1]
  OBVIOUS
<1>3. ASSUME NEW t \in Seq(S), Len(t) = 0 PROVE t = <<>>
  BY <1>3
<1> QED
  BY <1>1, <1>2, <1>3

\* GUEST records as they are emitted.
LEMMA EventIs ==
  ASSUME NEW event \in Events, NEW r \in Nat, NEW v \in Vcpus
  PROVE  LET g == GuestEvent(event, r, v)
         IN  /\ g \in Seq(Records) /\ Head(g) = g[1] /\ Tail(g) = <<>> /\ g # <<>>
             /\ IsGuest(g[1]) /\ IsVmm(g[1]) /\ ~IsUnhandled(g[1])
             /\ g[1].event = event /\ g[1].run = r /\ g[1].vcpu = v
<1> DEFINE rec == [kind |-> "GUEST", event |-> event, run |-> r, vcpu |-> v]
<1>1. rec \in Records /\ rec \in GuestRecords
  BY DEF Records, GuestRecords
<1>2. GuestEvent(event, r, v) = <<rec>>
  BY DEF GuestEvent
<1>3. /\ IsGuest(rec) /\ IsVmm(rec) /\ ~IsUnhandled(rec)
      /\ rec.event = event /\ rec.run = r /\ rec.vcpu = v
  BY DEF IsGuest, IsVmm, IsUnhandled
<1> HIDE DEF rec
<1>4. /\ <<rec>> \in Seq(Records) /\ Head(<<rec>>) = rec /\ Tail(<<rec>>) = <<>>
      /\ <<rec>> # <<>> /\ <<rec>>[1] = rec
  BY <1>1
<1> QED
  BY <1>2, <1>3, <1>4

\* Records of an exit.
LEMMA ExitRecordIs ==
  ASSUME NEW v \in Vcpus, NEW r \in ExitRecords({v})
  PROVE  /\ r \in Records /\ r.kind \notin {"CMD", "GUEST"} /\ r.vcpu = v
         /\ ~IsGuest(r) /\ IsVmm(r)
  BY DEF ExitRecords, Records, IsGuest, IsVmm

\* The VMM's records come from where it is: STARTED before the vCPU starts, the
\* stop on its way back, and an exit's in between.
LEMMA EmitFacts ==
  ASSUME TypeOK, VcpuInv, EmitInv, EmitRecord
  PROVE  \E r \in Records :
           /\ trace' = Append(trace, r)
           /\ emitting' \in Seq(Records) /\ vpc # "idle"
           /\ vpc = "start" =>
                r = GuestEvent("STARTED", run, run_vcpu)[1] /\ emitting' = <<>>
           /\ vpc = "return" =>
                /\ r = GuestEvent(state, run, run_vcpu)[1] /\ emitting' = <<>>
                /\ state \in Stopped
           /\ vpc \in {"resume", "stop"} =>
                /\ r \in ExitRecords({cur}) /\ LastUnhandled(cur, emitting')
                /\ vpc = "resume" => NoneUnhandled(cur, emitting')
                /\ IsUnhandled(r) => vpc = "stop" /\ emitting' = <<>>
<1> DEFINE r == Head(emitting)
<1>1. /\ emitting # <<>> /\ emitting' = Tail(emitting)
      /\ trace' = Append(trace, r) /\ vpc # "idle"
  BY DEF EmitRecord, EmitInv
<1>2. r \in Records /\ emitting' \in Seq(Records)
  BY <1>1, HeadTailIs DEF TypeOK
<1>3. ASSUME vpc = "start"
      PROVE  r = GuestEvent("STARTED", run, run_vcpu)[1] /\ emitting' = <<>>
  <2>1. emitting = GuestEvent("STARTED", run, run_vcpu)
    BY <1>1, <1>3 DEF EmitInv
  <2>2. "STARTED" \in Events /\ run \in Nat /\ run_vcpu \in Vcpus
    BY DEF Events, TypeOK
  <2>3. LET g == GuestEvent("STARTED", run, run_vcpu)
        IN  Head(g) = g[1] /\ Tail(g) = <<>>
    BY <2>2, EventIs
  <2> QED
    BY <1>1, <2>1, <2>3
<1>4. ASSUME vpc = "return"
      PROVE  /\ r = GuestEvent(state, run, run_vcpu)[1] /\ emitting' = <<>>
             /\ state \in Stopped
  <2>1. emitting = GuestEvent(state, run, run_vcpu) /\ state \in Stopped
    BY <1>1, <1>4 DEF EmitInv
  <2>2. state \in Events /\ run \in Nat /\ run_vcpu \in Vcpus
    BY <2>1 DEF Events, TypeOK
  <2>3. LET g == GuestEvent(state, run, run_vcpu)
        IN  Head(g) = g[1] /\ Tail(g) = <<>>
    BY <2>2, EventIs
  <2> QED
    BY <1>1, <2>1, <2>3
<1>5. ASSUME vpc \in {"resume", "stop"}
      PROVE  /\ r \in ExitRecords({cur}) /\ LastUnhandled(cur, emitting')
             /\ vpc = "resume" => NoneUnhandled(cur, emitting')
             /\ IsUnhandled(r) => vpc = "stop" /\ emitting' = <<>>
  <2> DEFINE S == ExitRecords({cur})
             L == Len(emitting)
  <2>1. /\ emitting \in Seq(S)
        /\ \A i \in 1 .. (L - 1) : ~IsUnhandled(emitting[i])
        /\ vpc = "resume" => \A i \in 1 .. L : ~IsUnhandled(emitting[i])
    BY <1>5 DEF EmitInv
  <2> HIDE DEF S, L, r
  <2>2. /\ r \in S /\ r = emitting[1] /\ emitting' \in Seq(S)
        /\ L \in Nat \ {0} /\ Len(emitting') = L - 1
        /\ \A i \in 1 .. (L - 1) : emitting'[i] = emitting[i + 1]
        /\ L = 1 => emitting' = <<>>
    BY <1>1, <2>1, HeadTailIs DEF L, r
  <2>3. ASSUME NEW i \in 1 .. (L - 2) PROVE ~IsUnhandled(emitting'[i])
    <3>1. i \in 1 .. (L - 1) /\ i + 1 \in 1 .. (L - 1)
      BY <2>2
    <3> QED
      BY <2>1, <2>2, <3>1
  <2>4. ASSUME vpc = "resume", NEW i \in 1 .. (L - 1) PROVE ~IsUnhandled(emitting'[i])
    <3>1. i + 1 \in 1 .. L
      BY <2>2
    <3> QED
      BY <2>1, <2>2, <2>4, <3>1
  <2>5. ASSUME IsUnhandled(r) PROVE vpc = "stop" /\ emitting' = <<>>
    <3>1. 1 \in 1 .. L /\ (L # 1 => 1 \in 1 .. (L - 1))
      BY <2>2
    <3> QED
      BY <1>5, <2>1, <2>2, <2>5, <3>1
  <2>6. (L - 1) - 1 = L - 2
    BY <2>2
  <2> QED
    BY <2>2, <2>3, <2>4, <2>5, <2>6 DEF LastUnhandled, NoneUnhandled, S
<1> QED
  BY <1>1, <1>2, <1>3, <1>4, <1>5

\* An exit's records are records.
LEMMA ExitSeq ==
  ASSUME NEW v \in Vcpus, NEW s \in Seq(ExitRecords({v}))
  PROVE  s \in Seq(Records)
<1>1. \A i \in 1 .. Len(s) : s[i] \in Records
  BY ExitRecordIs
<1>2. s = [i \in 1 .. Len(s) |-> s[i]] /\ Len(s) \in Nat
  OBVIOUS
<1> QED
  BY <1>1, <1>2

\* Emitting keeps the types.
LEMMA EmitTyped ==
  ASSUME GuestInvariant, EmitRecord
  PROVE  trace' \in Seq(Records) /\ emitting' \in Seq(Records)
<1>1. TypeOK /\ VcpuInv /\ EmitInv /\ trace \in Seq(Records)
  BY DEF GuestInvariant, TypeOK
<1>2. PICK r \in Records : trace' = Append(trace, r) /\ emitting' \in Seq(Records)
  BY <1>1, EmitFacts
<1> QED
  BY <1>1, <1>2, AppendProperties
-----------------------------------------------------------------------------
(* Every step preserves each conjunct of the invariant *)

\* Types: commands are the user's, records the handlers'.
LEMMA TypeOKStep == GuestInvariant /\ [Next]_vars => TypeOK'
<1> SUFFICES ASSUME GuestInvariant, [Next]_vars PROVE TypeOK'
  BY DEF GuestInvariant
<1> USE DEF vars, controlVars, deviceVars, vcpuVars, handlerVars, typeVars,
        TypeOK, GuestInvariant
<1>1. ASSUME NEW c \in Commands, record_command(c) PROVE TypeOK'
  <2> DEFINE r == [kind |-> "CMD", verb |-> c.verb]
  <2>1. r \in Records
    BY GuestAssumption DEF Records, CmdRecords, Verbs
  <2>2. trace' \in Seq(Records)
    BY <1>1, <2>1, AppendProperties DEF record_command
  <2>3. sending' \in Seq(Commands)
    BY <1>1 DEF record_command
  <2> QED
    BY <1>1, <2>2, <2>3 DEF record_command
<1>2. CASE cmd_to_vmm
  <2>1. cmds \o sending \in Seq(Commands)
    BY ConcatIs
  <2>2. cmds' \in Seq(Commands) /\ sending' \in Seq(Commands)
    <3>1. cmds' = cmds \o sending \/ cmds' = cmds
      BY <1>2 DEF cmd_to_vmm
    <3>2. sending' = <<>>
      BY <1>2 DEF cmd_to_vmm
    <3>3. cmds' \in Seq(Commands)
      BY <2>1, <3>1, Zenon
    <3>4. sending' \in Seq(Commands)
      BY <3>2
    <3> QED
      BY <3>3, <3>4
  <2> QED
    BY <1>2, <2>2 DEF cmd_to_vmm
<1>3. ASSUME NEW v \in Vcpus, TakeExit(v) PROVE TypeOK'
  BY <1>3 DEF TakeExit
<1>4. CASE EmitRecord
  <2>1. trace' \in Seq(Records) /\ emitting' \in Seq(Records)
    BY <1>4, EmitTyped
  <2> QED
    BY <1>4, <2>1 DEF EmitRecord
<1>5. CASE StartRefused
  <2>1. cmds' \in Seq(Commands)
    BY <1>5, HeadTailIs DEF StartRefused, NextCommand
  <2> QED
    BY <1>5, <2>1 DEF StartRefused, NextCommand
<1>6. CASE BootFails
  <2>1. cmds' \in Seq(Commands)
    BY <1>6, HeadTailIs DEF BootFails, NextCommand, States
  <2> QED
    BY <1>6, <2>1 DEF BootFails, NextCommand, States
<1>7. CASE Boot
  <2>1. Head(cmds) \in Commands /\ cmds' \in Seq(Commands)
    BY <1>7, HeadTailIs DEF Boot, NextCommand
  <2>2. /\ run_vcpu' = Head(cmds).vcpu /\ run' = run + 1 /\ vpc' = "start"
        /\ emitting' = GuestEvent("STARTED", run', run_vcpu')
        /\ UNCHANGED <<state, vcpu, exit, cur, sending, trace>>
        /\ Head(cmds).verb = "start" /\ Head(cmds).vcpu < NumVcpus
    BY <1>7 DEF Boot, NextCommand
  <2>3. run_vcpu' \in Vcpus /\ run' \in Nat
    BY <2>1, <2>2, GuestAssumption DEF Vcpus
  <2>4. emitting' \in Seq(Records)
    BY <2>2, <2>3, EventIs DEF Events
  <2> QED
    BY <2>1, <2>2, <2>3, <2>4
<1>8. CASE StartVcpu
  BY <1>8 DEF StartVcpu, Continue, States
<1>9. CASE StartVcpuFails
  BY <1>9 DEF StartVcpuFails, Continue, States
<1>10. CASE guest_control_stop
  <2>1. cmds' \in Seq(Commands)
    BY <1>10, HeadTailIs DEF guest_control_stop, NextCommand
  <2>2. emitting' \in Seq(Records)
    BY <1>10, EventIs DEF guest_control_stop, Events, Stopped
  <2> QED
    BY <1>10, <2>1, <2>2 DEF guest_control_stop, NextCommand, Suspend, States
<1>11. CASE StopRefused
  <2>1. cmds' \in Seq(Commands)
    BY <1>11, HeadTailIs DEF StopRefused, NextCommand
  <2> QED
    BY <1>11, <2>1 DEF StopRefused, NextCommand
<1>12. CASE Report
  <2>1. cmds # <<>> /\ cmds' = Tail(cmds) /\ UNCHANGED <<sending, typed>>
    BY <1>12 DEF Report, NextCommand
  <2>2. cmds' \in Seq(Commands)
    BY <2>1, HeadTailIs
  <2> QED
    BY <1>12, <2>1, <2>2 DEF Report
<1>13. ASSUME NEW v \in Vcpus, Fault(v) PROVE TypeOK'
  <2>1. PICK o \in handle_fault(v, exit[v]) :
          emitting' = o.records /\ vpc' = IF o.handled THEN "resume" ELSE "stop"
    BY <1>13 DEF Fault
  <2>2. exit[v] \in Faults
    BY <1>13 DEF Fault, GuestInvariant, VcpuInv
  <2>3. LastUnhandled(v, emitting')
    BY <2>1, <2>2, FaultOutcomes DEF OutcomeOK
  <2>4. emitting' \in Seq(Records)
    BY <2>3, ExitSeq DEF LastUnhandled
  <2> QED
    BY <1>13, <2>1, <2>4 DEF Fault
<1>14. CASE Resume
  BY <1>14 DEF Resume, Continue
<1>15. CASE guest_control_fault_stopped
  <2>1. emitting' \in Seq(Records)
    BY <1>15, EventIs DEF guest_control_fault_stopped, Events, Stopped
  <2> QED
    BY <1>15, <2>1 DEF guest_control_fault_stopped, Continue, Suspend, States
<1>16. CASE Return
  BY <1>16 DEF Return, Continue
<1>17. CASE UNCHANGED vars
  BY <1>17
<1> QED
  BY <1>1, <1>2, <1>3, <1>4, <1>5, <1>6, <1>7, <1>8, <1>9, <1>10, <1>11,
     <1>12, <1>13, <1>14, <1>15, <1>16, <1>17
     DEF Next, Uartrx, Vmm

\* A vCPU is started by a start, stopped by a stop, and waits while its exit is
\* handled.
LEMMA VcpuInvStep == GuestInvariant /\ [Next]_vars => VcpuInv'
<1> SUFFICES ASSUME GuestInvariant, [Next]_vars PROVE VcpuInv'
  BY DEF GuestInvariant
<1> USE DEF vars, controlVars, deviceVars, vcpuVars, handlerVars, typeVars,
        TypeOK, GuestInvariant, VcpuInv, OneGuest, EmitInv
<1>1. ASSUME NEW c \in Commands, record_command(c) PROVE VcpuInv'
  BY <1>1 DEF record_command
<1>2. CASE cmd_to_vmm
  BY <1>2 DEF cmd_to_vmm
<1>3. ASSUME NEW v \in Vcpus, TakeExit(v) PROVE VcpuInv'
  BY <1>3 DEF TakeExit
<1>4. CASE EmitRecord
  BY <1>4 DEF EmitRecord
<1>5. CASE StartRefused
  BY <1>5 DEF StartRefused, NextCommand
<1>6. CASE BootFails
  BY <1>6 DEF BootFails, NextCommand
<1>7. CASE Boot
  BY <1>7 DEF Boot, NextCommand
<1>8. CASE StartVcpu
  BY <1>8 DEF StartVcpu, Continue
<1>9. CASE StartVcpuFails
  BY <1>9 DEF StartVcpuFails, Continue
<1>10. CASE guest_control_stop
  BY <1>10 DEF guest_control_stop, NextCommand, Suspend
<1>11. CASE StopRefused
  BY <1>11 DEF StopRefused, NextCommand
<1>12. CASE Report
  BY <1>12 DEF Report, NextCommand
<1>13. ASSUME NEW v \in Vcpus, Fault(v) PROVE VcpuInv'
  BY <1>13 DEF Fault
<1>14. CASE Resume
  BY <1>14 DEF Resume, Continue
<1>15. CASE guest_control_fault_stopped
  BY <1>15 DEF guest_control_fault_stopped, Continue, Suspend
<1>16. CASE Return
  BY <1>16 DEF Return, Continue
<1>17. CASE UNCHANGED vars
  BY <1>17
<1> QED
  BY <1>1, <1>2, <1>3, <1>4, <1>5, <1>6, <1>7, <1>8, <1>9, <1>10, <1>11,
     <1>12, <1>13, <1>14, <1>15, <1>16, <1>17
     DEF Next, Uartrx, Vmm

\* A handler's records are those of its place, and all are out when it ends.
LEMMA EmitInvStep == GuestInvariant /\ [Next]_vars => EmitInv'
<1> SUFFICES ASSUME GuestInvariant, [Next]_vars PROVE EmitInv'
  BY DEF GuestInvariant
<1> USE DEF vars, controlVars, deviceVars, vcpuVars, handlerVars, typeVars
<1>1. ASSUME NEW c \in Commands, record_command(c) PROVE EmitInv'
  BY <1>1 DEF record_command, GuestInvariant, EmitInv
<1>2. CASE cmd_to_vmm
  BY <1>2 DEF cmd_to_vmm, GuestInvariant, EmitInv
<1>3. ASSUME NEW v \in Vcpus, TakeExit(v) PROVE EmitInv'
  BY <1>3 DEF TakeExit, GuestInvariant, EmitInv
<1>4. CASE EmitRecord
  <2>1. TypeOK /\ VcpuInv /\ EmitInv
    BY DEF GuestInvariant
  <2>2. /\ vpc \in {"start", "return"} => emitting' = <<>>
        /\ vpc = "return" => state \in Stopped
        /\ vpc \in {"resume", "stop"} => LastUnhandled(cur, emitting')
        /\ vpc = "resume" => NoneUnhandled(cur, emitting')
    BY <1>4, <2>1, EmitFacts
  <2>3. vpc # "idle" /\ UNCHANGED <<vpc, cur, state, run, run_vcpu>>
    BY <1>4, <2>1 DEF EmitRecord, EmitInv
  <2> QED
    BY <2>2, <2>3 DEF EmitInv, LastUnhandled, NoneUnhandled
<1>5. CASE StartRefused
  BY <1>5 DEF StartRefused, NextCommand, GuestInvariant, EmitInv
<1>6. CASE BootFails
  BY <1>6 DEF BootFails, NextCommand, GuestInvariant, EmitInv
<1>7. CASE Boot
  BY <1>7 DEF Boot, NextCommand, GuestInvariant, EmitInv
<1>8. CASE StartVcpu
  BY <1>8 DEF StartVcpu, Continue, GuestInvariant, EmitInv
<1>9. CASE StartVcpuFails
  BY <1>9 DEF StartVcpuFails, Continue, GuestInvariant, EmitInv
<1>10. CASE guest_control_stop
  BY <1>10 DEF guest_control_stop, NextCommand, GuestInvariant, EmitInv,
     Stopped
<1>11. CASE StopRefused
  BY <1>11 DEF StopRefused, NextCommand, GuestInvariant, EmitInv
<1>12. CASE Report
  BY <1>12 DEF Report, NextCommand, GuestInvariant, EmitInv
<1>13. ASSUME NEW v \in Vcpus, Fault(v) PROVE EmitInv'
  <2>1. PICK o \in handle_fault(v, exit[v]) :
          emitting' = o.records /\ vpc' = IF o.handled THEN "resume" ELSE "stop"
    BY <1>13 DEF Fault
  <2>2. exit[v] \in Faults /\ cur' = v
    BY <1>13 DEF Fault, GuestInvariant, VcpuInv
  <2>3. /\ LastUnhandled(v, emitting') /\ vpc' \in {"resume", "stop"}
        /\ vpc' = "resume" => NoneUnhandled(v, emitting')
    BY <2>1, <2>2, FaultOutcomes DEF OutcomeOK
  <2> QED
    BY <2>2, <2>3 DEF EmitInv, LastUnhandled, NoneUnhandled
<1>14. CASE Resume
  BY <1>14 DEF Resume, Continue, GuestInvariant, EmitInv
<1>15. CASE guest_control_fault_stopped
  BY <1>15 DEF guest_control_fault_stopped, Continue, GuestInvariant, EmitInv,
     Stopped
<1>16. CASE Return
  BY <1>16 DEF Return, Continue, GuestInvariant, EmitInv
<1>17. CASE UNCHANGED vars
  BY <1>17 DEF GuestInvariant, EmitInv
<1> QED
  BY <1>1, <1>2, <1>3, <1>4, <1>5, <1>6, <1>7, <1>8, <1>9, <1>10, <1>11,
     <1>12, <1>13, <1>14, <1>15, <1>16, <1>17
     DEF Next, Uartrx, Vmm

\* The last GUEST record is the last thing that happened to the guest.
LEMMA ToldInvStep == GuestInvariant /\ [Next]_vars => ToldInv'
<1> SUFFICES ASSUME GuestInvariant, [Next]_vars PROVE ToldInv'
  BY DEF GuestInvariant
<1> USE DEF vars, controlVars, deviceVars, vcpuVars, handlerVars, typeVars
<1>1. ASSUME NEW c \in Commands, record_command(c) PROVE ToldInv'
  <2> DEFINE r == [kind |-> "CMD", verb |-> c.verb]
  <2>1. r \in Records /\ ~IsGuest(r)
    BY GuestAssumption DEF Records, CmdRecords, Verbs, IsGuest
  <2>2. /\ trace' = Append(trace, r)
        /\ UNCHANGED <<run, run_vcpu, state, vpc, emitting>>
    BY <1>1 DEF record_command
  <2> HIDE DEF r
  <2>3. TypeOK /\ ToldInv
    BY DEF GuestInvariant
  <2>4. /\ \A event : Told(event) => Told(event)'
        /\ \A n : LastRun(n) => LastRun(n)'
        /\ NoGuest(trace, Len(trace)) => NoGuest(trace, Len(trace))'
    BY <2>1, <2>2, <2>3, ToldKept
  <2> QED
    BY <2>2, <2>3, <2>4 DEF ToldInv, Starting, Stopping
<1>2. CASE cmd_to_vmm
  <2>1. UNCHANGED <<trace, run, run_vcpu>> /\ ToldInv
    BY <1>2 DEF cmd_to_vmm, GuestInvariant
  <2>2. UNCHANGED <<state, vpc, emitting>>
    BY <1>2 DEF cmd_to_vmm
  <2> QED
    BY <2>1, <2>2, ToldSame DEF ToldInv, Starting, Stopping
<1>3. ASSUME NEW v \in Vcpus, TakeExit(v) PROVE ToldInv'
  <2>1. UNCHANGED <<trace, run, run_vcpu>> /\ ToldInv
    BY <1>3 DEF TakeExit, GuestInvariant
  <2>2. UNCHANGED <<state, vpc, emitting>>
    BY <1>3 DEF TakeExit
  <2> QED
    BY <2>1, <2>2, ToldSame DEF ToldInv, Starting, Stopping
<1>4. CASE EmitRecord
  <2>1. TypeOK /\ VcpuInv /\ EmitInv /\ ToldInv
    BY DEF GuestInvariant
  <2>2. UNCHANGED <<run, run_vcpu, state, vpc>> /\ emitting # <<>>
    BY <1>4 DEF EmitRecord
  <2>3. PICK r \in Records :
          /\ trace' = Append(trace, r) /\ vpc # "idle"
          /\ vpc = "start" =>
               r = GuestEvent("STARTED", run, run_vcpu)[1] /\ emitting' = <<>>
          /\ vpc = "return" =>
               /\ r = GuestEvent(state, run, run_vcpu)[1] /\ emitting' = <<>>
               /\ state \in Stopped
          /\ vpc \in {"resume", "stop"} => r \in ExitRecords({cur})
    BY <1>4, <2>1, EmitFacts
  <2>4. CASE vpc = "start"
    <3>1. Told("STARTED")' /\ LastRun(run)'
      BY <2>1, <2>2, <2>3, <2>4, ToldNew DEF Events
    <3>2. state # "RUNNING" /\ ~Starting' /\ ~Stopping' /\ vpc' = "start"
      BY <2>1, <2>2, <2>3, <2>4 DEF VcpuInv, Starting, Stopping
    <3> QED
      BY <2>2, <3>1, <3>2 DEF ToldInv
  <2>5. CASE vpc = "return"
    <3>1. state \in Events /\ state \in Stopped
      BY <2>3, <2>5 DEF Events
    <3>2. Told(state)' /\ LastRun(run)'
      BY <2>1, <2>2, <2>3, <2>5, <3>1, ToldNew
    <3>3. state # "RUNNING" /\ ~Starting' /\ ~Stopping' /\ state # "NOT_STARTED"
      BY <2>1, <2>2, <2>3, <2>5, <3>1 DEF VcpuInv, Starting, Stopping, Stopped
    <3> QED
      BY <2>2, <2>5, <3>2, <3>3 DEF ToldInv
  <2>6. CASE vpc \in {"resume", "stop"}
    <3>1. ~IsGuest(r)
      BY <2>1, <2>3, <2>6, ExitRecordIs DEF TypeOK
    <3>2. /\ \A event : Told(event) => Told(event)'
          /\ \A n : LastRun(n) => LastRun(n)'
          /\ NoGuest(trace, Len(trace)) => NoGuest(trace, Len(trace))'
      BY <2>1, <2>2, <2>3, <3>1, ToldKept
    <3> QED
      BY <2>1, <2>2, <2>6, <3>2 DEF ToldInv, Starting, Stopping
  <2> QED
    BY <2>1, <2>3, <2>4, <2>5, <2>6 DEF TypeOK
<1>5. CASE StartRefused
  <2>1. UNCHANGED <<trace, run, run_vcpu>> /\ ToldInv
    BY <1>5 DEF StartRefused, GuestInvariant
  <2>2. UNCHANGED <<state, vpc, emitting>>
    BY <1>5 DEF StartRefused
  <2> QED
    BY <2>1, <2>2, ToldSame DEF ToldInv, Starting, Stopping
<1>6. CASE BootFails
  <2>1. UNCHANGED <<trace, run, run_vcpu>> /\ ToldInv
    BY <1>6 DEF BootFails, GuestInvariant
  <2>2. state' = "START_FAILED" /\ UNCHANGED <<vpc, emitting>> /\ vpc = "idle"
    BY <1>6 DEF BootFails, NextCommand
  <2> QED
    BY <2>1, <2>2, ToldSame DEF ToldInv, Starting, Stopping, Stopped
<1>7. CASE Boot
  <2>1. /\ vpc = "idle" /\ vpc' = "start" /\ state # "RUNNING"
        /\ trace' = trace /\ run' = run + 1 /\ state' = state
        /\ emitting' = GuestEvent("STARTED", run + 1, Head(cmds).vcpu)
    BY <1>7 DEF Boot, NextCommand
  <2>2. emitting' # <<>> /\ run \in Nat
    BY <2>1 DEF GuestEvent, GuestInvariant, TypeOK
  <2>3. LastRun(run)
    <3>1. (IF Starting THEN run - 1 ELSE run) = run
      BY <2>1 DEF Starting
    <3>2. LastRun(IF Starting THEN run - 1 ELSE run)
      BY DEF GuestInvariant, ToldInv
    <3> QED
      BY <3>1, <3>2
  <2>4. LastRun(run - 1)'
    <3>1. run' - 1 = run
      BY <2>1, <2>2
    <3> QED
      BY <2>1, <2>3, <3>1 DEF LastRun
  <2> QED
    BY <2>1, <2>2, <2>4 DEF ToldInv, Starting, Stopping
<1>8. CASE StartVcpu
  <2>1. UNCHANGED <<trace, run, run_vcpu>> /\ ToldInv
    BY <1>8 DEF StartVcpu, GuestInvariant
  <2>2. /\ vpc = "start" /\ state' = "RUNNING" 
        /\ vpc' = "idle" /\ emitting' = emitting /\ emitting = <<>>
    BY <1>8 DEF StartVcpu, Continue
  <2> QED
    BY <2>1, <2>2, ToldSame DEF ToldInv, Starting, Stopping, Stopped
<1>9. CASE StartVcpuFails
  <2>1. UNCHANGED <<trace, run, run_vcpu>> /\ ToldInv
    BY <1>9 DEF StartVcpuFails, GuestInvariant
  <2>2. /\ vpc = "start" /\ state' = "START_FAILED" 
        /\ vpc' = "idle" /\ emitting' = emitting /\ emitting = <<>>
    BY <1>9 DEF StartVcpuFails, Continue
  <2> QED
    BY <2>1, <2>2, ToldSame DEF ToldInv, Starting, Stopping, Stopped
<1>10. CASE guest_control_stop
  <2>1. UNCHANGED <<trace, run, run_vcpu>> /\ ToldInv
    BY <1>10 DEF guest_control_stop, GuestInvariant
  <2>2. /\ state = "RUNNING" /\ vpc # "start" /\ state' = "STOPPED_BY_COMMAND" /\ vpc' = "return"
        /\ emitting' = GuestEvent("STOPPED_BY_COMMAND", run, run_vcpu)
    BY <1>10 DEF guest_control_stop, NextCommand
  <2>3. emitting' # <<>>
    BY <2>2 DEF GuestEvent
  <2> QED
    BY <2>1, <2>2, <2>3, ToldSame DEF ToldInv, Starting, Stopping
<1>11. CASE StopRefused
  <2>1. UNCHANGED <<trace, run, run_vcpu>> /\ ToldInv
    BY <1>11 DEF StopRefused, GuestInvariant
  <2>2. UNCHANGED <<state, vpc, emitting>>
    BY <1>11 DEF StopRefused
  <2> QED
    BY <2>1, <2>2, ToldSame DEF ToldInv, Starting, Stopping
<1>12. CASE Report
  <2>1. UNCHANGED <<trace, run, run_vcpu>> /\ ToldInv
    BY <1>12 DEF Report, GuestInvariant
  <2>2. UNCHANGED <<state, vpc, emitting>>
    BY <1>12 DEF Report
  <2> QED
    BY <2>1, <2>2, ToldSame DEF ToldInv, Starting, Stopping
<1>13. ASSUME NEW v \in Vcpus, Fault(v) PROVE ToldInv'
  <2>1. UNCHANGED <<trace, run, run_vcpu>> /\ ToldInv
    BY <1>13 DEF Fault, GuestInvariant
  <2>2. /\ vpc = "idle" /\ vpc' \in {"resume", "stop"} /\ state' = state
        /\ state = "RUNNING" 
    BY <1>13 DEF Fault, GuestInvariant, VcpuInv, OneGuest
  <2> QED
    BY <2>1, <2>2, ToldSame DEF ToldInv, Starting, Stopping, Stopped
<1>14. CASE Resume
  <2>1. UNCHANGED <<trace, run, run_vcpu>> /\ ToldInv
    BY <1>14 DEF Resume, GuestInvariant
  <2>2. /\ state' = state /\ state = "RUNNING" /\ vpc = "resume"
        /\ vpc' = "idle" /\ emitting' = emitting /\ emitting = <<>>
    BY <1>14 DEF Resume, Continue, GuestInvariant, VcpuInv
  <2> QED
    BY <2>1, <2>2, ToldSame DEF ToldInv, Starting, Stopping
<1>15. CASE guest_control_fault_stopped
  <2>1. UNCHANGED <<trace, run, run_vcpu>> /\ ToldInv
    BY <1>15 DEF guest_control_fault_stopped, GuestInvariant
  <2>2. /\ state = "RUNNING" /\ vpc # "start" /\ state' = "STOPPED_BY_FAULT" /\ vpc' = "return"
        /\ emitting' = GuestEvent("STOPPED_BY_FAULT", run, run_vcpu)
    BY <1>15 DEF guest_control_fault_stopped, Continue, GuestInvariant,
              VcpuInv
  <2>3. emitting' # <<>>
    BY <2>2 DEF GuestEvent
  <2> QED
    BY <2>1, <2>2, <2>3, ToldSame DEF ToldInv, Starting, Stopping
<1>16. CASE Return
  <2>1. UNCHANGED <<trace, run, run_vcpu>> /\ ToldInv
    BY <1>16 DEF Return, GuestInvariant
  <2>2. /\ state' = state /\ vpc = "return"
        /\ vpc' = "idle" /\ emitting' = emitting /\ emitting = <<>>
    BY <1>16 DEF Return, Continue
  <2> QED
    BY <2>1, <2>2, ToldSame DEF ToldInv, Starting, Stopping
<1>17. CASE UNCHANGED vars
  <2>1. UNCHANGED <<trace, run, run_vcpu, state, vpc, emitting>> /\ ToldInv
    BY <1>17 DEF GuestInvariant
  <2> QED
    BY <2>1, ToldSame DEF ToldInv, Starting, Stopping
<1> QED
  BY <1>1, <1>2, <1>3, <1>4, <1>5, <1>6, <1>7, <1>8, <1>9, <1>10, <1>11,
     <1>12, <1>13, <1>14, <1>15, <1>16, <1>17
     DEF Next, Uartrx, Vmm

\* After an UNHANDLED record only the stop's record can be the next of the VMM.
LEMMA UnhandledInvStep == GuestInvariant /\ [Next]_vars => UnhandledInv'
<1> SUFFICES ASSUME GuestInvariant, [Next]_vars PROVE UnhandledInv'
  BY DEF GuestInvariant
<1> USE DEF vars, controlVars, deviceVars, vcpuVars, handlerVars, typeVars
<1>1. ASSUME NEW c \in Commands, record_command(c) PROVE UnhandledInv'
  <2> DEFINE r == [kind |-> "CMD", verb |-> c.verb]
  <2>1. r \in Records /\ ~IsVmm(r) /\ ~IsUnhandled(r)
    BY GuestAssumption DEF Records, CmdRecords, Verbs, IsVmm, IsUnhandled
  <2>2. trace' = Append(trace, r) /\ UNCHANGED <<state, vpc, emitting>>
    BY <1>1 DEF record_command
  <2> HIDE DEF r
  <2>3. UnhandledLast(trace') => UnhandledLast(trace)
    BY <2>1, <2>2, UnhandledLastGrows DEF GuestInvariant, TypeOK
  <2> QED
    BY <2>2, <2>3 DEF GuestInvariant, UnhandledInv, Stopping
<1>2. CASE cmd_to_vmm
  BY <1>2 DEF cmd_to_vmm, GuestInvariant, UnhandledInv, Stopping
<1>3. ASSUME NEW v \in Vcpus, TakeExit(v) PROVE UnhandledInv'
  BY <1>3 DEF TakeExit, GuestInvariant, UnhandledInv, Stopping
<1>4. CASE EmitRecord
  <2>1. TypeOK /\ VcpuInv /\ EmitInv /\ UnhandledInv
    BY DEF GuestInvariant
  <2>2. UNCHANGED <<run, run_vcpu, state, vpc>>
    BY <1>4 DEF EmitRecord
  <2>3. PICK r \in Records :
          /\ trace' = Append(trace, r) /\ vpc # "idle"
          /\ vpc = "start" => r = GuestEvent("STARTED", run, run_vcpu)[1]
          /\ vpc = "return" =>
               r = GuestEvent(state, run, run_vcpu)[1] /\ state \in Stopped
          /\ vpc \in {"resume", "stop"} =>
               /\ r \in ExitRecords({cur})
               /\ IsUnhandled(r) => vpc = "stop" /\ emitting' = <<>>
    BY <1>4, <2>1, EmitFacts
  <2>4. IsVmm(r) /\ (IsUnhandled(r) => vpc = "stop" /\ emitting' = <<>>)
    <3>1. CASE vpc \in {"start", "return"}
      <4>1. \A event : IsVmm(GuestEvent(event, run, run_vcpu)[1])
                       /\ ~IsUnhandled(GuestEvent(event, run, run_vcpu)[1])
        BY DEF GuestEvent, IsVmm, IsUnhandled
      <4> QED
        BY <2>3, <3>1, <4>1
    <3>2. CASE vpc \in {"resume", "stop"}
      BY <2>1, <2>3, <3>2, ExitRecordIs DEF TypeOK
    <3> QED
      BY <2>1, <2>3, <3>1, <3>2 DEF TypeOK
  <2>5. UnhandledLast(trace') => IsUnhandled(r)
    BY <2>1, <2>3, <2>4, UnhandledLastGrows DEF TypeOK
  <2> QED
    BY <2>2, <2>4, <2>5 DEF UnhandledInv
<1>5. CASE StartRefused
  BY <1>5 DEF StartRefused, NextCommand, GuestInvariant, UnhandledInv,
     Stopping
<1>6. CASE BootFails
  BY <1>6 DEF BootFails, NextCommand, GuestInvariant, UnhandledInv, Stopping
<1>7. CASE Boot
  BY <1>7 DEF Boot, NextCommand, GuestInvariant, UnhandledInv, Stopping
<1>8. CASE StartVcpu
  BY <1>8 DEF StartVcpu, Continue, GuestInvariant, UnhandledInv, Stopping
<1>9. CASE StartVcpuFails
  BY <1>9 DEF StartVcpuFails, Continue, GuestInvariant, UnhandledInv, Stopping
<1>10. CASE guest_control_stop
  BY <1>10 DEF guest_control_stop, NextCommand, GuestInvariant, UnhandledInv,
     Stopping
<1>11. CASE StopRefused
  BY <1>11 DEF StopRefused, NextCommand, GuestInvariant, UnhandledInv,
     Stopping
<1>12. CASE Report
  BY <1>12 DEF Report, NextCommand, GuestInvariant, UnhandledInv, Stopping
<1>13. ASSUME NEW v \in Vcpus, Fault(v) PROVE UnhandledInv'
  BY <1>13 DEF Fault, GuestInvariant, UnhandledInv, Stopping
<1>14. CASE Resume
  BY <1>14 DEF Resume, Continue, GuestInvariant, UnhandledInv, Stopping
<1>15. CASE guest_control_fault_stopped
  <2>1. /\ trace' = trace /\ vpc' = "return" /\ state' = "STOPPED_BY_FAULT"
        /\ emitting' = GuestEvent("STOPPED_BY_FAULT", run, run_vcpu)
    BY <1>15 DEF guest_control_fault_stopped, Continue
  <2>2. emitting' # <<>>
    BY <2>1 DEF GuestEvent
  <2> QED
    BY <2>1, <2>2 DEF UnhandledInv, Stopping
<1>16. CASE Return
  BY <1>16 DEF Return, Continue, GuestInvariant, UnhandledInv, Stopping
<1>17. CASE UNCHANGED vars
  BY <1>17 DEF GuestInvariant, UnhandledInv, Stopping
<1> QED
  BY <1>1, <1>2, <1>3, <1>4, <1>5, <1>6, <1>7, <1>8, <1>9, <1>10, <1>11,
     <1>12, <1>13, <1>14, <1>15, <1>16, <1>17
     DEF Next, Uartrx, Vmm

\* What the trace says stays so while it does not grow ...
TraceOK == RecordsInsideRun /\ RunsNumbered /\ UnhandledStopsGuest

\* No property of the trace alone changes with the rest of the state.
LEMMA TraceSame ==
  ASSUME GuestInvariant, trace' = trace
  PROVE  TraceOK'
  BY DEF GuestInvariant, TraceOK, RecordsInsideRun, RunsNumbered,
         UnhandledStopsGuest

\* ... and what the VMM emits fits.
LEMMA EmitTold ==
  ASSUME GuestInvariant, EmitRecord
  PROVE  TraceOK'
<1>1. /\ TypeOK /\ VcpuInv /\ EmitInv /\ ToldInv /\ UnhandledInv
      /\ RecordsInsideRun /\ RunsNumbered /\ UnhandledStopsGuest
  BY DEF GuestInvariant
<1>2. PICK r \in Records :
        /\ trace' = Append(trace, r) /\ vpc # "idle"
        /\ vpc = "start" => r = GuestEvent("STARTED", run, run_vcpu)[1]
        /\ vpc = "return" =>
             r = GuestEvent(state, run, run_vcpu)[1] /\ state \in Stopped
        /\ vpc \in {"resume", "stop"} => r \in ExitRecords({cur})
  BY <1>1, EmitFacts
<1>3. emitting # <<>> /\ run \in Nat /\ run_vcpu \in Vcpus
  BY <1>1 DEF EmitRecord, TypeOK
<1>4. \A event : LET g == GuestEvent(event, run, run_vcpu)[1]
                 IN  /\ IsGuest(g) /\ g.kind = "GUEST" /\ g.event = event
                     /\ g.run = run /\ g.vcpu = run_vcpu
  BY DEF GuestEvent, IsGuest
<1>5. UnhandledLast(trace) => vpc = "return" /\ state = "STOPPED_BY_FAULT"
  BY <1>1, <1>3 DEF UnhandledInv, Stopping
<1>6. CASE vpc = "start"
  <2>1. IsGuest(r) /\ r.kind = "GUEST" /\ r.event = "STARTED" /\ r.run = run
    BY <1>2, <1>4, <1>6
  <2>2. LastRun(run - 1)
    BY <1>1, <1>3, <1>6 DEF ToldInv, Starting
  <2>3. GuestFollows(r, trace)
    <3>1. CASE NoGuest(trace, Len(trace)) /\ run - 1 = 0
      BY <1>3, <2>1, <3>1 DEF GuestFollows
    <3>2. CASE \E j \in 1 .. Len(trace) :
                 LastGuest(trace, Len(trace), j) /\ trace[j].run = run - 1
      <4>1. PICK j \in 1 .. Len(trace) :
              LastGuest(trace, Len(trace), j) /\ trace[j].run = run - 1
        BY <3>2
      <4>2. r.run = trace[j].run + 1
        BY <1>3, <2>1, <4>1
      <4> QED
        BY <2>1, <4>1, <4>2 DEF GuestFollows
    <3> QED
      BY <2>2, <3>1, <3>2 DEF LastRun
  <2>4. RecordsInsideRun' /\ RunsNumbered'
    BY <1>1, <1>2, <2>1, <2>3, RecordsInsideRunGrows, RunsNumberedGrows
  <2>5. UnhandledStopsGuest'
    BY <1>1, <1>2, <1>5, <1>6, UnhandledGrows
  <2> QED
    BY <2>4, <2>5 DEF TraceOK
<1>7. CASE vpc = "return"
  <2>1. /\ IsGuest(r) /\ r.kind = "GUEST" /\ r.event = state /\ r.run = run
        /\ r.vcpu = run_vcpu /\ state # "STARTED"
    BY <1>2, <1>4, <1>7 DEF Stopped
  <2>2. PICK j \in 1 .. Len(trace) :
          /\ LastGuest(trace, Len(trace), j)
          /\ trace[j] = GuestEvent("STARTED", run, run_vcpu)[1]
    BY <1>1, <1>3, <1>7 DEF ToldInv, Stopping, Told
  <2>3. Closes(r, trace[j])
    BY <1>4, <2>1, <2>2 DEF Closes
  <2>4. GuestFollows(r, trace)
    BY <2>1, <2>2, <2>3 DEF GuestFollows
  <2>5. RecordsInsideRun' /\ RunsNumbered'
    BY <1>1, <1>2, <2>1, <2>4, RecordsInsideRunGrows, RunsNumberedGrows
  <2>6. UnhandledStopsGuest'
    BY <1>1, <1>2, <1>5, <2>1, UnhandledGrows
  <2> QED
    BY <2>5, <2>6 DEF TraceOK
<1>8. CASE vpc \in {"resume", "stop"}
  <2>1. ~IsGuest(r) /\ r.vcpu = run_vcpu /\ state = "RUNNING"
    BY <1>1, <1>2, <1>8, ExitRecordIs DEF VcpuInv, TypeOK
  <2>2. PICK j \in 1 .. Len(trace) :
          /\ LastGuest(trace, Len(trace), j)
          /\ trace[j] = GuestEvent("STARTED", run, run_vcpu)[1]
    BY <1>1, <2>1 DEF ToldInv, Told
  <2>3. trace[j].event = "STARTED" /\ trace[j].vcpu = r.vcpu
    BY <1>4, <2>1, <2>2
  <2>4. RecordsInsideRun'
    BY <1>1, <1>2, <2>2, <2>3, RecordsInsideRunGrows
  <2>5. RunsNumbered'
    BY <1>1, <1>2, <2>1, RunsNumberedGrows
  <2>6. UnhandledStopsGuest'
    BY <1>1, <1>2, <1>5, <1>8, UnhandledGrows
  <2> QED
    BY <2>4, <2>5, <2>6 DEF TraceOK
<1> QED
  BY <1>1, <1>2, <1>6, <1>7, <1>8 DEF TypeOK

\* What the trace says of the runs.
LEMMA TraceStep == GuestInvariant /\ [Next]_vars => TraceOK'
<1> SUFFICES ASSUME GuestInvariant, [Next]_vars PROVE TraceOK'
  BY DEF GuestInvariant
<1> USE DEF vars, controlVars, deviceVars, vcpuVars, handlerVars, typeVars
<1>1. ASSUME NEW c \in Commands, record_command(c) PROVE TraceOK'
  <2> DEFINE r == [kind |-> "CMD", verb |-> c.verb]
  <2>1. r \in Records /\ ~IsVmm(r) /\ ~IsGuest(r) /\ r.kind = "CMD"
    BY GuestAssumption DEF Records, CmdRecords, Verbs, IsVmm, IsGuest
  <2>2. trace' = Append(trace, r)
    BY <1>1 DEF record_command
  <2> HIDE DEF r
  <2>3. TypeOK /\ RecordsInsideRun /\ RunsNumbered /\ UnhandledStopsGuest
    BY DEF GuestInvariant
  <2>4. RecordsInsideRun'
    BY <2>1, <2>2, <2>3, RecordsInsideRunGrows
  <2>5. RunsNumbered'
    BY <2>1, <2>2, <2>3, RunsNumberedGrows
  <2>6. UnhandledStopsGuest'
    BY <2>1, <2>2, <2>3, UnhandledGrows
  <2> QED
    BY <2>4, <2>5, <2>6 DEF TraceOK
<1>2. CASE cmd_to_vmm
  <2>1. trace' = trace
    BY <1>2 DEF cmd_to_vmm
  <2> QED
    BY <2>1, TraceSame
<1>3. ASSUME NEW v \in Vcpus, TakeExit(v) PROVE TraceOK'
  <2>1. trace' = trace
    BY <1>3 DEF TakeExit
  <2> QED
    BY <2>1, TraceSame
<1>4. CASE EmitRecord
  BY <1>4, EmitTold
<1>5. CASE StartRefused
  <2>1. trace' = trace
    BY <1>5 DEF StartRefused
  <2> QED
    BY <2>1, TraceSame
<1>6. CASE BootFails
  <2>1. trace' = trace
    BY <1>6 DEF BootFails
  <2> QED
    BY <2>1, TraceSame
<1>7. CASE Boot
  <2>1. trace' = trace
    BY <1>7 DEF Boot
  <2> QED
    BY <2>1, TraceSame
<1>8. CASE StartVcpu
  <2>1. trace' = trace
    BY <1>8 DEF StartVcpu
  <2> QED
    BY <2>1, TraceSame
<1>9. CASE StartVcpuFails
  <2>1. trace' = trace
    BY <1>9 DEF StartVcpuFails
  <2> QED
    BY <2>1, TraceSame
<1>10. CASE guest_control_stop
  <2>1. trace' = trace
    BY <1>10 DEF guest_control_stop
  <2> QED
    BY <2>1, TraceSame
<1>11. CASE StopRefused
  <2>1. trace' = trace
    BY <1>11 DEF StopRefused
  <2> QED
    BY <2>1, TraceSame
<1>12. CASE Report
  <2>1. trace' = trace
    BY <1>12 DEF Report
  <2> QED
    BY <2>1, TraceSame
<1>13. ASSUME NEW v \in Vcpus, Fault(v) PROVE TraceOK'
  <2>1. trace' = trace
    BY <1>13 DEF Fault
  <2> QED
    BY <2>1, TraceSame
<1>14. CASE Resume
  <2>1. trace' = trace
    BY <1>14 DEF Resume
  <2> QED
    BY <2>1, TraceSame
<1>15. CASE guest_control_fault_stopped
  <2>1. trace' = trace
    BY <1>15 DEF guest_control_fault_stopped
  <2> QED
    BY <2>1, TraceSame
<1>16. CASE Return
  <2>1. trace' = trace
    BY <1>16 DEF Return
  <2> QED
    BY <2>1, TraceSame
<1>17. CASE UNCHANGED vars
  <2>1. trace' = trace
    BY <1>17
  <2> QED
    BY <2>1, TraceSame
<1> QED
  BY <1>1, <1>2, <1>3, <1>4, <1>5, <1>6, <1>7, <1>8, <1>9, <1>10, <1>11,
     <1>12, <1>13, <1>14, <1>15, <1>16, <1>17
     DEF Next, Uartrx, Vmm
-----------------------------------------------------------------------------
(* The life of the guest *)

\* The invariant holds before the first command.
LEMMA GuestInit == Init => GuestInvariant
<1> SUFFICES ASSUME Init PROVE GuestInvariant
  OBVIOUS
<1>1. 0 \in Vcpus
  BY GuestAssumption DEF Vcpus
<1>2. trace = <<>> /\ emitting = <<>> /\ vpc = "idle" /\ run = 0
  BY DEF Init
<1>3. Len(trace) = 0 /\ \A i : i \notin 1 .. Len(trace)
  BY <1>2
<1>4. TypeOK
  BY <1>1 DEF Init, TypeOK, States
<1>5. VcpuInv /\ EmitInv
  BY DEF Init, VcpuInv, OneGuest, EmitInv
<1>6. ToldInv
  <2>1. NoGuest(trace, Len(trace))
    BY <1>3 DEF NoGuest
  <2>2. state = "NOT_STARTED" /\ ~Starting /\ ~Stopping
    BY DEF Init, Starting, Stopping
  <2>3. LastRun(run)
    BY <1>2, <2>1 DEF LastRun
  <2> QED
    BY <1>2, <2>1, <2>2, <2>3 DEF ToldInv, Stopped
<1>7. UnhandledInv /\ RecordsInsideRun /\ RunsNumbered /\ UnhandledStopsGuest
  BY <1>3 DEF UnhandledInv, UnhandledLast, RecordsInsideRun, RunsNumbered,
              UnhandledStopsGuest
<1> QED
  BY <1>4, <1>5, <1>6, <1>7 DEF GuestInvariant

\* GuestInvariant holds in every reachable state of the VMM (guest_control.c,
\* vmm.c) with its guest and uartrx beside it.
THEOREM GuestInvariantHolds == Spec => []GuestInvariant
<1>1. GuestInvariant /\ [Next]_vars => GuestInvariant'
  BY TypeOKStep, VcpuInvStep, EmitInvStep, ToldInvStep, UnhandledInvStep,
     TraceStep DEF GuestInvariant, TraceOK
<1> QED
  BY GuestInit, <1>1, PTL DEF Spec

\* The guest that guest_control.c believes in is the one the kernel has: its
\* vCPU is alive exactly while it is RUNNING, and no other vCPU ever is.
THEOREM OnlyOneGuest == Spec => []OneGuest
<1>1. GuestInvariant => OneGuest
  BY DEF GuestInvariant, VcpuInv
<1> QED
  BY GuestInvariantHolds, <1>1, PTL

\* Every access and SMC in the trace lies inside a run of its own vCPU
\* (boot_fresh() traces STARTED before start_vcpu(), stops follow handlers).
THEOREM RecordsLieInsideRuns == Spec => []RecordsInsideRun
<1>1. GuestInvariant => RecordsInsideRun
  BY DEF GuestInvariant
<1> QED
  BY GuestInvariantHolds, <1>1, PTL

\* The GUEST records of boot_fresh(), guest_control_stop() and
\* guest_control_fault_stopped() tell the guest's lifecycle.
THEOREM LifecycleIsTraced == Spec => []LifecycleTraced
<1>1. GuestInvariant => LifecycleTraced
  <2> SUFFICES ASSUME GuestInvariant PROVE LifecycleTraced
    OBVIOUS
  <2>1. RunsNumbered /\ ToldInv
    BY DEF GuestInvariant
  <2> QED
    BY <2>1 DEF LifecycleTraced, ToldInv, Stopping, Stopped
<1> QED
  BY GuestInvariantHolds, <1>1, PTL

\* The VMM's next record after an UNHANDLED one (smc_policy.c, mmio_trace.c) is
\* the STOPPED_BY_FAULT of guest_control_fault_stopped().
THEOREM UnhandledAlwaysStops == Spec => []UnhandledStopsGuest
<1>1. GuestInvariant => UnhandledStopsGuest
  BY DEF GuestInvariant
<1> QED
  BY GuestInvariantHolds, <1>1, PTL
-----------------------------------------------------------------------------
(* The records of an SMC *)

\* A record that completes what the VMM records of an exit; one that belongs
\* to an SMC under way; and what it may belong to.
Done(a) ==
  /\ a.kind # "SMC_ENTER"
  /\ a.kind = "SMC_REGS" => a.first >= 6 /\ a.dir = "out"
  /\ a.kind = "SMC_EXIT" => a.flag = "UNHANDLED"
Inside(r) == r.kind \in {"SMC_REGS", "SMC_EXIT"}
Belongs(a, b) == b.kind = "SMC_EXIT" => Answers(a, b)

\* The VMM's records e, still to be emitted: each may follow the one before,
\* and the last completes them.
Chained(e) ==
  /\ \A k \in 1 .. (Len(e) - 1) : SmcNext(e[k], e[k + 1])
  /\ Len(e) > 0 => Done(e[Len(e)])

\* Record k of e has the entry or the exit it belongs to in e.
Headed(e, k) ==
  \E i \in 1 .. (k - 1) : LastHead(e, k - 1, i) /\ Belongs(e[i], e[k])

\* What one exit records is whole, and an entry comes first in it.
OneEntry(e) == \A k \in 2 .. Len(e) : e[k].kind # "SMC_ENTER"
GroupOK(e) ==
  /\ Chained(e) /\ OneEntry(e)
  /\ \A k \in 1 .. Len(e) : Inside(e[k]) => Headed(e, k)
Entered(e) == e # <<>> /\ e[1].kind = "SMC_ENTER"

LastVmm(s, i) ==
  IsVmm(s[i]) /\ \A k \in (i + 1) .. Len(s) : ~IsVmm(s[k])

\* The trace and what is still to be emitted are groups, taken together: the
\* next record may follow the VMM's last one, and what is still to come of an
\* SMC has its entry or exit there or in the trace.
Joined ==
  \A i \in 1 .. Len(trace) : LastVmm(trace, i) =>
    IF emitting = <<>> THEN Done(trace[i]) ELSE SmcNext(trace[i], emitting[1])
Owned(k) ==
  \/ Headed(emitting, k)
  \/ /\ \A i \in 1 .. (k - 1) : ~SmcHead(emitting[i])
     /\ \E i \in 1 .. Len(trace) :
          LastHead(trace, Len(trace), i) /\ Belongs(trace[i], emitting[k])
GroupInv ==
  /\ SmcGroups /\ Chained(emitting) /\ Joined
  /\ \A k \in 1 .. Len(emitting) : Inside(emitting[k]) => Owned(k)

\* The steps inside an SMC.
LEMMA SmcSteps ==
  ASSUME NEW v, NEW fid, NEW flag, NEW dir
  PROVE  LET enter == [kind |-> "SMC_ENTER", vcpu |-> v, fid |-> fid]
             done == [kind |-> "SMC_EXIT", vcpu |-> v, flag |-> flag]
             unhandled == [kind |-> "SMC_EXIT", vcpu |-> v,
                           flag |-> "UNHANDLED"]
         IN  /\ SmcNext(enter, SmcRegs(v, 2, "in"))
             /\ SmcNext(SmcRegs(v, 2, dir), SmcRegs(v, 4, dir))
             /\ SmcNext(SmcRegs(v, 4, dir), SmcRegs(v, 6, dir))
             /\ SmcNext(SmcRegs(v, 6, "in"), done)
             /\ flag # "UNHANDLED" => SmcNext(done, SmcRegs(v, 2, "out"))
             /\ SmcNext(SmcRegs(v, 6, "out"), unhandled)
             /\ Done(SmcRegs(v, 6, "out")) /\ Done(unhandled)
  BY DEF SmcNext, SmcRegs, Done

\* After a complete exit comes anything that does not belong to an SMC.
LEMMA DoneNext ==
  ASSUME NEW a \in Records, NEW b, Done(a), ~Inside(b)
  PROVE  SmcNext(a, b)
<1>1. a.kind = "SMC_REGS" => a.first \in Nat
  BY DEF Records, CmdRecords, GuestRecords, ExitRecords
<1> QED
  BY <1>1 DEF SmcNext, Done, Inside

\* A single record that does not belong to an SMC, and no record at all.
LEMMA AloneIsGroup ==
  ASSUME NEW r, ~Inside(r), Done(r)
  PROVE  GroupOK(<<r>>) /\ GroupOK(<<>>)
  BY DEF GroupOK, Chained, OneEntry

\* Records of memory accesses belong to no SMC.
LEMMA MmioIsGroup ==
  ASSUME NEW S, NEW s \in Seq(S), \A i \in 1 .. Len(s) : s[i].kind = "MMIO"
  PROVE  GroupOK(s)
<1>1. Len(s) \in Nat
  OBVIOUS
<1>2. \A a, b : a.kind = "MMIO" /\ b.kind = "MMIO" =>
        SmcNext(a, b) /\ Done(a) /\ ~Inside(a)
  BY DEF SmcNext, Done, Inside
<1>3. \A k \in 1 .. (Len(s) - 1) : k \in 1 .. Len(s) /\ k + 1 \in 1 .. Len(s)
  BY <1>1
<1>4. Len(s) > 0 => Len(s) \in 1 .. Len(s)
  BY <1>1
<1>5. \A k \in 2 .. Len(s) : k \in 1 .. Len(s)
  BY <1>1
<1>6. OneEntry(s)
  BY <1>5 DEF OneEntry
<1> QED
  BY <1>2, <1>3, <1>4, <1>6 DEF GroupOK, Chained

\* The places in a whole SMC.
LEMMA SmcPlaces ==
  ASSUME NEW n \in {5, 8, 9}
  PROVE  /\ \A k \in 1 .. (n - 1) :
              \/ k = 1 \/ k = 2 \/ k = 3 \/ k = 4
              \/ n > 5 /\ (k = 5 \/ k = 6 \/ k = 7)
              \/ n > 8 /\ k = 8
         /\ \A k \in 1 .. n :
              \/ k = 1 \/ k \in 2 .. 5
              \/ k \in 6 .. 9 /\ n > 5 /\ (k = 9 => n > 8)
         /\ \A k \in 2 .. n :
              \/ k = 2 \/ k = 3 \/ k = 4 \/ k = 5
              \/ n > 5 /\ (k = 6 \/ k = 7 \/ k = 8)
              \/ n > 8 /\ k = 9
  OBVIOUS

\* A whole SMC: refused, emulated, forwarded, or forwarded and not finished.
LEMMA SmcIsGroup ==
  ASSUME NEW v, NEW fid, NEW flag, NEW S, NEW s \in Seq(S),
         Len(s) \in {5, 8, 9},
         s[1] = [kind |-> "SMC_ENTER", vcpu |-> v, fid |-> fid],
         s[2] = SmcRegs(v, 2, "in"), s[3] = SmcRegs(v, 4, "in"),
         s[4] = SmcRegs(v, 6, "in"),
         s[5] = [kind |-> "SMC_EXIT", vcpu |-> v, flag |-> flag],
         Len(s) = 5 <=> flag = "UNHANDLED",
         Len(s) > 5 => /\ s[6] = SmcRegs(v, 2, "out")
                       /\ s[7] = SmcRegs(v, 4, "out")
                       /\ s[8] = SmcRegs(v, 6, "out"),
         Len(s) > 8 => /\ flag = "FORWARDED"
                       /\ s[9] = [kind |-> "SMC_EXIT", vcpu |-> v,
                                  flag |-> "UNHANDLED"],
         flag = "FORWARDED" => fid = SMCCC_VERSION_FID,
         flag = "EMULATED" => fid.service = SMCCC_SERVICE_STD
  PROVE  GroupOK(s)
<1>1. \A k \in 1 .. (Len(s) - 1) : SmcNext(s[k], s[k + 1])
  <2> TAKE k \in 1 .. (Len(s) - 1)
  <2>1. \/ k = 1 \/ k = 2 \/ k = 3 \/ k = 4
        \/ Len(s) > 5 /\ (k = 5 \/ k = 6 \/ k = 7)
        \/ Len(s) > 8 /\ k = 8
    BY SmcPlaces
  <2>2. CASE k = 1
    BY <2>2, SmcSteps
  <2>3. CASE k = 2
    BY <2>3, SmcSteps
  <2>4. CASE k = 3
    BY <2>4, SmcSteps
  <2>5. CASE k = 4
    BY <2>5, SmcSteps
  <2>6. CASE Len(s) > 5 /\ k = 5
    BY <2>6, SmcSteps
  <2>7. CASE Len(s) > 5 /\ k = 6
    BY <2>7, SmcSteps
  <2>8. CASE Len(s) > 5 /\ k = 7
    BY <2>8, SmcSteps
  <2>9. CASE Len(s) > 8 /\ k = 8
    BY <2>9, SmcSteps
  <2> QED
    BY <2>1, <2>2, <2>3, <2>4, <2>5, <2>6, <2>7, <2>8, <2>9
<1>2. Done(s[Len(s)])
  <2>1. s[Len(s)] \in {[kind |-> "SMC_EXIT", vcpu |-> v, flag |-> "UNHANDLED"],
                      SmcRegs(v, 6, "out")}
    <3>1. 8 > 5 /\ 9 > 8
      OBVIOUS
    <3> QED
      BY <3>1, Zenon
  <2>2. /\ Done([kind |-> "SMC_EXIT", vcpu |-> v, flag |-> "UNHANDLED"])
        /\ Done(SmcRegs(v, 6, "out"))
    BY SmcSteps
  <2> QED
    BY <2>1, <2>2, Zenon
<1>3. /\ SmcHead(s[1]) /\ SmcHead(s[5]) /\ ~Inside(s[1])
      /\ ~SmcHead(s[2]) /\ ~SmcHead(s[3]) /\ ~SmcHead(s[4])
      /\ Len(s) > 5 => ~SmcHead(s[6]) /\ ~SmcHead(s[7]) /\ ~SmcHead(s[8])
  BY DEF SmcHead, SmcRegs, Inside
<1>4. /\ Belongs(s[1], s[2]) /\ Belongs(s[1], s[3]) /\ Belongs(s[1], s[4])
      /\ Belongs(s[1], s[5])
  BY DEF Belongs, Answers, SmcRegs
<1>5. /\ Len(s) > 5 => /\ Belongs(s[5], s[6]) /\ Belongs(s[5], s[7])
                       /\ Belongs(s[5], s[8])
      /\ Len(s) > 8 => Belongs(s[5], s[9])
  BY DEF Belongs, Answers, SmcRegs
<1>6. ASSUME NEW k \in 1 .. Len(s), Inside(s[k]) PROVE Headed(s, k)
  <2>1. CASE k \in 2 .. 5
    <3>1. \A i \in 2 .. (k - 1) : i = 2 \/ i = 3 \/ i = 4
      BY <2>1
    <3>2. 1 \in 1 .. (k - 1) /\ LastHead(s, k - 1, 1)
      BY <1>3, <2>1, <3>1 DEF LastHead
    <3>3. Belongs(s[1], s[k])
      BY <1>4, <2>1
    <3> QED
      BY <3>2, <3>3 DEF Headed
  <2>2. CASE k \in 6 .. 9
    <3>1. Len(s) > 5 /\ (k = 9 => Len(s) > 8)
      BY <2>2, SmcPlaces
    <3>2. \A i \in 6 .. (k - 1) : i = 6 \/ i = 7 \/ i = 8
      BY <2>2
    <3>3. 5 \in 1 .. (k - 1) /\ LastHead(s, k - 1, 5)
      BY <1>3, <2>2, <3>1, <3>2 DEF LastHead
    <3>4. Belongs(s[5], s[k])
      BY <1>5, <2>2, <3>1
    <3> QED
      BY <3>3, <3>4 DEF Headed
  <2>3. k = 1 \/ k \in 2 .. 5 \/ k \in 6 .. 9
    BY SmcPlaces
  <2> QED
    BY <1>3, <1>6, <2>1, <2>2, <2>3
<1>7. OneEntry(s)
  <2> SUFFICES ASSUME NEW k \in 2 .. Len(s) PROVE s[k].kind # "SMC_ENTER"
    BY DEF OneEntry
  <2>1. \/ k = 2 \/ k = 3 \/ k = 4 \/ k = 5
        \/ Len(s) > 5 /\ (k = 6 \/ k = 7 \/ k = 8)
        \/ Len(s) > 8 /\ k = 9
    BY SmcPlaces
  <2>2. \A first, dir : SmcRegs(v, first, dir).kind # "SMC_ENTER"
    BY DEF SmcRegs
  <2>3. \A f : [kind |-> "SMC_EXIT", vcpu |-> v, flag |-> f].kind # "SMC_ENTER"
    OBVIOUS
  <2> QED
    BY <2>1, <2>2, <2>3, Zenon
<1> QED
  BY <1>1, <1>2, <1>6, <1>7 DEF GroupOK, Chained

\* The places of u, which is s of length m and t of length n.
Placed(u, s, t, m, n) ==
  /\ m = 1 => u[1] = s[1]
  /\ m = 1 /\ n = 3 => u[2] = t[1] /\ u[3] = t[2] /\ u[4] = t[3]
  /\ m \in {4, 8} =>
       u[1] = s[1] /\ u[2] = s[2] /\ u[3] = s[3] /\ u[4] = s[4]
  /\ m = 4 => u[5] = t[1]
  /\ m = 4 /\ n = 4 => u[6] = t[2] /\ u[7] = t[3] /\ u[8] = t[4]
  /\ m = 8 => u[5] = s[5] /\ u[6] = s[6] /\ u[7] = s[7] /\ u[8] = s[8]
  /\ m = 8 => u[9] = t[1]
LEMMA PlacedIs ==
  ASSUME NEW u, NEW s, NEW t, NEW m \in Nat, NEW n \in Nat \ {0},
         \A i \in 1 .. (m + n) : u[i] = IF i <= m THEN s[i] ELSE t[i - m]
  PROVE  Placed(u, s, t, m, n)
  BY DEF Placed

\* Where the records of a concatenation are.
LEMMA ConcatPlaces ==
  ASSUME NEW S, NEW s \in Seq(S), NEW t \in Seq(S), Len(t) # 0
  PROVE  /\ s \o t \in Seq(S) /\ Len(s \o t) = Len(s) + Len(t)
         /\ Placed(s \o t, s, t, Len(s), Len(t))
<1>1. Len(s) \in Nat /\ Len(t) \in Nat \ {0}
  OBVIOUS
<1>2. \A i \in 1 .. (Len(s) + Len(t)) :
        (s \o t)[i] = IF i <= Len(s) THEN s[i] ELSE t[i - Len(s)]
  BY ConcatIs
<1>3. s \o t \in Seq(S) /\ Len(s \o t) = Len(s) + Len(t)
  BY ConcatIs
<1> QED
  BY <1>1, <1>2, <1>3, PlacedIs

\* smc_trace_regs() after another record.
LEMMA SmcPart ==
  ASSUME NEW v, NEW dir, NEW S, NEW r \in S,
         smc_trace_regs(v, dir) \in Seq(S)
  PROVE  LET s == <<r>> \o smc_trace_regs(v, dir)
         IN  /\ s \in Seq(S) /\ Len(s) = 4
             /\ s[1] = r /\ s[2] = SmcRegs(v, 2, dir)
             /\ s[3] = SmcRegs(v, 4, dir) /\ s[4] = SmcRegs(v, 6, dir)
<1> DEFINE h == <<r>>
           t == smc_trace_regs(v, dir)
<1>1. h \in Seq(S) /\ Len(h) = 1 /\ h[1] = r
  OBVIOUS
<1>2. /\ t \in Seq(S) /\ Len(t) = 3 /\ t[1] = SmcRegs(v, 2, dir)
      /\ t[2] = SmcRegs(v, 4, dir) /\ t[3] = SmcRegs(v, 6, dir)
  BY DEF smc_trace_regs, SmcRegs
<1> HIDE DEF h, t
<1>3. 3 # 0 /\ 1 + 3 = 4
  OBVIOUS
<1>4. /\ h \o t \in Seq(S) /\ Len(h \o t) = Len(h) + Len(t)
      /\ Placed(h \o t, h, t, Len(h), Len(t))
  BY <1>1, <1>2, <1>3, ConcatPlaces, Zenon
<1>5. Len(h \o t) = 4 /\ Placed(h \o t, h, t, 1, 3)
  BY <1>1, <1>2, <1>3, <1>4, Zenon
<1>6. /\ (h \o t)[1] = h[1] /\ (h \o t)[2] = t[1] /\ (h \o t)[3] = t[2]
      /\ (h \o t)[4] = t[3]
  BY <1>5 DEF Placed
<1> QED
  BY <1>1, <1>2, <1>4, <1>5, <1>6, Zenon DEF h, t

\* smc_trace.c's three runs of records.
LEMMA SmcParts ==
  ASSUME NEW v, NEW fid \in Fids, NEW flag \in {"EMULATED", "FORWARDED"}
  PROVE  LET enter == smc_trace_enter(v, fid)
             done == smc_trace_exit(v, flag)
             unhandled == smc_trace_unhandled(v)
         IN  /\ enter \in Seq(ExitRecords({v})) /\ Len(enter) = 4
             /\ enter[1] = [kind |-> "SMC_ENTER", vcpu |-> v, fid |-> fid]
             /\ enter[2] = SmcRegs(v, 2, "in")
             /\ enter[3] = SmcRegs(v, 4, "in")
             /\ enter[4] = SmcRegs(v, 6, "in")
             /\ done \in Seq(ExitRecords({v})) /\ Len(done) = 4
             /\ done[1] = [kind |-> "SMC_EXIT", vcpu |-> v, flag |-> flag]
             /\ done[2] = SmcRegs(v, 2, "out")
             /\ done[3] = SmcRegs(v, 4, "out")
             /\ done[4] = SmcRegs(v, 6, "out")
             /\ unhandled \in Seq(ExitRecords({v})) /\ Len(unhandled) = 1
             /\ unhandled[1] =
                  [kind |-> "SMC_EXIT", vcpu |-> v, flag |-> "UNHANDLED"]
<1> DEFINE S == ExitRecords({v})
           entry == [kind |-> "SMC_ENTER", vcpu |-> v, fid |-> fid]
           finish == [kind |-> "SMC_EXIT", vcpu |-> v, flag |-> flag]
           refuse == [kind |-> "SMC_EXIT", vcpu |-> v, flag |-> "UNHANDLED"]
<1>1. entry \in S /\ finish \in S /\ refuse \in S
  BY DEF ExitRecords, Flags
<1>2. ASSUME NEW dir \in {"in", "out"} PROVE smc_trace_regs(v, dir) \in Seq(S)
  <2> DEFINE r(i) == [kind |-> "SMC_REGS", vcpu |-> v, first |-> 2 * i,
                      dir |-> dir]
  <2>1. \A i \in 1 .. 3 : r(i) \in S
    BY DEF ExitRecords
  <2>2. smc_trace_regs(v, dir) = [i \in 1 .. 3 |-> r(i)]
    BY DEF smc_trace_regs
  <2> HIDE DEF r, S
  <2> QED
    BY <2>1, <2>2
<1> HIDE DEF S, entry, finish, refuse
<1>3. LET s == <<entry>> \o smc_trace_regs(v, "in")
      IN  /\ s \in Seq(S) /\ Len(s) = 4
          /\ s[1] = entry /\ s[2] = SmcRegs(v, 2, "in")
          /\ s[3] = SmcRegs(v, 4, "in") /\ s[4] = SmcRegs(v, 6, "in")
  BY <1>1, <1>2, SmcPart
<1>4. LET s == <<finish>> \o smc_trace_regs(v, "out")
      IN  /\ s \in Seq(S) /\ Len(s) = 4
          /\ s[1] = finish /\ s[2] = SmcRegs(v, 2, "out")
          /\ s[3] = SmcRegs(v, 4, "out") /\ s[4] = SmcRegs(v, 6, "out")
  BY <1>1, <1>2, SmcPart
<1>5. <<refuse>> \in Seq(S) /\ Len(<<refuse>>) = 1 /\ <<refuse>>[1] = refuse
  BY <1>1
<1> QED
  BY <1>3, <1>4, <1>5, Zenon
     DEF S, entry, finish, refuse, smc_trace_enter, smc_trace_exit,
         smc_trace_unhandled

\* An SMC that the policy refuses, or whose handler fails.
LEMMA SmcRefused ==
  ASSUME NEW v, NEW fid \in Fids
  PROVE  LET s == smc_trace_enter(v, fid) \o smc_trace_unhandled(v)
         IN  GroupOK(s) /\ Entered(s)
<1> DEFINE S == ExitRecords({v})
           e == smc_trace_enter(v, fid)
           u == smc_trace_unhandled(v)
           s == e \o u
<1>1. /\ e \in Seq(S) /\ Len(e) = 4
      /\ e[1] = [kind |-> "SMC_ENTER", vcpu |-> v, fid |-> fid]
      /\ e[2] = SmcRegs(v, 2, "in") /\ e[3] = SmcRegs(v, 4, "in")
      /\ e[4] = SmcRegs(v, 6, "in")
      /\ u \in Seq(S) /\ Len(u) = 1
      /\ u[1] = [kind |-> "SMC_EXIT", vcpu |-> v, flag |-> "UNHANDLED"]
  BY SmcParts
<1> HIDE DEF S, e, u
<1>2. /\ 1 # 0 /\ 4 + 1 = 5 /\ ~(5 > 5) /\ ~(5 > 8)
      /\ "UNHANDLED" # "FORWARDED" /\ "UNHANDLED" # "EMULATED"
  OBVIOUS
<1>3. s \in Seq(S) /\ Len(s) = Len(e) + Len(u) /\ Placed(s, e, u, Len(e), Len(u))
  BY <1>1, <1>2, ConcatPlaces, Zenon
<1> HIDE DEF s
<1>4. Len(s) = 5 /\ Placed(s, e, u, 4, 1)
  BY <1>1, <1>2, <1>3, Zenon
<1>5. /\ s[1] = e[1] /\ s[2] = e[2] /\ s[3] = e[3] /\ s[4] = e[4]
      /\ s[5] = u[1]
  BY <1>4 DEF Placed
<1>6. GroupOK(s)
  BY <1>1, <1>2, <1>3, <1>4, <1>5, SmcIsGroup, Zenon
<1>7. Entered(s)
  BY <1>1, <1>4, <1>5 DEF Entered
<1> QED
  BY <1>6, <1>7 DEF s, e, u

\* An SMC that was emulated or forwarded.
LEMMA SmcDone ==
  ASSUME NEW v, NEW fid \in Fids, NEW flag \in {"EMULATED", "FORWARDED"},
         flag = "FORWARDED" => fid = SMCCC_VERSION_FID,
         flag = "EMULATED" => fid.service = SMCCC_SERVICE_STD
  PROVE  LET s == smc_trace_enter(v, fid) \o smc_trace_exit(v, flag)
         IN  /\ GroupOK(s) /\ Entered(s)
             /\ flag = "FORWARDED" => /\ GroupOK(s \o smc_trace_unhandled(v))
                                      /\ Entered(s \o smc_trace_unhandled(v))
<1> DEFINE S == ExitRecords({v})
           e == smc_trace_enter(v, fid)
           d == smc_trace_exit(v, flag)
           u == smc_trace_unhandled(v)
           s == e \o d
           t == s \o u
<1>1. /\ e \in Seq(S) /\ Len(e) = 4
      /\ e[1] = [kind |-> "SMC_ENTER", vcpu |-> v, fid |-> fid]
      /\ e[2] = SmcRegs(v, 2, "in") /\ e[3] = SmcRegs(v, 4, "in")
      /\ e[4] = SmcRegs(v, 6, "in")
      /\ d \in Seq(S) /\ Len(d) = 4
      /\ d[1] = [kind |-> "SMC_EXIT", vcpu |-> v, flag |-> flag]
      /\ d[2] = SmcRegs(v, 2, "out") /\ d[3] = SmcRegs(v, 4, "out")
      /\ d[4] = SmcRegs(v, 6, "out")
      /\ u \in Seq(S) /\ Len(u) = 1
      /\ u[1] = [kind |-> "SMC_EXIT", vcpu |-> v, flag |-> "UNHANDLED"]
  BY SmcParts
<1> HIDE DEF S, e, d, u
<1>2. /\ 1 # 0 /\ 4 # 0 /\ 4 + 4 = 8 /\ 8 + 1 = 9 /\ 8 > 5 /\ ~(8 > 8)
      /\ 9 > 5 /\ 9 > 8 /\ 8 # 5 /\ 9 # 5 /\ flag # "UNHANDLED"
  OBVIOUS
<1>3. s \in Seq(S) /\ Len(s) = Len(e) + Len(d) /\ Placed(s, e, d, Len(e), Len(d))
  BY <1>1, <1>2, ConcatPlaces, Zenon
<1> HIDE DEF s
<1>4. Len(s) = 8 /\ Placed(s, e, d, 4, 4)
  BY <1>1, <1>2, <1>3, Zenon
<1>5. /\ s[1] = e[1] /\ s[2] = e[2] /\ s[3] = e[3] /\ s[4] = e[4]
      /\ s[5] = d[1] /\ s[6] = d[2] /\ s[7] = d[3] /\ s[8] = d[4]
  BY <1>4 DEF Placed
<1>6. GroupOK(s)
  BY <1>1, <1>2, <1>3, <1>4, <1>5, SmcIsGroup, Zenon
<1>7. t \in Seq(S) /\ Len(t) = Len(s) + Len(u) /\ Placed(t, s, u, Len(s), Len(u))
  BY <1>1, <1>2, <1>3, ConcatPlaces, Zenon
<1> HIDE DEF t
<1>8. Len(t) = 9 /\ Placed(t, s, u, 8, 1)
  BY <1>1, <1>2, <1>4, <1>7, Zenon
<1>9. /\ t[1] = s[1] /\ t[2] = s[2] /\ t[3] = s[3] /\ t[4] = s[4]
      /\ t[5] = s[5] /\ t[6] = s[6] /\ t[7] = s[7] /\ t[8] = s[8]
      /\ t[9] = u[1]
  BY <1>8 DEF Placed
<1>10. flag = "FORWARDED" => GroupOK(t)
  <2>1. /\ t[1] = [kind |-> "SMC_ENTER", vcpu |-> v, fid |-> fid]
        /\ t[2] = SmcRegs(v, 2, "in") /\ t[3] = SmcRegs(v, 4, "in")
        /\ t[4] = SmcRegs(v, 6, "in")
        /\ t[5] = [kind |-> "SMC_EXIT", vcpu |-> v, flag |-> flag]
        /\ t[6] = SmcRegs(v, 2, "out") /\ t[7] = SmcRegs(v, 4, "out")
        /\ t[8] = SmcRegs(v, 6, "out")
        /\ t[9] = [kind |-> "SMC_EXIT", vcpu |-> v, flag |-> "UNHANDLED"]
    BY <1>1, <1>5, <1>9, Zenon
  <2> QED
    BY <1>2, <1>7, <1>8, <2>1, SmcIsGroup, Zenon
<1>11. Entered(s) /\ Entered(t)
  <2>1. s # <<>> /\ t # <<>>
    BY <1>4, <1>8
  <2>2. s[1] = e[1] /\ t[1] = e[1] /\ e[1].kind = "SMC_ENTER"
    BY <1>1, <1>5, <1>9
  <2> QED
    BY <2>1, <2>2 DEF Entered
<1> QED
  BY <1>6, <1>10, <1>11 DEF s, t, e, d, u

\* smc_policy_handle() records whole SMCs.
LEMMA SmcGroupsOf ==
  ASSUME NEW v, NEW fid \in Fids, NEW o \in smc_policy_handle(v, fid)
  PROVE  /\ GroupOK(o.records)
         /\ Entered(o.records) \/ (o.records = <<>> /\ ~o.handled)
<1> DEFINE enter == smc_trace_enter(v, fid)
           refused == enter \o smc_trace_unhandled(v)
           emulated == enter \o smc_trace_exit(v, "EMULATED")
           forwarded == enter \o smc_trace_exit(v, "FORWARDED")
           unfinished == forwarded \o smc_trace_unhandled(v)
<1>1. \/ o.records = <<>> /\ ~o.handled
      \/ o.records = refused
      \/ o.records = emulated /\ fid.service = SMCCC_SERVICE_STD
      \/ o.records \in {forwarded, unfinished} /\ fid = SMCCC_VERSION_FID
  BY DEF smc_policy_handle, smc_policy, Handled, NotHandled
<1>2. GroupOK(<<>>)
  BY DEF GroupOK, Chained, OneEntry
<1>3. GroupOK(refused) /\ Entered(refused)
  BY SmcRefused
<1>4. fid.service = SMCCC_SERVICE_STD => GroupOK(emulated) /\ Entered(emulated)
  BY SmcDone
<1>5. fid = SMCCC_VERSION_FID =>
        /\ GroupOK(forwarded) /\ GroupOK(unfinished)
        /\ Entered(forwarded) /\ Entered(unfinished)
  BY SmcDone
<1> HIDE DEF refused, emulated, forwarded, unfinished
<1> QED
  BY <1>1, <1>2, <1>3, <1>4, <1>5, Zenon

\* memory_handle() records no SMC.
LEMMA MemoryGroups ==
  ASSUME NEW v, NEW f, NEW o \in memory_handle(v, f)
  PROVE  GroupOK(o.records) /\ ~Entered(o.records)
<1> DEFINE S == [kind : {"MMIO"}, vcpu : {v}, flag : Flags]
           unhandled == mmio_trace(v, "UNHANDLED")
<1>1. \A flag \in Flags : mmio_trace(v, flag) \in Seq(S)
  BY DEF mmio_trace
<1>2. {"EMULATED", "FORWARDED"} \subseteq Flags /\ "UNHANDLED" \in Flags
  BY DEF Flags
<1>3. \/ o.records = unhandled
      \/ \E flag \in {"EMULATED", "FORWARDED"} :
           o.records \in {mmio_trace(v, flag), mmio_trace(v, flag) \o unhandled}
      \/ o.records \in {<<>>, <<>> \o unhandled}
  BY DEF memory_handle, unhandled, Handled, NotHandled
<1>4. \A r \in S : r.kind = "MMIO"
  OBVIOUS
<1> HIDE DEF S
<1>5. unhandled \in Seq(S) /\ <<>> \in Seq(S)
  BY <1>1, <1>2
<1> HIDE DEF unhandled
<1>6. \A s, t \in Seq(S) : s \o t \in Seq(S)
  BY ConcatIs
<1>7. o.records \in Seq(S)
  BY <1>1, <1>2, <1>3, <1>5, <1>6, Zenon
<1>8. \A i \in 1 .. Len(o.records) : o.records[i].kind = "MMIO"
  BY <1>4, <1>7
<1>9. ~Entered(o.records)
  <2>1. o.records # <<>> => 1 \in 1 .. Len(o.records)
    BY <1>7
  <2> QED
    BY <1>8, <2>1 DEF Entered
<1> QED
  BY <1>7, <1>8, <1>9, MmioIsGroup

\* handle_fault() records whole groups.
LEMMA FaultGroups ==
  ASSUME NEW v, NEW f \in Faults, NEW o \in handle_fault(v, f)
  PROVE  /\ GroupOK(o.records)
         /\ IsSmc(f) => Entered(o.records) \/ (o.records = <<>> /\ ~o.handled)
         /\ ~IsSmc(f) => ~Entered(o.records)
<1>1. CASE IsSmc(f)
  <2>1. f.fid \in Fids
    BY <1>1 DEF Fids
  <2> QED
    BY <1>1, <2>1, SmcGroupsOf DEF handle_fault
<1>2. CASE ~IsSmc(f) /\ f.label = "VMFault"
  BY <1>2, MemoryGroups DEF handle_fault
<1>3. CASE ~IsSmc(f) /\ f.label # "VMFault"
  <2>1. o.records = <<>>
    BY <1>3 DEF handle_fault, Handled, NotHandled
  <2> QED
    BY <1>3, <2>1 DEF GroupOK, Chained, OneEntry, Entered
<1> QED
  BY <1>1, <1>2, <1>3

\* A GUEST record stands alone.
LEMMA EventIsGroup ==
  ASSUME NEW event, NEW r, NEW v
  PROVE  GroupOK(GuestEvent(event, r, v))
<1> DEFINE g == [kind |-> "GUEST", event |-> event, run |-> r, vcpu |-> v]
<1>1. ~Inside(g) /\ Done(g)
  BY DEF Inside, Done
<1>2. GuestEvent(event, r, v) = <<g>>
  BY DEF GuestEvent
<1> HIDE DEF g
<1> QED
  BY <1>1, <1>2, AloneIsGroup

\* What a step does to the trace and to the records still to be emitted:
\* nothing, a command of uartrx's, the next record, or the records of a group.
TraceKept == trace' = trace /\ emitting' = emitting
TraceCmd ==
  \E c \in Commands : /\ trace' = Append(trace, [kind |-> "CMD", verb |-> c.verb])
                      /\ emitting' = emitting
TraceEmits ==
  /\ emitting # <<>> /\ IsVmm(emitting[1])
  /\ trace' = Append(trace, Head(emitting)) /\ emitting' = Tail(emitting)
TraceFills ==
  trace' = trace /\ emitting = <<>> /\ GroupOK(emitting')

LEMMA StepKinds ==
  ASSUME GuestInvariant, [Next]_vars
  PROVE  TraceKept \/ TraceCmd \/ TraceEmits \/ TraceFills
<1> USE DEF vars, controlVars, deviceVars, vcpuVars, handlerVars, typeVars
<1>0. TypeOK /\ VcpuInv /\ EmitInv
  BY DEF GuestInvariant
<1>1. ASSUME NEW c \in Commands, record_command(c) PROVE TraceCmd
  BY <1>1 DEF record_command, TraceCmd
<1>2. CASE cmd_to_vmm
  BY <1>2 DEF cmd_to_vmm, TraceKept
<1>3. ASSUME NEW v \in Vcpus, TakeExit(v) PROVE TraceKept
  BY <1>3 DEF TakeExit, TraceKept
<1>4. CASE EmitRecord
  <2>1. /\ emitting # <<>> /\ emitting' = Tail(emitting)
        /\ trace' = Append(trace, Head(emitting))
    BY <1>4 DEF EmitRecord
  <2>2. Len(emitting) \in Nat \ {0}
    BY <1>0, <2>1, HeadTailIs DEF TypeOK
  <2>3. IsVmm(emitting[1])
    <3>1. CASE vpc \in {"start", "return"}
      <4>1. \A event, r, v : GuestEvent(event, r, v)[1].kind = "GUEST"
        BY DEF GuestEvent
      <4> QED
        BY <1>0, <2>1, <3>1, <4>1 DEF EmitInv, IsVmm
    <3>2. CASE vpc \in {"resume", "stop"}
      <4>1. emitting[1] \in ExitRecords({cur})
        BY <1>0, <2>2, <3>2 DEF EmitInv
      <4> QED
        BY <4>1 DEF ExitRecords, IsVmm
    <3> QED
      BY <1>0, <2>1, <3>1, <3>2 DEF TypeOK, EmitInv
  <2> QED
    BY <2>1, <2>3 DEF TraceEmits
<1>5. CASE StartRefused
  BY <1>5 DEF StartRefused, TraceKept
<1>6. CASE BootFails
  BY <1>6 DEF BootFails, TraceKept
<1>7. CASE Boot
  <2>1. vpc = "idle" /\ trace' = trace
    BY <1>7 DEF Boot, NextCommand
  <2>2. emitting' = GuestEvent("STARTED", run + 1, Head(cmds).vcpu)
    BY <1>7 DEF Boot
  <2> QED
    BY <1>0, <2>1, <2>2, EventIsGroup DEF TraceFills, EmitInv
<1>8. CASE StartVcpu
  BY <1>8 DEF StartVcpu, TraceKept
<1>9. CASE StartVcpuFails
  BY <1>9 DEF StartVcpuFails, TraceKept
<1>10. CASE guest_control_stop
  <2>1. vpc = "idle" /\ trace' = trace
    BY <1>10 DEF guest_control_stop, NextCommand
  <2>2. emitting' = GuestEvent("STOPPED_BY_COMMAND", run, run_vcpu)
    BY <1>10 DEF guest_control_stop
  <2> QED
    BY <1>0, <2>1, <2>2, EventIsGroup DEF TraceFills, EmitInv
<1>11. CASE StopRefused
  BY <1>11 DEF StopRefused, TraceKept
<1>12. CASE Report
  BY <1>12 DEF Report, TraceKept
<1>13. ASSUME NEW v \in Vcpus, Fault(v) PROVE TraceFills
  <2>1. PICK o \in handle_fault(v, exit[v]) : emitting' = o.records
    BY <1>13 DEF Fault
  <2>2. exit[v] \in Faults /\ trace' = trace /\ emitting = <<>>
    BY <1>0, <1>13 DEF Fault, VcpuInv, EmitInv
  <2> QED
    BY <2>1, <2>2, FaultGroups DEF TraceFills
<1>14. CASE Resume
  BY <1>14 DEF Resume, TraceKept
<1>15. CASE guest_control_fault_stopped
  <2>1. emitting = <<>> /\ trace' = trace
    BY <1>15 DEF guest_control_fault_stopped, Continue
  <2>2. emitting' = GuestEvent("STOPPED_BY_FAULT", run, run_vcpu)
    BY <1>15 DEF guest_control_fault_stopped
  <2> QED
    BY <2>1, <2>2, EventIsGroup DEF TraceFills
<1>16. CASE Return
  BY <1>16 DEF Return, TraceKept
<1>17. CASE UNCHANGED vars
  BY <1>17 DEF TraceKept
<1> QED
  BY <1>1, <1>2, <1>3, <1>4, <1>5, <1>6, <1>7, <1>8, <1>9, <1>10, <1>11,
     <1>12, <1>13, <1>14, <1>15, <1>16, <1>17
     DEF Next, Uartrx, Vmm

\* What one more record r changes of the groups of a trace s.
LEMMA GroupsGrow ==
  ASSUME NEW S, NEW s \in Seq(S), NEW r \in S
  PROVE  LET t == Append(s, r)
             L == Len(s)
         IN  /\ \A i, j \in 1 .. L : NextVmm(t, i, j) => NextVmm(s, i, j)
             /\ \A i \in 1 .. L : NextVmm(t, i, L + 1) => IsVmm(r)
             /\ \A i \in 1 .. L :
                  NextVmm(t, i, L + 1) /\ IsVmm(s[i]) => LastVmm(s, i)
             /\ \A n \in 0 .. L : \A i : LastHead(s, n, i) => LastHead(t, n, i)
             /\ ~SmcHead(r) => \A i : LastHead(s, L, i) => LastHead(t, L + 1, i)
             /\ SmcHead(r) => LastHead(t, L + 1, L + 1)
             /\ \A i \in 1 .. L : LastVmm(t, i) => ~IsVmm(r) /\ LastVmm(s, i)
<1> DEFINE t == Append(s, r)
           L == Len(s)
<1>1. L \in Nat /\ Len(t) = L + 1
  BY AppendProperties
<1>2. (\A i \in 1 .. L : t[i] = s[i]) /\ t[L + 1] = r
  BY AppendProperties
<1>0. L = Len(s)
  OBVIOUS
<1> HIDE DEF t, L
<1>3. ASSUME NEW i \in 1 .. L, NEW j \in 1 .. L, NextVmm(t, i, j)
      PROVE  NextVmm(s, i, j)
  <2>1. \A k \in (i + 1) .. (j - 1) : k \in 1 .. L
    BY <1>1
  <2> QED
    BY <1>2, <1>3, <2>1 DEF NextVmm
<1>4. ASSUME NEW i \in 1 .. L, NextVmm(t, i, L + 1)
      PROVE  IsVmm(r) /\ (IsVmm(s[i]) => LastVmm(s, i))
  <2>1. \A k \in (i + 1) .. L : k \in 1 .. L /\ k \in (i + 1) .. ((L + 1) - 1)
    BY <1>1
  <2>2. IsVmm(t[L + 1]) /\ \A k \in (i + 1) .. ((L + 1) - 1) : ~IsVmm(t[k])
    BY <1>4 DEF NextVmm
  <2>3. \A k \in (i + 1) .. L : ~IsVmm(s[k])
    BY <1>2, <2>1, <2>2
  <2> QED
    BY <1>0, <1>2, <2>2, <2>3 DEF LastVmm
<1>5. ASSUME NEW n \in 0 .. L, NEW i, LastHead(s, n, i) PROVE LastHead(t, n, i)
  <2>1. i \in 1 .. n /\ i \in 1 .. L /\ \A k \in (i + 1) .. n : k \in 1 .. L
    BY <1>1, <1>5 DEF LastHead
  <2> QED
    BY <1>2, <1>5, <2>1 DEF LastHead
<1>6. ASSUME ~SmcHead(r), NEW i, LastHead(s, L, i) PROVE LastHead(t, L + 1, i)
  <2>1. i \in 1 .. L /\ SmcHead(s[i]) /\ \A k \in (i + 1) .. L : ~SmcHead(s[k])
    BY <1>6 DEF LastHead
  <2>2. i \in 1 .. (L + 1)
        /\ \A k \in (i + 1) .. (L + 1) :
             k = L + 1 \/ (k \in (i + 1) .. L /\ k \in 1 .. L)
    BY <1>1, <2>1
  <2> QED
    BY <1>2, <1>6, <2>1, <2>2 DEF LastHead
<1>7. SmcHead(r) => LastHead(t, L + 1, L + 1)
  <2>1. L + 1 \in 1 .. (L + 1) /\ \A k : k \notin (L + 2) .. (L + 1)
    BY <1>1
  <2>2. (L + 1) + 1 = L + 2
    BY <1>1
  <2> QED
    BY <1>2, <2>1, <2>2 DEF LastHead
<1>8. ASSUME NEW i \in 1 .. L, LastVmm(t, i) PROVE ~IsVmm(r) /\ LastVmm(s, i)
  <2>1. /\ L + 1 \in (i + 1) .. (L + 1)
        /\ \A k \in (i + 1) .. L : k \in 1 .. L /\ k \in (i + 1) .. (L + 1)
    BY <1>1
  <2>2. IsVmm(t[i]) /\ \A k \in (i + 1) .. (L + 1) : ~IsVmm(t[k])
    BY <1>1, <1>8 DEF LastVmm
  <2> QED
    BY <1>0, <1>2, <2>1, <2>2 DEF LastVmm
<1> QED
  BY <1>3, <1>4, <1>5, <1>6, <1>7, <1>8 DEF t, L

\* A record keeps the groups of the trace if it may follow the VMM's last one.
LEMMA SmcGroupsGrow ==
  ASSUME TypeOK, SmcGroups, NEW r \in Records, trace' = Append(trace, r),
         IsVmm(r) => \A i \in 1 .. Len(trace) :
                       LastVmm(trace, i) => SmcNext(trace[i], r),
         Inside(r) => \E i \in 1 .. Len(trace) :
                        LastHead(trace, Len(trace), i) /\ Belongs(trace[i], r)
  PROVE  SmcGroups'
<1> DEFINE L == Len(trace)
<1>1. trace \in Seq(Records) /\ L \in Nat
  BY DEF TypeOK
<1>2. /\ Len(trace') = L + 1 /\ trace'[L + 1] = r
      /\ \A i \in 1 .. L : trace'[i] = trace[i]
  BY <1>1, AppendProperties
<1>3. /\ \A i, j \in 1 .. L : NextVmm(trace', i, j) => NextVmm(trace, i, j)
      /\ \A i \in 1 .. L : NextVmm(trace', i, L + 1) => IsVmm(r)
      /\ \A i \in 1 .. L :
           NextVmm(trace', i, L + 1) /\ IsVmm(trace[i]) => LastVmm(trace, i)
      /\ \A n \in 0 .. L : \A i : LastHead(trace, n, i) => LastHead(trace', n, i)
  BY <1>1, GroupsGrow
<1>4. \A i \in 1 .. L : LastVmm(trace, i) /\ IsVmm(r) => SmcNext(trace[i], r)
  OBVIOUS
<1>5. Inside(r) => \E i \in 1 .. L : LastHead(trace, L, i) /\ Belongs(trace[i], r)
  OBVIOUS
<1>6. ASSUME NEW j \in 1 .. L
      PROVE  /\ \A i \in 1 .. (j - 1) :
                  IsVmm(trace[i]) /\ NextVmm(trace, i, j) =>
                    SmcNext(trace[i], trace[j])
             /\ Inside(trace[j]) =>
                  \E i \in 1 .. (j - 1) :
                    LastHead(trace, j - 1, i) /\ Belongs(trace[i], trace[j])
  BY DEF SmcGroups, Inside, Belongs
<1> HIDE DEF L
<1>7. ASSUME NEW j \in 1 .. (L + 1)
      PROVE  /\ \A i \in 1 .. (j - 1) :
                  IsVmm(trace'[i]) /\ NextVmm(trace', i, j) =>
                    SmcNext(trace'[i], trace'[j])
             /\ Inside(trace'[j]) =>
                  \E i \in 1 .. (j - 1) :
                    LastHead(trace', j - 1, i) /\ Belongs(trace'[i], trace'[j])
  <2>1. j - 1 \in 0 .. L /\ \A i \in 1 .. (j - 1) : i \in 1 .. L
    BY <1>1
  <2>2. CASE j = L + 1
    <3>1. j - 1 = L /\ trace'[j] = r
      BY <1>1, <1>2, <2>2
    <3>2. ASSUME NEW i \in 1 .. (j - 1), IsVmm(trace'[i]), NextVmm(trace', i, j)
          PROVE  SmcNext(trace'[i], trace'[j])
      <4>1. i \in 1 .. L /\ trace'[i] = trace[i]
        BY <1>2, <2>1
      <4>2. IsVmm(r) /\ LastVmm(trace, i)
        BY <1>3, <2>2, <3>2, <4>1
      <4> QED
        BY <1>4, <3>1, <4>1, <4>2
    <3>3. ASSUME Inside(trace'[j])
          PROVE  \E i \in 1 .. (j - 1) :
                   LastHead(trace', j - 1, i) /\ Belongs(trace'[i], trace'[j])
      <4>1. PICK i \in 1 .. L : LastHead(trace, L, i) /\ Belongs(trace[i], r)
        BY <1>5, <3>1, <3>3
      <4>2. L \in 0 .. L
        BY <1>1
      <4> QED
        BY <1>2, <1>3, <3>1, <4>1, <4>2
    <3> QED
      BY <3>2, <3>3
  <2>3. CASE j # L + 1
    <3>1. j \in 1 .. L
      BY <1>1, <2>3
    <3>2. trace'[j] = trace[j] /\ \A i \in 1 .. (j - 1) : trace'[i] = trace[i]
      BY <1>2, <2>1, <3>1
    <3>3. \A i \in 1 .. (j - 1) :
            IsVmm(trace'[i]) /\ NextVmm(trace', i, j) =>
              SmcNext(trace'[i], trace'[j])
      BY <1>3, <1>6, <2>1, <3>1, <3>2
    <3>4. ASSUME Inside(trace'[j])
          PROVE  \E i \in 1 .. (j - 1) :
                   LastHead(trace', j - 1, i) /\ Belongs(trace'[i], trace'[j])
      <4>1. PICK i \in 1 .. (j - 1) :
              LastHead(trace, j - 1, i) /\ Belongs(trace[i], trace[j])
        BY <1>6, <3>1, <3>2, <3>4
      <4> QED
        BY <1>3, <2>1, <3>2, <4>1
    <3> QED
      BY <3>3, <3>4
  <2> QED
    BY <2>2, <2>3
<1> QED
  BY <1>2, <1>7 DEF SmcGroups, Inside, Belongs

\* A handler's records begin: what was recorded before is complete.
LEMMA GroupsFill ==
  ASSUME TypeOK, GroupInv, TraceFills, emitting' \in Seq(Records)
  PROVE  GroupInv'
<1>1. trace' = trace /\ emitting = <<>> /\ GroupOK(emitting')
  BY DEF TraceFills
<1>2. SmcGroups'
  BY <1>1 DEF GroupInv, SmcGroups
<1>3. Chained(emitting)'
  BY <1>1 DEF GroupOK, Chained
<1>4. ASSUME NEW k \in 1 .. Len(emitting'), Inside(emitting'[k])
      PROVE  Headed(emitting', k)
  BY <1>1, <1>4 DEF GroupOK
<1>5. Joined'
  <2> SUFFICES ASSUME NEW i \in 1 .. Len(trace), LastVmm(trace, i)
               PROVE  IF emitting' = <<>> THEN Done(trace[i])
                                          ELSE SmcNext(trace[i], emitting'[1])
    BY <1>1 DEF Joined
  <2>1. Done(trace[i]) /\ trace[i] \in Records
    BY <1>1 DEF GroupInv, Joined, TypeOK
  <2>2. CASE emitting' # <<>>
    <3>1. 1 \in 1 .. Len(emitting')
      BY <2>2
    <3>2. ~Headed(emitting', 1)
      BY DEF Headed
    <3>3. ~Inside(emitting'[1])
      BY <1>4, <3>1, <3>2
    <3> QED
      BY <2>1, <2>2, <3>3, DoneNext
  <2> QED
    BY <2>1, <2>2
<1> QED
  BY <1>2, <1>3, <1>4, <1>5 DEF GroupInv, Owned

\* uartrx's records do not come between.
LEMMA GroupsCmd ==
  ASSUME TypeOK, GroupInv, TraceCmd
  PROVE  GroupInv'
<1>1. PICK c \in Commands :
        /\ trace' = Append(trace, [kind |-> "CMD", verb |-> c.verb])
        /\ emitting' = emitting
  BY DEF TraceCmd
<1> DEFINE r == [kind |-> "CMD", verb |-> c.verb]
           L == Len(trace)
<1>2. r \in Records /\ ~IsVmm(r) /\ ~SmcHead(r) /\ ~Inside(r)
  BY GuestAssumption DEF Records, CmdRecords, Verbs, IsVmm, SmcHead, Inside
<1>3. trace' = Append(trace, r)
  BY <1>1
<1> HIDE DEF r
<1>4. trace \in Seq(Records) /\ L \in Nat
  BY DEF TypeOK
<1>5. SmcGroups'
  BY <1>2, <1>3, SmcGroupsGrow DEF GroupInv
<1>6. Chained(emitting)'
  BY <1>1 DEF GroupInv, Chained
<1>7. /\ Len(trace') = L + 1 /\ trace'[L + 1] = r
      /\ \A i \in 1 .. L : trace'[i] = trace[i]
  BY <1>2, <1>3, <1>4, AppendProperties
<1>8. /\ \A i : LastHead(trace, L, i) => LastHead(trace', L + 1, i)
      /\ \A i \in 1 .. L : LastVmm(trace', i) => LastVmm(trace, i)
  BY <1>2, <1>3, <1>4, GroupsGrow
<1>9. Joined'
  <2> SUFFICES ASSUME NEW i \in 1 .. (L + 1), LastVmm(trace', i)
               PROVE  IF emitting = <<>> THEN Done(trace'[i])
                                         ELSE SmcNext(trace'[i], emitting[1])
    BY <1>1, <1>7 DEF Joined
  <2>1. i # L + 1
    BY <1>2, <1>7 DEF LastVmm
  <2>2. i \in 1 .. L
    BY <1>4, <2>1
  <2> QED
    BY <1>7, <1>8, <2>2 DEF GroupInv, Joined
<1>10. ASSUME NEW k \in 1 .. Len(emitting), Owned(k) PROVE Owned(k)'
  <2>1. CASE Headed(emitting, k)
    BY <1>1, <2>1 DEF Owned
  <2>2. CASE ~Headed(emitting, k)
    <3>1. PICK i \in 1 .. L : LastHead(trace, L, i) /\ Belongs(trace[i], emitting[k])
      BY <1>10, <2>2 DEF Owned
    <3>2. i \in 1 .. (L + 1)
      BY <1>4
    <3>3. LastHead(trace', L + 1, i) /\ Belongs(trace'[i], emitting[k])
      BY <1>7, <1>8, <3>1
    <3> QED
      BY <1>1, <1>7, <1>10, <2>2, <3>2, <3>3 DEF Owned
  <2> QED
    BY <2>1, <2>2
<1> QED
  BY <1>1, <1>5, <1>6, <1>9, <1>10 DEF GroupInv

\* Records that are chained stay so when the first is gone.
LEMMA ChainedTail ==
  ASSUME NEW S, NEW e \in Seq(S), e # <<>>, Chained(e)
  PROVE  /\ Chained(Tail(e))
         /\ IF Tail(e) = <<>> THEN Done(e[1]) ELSE SmcNext(e[1], Tail(e)[1])
<1> DEFINE t == Tail(e)
           n == Len(e)
<1>1. /\ t \in Seq(S) /\ n \in Nat \ {0} /\ Len(t) = n - 1
      /\ \A i \in 1 .. Len(t) : t[i] = e[i + 1]
  BY HeadTailIs
<1>2. \A k \in 1 .. (n - 1) : SmcNext(e[k], e[k + 1])
  BY DEF Chained
<1>3. Done(e[n])
  BY <1>1 DEF Chained
<1> HIDE DEF n, t
<1>4. ASSUME NEW k \in 1 .. (Len(t) - 1) PROVE SmcNext(t[k], t[k + 1])
  <2>1. /\ k \in 1 .. Len(t) /\ k + 1 \in 1 .. Len(t)
        /\ k + 1 \in 1 .. (n - 1)
    BY <1>1
  <2> QED
    BY <1>1, <1>2, <2>1
<1>5. Len(t) > 0 => Done(t[Len(t)])
  <2>1. Len(t) > 0 => Len(t) \in 1 .. Len(t) /\ Len(t) + 1 = n
    BY <1>1
  <2> QED
    BY <1>1, <1>3, <2>1
<1>6. CASE t = <<>>
  <2>1. n = 1
    BY <1>1, <1>6
  <2> QED
    BY <1>3, <1>4, <1>5, <1>6, <2>1 DEF Chained, t
<1>7. CASE t # <<>>
  <2>1. 1 \in 1 .. Len(t) /\ 1 \in 1 .. (n - 1)
    BY <1>1, <1>7
  <2>2. SmcNext(e[1], t[1])
    BY <1>1, <1>2, <2>1
  <2> QED
    BY <1>4, <1>5, <1>7, <2>2 DEF Chained, t
<1> QED
  BY <1>6, <1>7

\* The next record is emitted.
LEMMA GroupsEmit ==
  ASSUME TypeOK, GroupInv, TraceEmits
  PROVE  GroupInv'
<1> DEFINE r == emitting[1]
           L == Len(trace)
           n == Len(emitting)
<1>1. /\ emitting \in Seq(Records) /\ emitting # <<>> /\ IsVmm(r)
      /\ emitting' = Tail(emitting)
  BY DEF TypeOK, TraceEmits
<1>2. /\ r \in Records /\ n \in Nat \ {0} /\ Len(emitting') = n - 1
      /\ \A i \in 1 .. Len(emitting') : emitting'[i] = emitting[i + 1]
      /\ Head(emitting) = r
  BY <1>1, HeadTailIs
<1>3. trace' = Append(trace, r) /\ trace \in Seq(Records) /\ L \in Nat
  BY <1>2 DEF TypeOK, TraceEmits
<1>4. /\ Len(trace') = L + 1 /\ trace'[L + 1] = r
      /\ \A i \in 1 .. L : trace'[i] = trace[i]
  BY <1>2, <1>3, AppendProperties
<1>5. /\ ~SmcHead(r) => \A i : LastHead(trace, L, i) => LastHead(trace', L + 1, i)
      /\ SmcHead(r) => LastHead(trace', L + 1, L + 1)
      /\ \A i \in 1 .. L : LastVmm(trace', i) => ~IsVmm(r)
  BY <1>2, <1>3, GroupsGrow
<1>6. Chained(emitting') /\ (IF emitting' = <<>> THEN Done(r)
                                                 ELSE SmcNext(r, emitting'[1]))
  BY <1>1, ChainedTail DEF GroupInv
<1>7. \A i \in 1 .. L : LastVmm(trace, i) => SmcNext(trace[i], r)
  BY <1>1 DEF GroupInv, Joined
<1>8. \A k \in 1 .. n : Inside(emitting[k]) => Owned(k)
  BY DEF GroupInv
<1>9. SmcGroups /\ TypeOK
  BY DEF GroupInv
<1>10. Inside(r) => \E i \in 1 .. L :
                      LastHead(trace, L, i) /\ Belongs(trace[i], r)
  <2>1. 1 \in 1 .. n /\ ~Headed(emitting, 1)
    BY <1>2 DEF Headed
  <2> QED
    BY <1>8, <2>1 DEF Owned
<1> HIDE DEF r
<1>11. SmcGroups'
  BY <1>2, <1>3, <1>7, <1>9, <1>10, SmcGroupsGrow
<1>12. Joined'
  <2> SUFFICES ASSUME NEW i \in 1 .. (L + 1), LastVmm(trace', i)
               PROVE  IF emitting' = <<>> THEN Done(trace'[i])
                                          ELSE SmcNext(trace'[i], emitting'[1])
    BY <1>4 DEF Joined
  <2>1. i \notin 1 .. L
    BY <1>1, <1>5
  <2>2. i = L + 1
    BY <1>3, <2>1
  <2> QED
    BY <1>4, <1>6, <2>2
<1>13. ASSUME NEW k \in 1 .. (n - 1), Inside(emitting'[k]) PROVE Owned(k)'
  <2>1. k + 1 \in 1 .. n /\ k \in 1 .. Len(emitting') /\ (k + 1) - 1 = k
    BY <1>2
  <2>2. emitting'[k] = emitting[k + 1] /\ Owned(k + 1)
    BY <1>2, <1>8, <1>13, <2>1
  <2>3. \A i \in 1 .. (k - 1) : /\ i + 1 \in 1 .. k
                                /\ emitting'[i] = emitting[i + 1]
    BY <1>2, <2>1
  <2>4. CASE Headed(emitting, k + 1)
    <3>1. PICK i \in 1 .. k : /\ LastHead(emitting, k, i)
                              /\ Belongs(emitting[i], emitting[k + 1])
      BY <2>1, <2>4 DEF Headed
    <3>2. SmcHead(emitting[i]) /\ \A m \in (i + 1) .. k : ~SmcHead(emitting[m])
      BY <3>1 DEF LastHead
    <3>3. CASE i = 1
      <4>1. emitting[i] = r
        BY <3>3 DEF r
      <4>2. \A m \in 1 .. (k - 1) : ~SmcHead(emitting'[m])
        <5>1. \A m \in 1 .. (k - 1) : m + 1 \in (1 + 1) .. k
          OBVIOUS
        <5> QED
          BY <2>3, <3>2, <3>3, <5>1
      <4>3. LastHead(trace', L + 1, L + 1) /\ Belongs(trace'[L + 1], emitting'[k])
        BY <1>4, <1>5, <2>2, <3>1, <3>2, <4>1
      <4>4. L + 1 \in 1 .. (L + 1)
        BY <1>3
      <4> QED
        BY <1>4, <4>2, <4>3, <4>4 DEF Owned
    <3>4. CASE i # 1
      <4>1. i - 1 \in 1 .. (k - 1) /\ (i - 1) + 1 = i
        BY <3>4
      <4>2. emitting'[i - 1] = emitting[i]
        BY <2>3, <4>1
      <4>3. \A m \in ((i - 1) + 1) .. (k - 1) :
              m \in 1 .. (k - 1) /\ m + 1 \in (i + 1) .. k
        BY <4>1
      <4>4. \A m \in ((i - 1) + 1) .. (k - 1) : ~SmcHead(emitting'[m])
        BY <2>3, <3>2, <4>3
      <4>5. LastHead(emitting', k - 1, i - 1)
        BY <3>2, <4>1, <4>2, <4>4 DEF LastHead
      <4> QED
        BY <2>2, <3>1, <4>1, <4>2, <4>5 DEF Owned, Headed
    <3> QED
      BY <3>3, <3>4
  <2>5. CASE ~Headed(emitting, k + 1)
    <3>1. /\ \A i \in 1 .. k : ~SmcHead(emitting[i])
          /\ \E i \in 1 .. L :
               LastHead(trace, L, i) /\ Belongs(trace[i], emitting[k + 1])
      BY <2>1, <2>2, <2>5 DEF Owned
    <3>2. PICK i \in 1 .. L :
            LastHead(trace, L, i) /\ Belongs(trace[i], emitting[k + 1])
      BY <3>1
    <3>3. ~SmcHead(r) /\ \A m \in 1 .. (k - 1) : ~SmcHead(emitting'[m])
      <4>1. 1 \in 1 .. k
        OBVIOUS
      <4> QED
        BY <2>3, <3>1, <4>1 DEF r
    <3>4. LastHead(trace', L + 1, i) /\ Belongs(trace'[i], emitting'[k])
      BY <1>4, <1>5, <2>2, <3>2, <3>3
    <3>5. i \in 1 .. (L + 1)
      BY <1>3
    <3> QED
      BY <1>4, <3>3, <3>4, <3>5 DEF Owned
  <2> QED
    BY <2>4, <2>5
<1> QED
  BY <1>2, <1>6, <1>11, <1>12, <1>13 DEF GroupInv

\* Nothing is recorded, and nothing more is to be.
LEMMA GroupsKept ==
  ASSUME GroupInv, TraceKept
  PROVE  GroupInv'
  BY DEF TraceKept, GroupInv, SmcGroups, Chained, Joined, Owned

\* What smc_policy.c and smc_trace.c record of an SMC is one group among the
\* VMM's records, whatever uartrx records meanwhile.
THEOREM SmcsAreGroups == Spec => []SmcGroups
<1>1. Init => GroupInv
  <2> SUFFICES ASSUME Init PROVE GroupInv
    OBVIOUS
  <2>1. trace = <<>> /\ emitting = <<>>
    BY DEF Init
  <2> QED
    BY <2>1 DEF GroupInv, SmcGroups, Chained, Joined
<1>2. GuestInvariant /\ GroupInv /\ [Next]_vars => GroupInv'
  <2> SUFFICES ASSUME GuestInvariant, GroupInv, [Next]_vars PROVE GroupInv'
    OBVIOUS
  <2>1. TypeOK /\ TypeOK'
    BY TypeOKStep DEF GuestInvariant
  <2>2. emitting' \in Seq(Records)
    BY <2>1 DEF TypeOK
  <2> QED
    BY <2>1, <2>2, StepKinds, GroupsKept, GroupsCmd, GroupsEmit, GroupsFill
<1>3. GroupInv => SmcGroups
  BY DEF GroupInv
<1> QED
  BY GuestInvariantHolds, <1>1, <1>2, <1>3, PTL DEF Spec
-----------------------------------------------------------------------------
(* The SMC count *)

\* The SMCs in s that belong to the run started last.
SmcsIn(s) ==
  {i \in 1 .. Len(s) : /\ s[i].kind = "SMC_ENTER"
                       /\ \A j \in i .. Len(s) : ~IsStarted(s[j])}

\* An SMC is counted before its entry is emitted, and never emitted if its
\* registers could not be read.
Pending == IF Entered(emitting) THEN 1 ELSE 0
Untraced ==
  \/ vpc = "stop" /\ emitting = <<>> /\ IsSmc(exit[cur])
  \/ vpc # "start" /\ state # "RUNNING" /\ last_fault = "SMC"
CountInv ==
  /\ stats \in [ExitKinds -> Nat] /\ OneEntry(emitting)
  /\ Starting => stats["SMC"] = 0
  /\ ~Starting =>
       \/ stats["SMC"] = Cardinality(SmcsIn(trace)) + Pending
       \/ stats["SMC"] = Cardinality(SmcsIn(trace)) + 1 /\ Untraced

\* Any number of records holds finitely many SMCs.
LEMMA SmcsFinite ==
  ASSUME NEW S, NEW s \in Seq(S)
  PROVE  /\ SmcsIn(s) \subseteq 1 .. Len(s)
         /\ IsFiniteSet(SmcsIn(s)) /\ Cardinality(SmcsIn(s)) \in Nat
<1>1. Len(s) \in Nat /\ SmcsIn(s) \subseteq 1 .. Len(s)
  BY DEF SmcsIn
<1>2. IsFiniteSet(1 .. Len(s))
  BY <1>1, FS_Interval
<1> QED
  BY <1>1, <1>2, FS_Subset, FS_CardinalityType

\* One more record: the run's first, an SMC of the run, or neither.
LEMMA SmcsGrow ==
  ASSUME NEW S, NEW s \in Seq(S), NEW r \in S
  PROVE  LET t == Append(s, r)
         IN  /\ IsStarted(r) => Cardinality(SmcsIn(t)) = 0
             /\ r.kind = "SMC_ENTER" =>
                  Cardinality(SmcsIn(t)) = Cardinality(SmcsIn(s)) + 1
             /\ ~IsStarted(r) /\ r.kind # "SMC_ENTER" =>
                  Cardinality(SmcsIn(t)) = Cardinality(SmcsIn(s))
<1> DEFINE t == Append(s, r)
           L == Len(s)
<1>1. L \in Nat /\ Len(t) = L + 1
  BY AppendProperties
<1>2. (\A i \in 1 .. L : t[i] = s[i]) /\ t[L + 1] = r
  BY AppendProperties
<1>3. /\ SmcsIn(s) = {i \in 1 .. L : /\ s[i].kind = "SMC_ENTER"
                                     /\ \A j \in i .. L : ~IsStarted(s[j])}
      /\ SmcsIn(s) \subseteq 1 .. L /\ IsFiniteSet(SmcsIn(s))
  BY SmcsFinite DEF SmcsIn
<1> HIDE DEF t, L
<1>4. SmcsIn(t) = {i \in 1 .. (L + 1) :
                     /\ t[i].kind = "SMC_ENTER"
                     /\ \A j \in i .. (L + 1) : ~IsStarted(t[j])}
  BY <1>1 DEF SmcsIn
<1>5. ASSUME IsStarted(r) PROVE Cardinality(SmcsIn(t)) = 0
  <2>1. \A i \in 1 .. (L + 1) : L + 1 \in i .. (L + 1)
    BY <1>1
  <2>2. SmcsIn(t) = {}
    BY <1>2, <1>4, <1>5, <2>1
  <2> QED
    BY <2>2, FS_EmptySet
<1>6. ASSUME ~IsStarted(r), NEW i \in 1 .. L PROVE i \in SmcsIn(t) <=> i \in SmcsIn(s)
  <2>1. i \in 1 .. (L + 1) /\ t[i] = s[i]
    BY <1>1, <1>2
  <2>2. /\ \A j \in i .. L : j \in i .. (L + 1) /\ j \in 1 .. L
        /\ \A j \in i .. (L + 1) : j = L + 1 \/ j \in i .. L
    BY <1>1
  <2>3. (\A j \in i .. (L + 1) : ~IsStarted(t[j]))
          <=> (\A j \in i .. L : ~IsStarted(s[j]))
    BY <1>2, <1>6, <2>2
  <2> QED
    BY <1>3, <1>4, <2>1, <2>3
<1>7. L + 1 \in SmcsIn(t) <=> r.kind = "SMC_ENTER" /\ ~IsStarted(r)
  <2>1. /\ L + 1 \in 1 .. (L + 1) /\ L + 1 \in (L + 1) .. (L + 1)
        /\ \A j \in (L + 1) .. (L + 1) : j = L + 1
    BY <1>1
  <2> QED
    BY <1>2, <1>4, <2>1
<1>8. /\ \A i \in SmcsIn(t) : i = L + 1 \/ i \in 1 .. L
      /\ L + 1 \notin 1 .. L
  BY <1>1, <1>4
<1>9. ASSUME r.kind = "SMC_ENTER"
      PROVE  Cardinality(SmcsIn(t)) = Cardinality(SmcsIn(s)) + 1
  <2>1. ~IsStarted(r)
    BY <1>9 DEF IsStarted, IsGuest
  <2>2. SmcsIn(t) = SmcsIn(s) \cup {L + 1} /\ L + 1 \notin SmcsIn(s)
    BY <1>3, <1>6, <1>7, <1>8, <1>9, <2>1
  <2> QED
    BY <1>3, <2>2, FS_AddElement
<1>10. ASSUME ~IsStarted(r), r.kind # "SMC_ENTER" PROVE SmcsIn(t) = SmcsIn(s)
  BY <1>3, <1>6, <1>7, <1>8, <1>10
<1> QED
  BY <1>5, <1>9, <1>10 DEF t

\* A step that neither counts nor emits leaves the count as it was.
LEMMA CountKept ==
  ASSUME CountInv, stats' = stats, emitting' = emitting,
         Cardinality(SmcsIn(trace')) = Cardinality(SmcsIn(trace)),
         Starting' <=> Starting, Untraced => Untraced'
  PROVE  CountInv'
<1>1. Pending' = Pending /\ OneEntry(emitting)'
  BY DEF CountInv, Pending, Entered, OneEntry
<1> QED
  BY <1>1 DEF CountInv

\* A record of the VMM's is emitted: STARTED, the entry of a counted SMC, or
\* another.
LEMMA CountEmits ==
  ASSUME GuestInvariant, CountInv, EmitRecord
  PROVE  CountInv'
<1>1. TypeOK /\ VcpuInv /\ EmitInv
  BY DEF GuestInvariant
<1>2. /\ emitting # <<>> /\ emitting' = Tail(emitting)
      /\ trace' = Append(trace, Head(emitting))
      /\ UNCHANGED <<state, last_fault, stats, exit, cur, vpc>>
  BY DEF EmitRecord, controlVars, deviceVars, vcpuVars
<1> DEFINE r == emitting[1]
           n == Cardinality(SmcsIn(trace))
<1>3. /\ r \in Records /\ Head(emitting) = r
      /\ Len(emitting) \in Nat \ {0} /\ Len(emitting') = Len(emitting) - 1
      /\ \A i \in 1 .. Len(emitting') : emitting'[i] = emitting[i + 1]
  BY <1>1, <1>2, HeadTailIs DEF TypeOK
<1>4. ~Entered(emitting') /\ OneEntry(emitting')
  <2>1. \A k \in 2 .. Len(emitting) : emitting[k].kind # "SMC_ENTER"
    BY DEF CountInv, OneEntry
  <2>2. \A i \in 1 .. Len(emitting') : i + 1 \in 2 .. Len(emitting)
    BY <1>3
  <2>3. \A i \in 1 .. Len(emitting') : emitting'[i].kind # "SMC_ENTER"
    BY <1>3, <2>1, <2>2
  <2>4. \A i \in 2 .. Len(emitting') : i \in 1 .. Len(emitting')
    BY <1>3
  <2>5. emitting' # <<>> => 1 \in 1 .. Len(emitting')
    <3>1. emitting' \in Seq(Records)
      BY <1>1, <1>2, HeadTailIs DEF TypeOK
    <3> QED
      BY <3>1
  <2> QED
    BY <2>3, <2>4, <2>5 DEF Entered, OneEntry
<1>5. LET m == Cardinality(SmcsIn(trace'))
      IN  /\ IsStarted(r) => m = 0
          /\ r.kind = "SMC_ENTER" => m = n + 1
          /\ ~IsStarted(r) /\ r.kind # "SMC_ENTER" => m = n
  BY <1>1, <1>2, <1>3, SmcsGrow DEF TypeOK
<1>6. n \in Nat
  BY <1>1, SmcsFinite DEF TypeOK
<1>7. stats \in [ExitKinds -> Nat] /\ "SMC" \in ExitKinds
  BY DEF CountInv, ExitKinds
<1>8. CASE vpc = "start"
  <2>1. r = GuestEvent("STARTED", run, run_vcpu)[1] /\ emitting' = <<>>
    <3>1. emitting = GuestEvent("STARTED", run, run_vcpu)
      BY <1>1, <1>2, <1>8 DEF EmitInv
    <3>2. "STARTED" \in Events /\ run \in Nat /\ run_vcpu \in Vcpus
      BY <1>1 DEF TypeOK, Events
    <3>3. LET g == GuestEvent("STARTED", run, run_vcpu)
          IN  Head(g) = g[1] /\ Tail(g) = <<>>
      BY <3>2, EventIs
    <3> QED
      BY <1>2, <3>1, <3>3
  <2>2. IsStarted(r)
    BY <2>1 DEF GuestEvent, IsStarted, IsGuest
  <2>3. Starting /\ ~Starting'
    BY <1>2, <1>8, <2>1 DEF Starting
  <2>4. stats["SMC"] = 0 /\ Pending' = 0
    BY <1>4, <2>3 DEF CountInv, Pending
  <2> QED
    BY <1>2, <1>4, <1>5, <1>7, <2>2, <2>3, <2>4 DEF CountInv
<1>9. CASE vpc = "return"
  <2>1. r = GuestEvent(state, run, run_vcpu)[1] /\ state \in Stopped
    BY <1>1, <1>2, <1>9 DEF EmitInv
  <2>2. r.kind = "GUEST" /\ ~IsStarted(r)
    BY <2>1 DEF GuestEvent, IsStarted, Stopped
  <2>3. ~Starting /\ ~Starting' /\ Pending = 0 /\ Pending' = 0
    BY <1>2, <1>4, <1>9, <2>2 DEF Starting, Pending, Entered
  <2>4. Untraced => Untraced'
    BY <1>2, <1>9 DEF Untraced
  <2> QED
    BY <1>2, <1>4, <1>5, <1>7, <2>2, <2>3, <2>4 DEF CountInv
<1>10. CASE vpc \in {"resume", "stop"}
  <2>1. r \in ExitRecords({cur})
    BY <1>1, <1>3, <1>10 DEF EmitInv
  <2>2. ~IsStarted(r)
    BY <2>1 DEF ExitRecords, IsStarted, IsGuest
  <2>3. ~Starting /\ ~Starting' /\ ~Untraced
    BY <1>1, <1>2, <1>10 DEF Starting, Untraced, VcpuInv
  <2>4. stats["SMC"] = n + Pending
    BY <2>3 DEF CountInv
  <2>5. Pending = (IF r.kind = "SMC_ENTER" THEN 1 ELSE 0) /\ Pending' = 0
    BY <1>2, <1>4 DEF Pending, Entered
  <2>6. stats["SMC"] = Cardinality(SmcsIn(trace')) + Pending'
    BY <1>5, <1>6, <2>2, <2>4, <2>5
  <2> QED
    BY <1>2, <1>4, <1>7, <2>3, <2>6 DEF CountInv
<1> QED
  BY <1>1, <1>2, <1>8, <1>9, <1>10 DEF TypeOK, EmitInv

\* fault() counts the exit, and only then lets its handler act.
LEMMA CountFault ==
  ASSUME GuestInvariant, CountInv, NEW v \in Vcpus, Fault(v)
  PROVE  CountInv'
<1> DEFINE f == exit[v]
           n == Cardinality(SmcsIn(trace))
<1>1. TypeOK /\ VcpuInv /\ EmitInv
  BY DEF GuestInvariant
<1>2. /\ vpc = "idle" /\ emitting = <<>> /\ vcpu[v] = "faulted" /\ cur' = v
      /\ trace' = trace /\ exit' = exit
      /\ stats' = [stats EXCEPT ![exit_of(f)] = @ + 1]
  BY <1>1 DEF Fault, EmitInv, vcpuVars
<1>3. PICK o \in handle_fault(v, f) :
        emitting' = o.records /\ vpc' = IF o.handled THEN "resume" ELSE "stop"
  BY DEF Fault
<1>4. f \in Faults /\ state = "RUNNING"
  BY <1>1, <1>2 DEF VcpuInv, OneGuest
<1>5. stats \in [ExitKinds -> Nat] /\ stats["SMC"] = n
  <2>1. ~Starting /\ ~Untraced /\ Pending = 0
    BY <1>2, <1>4 DEF Starting, Untraced, Pending, Entered
  <2>2. n \in Nat
    BY <1>1, SmcsFinite DEF TypeOK
  <2> QED
    BY <2>1, <2>2 DEF CountInv
<1>6. exit_of(f) \in ExitKinds /\ (exit_of(f) = "SMC" <=> IsSmc(f))
  BY DEF exit_of, ExitKinds, IsSmc
<1>7. "SMC" \in ExitKinds
  BY DEF ExitKinds
<1>8. /\ stats' \in [ExitKinds -> Nat]
      /\ stats'["SMC"] = IF IsSmc(f) THEN n + 1 ELSE n
  <2>1. stats'["SMC"] = IF exit_of(f) = "SMC" THEN stats["SMC"] + 1
                                              ELSE stats["SMC"]
    BY <1>2, <1>5, <1>6, <1>7
  <2> QED
    BY <1>2, <1>5, <1>6, <2>1
<1>9. /\ OneEntry(emitting')
      /\ IsSmc(f) => Entered(emitting') \/ (emitting' = <<>> /\ vpc' = "stop")
      /\ ~IsSmc(f) => ~Entered(emitting')
  BY <1>3, <1>4, FaultGroups DEF GroupOK
<1>10. ~Starting' /\ n \in Nat
  BY <1>1, <1>3, SmcsFinite DEF Starting, TypeOK
<1>11. CASE ~IsSmc(f)
  BY <1>2, <1>8, <1>9, <1>10, <1>11 DEF CountInv, Pending
<1>12. CASE IsSmc(f) /\ Entered(emitting')
  BY <1>2, <1>8, <1>9, <1>10, <1>12 DEF CountInv, Pending
<1>13. CASE IsSmc(f) /\ ~Entered(emitting')
  <2>1. Untraced'
    BY <1>2, <1>9, <1>13 DEF Untraced
  <2> QED
    BY <1>2, <1>8, <1>9, <1>10, <1>13, <2>1 DEF CountInv
<1> QED
  BY <1>11, <1>12, <1>13

\* Each step keeps the count.
LEMMA CountStep == GuestInvariant /\ CountInv /\ [Next]_vars => CountInv'
<1> SUFFICES ASSUME GuestInvariant, CountInv, [Next]_vars PROVE CountInv'
  OBVIOUS
<1> USE DEF vars, controlVars, deviceVars, vcpuVars, handlerVars, typeVars
<1>0. TypeOK /\ VcpuInv /\ EmitInv
  BY DEF GuestInvariant
<1>1. ASSUME NEW c \in Commands, record_command(c) PROVE CountInv'
  <2> DEFINE r == [kind |-> "CMD", verb |-> c.verb]
  <2>1. r \in Records /\ ~IsStarted(r) /\ r.kind # "SMC_ENTER"
    BY GuestAssumption DEF Records, CmdRecords, Verbs, IsStarted, IsGuest
  <2>2. /\ trace' = Append(trace, r)
        /\ UNCHANGED <<state, last_fault, stats, exit, cur, vpc, emitting>>
    BY <1>1 DEF record_command
  <2> HIDE DEF r
  <2>3. Cardinality(SmcsIn(trace')) = Cardinality(SmcsIn(trace))
    BY <1>0, <2>1, <2>2, SmcsGrow DEF TypeOK
  <2> QED
    BY <2>2, <2>3, CountKept DEF Starting, Untraced
<1>2. CASE cmd_to_vmm
  <2>1. UNCHANGED <<state, last_fault, stats, exit, cur, vpc, emitting, trace>>
    BY <1>2 DEF cmd_to_vmm
  <2> QED
    BY <2>1, CountKept DEF Starting, Untraced
<1>3. ASSUME NEW v \in Vcpus, TakeExit(v) PROVE CountInv'
  <2>1. UNCHANGED <<state, last_fault, stats, cur, vpc, emitting, trace>>
    BY <1>3 DEF TakeExit
  <2>2. vpc = "stop" => exit'[cur] = exit[cur]
    BY <1>0, <1>3 DEF TakeExit, VcpuInv, TypeOK
  <2> QED
    BY <2>1, <2>2, CountKept DEF Starting, Untraced
<1>4. CASE EmitRecord
  BY <1>4, CountEmits
<1>5. CASE StartRefused
  <2>1. UNCHANGED <<state, last_fault, stats, exit, cur, vpc, emitting, trace>>
    BY <1>5 DEF StartRefused
  <2> QED
    BY <2>1, CountKept DEF Starting, Untraced
<1>6. CASE BootFails
  <2>1. /\ UNCHANGED <<last_fault, stats, exit, cur, vpc, emitting, trace>>
        /\ state # "RUNNING" /\ state' = "START_FAILED"
    BY <1>6 DEF BootFails
  <2> QED
    BY <2>1, CountKept DEF Starting, Untraced
<1>7. CASE Boot
  <2>1. /\ stats' = NoStats /\ vpc' = "start"
        /\ emitting' = GuestEvent("STARTED", run + 1, Head(cmds).vcpu)
    BY <1>7 DEF Boot
  <2>2. GroupOK(emitting') /\ emitting' # <<>>
    BY <2>1, EventIsGroup DEF GuestEvent
  <2>3. Starting' /\ OneEntry(emitting')
    BY <2>1, <2>2 DEF Starting, GroupOK
  <2>4. stats' \in [ExitKinds -> Nat] /\ stats'["SMC"] = 0
    BY <2>1 DEF NoStats, ExitKinds
  <2> QED
    BY <2>3, <2>4 DEF CountInv
<1>8. CASE StartVcpu
  <2>1. /\ UNCHANGED <<last_fault, stats, exit, cur, emitting, trace>>
        /\ vpc = "start" /\ vpc' = "idle" /\ emitting = <<>>
    BY <1>8 DEF StartVcpu, Continue
  <2> QED
    BY <2>1, CountKept DEF Starting, Untraced
<1>9. CASE StartVcpuFails
  <2>1. /\ UNCHANGED <<last_fault, stats, exit, cur, emitting, trace>>
        /\ vpc = "start" /\ vpc' = "idle" /\ emitting = <<>>
    BY <1>9 DEF StartVcpuFails, Continue
  <2> QED
    BY <2>1, CountKept DEF Starting, Untraced
<1>10. CASE guest_control_stop
  <2>1. /\ UNCHANGED <<stats, trace>> /\ state = "RUNNING"
        /\ vpc = "idle" /\ vpc' = "return"
        /\ emitting' = GuestEvent("STOPPED_BY_COMMAND", run, run_vcpu)
    BY <1>10 DEF guest_control_stop, NextCommand
  <2>2. GroupOK(emitting') /\ ~Entered(emitting')
    BY <2>1, EventIsGroup DEF GuestEvent, Entered
  <2>3. ~Starting /\ ~Starting' /\ ~Untraced
    BY <2>1 DEF Starting, Untraced
  <2>4. Pending = 0 /\ Pending' = 0 /\ OneEntry(emitting')
    BY <1>0, <2>1, <2>2 DEF Pending, Entered, EmitInv, GroupOK
  <2> QED
    BY <2>1, <2>3, <2>4 DEF CountInv
<1>11. CASE StopRefused
  <2>1. UNCHANGED <<state, last_fault, stats, exit, cur, vpc, emitting, trace>>
    BY <1>11 DEF StopRefused
  <2> QED
    BY <2>1, CountKept DEF Starting, Untraced
<1>12. CASE Report
  <2>1. UNCHANGED <<state, last_fault, stats, exit, cur, vpc, emitting, trace>>
    BY <1>12 DEF Report
  <2> QED
    BY <2>1, CountKept DEF Starting, Untraced
<1>13. ASSUME NEW v \in Vcpus, Fault(v) PROVE CountInv'
  BY <1>13, CountFault
<1>14. CASE Resume
  <2>1. /\ UNCHANGED <<state, last_fault, stats, cur, emitting, trace>>
        /\ vpc = "resume" /\ vpc' = "idle"
    BY <1>14 DEF Resume, Continue
  <2> QED
    BY <2>1, CountKept DEF Starting, Untraced
<1>15. CASE guest_control_fault_stopped
  <2>1. /\ UNCHANGED <<stats, trace>> /\ emitting = <<>>
        /\ vpc = "stop" /\ vpc' = "return" /\ state' = "STOPPED_BY_FAULT"
        /\ emitting' = GuestEvent("STOPPED_BY_FAULT", run, run_vcpu)
        /\ last_fault' = fault_kind(exit[cur])
    BY <1>15 DEF guest_control_fault_stopped, Continue
  <2>2. GroupOK(emitting') /\ ~Entered(emitting')
    BY <2>1, EventIsGroup DEF GuestEvent, Entered
  <2>3. ~Starting /\ ~Starting'
    BY <2>1 DEF Starting
  <2>4. Pending = 0 /\ Pending' = 0 /\ OneEntry(emitting')
    BY <2>1, <2>2 DEF Pending, Entered, GroupOK
  <2>5. Untraced => Untraced'
    <3>1. state = "RUNNING"
      BY <1>0, <2>1 DEF VcpuInv
    <3> QED
      BY <2>1, <3>1 DEF Untraced, fault_kind
  <2> QED
    BY <2>1, <2>3, <2>4, <2>5 DEF CountInv
<1>16. CASE Return
  <2>1. /\ UNCHANGED <<state, last_fault, stats, exit, cur, emitting, trace>>
        /\ vpc = "return" /\ vpc' = "idle"
    BY <1>16 DEF Return, Continue
  <2> QED
    BY <2>1, CountKept DEF Starting, Untraced
<1>17. CASE UNCHANGED vars
  <2>1. UNCHANGED <<state, last_fault, stats, exit, cur, vpc, emitting, trace>>
    BY <1>17
  <2> QED
    BY <2>1, CountKept DEF Starting, Untraced
<1> QED
  BY <1>1, <1>2, <1>3, <1>4, <1>5, <1>6, <1>7, <1>8, <1>9, <1>10, <1>11,
     <1>12, <1>13, <1>14, <1>15, <1>16, <1>17
     DEF Next, Uartrx, Vmm

\* guest_stats.c's counters, which boot_fresh() resets, count the SMCs of the
\* run that the trace shows, but for one that stopped the guest untraced.
THEOREM SmcsAreCounted == Spec => []StatsCountThisRun
<1>1. Init => CountInv
  <2> SUFFICES ASSUME Init PROVE CountInv
    OBVIOUS
  <2>1. /\ trace = <<>> /\ emitting = <<>> /\ vpc = "idle"
        /\ stats = NoStats
    BY DEF Init
  <2>2. stats \in [ExitKinds -> Nat] /\ stats["SMC"] = 0
    BY <2>1 DEF NoStats, ExitKinds
  <2>3. SmcsIn(trace) = {}
    BY <2>1 DEF SmcsIn
  <2>4. Cardinality(SmcsIn(trace)) = 0
    BY <2>3, FS_EmptySet
  <2>5. ~Starting /\ OneEntry(emitting) /\ Pending = 0
    BY <2>1 DEF Starting, OneEntry, Pending, Entered
  <2> QED
    BY <2>2, <2>4, <2>5 DEF CountInv
<1>2. GuestInvariant /\ CountInv => StatsCountThisRun
  <2> SUFFICES ASSUME GuestInvariant, CountInv, vpc = "idle"
               PROVE  \/ stats["SMC"] = Cardinality(SmcsOfRun)
                      \/ /\ stats["SMC"] = Cardinality(SmcsOfRun) + 1
                         /\ state # "RUNNING" /\ last_fault = "SMC"
    BY DEF StatsCountThisRun
  <2>1. emitting = <<>> /\ ~Starting /\ Pending = 0
    BY DEF GuestInvariant, EmitInv, Starting, Pending, Entered
  <2>2. SmcsIn(trace) = SmcsOfRun
    BY DEF SmcsIn, SmcsOfRun
  <2>3. Cardinality(SmcsOfRun) \in Nat
    BY <2>2, SmcsFinite DEF GuestInvariant, TypeOK
  <2> QED
    BY <2>1, <2>2, <2>3 DEF CountInv, Untraced
<1> QED
  BY GuestInvariantHolds, CountStep, <1>1, <1>2, PTL DEF Spec
=============================================================================
