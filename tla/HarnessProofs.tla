---------------------------- MODULE HarnessProofs ----------------------------
(***************************************************************************)
(* Proofs about Harness, for any set of modes and any number of rounds.    *)
(*                                                                         *)
(* The program is a walk through a small automaton (Allowed, After): a     *)
(* point says how far the guest is with its page table (m, for hardware or *)
(* software updates h), with its timer (t) and in its interrupt handler    *)
(* (i).  What is left to do is always a path from a point that describes   *)
(* the machine (Describes) to Dead, which describes none: the program      *)
(* never gets to its end, nor past the SMC nobody handles.                 *)
(***************************************************************************)
EXTENDS Harness, TLAPS

Points == [m : {"off", "set", "visible", "flushed", "on", "slotted", "synced",
                "clean", "written", "dead"},
           h : {"hw", "sw"}, t : {"none", "vectors", "on"},
           i : {"none", "iar", "count", "tval", "eoi", "eret"}]
\* A point of the program outside the interrupt handler, and its end.
Pt(m, h, t) == [m |-> m, h |-> h, t |-> t, i |-> "none"]
Dead == [m |-> "dead", h |-> "hw", t |-> "none", i |-> "none"]

\* Texts that would be a false report.
FalseReports == {"FAIL", "unexpected exception", "resumed"}

\* Operation o may come next at point p, and where it leads.  A loop does not
\* return, and an SMC that the policy refuses is the guest's end.
Allowed(p, o) ==
  \/ p.m = "dead"
  \/ p.i = "none" /\ CASE o.op = "uart" -> o.exit.data \notin FalseReports
                       [] o.op = "smc" -> IsSmc(o.exit)
                       [] o.op \in {"mmio", "cpu_interface"} -> TRUE
                       [] o.op = "vbar" -> p.t = "none"
                       [] o.op \in {"tval", "ctl"} -> p.t = "vectors"
                       [] o.op = "daifclr" -> p.t = "on"
                       [] o.op = "slot" ->
                            /\ p.m \in {"off", "on", "written"}
                            /\ o.desc = test_desc(p.h = "hw")
                       [] o.op = "dsb" -> p.m \in {"set", "slotted"}
                       [] o.op = "tlbi" -> p.m \in {"off", "visible", "synced"}
                       [] o.op = "sctlr" -> p.m = "flushed" /\ o.mmu = p.h
                       [] o.op \in {"load", "store"} -> p.m = "clean"
                       [] o.op = "verdict" -> p.m = "written" /\ p.h = "hw"
                       [] o.op = "tlbi_loop" -> p.m = "off"
                       [] o.op = "walk_loop" -> /\ p.m \in {"on", "written"}
                                                /\ o.hw_updates = (p.h = "hw")
                       [] OTHER -> FALSE
  \/ p.i # "none" /\ o.op = p.i

Tabled(m, op) ==
  CASE op = "slot"  -> IF m = "off" THEN "set" ELSE "slotted"
    [] op = "dsb"   -> IF m = "set" THEN "visible" ELSE "synced"
    [] op = "tlbi"  -> CASE m = "off"     -> "off"
                         [] m = "visible" -> "flushed"
                         [] OTHER         -> "clean"
    [] op = "sctlr" -> "on"
    [] op = "store" -> "written"
    [] OTHER        -> m
Handled1(i) ==
  CASE i = "iar"   -> "eret"
    [] i = "count" -> "tval"
    [] i = "tval"  -> "eoi"
    [] i = "eoi"   -> "eret"
    [] OTHER       -> "none"
After(p, o) ==
  IF p.m = "dead" \/ o.op \in {"tlbi_loop", "walk_loop"}
       \/ (o.op = "smc" /\ smc_policy(o.exit.fid) = "UNHANDLED")
    THEN Dead
  ELSE IF p.i # "none" THEN [p EXCEPT !.i = Handled1(p.i)]
  ELSE Pt(Tabled(p.m, o.op), p.h, CASE o.op = "vbar" -> "vectors"
                                    [] o.op = "ctl"  -> "on"
                                    [] OTHER         -> p.t)

\* The operations s lead from p to q.
Path(s, p, q) ==
  /\ \E S : s \in Seq(S)
  /\ \E c \in [1 .. (Len(s) + 1) -> Points] :
       /\ c[1] = p /\ c[Len(s) + 1] = q
       /\ \A k \in 1 .. Len(s) : /\ Allowed(c[k], s[k])
                                 /\ c[k + 1] = After(c[k], s[k])
-----------------------------------------------------------------------------
(* What a point says of the machine *)

\* The page table.  Before the MMU is on nothing walks; without hardware
\* updates the descriptor never changes; with them a write needs a walk of
\* the descriptor just written.
TablesAre(p) ==
  /\ p.m \in {"off", "set", "visible", "flushed"} => mmu = "off"
  /\ p.m = "off" => buffer = <<>>
  /\ p.m = "set" => \/ buffer = <<test_desc(p.h = "hw")>>
                    \/ buffer = <<>> /\ slot = test_desc(p.h = "hw")
  /\ p.m \in {"visible", "flushed"} =>
       buffer = <<>> /\ slot = test_desc(p.h = "hw")
  /\ p.m = "flushed" => tlb = {}
  /\ p.m \in {"on", "slotted", "synced", "clean", "written"} => mmu = p.h
  /\ mmu = "sw" => /\ slot = Desc(TRUE, FALSE) /\ tlb \subseteq {FALSE}
                   /\ buffer \in {<<>>, <<Desc(TRUE, FALSE)>>}
  /\ p.m \in {"synced", "clean", "written"} => buffer = <<>>
  /\ p.m = "clean" => tlb = {} \/ (tlb = {slot.ro} /\ slot.af)
  /\ p.m = "written" => slot.af /\ ~slot.ro

\* Interrupts: vectors come before the timer, the timer before unmasking.
VectorsAre(p) ==
  /\ p.t # "none" => vbar
  /\ timer.on => p.t = "on"
  /\ timer.expired => timer.on
  /\ ~masked => p.t = "on" /\ p.i = "none"
  /\ p.i # "none" => p.t = "on"

\* The timer's interrupt, in a run that began without one: vppi keeps a second
\* one away until the first is counted, the timer armed again and it is ended.
TimerIs(p) ==
  /\ virq \in {"idle", "pending", "active", "ended"}
  /\ virq = "idle" <=> ~vppi
  /\ virq = "active" <=> p.i \in {"count", "tval", "eoi"}
  /\ virq = "pending" => timer.expired
  /\ p.i = "count" => timer.expired
  /\ p.i = "tval" => timer.expired /\ owed = 0
  /\ p.i # "tval" => owed = IF timer.expired THEN 1 ELSE 0

Describes(p) ==
  /\ p.m # "dead" /\ TablesAre(p) /\ VectorsAre(p) /\ (~carried => TimerIs(p))

Descs == [af : BOOLEAN, ro : BOOLEAN]
Typed ==
  /\ slot \in Descs /\ buffer \in {<<>>} \cup {<<d>> : d \in Descs}
  /\ tlb \in {{}, {TRUE}, {FALSE}}
  /\ timer \in [on : BOOLEAN, expired : BOOLEAN]
HarnessInvariant ==
  /\ Typed /\ printed \cap FalseReports = {}
  /\ TimerCounted
  /\ alive => \E p \in Points : Path(todo, p, Dead) /\ Describes(p)
-----------------------------------------------------------------------------
(* Paths *)

\* An operation leads to a point.
LEMMA AfterIs ==
  ASSUME NEW p \in Points, NEW o
  PROVE  After(p, o) \in Points
<1>1. Dead \in Points
  BY DEF Dead, Points
<1>2. [p EXCEPT !.i = Handled1(p.i)] \in Points
  BY DEF Points, Handled1
<1>3. Tabled(p.m, o.op) \in {"off", "set", "visible", "flushed", "on", "slotted",
                             "synced", "clean", "written", "dead"}
  BY DEF Tabled, Points
<1>4. ASSUME NEW t \in {"none", "vectors", "on"}
      PROVE  Pt(Tabled(p.m, o.op), p.h, t) \in Points
  BY <1>3 DEF Points, Pt
<1>5. p.t \in {"none", "vectors", "on"}
  BY DEF Points
<1> QED
  BY <1>1, <1>2, <1>4, <1>5 DEF After

\* Nothing, and one operation.
LEMMA PathNone ==
  ASSUME NEW p \in Points
  PROVE  Path(<<>>, p, p)
<1> DEFINE c == [k \in 1 .. 1 |-> p]
<1>1. c \in [1 .. (Len(<<>>) + 1) -> Points] /\ c[1] = p /\ c[Len(<<>>) + 1] = p
  OBVIOUS
<1>2. <<>> \in Seq({})
  OBVIOUS
<1>3. \A k : k \notin 1 .. Len(<<>>)
  OBVIOUS
<1> HIDE DEF c
<1> QED
  BY <1>1, <1>2, <1>3 DEF Path

LEMMA PathOne ==
  ASSUME NEW p \in Points, NEW o, Allowed(p, o)
  PROVE  Path(<<o>>, p, After(p, o))
<1> DEFINE q == After(p, o)
           c == [k \in 1 .. 2 |-> IF k = 1 THEN p ELSE q]
           s == <<o>>
<1>1. q \in Points
  BY AfterIs
<1> HIDE DEF q
<1>2. c \in [1 .. 2 -> Points] /\ c[1] = p /\ c[2] = q
  BY <1>1
<1>3. s \in Seq({o}) /\ Len(s) = 1 /\ s[1] = o
  OBVIOUS
<1> HIDE DEF c, s
<1>4. Len(s) + 1 = 2 /\ \A k \in 1 .. Len(s) : k = 1 /\ k + 1 = 2
  BY <1>3
<1>5. c \in [1 .. (Len(s) + 1) -> Points] /\ c[Len(s) + 1] = q
  BY <1>2, <1>4
<1>6. \A k \in 1 .. Len(s) : Allowed(c[k], s[k]) /\ c[k + 1] = After(c[k], s[k])
  BY <1>2, <1>3, <1>4 DEF q
<1> QED
  BY <1>2, <1>3, <1>5, <1>6 DEF Path, s, q

\* One path after another.
LEMMA PathConcat ==
  ASSUME NEW s, NEW t, NEW p, NEW q, NEW r, Path(s, p, q), Path(t, q, r)
  PROVE  Path(s \o t, p, r)
<1>1. PICK S, T : s \in Seq(S) /\ t \in Seq(T)
  BY DEF Path
<1> DEFINE U == S \cup T
<1>2. s \in Seq(U) /\ t \in Seq(U)
  BY <1>1
<1> HIDE DEF U
<1>3. /\ Len(s) \in Nat /\ Len(t) \in Nat /\ s \o t \in Seq(U)
      /\ Len(s \o t) = Len(s) + Len(t)
      /\ \A k \in 1 .. (Len(s) + Len(t)) :
           (s \o t)[k] = IF k <= Len(s) THEN s[k] ELSE t[k - Len(s)]
  BY <1>2
<1>4. PICK a \in [1 .. (Len(s) + 1) -> Points] :
        /\ a[1] = p /\ a[Len(s) + 1] = q
        /\ \A k \in 1 .. Len(s) : /\ Allowed(a[k], s[k])
                                  /\ a[k + 1] = After(a[k], s[k])
  BY DEF Path
<1>5. PICK b \in [1 .. (Len(t) + 1) -> Points] :
        /\ b[1] = q /\ b[Len(t) + 1] = r
        /\ \A k \in 1 .. Len(t) : /\ Allowed(b[k], t[k])
                                  /\ b[k + 1] = After(b[k], t[k])
  BY DEF Path
<1>6. PICK m \in Nat, n \in Nat : m = Len(s) /\ n = Len(t)
  BY <1>3
<1> DEFINE c == [k \in 1 .. (m + n + 1) |-> IF k <= m THEN a[k] ELSE b[k - m]]
           u == s \o t
<1>7. u \in Seq(U) /\ Len(u) = m + n
  BY <1>3, <1>6
<1>8. c \in [1 .. (m + n + 1) -> Points]
  <2> SUFFICES ASSUME NEW k \in 1 .. (m + n + 1)
               PROVE  (IF k <= m THEN a[k] ELSE b[k - m]) \in Points
    OBVIOUS
  <2>1. CASE k <= m
    <3>1. k \in 1 .. (m + 1)
      BY <2>1
    <3> QED
      BY <1>4, <1>6, <2>1, <3>1
  <2>2. CASE ~(k <= m)
    <3>1. k - m \in 1 .. (n + 1)
      BY <2>2
    <3> QED
      BY <1>5, <1>6, <2>2, <3>1
  <2> QED
    BY <2>1, <2>2
<1>9. \A k \in 1 .. (m + 1) : c[k] = a[k]
  <2> TAKE k \in 1 .. (m + 1)
  <2>1. CASE k <= m
    BY <2>1
  <2>2. CASE k = m + 1
    <3>1. k \in 1 .. (m + n + 1) /\ ~(k <= m) /\ k - m = 1
      BY <2>2
    <3> QED
      BY <1>4, <1>5, <1>6, <2>2, <3>1
  <2> QED
    BY <2>1, <2>2
<1>10. \A k \in 1 .. (n + 1) : c[m + k] = b[k]
  <2> TAKE k \in 1 .. (n + 1)
  <2>1. m + k \in 1 .. (m + n + 1) /\ ~(m + k <= m) /\ (m + k) - m = k
    OBVIOUS
  <2> QED
    BY <2>1
<1> HIDE DEF c, u
<1>11. c[1] = p /\ c[m + n + 1] = r
  <2>1. 1 \in 1 .. (m + 1) /\ n + 1 \in 1 .. (n + 1) /\ m + (n + 1) = m + n + 1
    OBVIOUS
  <2>2. c[m + (n + 1)] = b[n + 1]
    BY <1>10, <2>1
  <2> QED
    BY <1>4, <1>5, <1>6, <1>9, <2>1, <2>2
<1>12. ASSUME NEW k \in 1 .. (m + n)
       PROVE  Allowed(c[k], u[k]) /\ c[k + 1] = After(c[k], u[k])
  <2>1. CASE k <= m
    <3>1. k \in 1 .. m /\ k \in 1 .. (m + 1) /\ k + 1 \in 1 .. (m + 1)
      BY <2>1
    <3>2. u[k] = s[k]
      BY <1>3, <1>6, <2>1 DEF u
    <3> QED
      BY <1>4, <1>6, <1>9, <3>1, <3>2
  <2>2. CASE ~(k <= m)
    <3>1. PICK j \in 1 .. n : j = k - m
      BY <2>2
    <3>2. u[k] = t[j]
      BY <1>3, <1>6, <2>2, <3>1 DEF u
    <3>3. j \in 1 .. (n + 1) /\ j + 1 \in 1 .. (n + 1) /\ k = m + j
          /\ k + 1 = m + (j + 1)
      BY <3>1
    <3>4. c[k] = b[j] /\ c[k + 1] = b[j + 1]
      BY <1>10, <3>3
    <3> QED
      BY <1>5, <1>6, <3>2, <3>4
  <2> QED
    BY <2>1, <2>2
<1> QED
  BY <1>7, <1>8, <1>11, <1>12 DEF Path, u

\* The first operation of a path.
LEMMA PathHead ==
  ASSUME NEW s, NEW p, NEW q, Path(s, p, q)
  PROVE  /\ p \in Points /\ q \in Points
         /\ s = <<>> => p = q
         /\ s # <<>> => /\ Allowed(p, Head(s)) /\ After(p, Head(s)) \in Points
                        /\ Path(Tail(s), After(p, Head(s)), q)
<1>1. PICK S : s \in Seq(S)
  BY DEF Path
<1>2. PICK c \in [1 .. (Len(s) + 1) -> Points] :
        /\ c[1] = p /\ c[Len(s) + 1] = q
        /\ \A k \in 1 .. Len(s) : /\ Allowed(c[k], s[k])
                                  /\ c[k + 1] = After(c[k], s[k])
  BY DEF Path
<1>3. PICK n \in Nat : n = Len(s)
  BY <1>1
<1>4. 1 \in 1 .. (n + 1) /\ n + 1 \in 1 .. (n + 1)
  OBVIOUS
<1>5. p \in Points /\ q \in Points
  BY <1>2, <1>3, <1>4
<1>6. s = <<>> => p = q
  BY <1>2
<1>7. ASSUME s # <<>>
      PROVE  /\ Allowed(p, Head(s)) /\ After(p, Head(s)) \in Points
             /\ Path(Tail(s), After(p, Head(s)), q)
  <2> DEFINE t == Tail(s)
             d == [k \in 1 .. n |-> c[k + 1]]
  <2>1. /\ Head(s) = s[1] /\ t \in Seq(S) /\ n # 0 /\ Len(t) = n - 1
        /\ \A k \in 1 .. (n - 1) : t[k] = s[k + 1]
    BY <1>1, <1>3, <1>7
  <2>2. 1 \in 1 .. n /\ 1 + 1 = 2
    BY <2>1
  <2>3. Allowed(p, Head(s)) /\ c[2] = After(p, Head(s))
    BY <1>2, <1>3, <2>1, <2>2
  <2>4. \A k \in 1 .. n : k + 1 \in 1 .. (n + 1)
    OBVIOUS
  <2>5. d \in [1 .. n -> Points] /\ \A k \in 1 .. n : d[k] = c[k + 1]
    BY <1>2, <1>3, <2>4
  <2> HIDE DEF t, d
  <2>6. d[1] = c[2] /\ d[n] = q
    BY <1>2, <1>3, <2>1, <2>2, <2>5
  <2>7. ASSUME NEW k \in 1 .. (n - 1)
        PROVE  Allowed(d[k], t[k]) /\ d[k + 1] = After(d[k], t[k])
    <3>1. k \in 1 .. n /\ k + 1 \in 1 .. n
      OBVIOUS
    <3> QED
      BY <1>2, <1>3, <2>1, <2>5, <3>1
  <2>8. (n - 1) + 1 = n
    OBVIOUS
  <2>9. Path(t, c[2], q)
    BY <2>1, <2>5, <2>6, <2>7, <2>8 DEF Path
  <2> QED
    BY <2>3, <2>9, <1>5, AfterIs DEF t
<1> QED
  BY <1>5, <1>6, <1>7
-----------------------------------------------------------------------------
(* The program *)

Ms == {"off", "set", "visible", "flushed", "on", "slotted", "synced", "clean",
       "written"}
Ts == {"none", "vectors", "on"}

LEMMA PtIs ==
  ASSUME NEW m \in Ms, NEW h \in {"hw", "sw"}, NEW t \in Ts
  PROVE  /\ Pt(m, h, t) \in Points /\ Dead \in Points
         /\ Pt(m, h, t).m = m /\ Pt(m, h, t).h = h /\ Pt(m, h, t).t = t
         /\ Pt(m, h, t).i = "none" /\ m # "dead"
  BY DEF Pt, Points, Dead, Ms, Ts

\* One operation of the program, at a point outside the interrupt handler.
LEMMA Moves ==
  ASSUME NEW m \in Ms, NEW h \in {"hw", "sw"}, NEW t \in Ts, NEW o,
         Allowed(Pt(m, h, t), o),
         o.op \notin {"smc", "tlbi_loop", "walk_loop"}
  PROVE  Path(<<o>>, Pt(m, h, t),
              Pt(Tabled(m, o.op), h, CASE o.op = "vbar" -> "vectors"
                                       [] o.op = "ctl"  -> "on"
                                       [] OTHER         -> t))
<1> DEFINE p == Pt(m, h, t)
           u == CASE o.op = "vbar" -> "vectors"
                  [] o.op = "ctl"  -> "on"
                  [] OTHER         -> p.t
<1>1. /\ p \in Points /\ p.m = m /\ p.h = h /\ p.t = t /\ p.i = "none"
      /\ m # "dead"
  BY PtIs
<1>2. After(p, o) = Pt(Tabled(m, o.op), h, u)
  BY <1>1 DEF After
<1> HIDE DEF u
<1>3. Path(<<o>>, p, After(p, o))
  BY <1>1, PathOne
<1> HIDE DEF p
<1> QED
  BY <1>1, <1>2, <1>3 DEF u, p

\* Operations that lead nowhere else.
LEMMA Stays ==
  ASSUME NEW m \in Ms, NEW h \in {"hw", "sw"}, NEW t \in Ts, NEW o,
         Allowed(Pt(m, h, t), o),
         o.op \in {"uart", "mmio", "cpu_interface", "tval", "daifclr", "load",
                   "verdict"}
  PROVE  Path(<<o>>, Pt(m, h, t), Pt(m, h, t))
<1>1. Tabled(m, o.op) = m /\ o.op \notin {"vbar", "ctl", "smc", "tlbi_loop", "walk_loop"}
  BY DEF Tabled
<1> QED
  BY <1>1, Moves

\* Beyond Dead anything may be left to do.
LEMMA DeadPath ==
  ASSUME NEW S, NEW s \in Seq(S)
  PROVE  Path(s, Dead, Dead)
<1>1. Dead \in Points /\ Dead.m = "dead"
  BY DEF Dead, Points
<1>2. \A o : Allowed(Dead, o) /\ After(Dead, o) = Dead
  BY <1>1 DEF Allowed, After
<1>3. PICK n \in Nat : n = Len(s)
  OBVIOUS
<1> DEFINE c == [k \in 1 .. (n + 1) |-> Dead]
<1> HIDE DEF Dead
<1>4. /\ c \in [1 .. (n + 1) -> Points] /\ c[1] = Dead /\ c[n + 1] = Dead
      /\ \A k \in 1 .. n : c[k] = Dead /\ c[k + 1] = Dead
  BY <1>1
<1> HIDE DEF c
<1> QED
  BY <1>2, <1>3, <1>4 DEF Path

\* uart_puts() of any text.
LEMMA UartText ==
  ASSUME NEW text
  PROVE  \E S : uart_puts(text) \in Seq(S)
<1> DEFINE poll == [op |-> "uart",
                    exit |-> Access("uart", "UTRSTAT", FALSE, TRUE, text)]
           put == [op |-> "uart",
                   exit |-> Access("uart", "UTXH", TRUE, TRUE, text)]
<1>1. uart_puts(text) = <<poll>> \o <<put>>
  BY DEF uart_puts, ExitOp
<1> HIDE DEF poll, put
<1>2. <<poll>> \o <<put>> \in Seq({poll, put})
  OBVIOUS
<1> QED
  BY <1>1, <1>2

\* uart_puts() of a text that is no false report.
LEMMA UartPath ==
  ASSUME NEW m \in Ms, NEW h \in {"hw", "sw"}, NEW t \in Ts, NEW text,
         text \notin FalseReports
  PROVE  Path(uart_puts(text), Pt(m, h, t), Pt(m, h, t))
<1> DEFINE p == Pt(m, h, t)
           poll == [op |-> "uart",
                    exit |-> Access("uart", "UTRSTAT", FALSE, TRUE, text)]
           put == [op |-> "uart",
                   exit |-> Access("uart", "UTXH", TRUE, TRUE, text)]
<1>1. poll.exit.data = text /\ put.exit.data = text
  BY DEF Access
<1>2. p.i = "none"
  BY PtIs
<1>3. poll.op = "uart" /\ put.op = "uart"
  OBVIOUS
<1>4. uart_puts(text) = <<poll>> \o <<put>>
  BY DEF uart_puts, ExitOp
<1> HIDE DEF poll, put
<1>5. Allowed(p, poll) /\ Allowed(p, put)
  BY <1>1, <1>2, <1>3 DEF Allowed
<1>6. Path(<<poll>>, p, p) /\ Path(<<put>>, p, p)
  BY <1>3, <1>5, Stays
<1> QED
  BY <1>4, <1>6, PathConcat

\* Accesses that the VMM or libvmm serves.
LEMMA MmioPath ==
  ASSUME NEW m \in Ms, NEW h \in {"hw", "sw"}, NEW t \in Ts, NEW f
  PROVE  Path(ExitOp("mmio", f), Pt(m, h, t), Pt(m, h, t))
<1> DEFINE o == [op |-> "mmio", exit |-> f]
<1>1. o.op = "mmio" /\ Pt(m, h, t).i = "none" /\ ExitOp("mmio", f) = <<o>>
  BY PtIs DEF ExitOp
<1> HIDE DEF o
<1>2. Allowed(Pt(m, h, t), o)
  BY <1>1 DEF Allowed
<1> QED
  BY <1>1, <1>2, Stays

\* An SMC: the program goes on, or it is refused.
LEMMA SmcPath ==
  ASSUME NEW m \in Ms, NEW h \in {"hw", "sw"}, NEW t \in Ts
  PROVE  /\ Path(smc0(4, 0), Pt(m, h, t), Pt(m, h, t))
         /\ Path(smc0(0, 0), Pt(m, h, t), Pt(m, h, t))
         /\ Path(smc0(2, 0), Pt(m, h, t), Dead)
<1> DEFINE p == Pt(m, h, t)
           o(n) == [op |-> "smc", exit |-> Smc(Fid(n, 0, TRUE))]
<1>1. /\ p \in Points /\ p.m = m /\ p.h = h /\ p.t = t /\ p.i = "none"
      /\ m # "dead" /\ Dead \in Points
  BY PtIs
<1>2. /\ smc_policy(Fid(4, 0, TRUE)) # "UNHANDLED"
      /\ smc_policy(Fid(0, 0, TRUE)) # "UNHANDLED"
      /\ smc_policy(Fid(2, 0, TRUE)) = "UNHANDLED"
  BY DEF smc_policy, Fid, SMCCC_SERVICE_STD, PSCI_MAX, SMCCC_VERSION_FID
<1>3. \A n : /\ o(n).op = "smc" /\ IsSmc(o(n).exit)
             /\ o(n).exit.fid = Fid(n, 0, TRUE)
             /\ smc0(n, 0) = <<o(n)>>
  BY DEF Smc, IsSmc, smc0, ExitOp
<1> HIDE DEF o
<1>4. \A n : Allowed(p, o(n))
  BY <1>1, <1>3 DEF Allowed
<1>5. After(p, o(2)) = Dead
  BY <1>2, <1>3 DEF After
<1>6. Tabled(m, "smc") = m /\ Pt(m, h, t) = p
  BY DEF Tabled
<1>7. After(p, o(4)) = p /\ After(p, o(0)) = p
  BY <1>1, <1>2, <1>3, <1>6 DEF After
<1>8. \A n : Path(<<o(n)>>, p, After(p, o(n)))
  BY <1>1, <1>4, PathOne
<1> QED
  BY <1>3, <1>5, <1>7, <1>8

\* regression(): it ends at the last SMC, wherever it is called.
LEMMA RegressionPath ==
  ASSUME NEW m \in Ms, NEW h \in {"hw", "sw"}, NEW t \in Ts
  PROVE  Path(regression, Pt(m, h, t), Dead)
<1> DEFINE p == Pt(m, h, t)
           a == uart_puts("WTCON=")
           b == ExitOp("mmio", Access("watchdog", "WTCON", FALSE, TRUE, "-"))
           c == uart_puts("PSCI_VERSION=")
           d == uart_puts("SMCCC_VERSION=")
           e == uart_puts("resumed")
<1>1. Path(a, p, p) /\ Path(c, p, p) /\ Path(d, p, p)
  BY UartPath DEF FalseReports
<1>2. Path(b, p, p)
  BY MmioPath
<1>3. Path(smc0(4, 0), p, p) /\ Path(smc0(0, 0), p, p) /\ Path(smc0(2, 0), p, Dead)
  BY SmcPath
<1>4. Path(e, Dead, Dead)
  BY UartText, DeadPath
<1>5. regression = a \o b \o c \o smc0(4, 0) \o d \o smc0(0, 0) \o smc0(2, 0) \o e
  BY DEF regression
<1> HIDE DEF a, b, c, d, e, p
<1>6. Path(a \o b, p, p)
  BY <1>1, <1>2, PathConcat
<1>7. Path(a \o b \o c, p, p)
  BY <1>1, <1>6, PathConcat
<1>8. Path(a \o b \o c \o smc0(4, 0), p, p)
  BY <1>3, <1>7, PathConcat
<1>9. Path(a \o b \o c \o smc0(4, 0) \o d, p, p)
  BY <1>1, <1>8, PathConcat
<1>10. Path(a \o b \o c \o smc0(4, 0) \o d \o smc0(0, 0), p, p)
  BY <1>3, <1>9, PathConcat
<1>11. Path(a \o b \o c \o smc0(4, 0) \o d \o smc0(0, 0) \o smc0(2, 0), p, Dead)
  BY <1>3, <1>10, PathConcat
<1>12. Path(regression, p, Dead)
  BY <1>4, <1>5, <1>11, PathConcat
<1> QED
  BY <1>12 DEF p

\* The operations on the timer.
LEMMA TimerOps ==
  ASSUME NEW m \in Ms, NEW h \in {"hw", "sw"}
  PROVE  /\ Path(Op("vbar"), Pt(m, h, "none"), Pt(m, h, "vectors"))
         /\ \A t \in Ts : Path(Op("cpu_interface"), Pt(m, h, t), Pt(m, h, t))
         /\ Path(Op("tval"), Pt(m, h, "vectors"), Pt(m, h, "vectors"))
         /\ Path(Op("ctl"), Pt(m, h, "vectors"), Pt(m, h, "on"))
         /\ Path(Op("daifclr"), Pt(m, h, "on"), Pt(m, h, "on"))
<1> DEFINE o(name) == [op |-> name]
<1>1. \A name : o(name).op = name /\ Op(name) = <<o(name)>>
  BY DEF Op
<1>2. \A t \in Ts : /\ Pt(m, h, t).t = t /\ Pt(m, h, t).i = "none"
  BY PtIs
<1>3. "none" \in Ts /\ "vectors" \in Ts /\ "on" \in Ts
  BY DEF Ts
<1> HIDE DEF o
<1>4. /\ Allowed(Pt(m, h, "none"), o("vbar"))
      /\ \A t \in Ts : Allowed(Pt(m, h, t), o("cpu_interface"))
      /\ Allowed(Pt(m, h, "vectors"), o("tval"))
      /\ Allowed(Pt(m, h, "vectors"), o("ctl"))
      /\ Allowed(Pt(m, h, "on"), o("daifclr"))
  BY <1>1, <1>2, <1>3 DEF Allowed
<1>5. Tabled(m, "vbar") = m /\ Tabled(m, "ctl") = m
  BY DEF Tabled
<1>6. Path(<<o("vbar")>>, Pt(m, h, "none"), Pt(m, h, "vectors"))
  BY <1>1, <1>3, <1>4, <1>5, Moves
<1>7. Path(<<o("ctl")>>, Pt(m, h, "vectors"), Pt(m, h, "on"))
  BY <1>1, <1>3, <1>4, <1>5, Moves
<1>8. ASSUME NEW t \in Ts
      PROVE  Path(<<o("cpu_interface")>>, Pt(m, h, t), Pt(m, h, t))
  BY <1>1, <1>4, Stays
<1>9. Path(<<o("tval")>>, Pt(m, h, "vectors"), Pt(m, h, "vectors"))
  BY <1>1, <1>3, <1>4, Stays
<1>10. Path(<<o("daifclr")>>, Pt(m, h, "on"), Pt(m, h, "on"))
  BY <1>1, <1>3, <1>4, Stays
<1> QED
  BY <1>1, <1>6, <1>7, <1>8, <1>9, <1>10

\* timer_irqs_on(): vectors, the GIC, the timer, and only then interrupts.
LEMMA TimerPath ==
  ASSUME NEW m \in Ms, NEW h \in {"hw", "sw"}
  PROVE  Path(timer_irqs_on, Pt(m, h, "none"), Pt(m, h, "on"))
<1> DEFINE b == ExitOp("mmio", Access("vgic", "GICD_CTLR", TRUE, TRUE, "-"))
           c == ExitOp("mmio", Access("vgic", "GICR_ISENABLER0", TRUE, TRUE, "-"))
           e == uart_puts("timer firing")
           p == Pt(m, h, "none")
           q == Pt(m, h, "vectors")
           r == Pt(m, h, "on")
<1>1. "none" \in Ts /\ "vectors" \in Ts /\ "on" \in Ts
  BY DEF Ts
<1>2. Path(b, q, q) /\ Path(c, q, q)
  BY <1>1, MmioPath
<1>3. Path(e, r, r)
  BY <1>1, UartPath DEF FalseReports
<1>4. /\ Path(Op("vbar"), p, q) /\ Path(Op("cpu_interface"), q, q)
      /\ Path(Op("tval"), q, q) /\ Path(Op("ctl"), q, r)
      /\ Path(Op("daifclr"), r, r)
  BY <1>1, TimerOps
<1>5. timer_irqs_on = Op("vbar") \o b \o c \o Op("cpu_interface") \o Op("tval")
                      \o Op("ctl") \o Op("daifclr") \o e
  BY DEF timer_irqs_on
<1> HIDE DEF b, c, e, p, q, r
<1>6. Path(Op("vbar") \o b \o c, p, q)
  BY <1>2, <1>4, PathConcat
<1>7. Path(Op("vbar") \o b \o c \o Op("cpu_interface"), p, q)
  BY <1>4, <1>6, PathConcat
<1>8. Path(Op("vbar") \o b \o c \o Op("cpu_interface") \o Op("tval"), p, q)
  BY <1>4, <1>7, PathConcat
<1>9. Path(Op("vbar") \o b \o c \o Op("cpu_interface") \o Op("tval")
           \o Op("ctl"), p, r)
  BY <1>4, <1>8, PathConcat
<1>10. Path(Op("vbar") \o b \o c \o Op("cpu_interface") \o Op("tval")
            \o Op("ctl") \o Op("daifclr"), p, r)
  BY <1>4, <1>9, PathConcat
<1>11. Path(timer_irqs_on, p, r)
  BY <1>3, <1>5, <1>10, PathConcat
<1> QED
  BY <1>11 DEF p, r

\* The operations on the page table.
Slot(h) == <<[op |-> "slot", desc |-> test_desc(h = "hw")]>>
LEMMA TableOps ==
  ASSUME NEW h \in {"hw", "sw"}, NEW t \in Ts
  PROVE  /\ Path(Slot(h), Pt("off", h, t), Pt("set", h, t))
         /\ Path(Op("dsb"), Pt("set", h, t), Pt("visible", h, t))
         /\ Path(Op("tlbi"), Pt("visible", h, t), Pt("flushed", h, t))
         /\ Path(<<[op |-> "sctlr", mmu |-> h]>>, Pt("flushed", h, t),
                 Pt("on", h, t))
         /\ Path(Slot(h), Pt("on", h, t), Pt("slotted", h, t))
         /\ Path(Slot(h), Pt("written", h, t), Pt("slotted", h, t))
         /\ Path(Op("dsb"), Pt("slotted", h, t), Pt("synced", h, t))
         /\ Path(Op("tlbi"), Pt("synced", h, t), Pt("clean", h, t))
         /\ Path(Op("load"), Pt("clean", h, t), Pt("clean", h, t))
         /\ Path(Op("store"), Pt("clean", h, t), Pt("written", h, t))
         /\ Path(Op("tlbi"), Pt("off", h, t), Pt("off", h, t))
         /\ h = "hw" => Path(Op("verdict"), Pt("written", h, t),
                             Pt("written", h, t))
<1> DEFINE o(name) == [op |-> name]
           store == [op |-> "slot", desc |-> test_desc(h = "hw")]
           sctlr == [op |-> "sctlr", mmu |-> h]
<1>1. \A name : o(name).op = name /\ Op(name) = <<o(name)>>
  BY DEF Op
<1>2. /\ store.op = "slot" /\ store.desc = test_desc(h = "hw")
      /\ Slot(h) = <<store>> /\ sctlr.op = "sctlr" /\ sctlr.mmu = h
  BY DEF Slot
<1>3. \A m \in Ms : /\ Pt(m, h, t).m = m /\ Pt(m, h, t).h = h
                    /\ Pt(m, h, t).i = "none"
  BY PtIs
<1>4. Ms = {"off", "set", "visible", "flushed", "on", "slotted", "synced",
            "clean", "written"}
  BY DEF Ms
<1> HIDE DEF o, store, sctlr
<1>5. /\ \A m \in {"off", "on", "written"} : m \in Ms /\ Allowed(Pt(m, h, t), store)
      /\ \A m \in {"set", "slotted"} : m \in Ms /\ Allowed(Pt(m, h, t), o("dsb"))
      /\ \A m \in {"off", "visible", "synced"} :
           m \in Ms /\ Allowed(Pt(m, h, t), o("tlbi"))
      /\ "flushed" \in Ms /\ Allowed(Pt("flushed", h, t), sctlr)
      /\ "clean" \in Ms /\ Allowed(Pt("clean", h, t), o("load"))
      /\ Allowed(Pt("clean", h, t), o("store"))
      /\ "written" \in Ms
      /\ h = "hw" => Allowed(Pt("written", h, t), o("verdict"))
  BY <1>1, <1>2, <1>3, <1>4 DEF Allowed
<1>6. /\ Tabled("off", "slot") = "set" /\ Tabled("on", "slot") = "slotted"
      /\ Tabled("written", "slot") = "slotted"
      /\ Tabled("set", "dsb") = "visible" /\ Tabled("slotted", "dsb") = "synced"
      /\ Tabled("off", "tlbi") = "off" /\ Tabled("visible", "tlbi") = "flushed"
      /\ Tabled("synced", "tlbi") = "clean"
      /\ Tabled("flushed", "sctlr") = "on" /\ Tabled("clean", "store") = "written"
  BY DEF Tabled
<1>7. ASSUME NEW m \in Ms, NEW a, Allowed(Pt(m, h, t), a),
             a.op \in {"slot", "dsb", "tlbi", "sctlr", "store"}
      PROVE  Path(<<a>>, Pt(m, h, t), Pt(Tabled(m, a.op), h, t))
  BY <1>7, Moves
<1>8. /\ Path(<<store>>, Pt("off", h, t), Pt("set", h, t))
      /\ Path(<<store>>, Pt("on", h, t), Pt("slotted", h, t))
      /\ Path(<<store>>, Pt("written", h, t), Pt("slotted", h, t))
      /\ Path(<<sctlr>>, Pt("flushed", h, t), Pt("on", h, t))
  BY <1>2, <1>5, <1>6, <1>7
<1>9. /\ Path(<<o("dsb")>>, Pt("set", h, t), Pt("visible", h, t))
      /\ Path(<<o("dsb")>>, Pt("slotted", h, t), Pt("synced", h, t))
      /\ Path(<<o("tlbi")>>, Pt("visible", h, t), Pt("flushed", h, t))
      /\ Path(<<o("tlbi")>>, Pt("synced", h, t), Pt("clean", h, t))
      /\ Path(<<o("tlbi")>>, Pt("off", h, t), Pt("off", h, t))
      /\ Path(<<o("store")>>, Pt("clean", h, t), Pt("written", h, t))
  BY <1>1, <1>5, <1>6, <1>7
<1>10. Path(<<o("load")>>, Pt("clean", h, t), Pt("clean", h, t))
  BY <1>1, <1>5, Stays
<1>11. h = "hw" => Path(<<o("verdict")>>, Pt("written", h, t), Pt("written", h, t))
  BY <1>1, <1>5, Stays
<1> QED
  BY <1>1, <1>2, <1>8, <1>9, <1>10, <1>11 DEF sctlr

\* Where the k-th operation of a loop is in its body.
LEMMA LoopIndex ==
  ASSUME NEW n \in {1, 5}, NEW k \in Nat \ {0}
  PROVE  LET r == ((k - 1) % n) + 1 IN
         /\ r \in 1 .. n /\ r + 1 \in 1 .. (n + 1)
         /\ k <= n => r = k
         /\ r < n => (k % n) + 1 = r + 1
         /\ r = n => (k % n) + 1 = 1
<1>1. CASE n = 1
  BY <1>1
<1>2. CASE n = 5
  BY <1>2
<1> QED
  BY <1>1, <1>2

LEMMA LoopEnd ==
  ASSUME NEW n \in {1, 5}
  PROVE  /\ Rounds * n \in Nat /\ Rounds * n >= n
         /\ (Rounds * n) % n = 0
<1>1. Rounds \in Nat /\ Rounds >= 1
  BY HarnessAssumption
<1>2. CASE n = 1
  BY <1>1, <1>2
<1>3. CASE n = 5
  BY <1>1, <1>3
<1> QED
  BY <1>2, <1>3

\* A loop: the first round leads from p to q, and the others from q to q.
LEMMA RepeatPath ==
  ASSUME NEW s, NEW p, NEW q, Len(s) \in {1, 5}, Path(s, p, q), Path(s, q, q)
  PROVE  Path(Repeat(s), p, q)
<1>1. PICK S : s \in Seq(S)
  BY DEF Path
<1>2. PICK n \in {1, 5} : n = Len(s)
  OBVIOUS
<1>3. PICK w \in Nat : w = Rounds * n /\ w >= n /\ w % n = 0
  BY LoopEnd
<1>4. PICK a \in [1 .. (n + 1) -> Points] :
        /\ a[1] = p /\ a[n + 1] = q
        /\ \A k \in 1 .. n : Allowed(a[k], s[k]) /\ a[k + 1] = After(a[k], s[k])
  BY <1>2 DEF Path
<1>5. PICK b \in [1 .. (n + 1) -> Points] :
        /\ b[1] = q /\ b[n + 1] = q
        /\ \A k \in 1 .. n : Allowed(b[k], s[k]) /\ b[k + 1] = After(b[k], s[k])
  BY <1>2 DEF Path
<1> DEFINE r(k) == ((k - 1) % n) + 1
           u == [k \in 1 .. w |-> s[r(k)]]
           c == [k \in 1 .. (w + 1) |-> IF k <= n THEN a[k] ELSE b[r(k)]]
<1>6. ASSUME NEW k \in Nat \ {0}
      PROVE  /\ r(k) \in 1 .. n /\ r(k) + 1 \in 1 .. (n + 1)
             /\ r(k) \in 1 .. (n + 1)
             /\ k <= n => r(k) = k
             /\ r(k) < n => r(k + 1) = r(k) + 1
             /\ r(k) = n => r(k + 1) = 1
  <2>1. (k + 1) - 1 = k
    OBVIOUS
  <2>2. r(k) \in 1 .. n => r(k) \in 1 .. (n + 1)
    OBVIOUS
  <2> QED
    BY <2>1, <2>2, LoopIndex
<1>7. r(w + 1) = 1 /\ w + 1 > n /\ n >= 1
  BY <1>3
<1> HIDE DEF r
<1>8. Repeat(s) = u
  BY <1>2, <1>3 DEF Repeat, r
<1>9. u \in Seq(S) /\ Len(u) = w /\ \A k \in 1 .. w : u[k] = s[r(k)]
  <2>1. \A j \in 1 .. n : s[j] \in S
    BY <1>1, <1>2
  <2>2. ASSUME NEW k \in 1 .. w
        PROVE  s[r(k)] \in S
    <3>1. k \in Nat \ {0}
      OBVIOUS
    <3>2. r(k) \in 1 .. n
      BY <1>6, <3>1
    <3> QED
      BY <2>1, <3>2
  <2> QED
    BY <2>2
<1>10. /\ c \in [1 .. (w + 1) -> Points]
       /\ \A k \in 1 .. (w + 1) : c[k] = IF k <= n THEN a[k] ELSE b[r(k)]
  <2>1. ASSUME NEW k \in 1 .. (w + 1)
        PROVE  (IF k <= n THEN a[k] ELSE b[r(k)]) \in Points
    BY <1>4, <1>5, <1>6
  <2> QED
    BY <2>1
<1> HIDE DEF u, c
<1>11. c[1] = p /\ c[w + 1] = q
  <2>1. 1 \in 1 .. (w + 1) /\ w + 1 \in 1 .. (w + 1)
    OBVIOUS
  <2> QED
    BY <1>4, <1>5, <1>7, <1>10, <2>1
<1>12. ASSUME NEW k \in 1 .. w
       PROVE  Allowed(c[k], u[k]) /\ c[k + 1] = After(c[k], u[k])
  <2>1. k \in 1 .. (w + 1) /\ k + 1 \in 1 .. (w + 1) /\ k \in Nat \ {0}
    OBVIOUS
  <2>2. u[k] = s[r(k)] /\ r(k) \in 1 .. n
    BY <1>6, <1>9, <2>1
  <2>3. CASE k < n
    <3>1. k <= n /\ k + 1 <= n /\ r(k) = k
      BY <1>6, <2>1, <2>3
    <3> QED
      BY <1>4, <1>10, <2>1, <2>2, <3>1
  <2>4. CASE k = n
    <3>1. r(k) = k /\ r(k + 1) = 1 /\ ~(k + 1 <= n)
      BY <1>6, <2>1, <2>4
    <3>2. c[k] = a[k] /\ c[k + 1] = a[k + 1]
      BY <1>4, <1>5, <1>10, <2>1, <2>4, <3>1
    <3> QED
      BY <1>4, <2>2, <3>1, <3>2
  <2>5. CASE k > n
    <3>1. ~(k <= n) /\ ~(k + 1 <= n)
      BY <2>5
    <3>2. r(k) < n \/ r(k) = n
      BY <2>2
    <3>3. b[r(k + 1)] = b[r(k) + 1]
      BY <1>5, <1>6, <2>1, <3>2
    <3>4. c[k] = b[r(k)] /\ c[k + 1] = b[r(k) + 1]
      BY <1>10, <2>1, <3>1, <3>3
    <3> QED
      BY <1>5, <2>2, <3>4
  <2> QED
    BY <2>3, <2>4, <2>5
<1> QED
  BY <1>8, <1>9, <1>10, <1>11, <1>12 DEF Path

\* mmu_on(): the descriptor is in memory and no translation is left of an
\* earlier run when the MMU goes on.
LEMMA MmuPath ==
  ASSUME NEW h \in {"hw", "sw"}
  PROVE  Path(mmu_on(h = "hw"), Pt("off", h, "none"), Pt("on", h, "none"))
<1> DEFINE p(m) == Pt(m, h, "none")
           sctlr == <<[op |-> "sctlr", mmu |-> h]>>
           a == uart_puts("MMU on")
           b == uart_puts("MMU registers")
<1>1. "none" \in Ts /\ "on" \in Ms
  BY DEF Ts, Ms
<1>2. /\ Path(Slot(h), p("off"), p("set")) /\ Path(Op("dsb"), p("set"), p("visible"))
      /\ Path(Op("tlbi"), p("visible"), p("flushed"))
      /\ Path(sctlr, p("flushed"), p("on"))
  BY <1>1, TableOps
<1>3. Path(a, p("on"), p("on")) /\ Path(b, p("on"), p("on"))
  BY <1>1, UartPath DEF FalseReports
<1>4. (IF h = "hw" THEN "hw" ELSE "sw") = h
  OBVIOUS
<1>5. mmu_on(h = "hw") = Slot(h) \o Op("dsb") \o Op("tlbi") \o sctlr \o a \o b
  BY <1>4 DEF mmu_on, Slot
<1> HIDE DEF p, sctlr, a, b
<1>6. Path(Slot(h) \o Op("dsb"), p("off"), p("visible"))
  BY <1>2, PathConcat
<1>7. Path(Slot(h) \o Op("dsb") \o Op("tlbi"), p("off"), p("flushed"))
  BY <1>2, <1>6, PathConcat
<1>8. Path(Slot(h) \o Op("dsb") \o Op("tlbi") \o sctlr, p("off"), p("on"))
  BY <1>2, <1>7, PathConcat
<1>9. Path(Slot(h) \o Op("dsb") \o Op("tlbi") \o sctlr \o a, p("off"), p("on"))
  BY <1>3, <1>8, PathConcat
<1>10. Path(Slot(h) \o Op("dsb") \o Op("tlbi") \o sctlr \o a \o b, p("off"), p("on"))
  BY <1>3, <1>9, PathConcat
<1> QED
  BY <1>5, <1>10, Zenon DEF p

\* A round of walk_forever().
LEMMA RoundPath ==
  ASSUME NEW h \in {"hw", "sw"}, NEW t \in Ts, NEW m \in {"on", "written"}
  PROVE  /\ Path(walk_round(h = "hw"), Pt(m, h, t), Pt("written", h, t))
         /\ Len(walk_round(h = "hw")) = 5
<1> DEFINE p(n) == Pt(n, h, t)
<1>1. /\ Path(Slot(h), p(m), p("slotted")) /\ Path(Op("dsb"), p("slotted"), p("synced"))
      /\ Path(Op("tlbi"), p("synced"), p("clean"))
      /\ Path(Op("load"), p("clean"), p("clean"))
      /\ Path(Op("store"), p("clean"), p("written"))
  BY TableOps
<1>2. walk_round(h = "hw") = Slot(h) \o (Op("dsb") \o Op("tlbi")) \o Op("load")
                             \o Op("store")
  BY DEF walk_round, invalidate_page, Slot
<1> HIDE DEF p
<1>3. Path(Op("dsb") \o Op("tlbi"), p("slotted"), p("clean"))
  BY <1>1, PathConcat
<1>4. Path(Slot(h) \o (Op("dsb") \o Op("tlbi")), p(m), p("clean"))
  BY <1>1, <1>3, PathConcat
<1>5. Path(Slot(h) \o (Op("dsb") \o Op("tlbi")) \o Op("load"), p(m), p("clean"))
  BY <1>1, <1>4, PathConcat
<1>6. Path(Slot(h) \o (Op("dsb") \o Op("tlbi")) \o Op("load") \o Op("store"), p(m),
           p("written"))
  BY <1>1, <1>5, PathConcat
<1>7. Len(walk_round(h = "hw")) = 5
  <2>1. ASSUME NEW a, NEW b, NEW c, NEW d, NEW e
        PROVE  Len(<<a>> \o (<<b>> \o <<c>>) \o <<d>> \o <<e>>) = 5
    OBVIOUS
  <2> QED
    BY <1>2, <2>1 DEF Slot, Op
<1> QED
  BY <1>2, <1>6, <1>7, Zenon DEF p

\* The loops: each pass through one comes back to its head.
LEMMA LoopHeads ==
  ASSUME NEW h \in {"hw", "sw"}, NEW t \in Ts
  PROVE  /\ Path(tlbi_forever, Pt("off", h, t), Dead)
         /\ \A m \in {"on", "written"} : \A first :
              Path(walk_forever(first, h = "hw"), Pt(m, h, t), Dead)
<1> DEFINE o == [op |-> "tlbi_loop"]
           w(first) == [op |-> "walk_loop", first |-> first,
                        hw_updates |-> h = "hw"]
<1>1. o.op = "tlbi_loop" /\ tlbi_forever = <<o>>
  BY DEF tlbi_forever, Op
<1>2. \A first : /\ w(first).op = "walk_loop" /\ w(first).hw_updates = (h = "hw")
                 /\ walk_forever(first, h = "hw") = <<w(first)>>
  BY DEF walk_forever
<1>3. \A m \in {"off", "on", "written"} :
        /\ Pt(m, h, t) \in Points /\ Pt(m, h, t).m = m /\ Pt(m, h, t).h = h
        /\ Pt(m, h, t).i = "none"
  BY PtIs DEF Ms
<1> HIDE DEF o, w
<1>4. Allowed(Pt("off", h, t), o) /\ After(Pt("off", h, t), o) = Dead
  BY <1>1, <1>3 DEF Allowed, After
<1>5. \A m \in {"on", "written"} : \A first :
        Allowed(Pt(m, h, t), w(first)) /\ After(Pt(m, h, t), w(first)) = Dead
  BY <1>2, <1>3 DEF Allowed, After
<1>6. Path(<<o>>, Pt("off", h, t), Dead)
  BY <1>3, <1>4, PathOne
<1>7. \A m \in {"on", "written"} : \A first : Path(<<w(first)>>, Pt(m, h, t), Dead)
  BY <1>3, <1>5, PathOne
<1> QED
  BY <1>1, <1>2, <1>6, <1>7

LEMMA TlbiLoopPath ==
  ASSUME NEW h \in {"hw", "sw"}, NEW t \in Ts
  PROVE  Path(tlbi_loop, Pt("off", h, t), Dead)
<1> DEFINE p == Pt("off", h, t)
<1>1. Path(Op("tlbi"), p, p)
  BY TableOps
<1>2. Len(Op("tlbi")) = 1
  BY DEF Op
<1>3. Path(report, p, p)
  BY UartPath DEF report, FalseReports, Ms
<1>4. Path(tlbi_forever, p, Dead)
  BY LoopHeads
<1> HIDE DEF p
<1>5. Path(Repeat(Op("tlbi")), p, p)
  BY <1>1, <1>2, RepeatPath
<1>6. Path(Repeat(Op("tlbi")) \o report, p, p)
  BY <1>3, <1>5, PathConcat
<1>7. Path(Repeat(Op("tlbi")) \o report \o tlbi_forever, p, Dead)
  BY <1>4, <1>6, PathConcat
<1> QED
  BY <1>7 DEF tlbi_loop, p

LEMMA WalkLoopPath ==
  ASSUME NEW h \in {"hw", "sw"}, NEW t \in Ts, NEW m \in {"on", "written"},
         NEW first
  PROVE  Path(walk_loop(first, h = "hw"), Pt(m, h, t), Dead)
<1> DEFINE p == Pt(m, h, t)
           q == Pt("written", h, t)
           r == walk_round(h = "hw")
           v == IF first /\ h = "hw" THEN report_hw_update ELSE <<>>
           f == walk_forever(FALSE, h = "hw")
<1>1. Path(r, p, q) /\ Path(r, q, q) /\ Len(r) = 5
  BY RoundPath
<1>2. Path(v, q, q)
  <2>1. CASE first /\ h = "hw"
    BY <2>1, TableOps DEF report_hw_update
  <2>2. CASE ~(first /\ h = "hw")
    BY <2>2, PtIs, PathNone DEF Ms
  <2> QED
    BY <2>1, <2>2
<1>3. Path(report, q, q)
  BY UartPath DEF report, FalseReports, Ms
<1>4. Path(f, q, Dead)
  BY LoopHeads
<1>5. walk_loop(first, h = "hw") = Repeat(r) \o v \o report \o f
  BY DEF walk_loop
<1> HIDE DEF p, q, r, v, f
<1>6. Path(Repeat(r), p, q)
  BY <1>1, RepeatPath
<1>7. Path(Repeat(r) \o v, p, q)
  BY <1>2, <1>6, PathConcat
<1>8. Path(Repeat(r) \o v \o report, p, q)
  BY <1>3, <1>7, PathConcat
<1>9. Path(Repeat(r) \o v \o report \o f, p, Dead)
  BY <1>4, <1>8, PathConcat
<1> QED
  BY <1>5, <1>9 DEF p

\* report_hw_update(): the descriptor the hardware has updated.
LEMMA VerdictPath ==
  ASSUME NEW h \in {"hw", "sw"}, NEW t \in Ts, NEW desc, desc.af, ~desc.ro
  PROVE  Path(verdict(desc), Pt("written", h, t), Pt("written", h, t))
<1> DEFINE p == Pt("written", h, t)
<1>1. Path(uart_puts("descriptor"), p, p) /\ Path(uart_puts("updated"), p, p)
  BY UartPath DEF FalseReports, Ms
<1>2. verdict(desc) = uart_puts("descriptor") \o uart_puts("updated")
  BY DEF verdict
<1> QED
  BY <1>1, <1>2, PathConcat

LEMMA WalkWithPath ==
  ASSUME NEW h \in {"hw", "sw"}, NEW timed \in BOOLEAN
  PROVE  Path(walk_with(timed, h = "hw"), Pt("off", h, "none"), Dead)
<1> DEFINE p == Pt("off", h, "none")
           q == Pt("on", h, "none")
           t == IF timed THEN "on" ELSE "none"
           r == Pt("on", h, t)
           o == IF timed THEN timer_irqs_on ELSE <<>>
           a == uart_puts("tlbi kind")
           f == walk_forever(TRUE, h = "hw")
<1>1. "none" \in Ts /\ t \in Ts /\ "on" \in Ms
  BY DEF Ts, Ms
<1>2. Path(mmu_on(h = "hw"), p, q)
  BY MmuPath
<1>3. Path(o, q, r)
  <2>1. CASE timed
    BY <1>1, <2>1, TimerPath
  <2>2. CASE ~timed
    BY <1>1, <2>2, PtIs, PathNone
  <2> QED
    BY <2>1, <2>2
<1>4. Path(a, r, r)
  BY <1>1, UartPath DEF FalseReports
<1>5. Path(f, r, Dead)
  BY <1>1, LoopHeads
<1>6. walk_with(timed, h = "hw") = mmu_on(h = "hw") \o o \o a \o f
  BY DEF walk_with
<1> HIDE DEF p, q, r, o, a, f, t
<1>7. Path(mmu_on(h = "hw") \o o, p, r)
  BY <1>2, <1>3, PathConcat
<1>8. Path(mmu_on(h = "hw") \o o \o a, p, r)
  BY <1>4, <1>7, PathConcat
<1>9. Path(mmu_on(h = "hw") \o o \o a \o f, p, Dead)
  BY <1>5, <1>8, PathConcat
<1> QED
  BY <1>6, <1>9 DEF p

\* lab_run(): a known mode does not return.
LEMMA LabPath ==
  ASSUME NEW mode \in Nat
  PROVE  \E h \in {"hw", "sw"} : \E q \in {Dead, Pt("off", h, "none")} :
           Path(lab_run(mode), Pt("off", h, "none"), q)
<1> DEFINE p(h) == Pt("off", h, "none")
           body == CASE mode = 1        -> tlbi_forever
                     [] mode = 2        -> timer_irqs_on \o tlbi_forever
                     [] mode = 3        -> walk_with(FALSE, TRUE)
                     [] mode \in {4, 6} -> walk_with(TRUE, TRUE)
                     [] mode \in {5, 7} -> walk_with(TRUE, FALSE)
                     [] OTHER           -> uart_puts("unknown mode")
<1>1. lab_run(mode) = uart_puts("mode") \o body
  BY DEF lab_run
<1>2. "off" \in Ms /\ "none" \in Ts /\ "on" \in Ts
  BY DEF Ms, Ts
<1>3. \A h \in {"hw", "sw"} : /\ Path(uart_puts("mode"), p(h), p(h))
                              /\ Path(uart_puts("unknown mode"), p(h), p(h))
  BY <1>2, UartPath DEF FalseReports
<1>4. Path(tlbi_forever, p("hw"), Dead)
  BY <1>2, LoopHeads
<1>5. Path(timer_irqs_on \o tlbi_forever, p("hw"), Dead)
  <2>1. Path(timer_irqs_on, p("hw"), Pt("off", "hw", "on"))
    BY <1>2, TimerPath
  <2>2. Path(tlbi_forever, Pt("off", "hw", "on"), Dead)
    BY <1>2, LoopHeads
  <2> QED
    BY <2>1, <2>2, PathConcat
<1>6. ASSUME NEW timed \in BOOLEAN
      PROVE  /\ Path(walk_with(timed, TRUE), p("hw"), Dead)
             /\ Path(walk_with(timed, FALSE), p("sw"), Dead)
  <2>1. ("hw" = "hw") = TRUE /\ ("sw" = "hw") = FALSE
    OBVIOUS
  <2>2. /\ Path(walk_with(timed, "hw" = "hw"), p("hw"), Dead)
        /\ Path(walk_with(timed, "sw" = "hw"), p("sw"), Dead)
    BY WalkWithPath
  <2> QED
    BY <2>1, <2>2, Zenon
<1>7. \E h \in {"hw", "sw"} : \E q \in {Dead, p(h)} : Path(body, p(h), q)
  <2>1. Path(body, p("hw"), Dead) \/ Path(body, p("sw"), Dead)
          \/ Path(body, p("hw"), p("hw"))
    <3> HIDE DEF p
    <3>1. TRUE \in BOOLEAN /\ FALSE \in BOOLEAN /\ "hw" \in {"hw", "sw"}
      OBVIOUS
    <3>2. CASE mode = 1
      <4>1. body = tlbi_forever
        BY <3>2
      <4> HIDE DEF body
      <4> QED
        BY <4>1, <1>4
    <3>3. CASE mode = 2
      <4>1. body = timer_irqs_on \o tlbi_forever
        BY <3>3
      <4> HIDE DEF body
      <4> QED
        BY <4>1, <1>5
    <3>4. CASE mode = 3
      <4>1. body = walk_with(FALSE, TRUE)
        BY <3>4
      <4> HIDE DEF body
      <4> QED
        BY <4>1, <1>6, <3>1
    <3>5. CASE mode \in {4, 6}
      <4>1. mode # 1 /\ mode # 2 /\ mode # 3 /\ mode \notin {5, 7}
        BY <3>5
      <4>2. body = walk_with(TRUE, TRUE)
        BY <3>5, <4>1
      <4> HIDE DEF body
      <4> QED
        BY <4>2, <1>6, <3>1
    <3>6. CASE mode \in {5, 7}
      <4>1. body = walk_with(TRUE, FALSE)
        BY <3>6
      <4> HIDE DEF body
      <4> QED
        BY <4>1, <1>6, <3>1
    <3>7. CASE mode \notin 1 .. 7
      <4>1. mode # 1 /\ mode # 2 /\ mode # 3 /\ mode \notin {4, 6} /\ mode \notin {5, 7}
        BY <3>7
      <4>2. body = uart_puts("unknown mode")
        BY <4>1
      <4> HIDE DEF body
      <4> QED
        BY <4>2, <1>3, <3>1
    <3> HIDE DEF body
    <3>8. mode = 1 \/ mode = 2 \/ mode = 3 \/ mode \in {4, 6} \/ mode \in {5, 7}
            \/ mode \notin 1 .. 7
      OBVIOUS
    <3> QED
      BY <3>2, <3>3, <3>4, <3>5, <3>6, <3>7, <3>8
  <2> QED
    BY <2>1
<1> HIDE DEF p, body
<1>8. PICK h \in {"hw", "sw"} : \E q \in {Dead, p(h)} : Path(body, p(h), q)
  BY <1>7
<1>9. PICK q \in {Dead, p(h)} : Path(body, p(h), q)
  BY <1>8
<1>10. Path(lab_run(mode), p(h), q)
  BY <1>1, <1>3, <1>9, PathConcat
<1> QED
  BY <1>10 DEF p

\* harness_main(): wherever the program gets to, it does not return.
LEMMA MainPath ==
  ASSUME NEW mode \in Nat
  PROVE  \E h \in {"hw", "sw"} : Path(harness_main(mode), Pt("off", h, "none"), Dead)
<1> DEFINE p(h) == Pt("off", h, "none")
           body == IF mode # 0 THEN lab_run(mode) ELSE <<>>
<1>1. harness_main(mode) = uart_puts("hello") \o body \o regression
  BY DEF harness_main
<1>2. "off" \in Ms /\ "none" \in Ts
  BY DEF Ms, Ts
<1>3. \A h \in {"hw", "sw"} : Path(uart_puts("hello"), p(h), p(h))
  BY <1>2, UartPath DEF FalseReports
<1>4. \E h \in {"hw", "sw"} : \E q \in {Dead, p(h)} : Path(body, p(h), q)
  <2>1. CASE mode # 0
    BY <2>1, LabPath
  <2>2. CASE mode = 0
    <3>1. Path(<<>>, p("hw"), p("hw"))
      BY <1>2, PtIs, PathNone
    <3> QED
      BY <2>2, <3>1
  <2> QED
    BY <2>1, <2>2
<1>5. ASSUME NEW h \in {"hw", "sw"}
      PROVE  Path(regression, p(h), Dead) /\ Path(regression, Dead, Dead)
  <2>1. Path(regression, p(h), Dead)
    BY <1>2, RegressionPath
  <2>2. \E S : regression \in Seq(S)
    BY <2>1 DEF Path
  <2> QED
    BY <2>1, <2>2, DeadPath
<1> HIDE DEF p, body
<1>6. PICK h \in {"hw", "sw"} : \E q \in {Dead, p(h)} : Path(body, p(h), q)
  BY <1>4
<1>7. PICK q \in {Dead, p(h)} : Path(body, p(h), q)
  BY <1>6
<1>8. Path(uart_puts("hello") \o body, p(h), q) /\ Path(regression, q, Dead)
  BY <1>3, <1>5, <1>7, PathConcat
<1>9. Path(harness_main(mode), p(h), Dead)
  BY <1>1, <1>8, PathConcat
<1> QED
  BY <1>9 DEF p
-----------------------------------------------------------------------------
(* One operation of the program *)

\* A vCPU that runs has something to do, and its point allows it.
LEMMA Running ==
  ASSUME HarnessInvariant, alive
  PROVE  /\ todo # <<>>
         /\ \E p \in Points :
              /\ Describes(p) /\ p.m # "dead" /\ Path(todo, p, Dead)
              /\ Allowed(p, Cur) /\ After(p, Cur) \in Points
              /\ Path(Rest, After(p, Cur), Dead)
<1>1. PICK p \in Points : Path(todo, p, Dead) /\ Describes(p)
  BY DEF HarnessInvariant
<1>2. p.m # "dead" /\ p # Dead
  BY <1>1 DEF Describes, Dead
<1>3. todo # <<>>
  BY <1>1, <1>2, PathHead
<1>4. Allowed(p, Cur) /\ After(p, Cur) \in Points /\ Path(Rest, After(p, Cur), Dead)
  BY <1>1, <1>3, PathHead DEF Cur, Rest
<1> QED
  BY <1>1, <1>2, <1>3, <1>4

\* Where an operation leads that does not end the program.
LEMMA Leads ==
  ASSUME NEW p \in Points, NEW o, p.m # "dead", Allowed(p, o),
         o.op \notin {"tlbi_loop", "walk_loop"},
         o.op = "smc" => smc_policy(o.exit.fid) # "UNHANDLED"
  PROVE  LET q == After(p, o) IN
         /\ q.h = p.h
         /\ p.i = "none" => /\ q.m = Tabled(p.m, o.op) /\ q.i = "none"
                            /\ q.t = CASE o.op = "vbar" -> "vectors"
                                       [] o.op = "ctl"  -> "on"
                                       [] OTHER         -> p.t
         /\ p.i # "none" => /\ o.op = p.i /\ q.m = p.m /\ q.t = p.t
                            /\ q.i = Handled1(p.i)
<1> DEFINE t == CASE o.op = "vbar" -> "vectors"
                  [] o.op = "ctl"  -> "on"
                  [] OTHER         -> p.t
<1>1. CASE p.i = "none"
  <2>1. After(p, o) = Pt(Tabled(p.m, o.op), p.h, t)
    BY <1>1 DEF After
  <2> HIDE DEF t
  <2>2. \A m, h : Pt(m, h, t).m = m /\ Pt(m, h, t).h = h /\ Pt(m, h, t).t = t
                  /\ Pt(m, h, t).i = "none"
    BY DEF Pt
  <2> QED
    BY <1>1, <2>1, <2>2 DEF t
<1>2. CASE p.i # "none"
  <2>1. After(p, o) = [p EXCEPT !.i = Handled1(p.i)]
    BY <1>2 DEF After
  <2>2. o.op = p.i
    BY <1>2 DEF Allowed
  <2>3. \A i : LET q == [p EXCEPT !.i = i] IN
               q.m = p.m /\ q.h = p.h /\ q.t = p.t /\ q.i = i
    BY DEF Points
  <2> QED
    BY <1>2, <2>1, <2>2, <2>3
<1> QED
  BY <1>1, <1>2

\* The invariant after a step that leads to point q, and after one that ends
\* the run.
LEMMA Arrives ==
  ASSUME Typed', (printed \cap FalseReports = {})', NEW q \in Points,
         Path(todo', q, Dead), Describes(q)'
  PROVE  HarnessInvariant'
<1>1. TimerCounted'
  BY DEF Describes, TimerIs, TimerCounted
<1> QED
  BY <1>1 DEF HarnessInvariant

LEMMA Halts ==
  ASSUME HarnessInvariant, ~alive', UNCHANGED <<timer, owed, carried>>, Typed',
         (printed \cap FalseReports = {})'
  PROVE  HarnessInvariant'
<1>1. TimerCounted'
  BY DEF HarnessInvariant, TimerCounted
<1> QED
  BY <1>1 DEF HarnessInvariant

\* An exit: the vCPU goes on, or the run ends; a refused SMC ends it.
LEMMA Exits ==
  ASSUME NEW f, NEW next, Exit(f, next), alive
  PROVE  \/ ~alive'
         \/ /\ todo' = next /\ alive'
            /\ IsSmc(f) => smc_policy(f.fid) # "UNHANDLED"
<1>1. PICK o \in handle_fault(0, f) :
        IF o.handled THEN todo' = next /\ UNCHANGED alive ELSE Halt
  BY DEF Exit
<1>2. CASE ~o.handled
  BY <1>1, <1>2 DEF Halt
<1>3. CASE o.handled
  <2>1. todo' = next /\ alive'
    BY <1>1, <1>3
  <2>2. ASSUME IsSmc(f), smc_policy(f.fid) = "UNHANDLED"
        PROVE  FALSE
    <3>1. o \in smc_policy_handle(0, f.fid)
      BY <2>2 DEF handle_fault
    <3>2. \E r : o = NotHandled(r)
      BY <2>2, <3>1 DEF smc_policy_handle
    <3> QED
      BY <1>3, <3>2 DEF NotHandled
  <2> QED
    BY <2>1, <2>2
<1> QED
  BY <1>2, <1>3

\* What a step leaves alone.
LEMMA TablesKept ==
  ASSUME NEW p, NEW q, TablesAre(p), q.m = p.m, q.h = p.h, UNCHANGED mmuVars
  PROVE  TablesAre(q)'
<1>1. UNCHANGED <<mmu, slot, buffer, tlb>>
  BY DEF mmuVars
<1> QED
  BY <1>1 DEF TablesAre

LEMMA VectorsKept ==
  ASSUME NEW p, NEW q, VectorsAre(p), q.t = p.t, q.i = p.i,
         UNCHANGED <<vbar, timer, masked>>
  PROVE  VectorsAre(q)'
  BY DEF VectorsAre

LEMMA TimerKept ==
  ASSUME NEW p, NEW q, ~carried => TimerIs(p), q.i = p.i,
         UNCHANGED <<virq, vppi, timer, owed, carried>>
  PROVE  (~carried => TimerIs(q))'
  BY DEF TimerIs

LEMMA DescribesKept ==
  ASSUME NEW p, NEW q, Describes(p), q.m = p.m, q.h = p.h, q.t = p.t, q.i = p.i,
         UNCHANGED <<mmuVars, vbar, timer, masked, virq, vppi, owed, carried>>
  PROVE  Describes(q)'
<1>1. UNCHANGED mmuVars
  OBVIOUS
<1>2. TablesAre(q)'
  BY <1>1, TablesKept DEF Describes
<1>3. VectorsAre(q)'
  BY VectorsKept DEF Describes
<1>4. (~carried => TimerIs(q))'
  BY TimerKept DEF Describes
<1> QED
  BY <1>2, <1>3, <1>4 DEF Describes

LEMMA TypedKept ==
  ASSUME Typed, UNCHANGED <<mmuVars, timer>>
  PROVE  Typed'
  BY DEF Typed, mmuVars
-----------------------------------------------------------------------------
(* The invariant, action by action *)

LEMMA StartStep ==
  ASSUME NEW mode \in Nat, HarnessInvariant, Start(mode)
  PROVE  HarnessInvariant'
<1>1. PICK h \in {"hw", "sw"} : Path(harness_main(mode), Pt("off", h, "none"), Dead)
  BY MainPath
<1>2. PICK q \in Points : q = Pt("off", h, "none")
  BY PtIs DEF Ms, Ts
<1>3. q.m = "off" /\ q.h = h /\ q.t = "none" /\ q.i = "none"
  BY <1>2 DEF Pt
<1>4. Path(todo', q, Dead)
  BY <1>1, <1>2 DEF Start
<1>5. Typed' /\ (printed \cap FalseReports = {})'
  BY DEF Start, Typed, HarnessInvariant, Desc, Descs, TimerOff
<1>6. TablesAre(q)'
  BY <1>3 DEF Start, TablesAre
<1>7. VectorsAre(q)'
  BY <1>3 DEF Start, VectorsAre, TimerOff
<1>8. (~carried => TimerIs(q))'
  BY <1>3 DEF Start, TimerIs, TimerOff
<1>9. Describes(q)'
  BY <1>3, <1>6, <1>7, <1>8 DEF Describes
<1> QED
  BY <1>4, <1>5, <1>9, Arrives

LEMMA StopStep ==
  ASSUME HarnessInvariant, Stop
  PROVE  HarnessInvariant'
<1>1. Typed' /\ (printed \cap FalseReports = {})'
  BY TypedKept DEF Stop, irqVars, HarnessInvariant
<1> QED
  BY <1>1, Halts DEF Stop, Halt, irqVars

LEMMA UartStep ==
  ASSUME HarnessInvariant, Uart
  PROVE  HarnessInvariant'
<1>1. alive /\ Cur.op = "uart"
  BY DEF Uart, At, Cur
<1>2. PICK p \in Points :
        /\ Describes(p) /\ p.m # "dead" /\ Allowed(p, Cur)
        /\ After(p, Cur) \in Points /\ Path(Rest, After(p, Cur), Dead)
  BY <1>1, Running
<1>3. p.i = "none" /\ Cur.exit.data \notin FalseReports
  BY <1>1, <1>2 DEF Allowed, Points
<1>4. PICK q \in Points : q = After(p, Cur)
  BY <1>2
<1>5. q.m = p.m /\ q.h = p.h /\ q.t = p.t /\ q.i = p.i
  BY <1>1, <1>2, <1>3, <1>4, Leads DEF Tabled
<1>6. UNCHANGED <<mmuVars, vbar, timer, masked, virq, vppi, owed, carried>>
  BY DEF Uart, irqVars
<1>7. Typed' /\ (printed \cap FalseReports = {})'
  BY <1>3, <1>6, TypedKept DEF Uart, HarnessInvariant
<1>8. Describes(q)'
  BY <1>2, <1>5, <1>6, DescribesKept
<1>9. CASE ~alive'
  BY <1>6, <1>7, <1>9, Halts
<1>10. CASE todo' = Rest
  BY <1>2, <1>4, <1>7, <1>8, <1>10, Arrives
<1> QED
  BY <1>1, <1>9, <1>10, Exits DEF Uart

LEMMA SmcOrMmioStep ==
  ASSUME HarnessInvariant, SmcOrMmio
  PROVE  HarnessInvariant'
<1>1. alive /\ Cur.op \in {"smc", "mmio"}
  BY DEF SmcOrMmio, At, Cur
<1>2. PICK p \in Points :
        /\ Describes(p) /\ p.m # "dead" /\ Allowed(p, Cur)
        /\ After(p, Cur) \in Points /\ Path(Rest, After(p, Cur), Dead)
  BY <1>1, Running
<1>3. p.i = "none" /\ (Cur.op = "smc" => IsSmc(Cur.exit))
  BY <1>1, <1>2 DEF Allowed, Points
<1>4. PICK q \in Points : q = After(p, Cur)
  BY <1>2
<1>5. UNCHANGED <<mmuVars, vbar, timer, masked, virq, vppi, owed, carried>>
  BY DEF SmcOrMmio
<1>6. Typed' /\ (printed \cap FalseReports = {})'
  BY <1>5, TypedKept DEF SmcOrMmio, HarnessInvariant
<1>7. CASE ~alive'
  BY <1>5, <1>6, <1>7, Halts
<1>8. ASSUME todo' = Rest, IsSmc(Cur.exit) => smc_policy(Cur.exit.fid) # "UNHANDLED"
      PROVE  HarnessInvariant'
  <2>1. q.m = p.m /\ q.h = p.h /\ q.t = p.t /\ q.i = p.i
    BY <1>1, <1>2, <1>3, <1>4, <1>8, Leads DEF Tabled
  <2>2. Describes(q)'
    BY <1>2, <1>5, <2>1, DescribesKept
  <2> QED
    BY <1>2, <1>4, <1>6, <1>8, <2>2, Arrives
<1> QED
  BY <1>1, <1>7, <1>8, Exits DEF SmcOrMmio

LEMMA SystemRegisterStep ==
  ASSUME HarnessInvariant, SystemRegister
  PROVE  HarnessInvariant'
<1>1. /\ alive /\ todo' = Rest
      /\ Cur.op \in {"vbar", "daifclr", "eret", "sctlr", "cpu_interface"}
  BY DEF SystemRegister, Does, At, Cur
<1>2. PICK p \in Points :
        /\ Describes(p) /\ p.m # "dead" /\ Allowed(p, Cur)
        /\ After(p, Cur) \in Points /\ Path(Rest, After(p, Cur), Dead)
  BY <1>1, Running
<1>3. PICK q \in Points : q = After(p, Cur)
  BY <1>2
<1>4. /\ UNCHANGED <<printed, slot, buffer, tlb, timer, virq, vppi, owed, carried>>
      /\ Cur.op = "vbar" => vbar' = TRUE /\ UNCHANGED <<masked, mmu>>
      /\ Cur.op \in {"daifclr", "eret"} => masked' = FALSE /\ UNCHANGED <<vbar, mmu>>
      /\ Cur.op = "sctlr" => mmu' = Cur.mmu /\ UNCHANGED <<masked, vbar>>
      /\ Cur.op = "cpu_interface" => UNCHANGED <<masked, vbar, mmu>>
  BY DEF SystemRegister, Does, At, Cur
<1>5. /\ q.h = p.h
      /\ p.i = "none" => /\ q.m = Tabled(p.m, Cur.op) /\ q.i = "none"
                         /\ q.t = IF Cur.op = "vbar" THEN "vectors" ELSE p.t
      /\ p.i # "none" => /\ Cur.op = p.i /\ q.m = p.m /\ q.t = p.t
                         /\ q.i = Handled1(p.i)
  BY <1>1, <1>2, <1>3, Leads
<1>6. Typed' /\ (printed \cap FalseReports = {})'
  BY <1>4 DEF Typed, HarnessInvariant
<1>7. /\ Cur.op = "eret" <=> p.i # "none"
      /\ Cur.op = "vbar" => p.t = "none"
      /\ Cur.op = "daifclr" => p.t = "on"
      /\ Cur.op = "sctlr" => p.m = "flushed" /\ Cur.mmu = p.h
  BY <1>1, <1>2 DEF Allowed, Points
<1>8. TablesAre(q)'
  <2>1. CASE Cur.op = "sctlr"
    <3>1. p.i = "none" /\ q.m = "on"
      BY <1>5, <1>7, <2>1 DEF Tabled
    <3>2. p.m = "flushed" /\ mmu' = p.h /\ q.h = p.h
      BY <1>4, <1>5, <1>7, <2>1
    <3>3. buffer = <<>> /\ slot = test_desc(p.h = "hw") /\ tlb = {}
      BY <1>2, <3>2 DEF Describes, TablesAre
    <3>4. p.h = "sw" => slot = Desc(TRUE, FALSE)
      BY <3>3 DEF test_desc, Desc
    <3>5. UNCHANGED <<slot, buffer, tlb>>
      BY <1>4
    <3> QED
      BY <3>1, <3>2, <3>3, <3>4, <3>5 DEF TablesAre
  <2>2. CASE Cur.op # "sctlr"
    <3>1. q.m = p.m
      BY <1>1, <1>5, <2>2 DEF Tabled
    <3>2. UNCHANGED mmuVars
      BY <1>1, <1>4, <2>2 DEF mmuVars
    <3> QED
      BY <1>2, <1>5, <3>1, <3>2, TablesKept DEF Describes
  <2> QED
    BY <2>1, <2>2
<1>9. VectorsAre(q)'
  <2>1. VectorsAre(p)
    BY <1>2 DEF Describes
  <2>2. p.i # "none" => q.i = "none"
    BY <1>5, <1>7 DEF Handled1
  <2> QED
    BY <1>1, <1>4, <1>5, <1>7, <2>1, <2>2 DEF VectorsAre
<1>10. (~carried => TimerIs(q))'
  <2>1. ~carried => TimerIs(p)
    BY <1>2 DEF Describes
  <2>2. \/ q.i = p.i
        \/ p.i = "eret" /\ q.i = "none"
    BY <1>5, <1>7 DEF Handled1
  <2> QED
    BY <1>4, <2>1, <2>2 DEF TimerIs
<1>11. q.m # "dead"
  BY <1>2, <1>5 DEF Tabled
<1>12. Describes(q)'
  BY <1>8, <1>9, <1>10, <1>11 DEF Describes
<1> QED
  BY <1>1, <1>2, <1>3, <1>6, <1>12, Arrives

LEMMA TimerStep ==
  ASSUME HarnessInvariant, Timer
  PROVE  HarnessInvariant'
<1>1. alive /\ todo' = Rest /\ Cur.op \in {"tval", "ctl", "count"}
  BY DEF Timer, Does, At, Cur
<1>2. PICK p \in Points :
        /\ Describes(p) /\ p.m # "dead" /\ Allowed(p, Cur)
        /\ After(p, Cur) \in Points /\ Path(Rest, After(p, Cur), Dead)
  BY <1>1, Running
<1>3. PICK q \in Points : q = After(p, Cur)
  BY <1>2
<1>4. timer \in [on : BOOLEAN, expired : BOOLEAN]
  BY DEF HarnessInvariant, Typed
<1>5. /\ UNCHANGED <<masked, vbar, printed, mmuVars, virq, vppi, carried>>
      /\ Cur.op = "tval" => /\ timer'.expired = FALSE /\ timer'.on = timer.on
                            /\ UNCHANGED owed
      /\ Cur.op = "ctl" => /\ timer'.on = TRUE /\ timer'.expired = timer.expired
                           /\ UNCHANGED owed
      /\ Cur.op = "count" => owed' = owed - 1 /\ UNCHANGED timer
      /\ timer' \in [on : BOOLEAN, expired : BOOLEAN]
  BY <1>4 DEF Timer, Does, At, Cur
<1>6. /\ q.h = p.h /\ q.m = p.m
      /\ p.i = "none" => q.i = "none" /\ q.t = IF Cur.op = "ctl" THEN "on" ELSE p.t
      /\ p.i # "none" => Cur.op = p.i /\ q.t = p.t /\ q.i = Handled1(p.i)
  BY <1>1, <1>2, <1>3, Leads DEF Tabled
<1>7. Typed' /\ (printed \cap FalseReports = {})'
  BY <1>5 DEF Typed, HarnessInvariant, mmuVars
<1>8. \/ p.i = "none" /\ Cur.op = "tval" /\ p.t = "vectors" /\ q.i = "none" /\ q.t = p.t
      \/ p.i = "none" /\ Cur.op = "ctl" /\ p.t = "vectors" /\ q.i = "none" /\ q.t = "on"
      \/ p.i = "tval" /\ Cur.op = "tval" /\ q.i = "eoi" /\ q.t = p.t
      \/ p.i = "count" /\ Cur.op = "count" /\ q.i = "tval" /\ q.t = p.t
  BY <1>1, <1>2, <1>6 DEF Allowed, Points, Handled1
<1>9. TablesAre(q)'
  BY <1>2, <1>5, <1>6, TablesKept DEF Describes
<1>10. VectorsAre(p) /\ (~carried => TimerIs(p))
  BY <1>2 DEF Describes
<1>11. VectorsAre(q)'
  BY <1>4, <1>5, <1>8, <1>10 DEF VectorsAre
<1>12. (~carried => TimerIs(q))'
  <2>1. p.t = "vectors" => ~timer.expired
    BY <1>10 DEF VectorsAre
  <2>2. CASE p.i = "none"
    <3>1. ~timer.expired /\ ~timer'.expired /\ q.i = "none" /\ UNCHANGED owed
      BY <1>5, <1>8, <2>1, <2>2
    <3> QED
      BY <1>5, <1>10, <2>2, <3>1 DEF TimerIs
  <2>3. CASE p.i = "tval"
    <3>1. ~timer'.expired /\ q.i = "eoi" /\ UNCHANGED owed
      BY <1>5, <1>8, <2>3
    <3> QED
      BY <1>5, <1>10, <2>3, <3>1 DEF TimerIs
  <2>4. CASE p.i = "count"
    <3>1. q.i = "tval" /\ owed' = owed - 1 /\ UNCHANGED timer
      BY <1>5, <1>8, <2>4
    <3> QED
      BY <1>5, <1>10, <2>4, <3>1 DEF TimerIs
  <2> QED
    BY <1>8, <2>2, <2>3, <2>4
<1>13. Describes(q)'
  BY <1>2, <1>6, <1>9, <1>11, <1>12 DEF Describes
<1> QED
  BY <1>1, <1>2, <1>3, <1>7, <1>13, Arrives

\* The interrupt handler: the operations of lab_irq() from where they stand.
LEMMA HandlerPath ==
  ASSUME NEW p \in Points, p.m # "dead",
         NEW i \in {"iar", "count", "tval", "eoi", "eret"}
  PROVE  /\ [p EXCEPT !.i = i] \in Points
         /\ Path(Op(i), [p EXCEPT !.i = i], [p EXCEPT !.i = Handled1(i)])
<1> DEFINE q == [p EXCEPT !.i = i]
           r == [p EXCEPT !.i = Handled1(i)]
           o == [op |-> i]
<1>1. q \in Points /\ q.m = p.m /\ q.i = i /\ [q EXCEPT !.i = Handled1(i)] = r
  BY DEF Points
<1>2. o.op = i /\ Op(i) = <<o>> /\ i \notin {"none", "smc", "tlbi_loop", "walk_loop"}
  BY DEF Op
<1> HIDE DEF q, r, o
<1>3. Allowed(q, o)
  BY <1>1, <1>2 DEF Allowed
<1>4. After(q, o) = r
  BY <1>1, <1>2 DEF After
<1>5. Path(<<o>>, q, r)
  BY <1>1, <1>3, <1>4, PathOne
<1> QED
  BY <1>1, <1>2, <1>5 DEF q, r

LEMMA IarStep ==
  ASSUME HarnessInvariant, Iar
  PROVE  HarnessInvariant'
<1>1. alive /\ Cur.op = "iar"
  BY DEF Iar, At, Cur
<1>2. PICK p \in Points :
        /\ Describes(p) /\ p.m # "dead" /\ Allowed(p, Cur)
        /\ After(p, Cur) \in Points /\ Path(Rest, After(p, Cur), Dead)
  BY <1>1, Running
<1>3. p.i = "iar"
  BY <1>1, <1>2 DEF Allowed, Points
<1> DEFINE r == [p EXCEPT !.i = "eret"]
           c == [p EXCEPT !.i = "count"]
<1>4. After(p, Cur) = r
  BY <1>1, <1>2, <1>3 DEF After, Handled1
<1>5. /\ r \in Points /\ r.m = p.m /\ r.h = p.h /\ r.t = p.t /\ r.i = "eret"
      /\ c \in Points /\ c.m = p.m /\ c.h = p.h /\ c.t = p.t /\ c.i = "count"
  BY DEF Points
<1>6. /\ UNCHANGED <<masked, vbar, printed, mmuVars, timer, vppi, owed, carried>>
      /\ todo' = lab_irq(virq # "pending") \o Rest
      /\ virq' = IF virq = "pending" THEN "active" ELSE virq
  BY DEF Iar
<1>7. Typed' /\ (printed \cap FalseReports = {})'
  BY <1>6, TypedKept DEF HarnessInvariant
<1>8. Path(lab_irq(FALSE), c, r)
  <2> DEFINE t == [p EXCEPT !.i = "tval"]
             e == [p EXCEPT !.i = "eoi"]
  <2>1. Handled1("count") = "tval" /\ Handled1("tval") = "eoi" /\ Handled1("eoi") = "eret"
    BY DEF Handled1
  <2>2. Path(Op("count"), c, t) /\ Path(Op("tval"), t, e) /\ Path(Op("eoi"), e, r)
    BY <1>2, <2>1, HandlerPath
  <2> HIDE DEF c, t, e, r
  <2>3. Path(Op("count") \o Op("tval"), c, e)
    BY <2>2, PathConcat
  <2>4. Path(Op("count") \o Op("tval") \o Op("eoi"), c, r)
    BY <2>2, <2>3, PathConcat
  <2> QED
    BY <2>4 DEF lab_irq
<1>9. Path(lab_irq(TRUE), r, r)
  BY <1>5, PathNone DEF lab_irq
<1>10. VectorsAre(p) /\ TablesAre(p) /\ (~carried => TimerIs(p))
  BY <1>2 DEF Describes
<1> HIDE DEF r, c
<1>11. CASE virq = "pending"
  <2>1. (virq # "pending") = FALSE
    BY <1>11
  <2>2. todo' = lab_irq(FALSE) \o Rest
    BY <1>6, <2>1, Zenon
  <2>3. Path(todo', c, Dead)
    BY <1>2, <1>4, <1>8, <2>2, PathConcat
  <2>4. TablesAre(c)'
    BY <1>5, <1>6, <1>10, TablesKept
  <2>5. VectorsAre(c)'
    BY <1>3, <1>5, <1>6, <1>10 DEF VectorsAre
  <2>6. (~carried => TimerIs(c))'
    BY <1>3, <1>5, <1>6, <1>10, <1>11 DEF TimerIs
  <2>7. Describes(c)'
    BY <1>2, <1>5, <2>4, <2>5, <2>6 DEF Describes
  <2> QED
    BY <1>5, <1>7, <2>3, <2>7, Arrives
<1>12. CASE virq # "pending"
  <2>1. (virq # "pending") = TRUE
    BY <1>12
  <2>2. todo' = lab_irq(TRUE) \o Rest
    BY <1>6, <2>1, Zenon
  <2>3. Path(todo', r, Dead)
    BY <1>2, <1>4, <1>9, <2>2, PathConcat
  <2>4. TablesAre(r)'
    BY <1>5, <1>6, <1>10, TablesKept
  <2>5. VectorsAre(r)'
    BY <1>3, <1>5, <1>6, <1>10 DEF VectorsAre
  <2>6. (~carried => TimerIs(r))'
    BY <1>3, <1>5, <1>6, <1>10, <1>12 DEF TimerIs
  <2>7. Describes(r)'
    BY <1>2, <1>5, <2>4, <2>5, <2>6 DEF Describes
  <2> QED
    BY <1>5, <1>7, <2>3, <2>7, Arrives
<1> QED
  BY <1>11, <1>12

LEMMA EoiStep ==
  ASSUME HarnessInvariant, Eoi
  PROVE  HarnessInvariant'
<1>1. alive /\ todo' = Rest /\ Cur.op = "eoi"
  BY DEF Eoi, Does, At, Cur
<1>2. PICK p \in Points :
        /\ Describes(p) /\ p.m # "dead" /\ Allowed(p, Cur)
        /\ After(p, Cur) \in Points /\ Path(Rest, After(p, Cur), Dead)
  BY <1>1, Running
<1>3. p.i = "eoi"
  BY <1>1, <1>2 DEF Allowed, Points
<1>4. PICK q \in Points : q = After(p, Cur)
  BY <1>2
<1>5. q.m = p.m /\ q.h = p.h /\ q.t = p.t /\ q.i = "eret"
  BY <1>1, <1>2, <1>3, <1>4, Leads DEF Handled1
<1>6. /\ UNCHANGED <<masked, vbar, printed, mmuVars, timer, vppi, owed, carried>>
      /\ virq' = "ended"
  BY DEF Eoi
<1>7. Typed' /\ (printed \cap FalseReports = {})'
  BY <1>6, TypedKept DEF HarnessInvariant
<1>8. VectorsAre(p) /\ TablesAre(p) /\ (~carried => TimerIs(p))
  BY <1>2 DEF Describes
<1>9. TablesAre(q)'
  BY <1>5, <1>6, <1>8, TablesKept
<1>10. VectorsAre(q)'
  BY <1>3, <1>5, <1>6, <1>8 DEF VectorsAre
<1>11. (~carried => TimerIs(q))'
  BY <1>3, <1>5, <1>6, <1>8 DEF TimerIs
<1>12. Describes(q)'
  BY <1>2, <1>5, <1>9, <1>10, <1>11 DEF Describes
<1> QED
  BY <1>1, <1>2, <1>4, <1>7, <1>12, Arrives

\* The page table's operations.
LEMMA TablesStep ==
  ASSUME HarnessInvariant, Tables
  PROVE  HarnessInvariant'
<1>1. alive /\ todo' = Rest /\ Cur.op \in {"slot", "dsb", "tlbi"}
  BY DEF Tables, Does, At, Cur
<1>2. PICK p \in Points :
        /\ Describes(p) /\ p.m # "dead" /\ Allowed(p, Cur)
        /\ After(p, Cur) \in Points /\ Path(Rest, After(p, Cur), Dead)
  BY <1>1, Running
<1>3. /\ p.i = "none"
      /\ Cur.op = "slot" => /\ p.m \in {"off", "on", "written"}
                            /\ Cur.desc = test_desc(p.h = "hw")
      /\ Cur.op = "dsb" => p.m \in {"set", "slotted"}
      /\ Cur.op = "tlbi" => p.m \in {"off", "visible", "synced"}
  BY <1>1, <1>2 DEF Allowed, Points
<1>4. PICK q \in Points : q = After(p, Cur)
  BY <1>2
<1>5. q.m = Tabled(p.m, Cur.op) /\ q.h = p.h /\ q.t = p.t /\ q.i = p.i
  BY <1>1, <1>2, <1>3, <1>4, Leads
<1>6. /\ UNCHANGED <<masked, vbar, printed, mmu, timer, virq, vppi, owed, carried>>
      /\ Cur.op = "slot" => buffer' = <<Cur.desc>> /\ UNCHANGED <<slot, tlb>>
      /\ Cur.op = "dsb" => /\ buffer' = <<>> /\ UNCHANGED tlb
                           /\ slot' = IF buffer = <<>> THEN slot ELSE buffer[1]
      /\ Cur.op = "tlbi" => tlb' = {} /\ UNCHANGED <<slot, buffer>>
  BY DEF Tables, Does, At, Cur, irqVars
<1>7. Typed
  BY DEF HarnessInvariant
<1>8. /\ test_desc(p.h = "hw") \in Descs
      /\ p.h = "sw" => test_desc(p.h = "hw") = Desc(TRUE, FALSE)
      /\ Desc(TRUE, FALSE) \in Descs
  BY DEF test_desc, Desc, Descs
<1>9. PICK w : w = test_desc(p.h = "hw")
  OBVIOUS
<1>10. buffer = <<>> \/ \E d \in Descs : buffer = <<d>> /\ buffer[1] = d
  BY <1>7 DEF Typed
<1>11. Typed' /\ (printed \cap FalseReports = {})'
  <2>1. (printed \cap FalseReports = {})'
    BY <1>6 DEF HarnessInvariant
  <2>2. Cur.op = "slot" => Cur.desc \in Descs
    BY <1>3, <1>8, <1>9, Zenon
  <2> QED
    BY <1>1, <1>6, <1>7, <1>10, <2>1, <2>2 DEF Typed
<1>12. TablesAre(p)
  BY <1>2 DEF Describes
<1>13. TablesAre(q)'
  <2>1. p.h \in {"hw", "sw"}
    BY DEF Points
  <2>2. CASE Cur.op = "slot"
    <3>1. Cur.desc = test_desc(q.h = "hw")
      BY <1>3, <1>5, <2>2, Zenon
    <3>2. q.m = IF p.m = "off" THEN "set" ELSE "slotted"
      BY <1>5, <2>2 DEF Tabled
    <3>3. buffer' = <<test_desc(q.h = "hw")>> /\ UNCHANGED <<slot, tlb, mmu>>
      BY <1>6, <2>2, <3>1, Zenon
    <3>4. mmu = "sw" => /\ test_desc(q.h = "hw") = Desc(TRUE, FALSE)
                        /\ slot = Desc(TRUE, FALSE) /\ tlb \subseteq {FALSE}
      <4>1. mmu = "sw" => p.h = "sw"
        BY <1>3, <1>12, <2>2 DEF TablesAre
      <4>2. mmu = "sw" => slot = Desc(TRUE, FALSE) /\ tlb \subseteq {FALSE}
        BY <1>12 DEF TablesAre
      <4> QED
        BY <1>5, <1>8, <4>1, <4>2, Zenon
    <3>5. p.m = "off" => mmu = "off"
      BY <1>12 DEF TablesAre
    <3>6. p.m # "off" => mmu = p.h
      BY <1>3, <1>12, <2>2 DEF TablesAre
    <3>7. q.m = "set" => mmu' = "off"
      BY <3>2, <3>3, <3>5
    <3>8. q.m = "slotted" => mmu' = q.h
      BY <1>5, <3>2, <3>3, <3>6
    <3>9. mmu' = "sw" => /\ slot' = Desc(TRUE, FALSE) /\ tlb' \subseteq {FALSE}
                         /\ buffer' = <<Desc(TRUE, FALSE)>>
      BY <3>3, <3>4
    <3>10. q.m \in {"set", "slotted"}
      BY <3>2
    <3> QED
      BY <3>3, <3>7, <3>8, <3>9, <3>10 DEF TablesAre
  <2>3. CASE Cur.op = "dsb"
    <3>1. q.m = IF p.m = "set" THEN "visible" ELSE "synced"
      BY <1>5, <2>3 DEF Tabled
    <3>2. /\ buffer' = <<>> /\ UNCHANGED <<tlb, mmu>>
          /\ slot' = IF buffer = <<>> THEN slot ELSE buffer[1]
      BY <1>6, <2>3
    <3>3. mmu' = "sw" => slot' = Desc(TRUE, FALSE) /\ tlb' \subseteq {FALSE}
      <4>1. PICK d : d = Desc(TRUE, FALSE)
        OBVIOUS
      <4>2. mmu = "sw" => /\ slot = d /\ tlb \subseteq {FALSE}
                          /\ buffer = <<>> \/ buffer = <<d>>
        BY <1>12, <4>1 DEF TablesAre
      <4>3. mmu = "sw" => slot' = d
        BY <3>2, <4>2
      <4> QED
        BY <3>2, <4>1, <4>2, <4>3
    <3>4. p.m = "set" => mmu' = "off" /\ slot' = test_desc(q.h = "hw")
      <4>1. p.m = "set" => \/ buffer = <<test_desc(p.h = "hw")>>
                           \/ buffer = <<>> /\ slot = test_desc(p.h = "hw")
        BY <1>12 DEF TablesAre
      <4>2. p.m = "set" => mmu = "off"
        BY <1>12 DEF TablesAre
      <4>3. p.m = "set" => slot' = test_desc(p.h = "hw")
        BY <3>2, <4>1
      <4> QED
        BY <1>5, <3>2, <4>2, <4>3
    <3>5. p.m = "slotted" => mmu' = q.h
      BY <1>5, <1>12, <3>2 DEF TablesAre
    <3> QED
      BY <1>3, <2>3, <3>1, <3>2, <3>3, <3>4, <3>5 DEF TablesAre
  <2>4. CASE Cur.op = "tlbi"
    <3>1. q.m = CASE p.m = "off"     -> "off"
                  [] p.m = "visible" -> "flushed"
                  [] OTHER           -> "clean"
      BY <1>5, <2>4 DEF Tabled
    <3>2. tlb' = {} /\ UNCHANGED <<mmu, slot, buffer>>
      BY <1>6, <2>4
    <3> QED
      BY <1>3, <1>5, <1>12, <2>4, <3>1, <3>2 DEF TablesAre
  <2> QED
    BY <1>1, <2>2, <2>3, <2>4
<1>14. VectorsAre(q)'
  BY <1>2, <1>5, <1>6, VectorsKept DEF Describes
<1>15. (~carried => TimerIs(q))'
  BY <1>2, <1>5, <1>6, TimerKept DEF Describes
<1>16. q.m # "dead"
  BY <1>2, <1>5 DEF Tabled
<1>17. Describes(q)'
  BY <1>13, <1>14, <1>15, <1>16 DEF Describes
<1> QED
  BY <1>1, <1>2, <1>4, <1>11, <1>17, Arrives

\* An access to the test page: never an exception.
LEMMA LoadStep ==
  ASSUME HarnessInvariant, Load
  PROVE  HarnessInvariant'
<1>1. alive /\ Cur.op = "load"
  BY DEF Load, At, Cur
<1>2. PICK p \in Points :
        /\ Describes(p) /\ p.m # "dead" /\ Allowed(p, Cur)
        /\ After(p, Cur) \in Points /\ Path(Rest, After(p, Cur), Dead)
  BY <1>1, Running
<1>3. p.i = "none" /\ p.m = "clean"
  BY <1>1, <1>2 DEF Allowed, Points
<1>4. PICK q \in Points : q = After(p, Cur)
  BY <1>2
<1>5. q.m = p.m /\ q.h = p.h /\ q.t = p.t /\ q.i = p.i
  BY <1>1, <1>2, <1>3, <1>4, Leads DEF Tabled
<1>6. tlb # {}
  <2>1. mmu = "sw" => slot = Desc(TRUE, FALSE)
    BY <1>2 DEF Describes, TablesAre
  <2>2. mmu = "sw" => slot.af
    BY <2>1 DEF Desc
  <2> QED
    BY <2>2 DEF Load
<1>7. todo' = Rest /\ UNCHANGED masked
  BY <1>6 DEF Load, Translated
<1>8. UNCHANGED <<mmuVars, vbar, printed, timer, virq, vppi, owed, carried>>
  BY DEF Load, irqVars
<1>9. Typed' /\ (printed \cap FalseReports = {})'
  BY <1>8, TypedKept DEF HarnessInvariant
<1>10. Describes(q)'
  BY <1>2, <1>5, <1>7, <1>8, DescribesKept
<1> QED
  BY <1>2, <1>4, <1>7, <1>9, <1>10, Arrives

LEMMA StoreStep ==
  ASSUME HarnessInvariant, Store
  PROVE  HarnessInvariant'
<1>1. alive /\ Cur.op = "store" /\ tlb # {}
  BY DEF Store, At, Cur
<1>2. PICK p \in Points :
        /\ Describes(p) /\ p.m # "dead" /\ Allowed(p, Cur)
        /\ After(p, Cur) \in Points /\ Path(Rest, After(p, Cur), Dead)
  BY <1>1, Running
<1>3. p.i = "none" /\ p.m = "clean"
  BY <1>1, <1>2 DEF Allowed, Points
<1>4. PICK q \in Points : q = After(p, Cur)
  BY <1>2
<1>5. q.m = "written" /\ q.h = p.h /\ q.t = p.t /\ q.i = p.i
  BY <1>1, <1>2, <1>3, <1>4, Leads DEF Tabled
<1>6. /\ mmu = p.h /\ buffer = <<>> /\ tlb = {slot.ro} /\ slot.af
      /\ mmu = "sw" => slot = Desc(TRUE, FALSE)
  BY <1>1, <1>2, <1>3 DEF Describes, TablesAre
<1>7. mmu = "sw" => ~slot.ro
  BY <1>6 DEF Desc
<1>8. p.h \in {"hw", "sw"} /\ Typed
  BY DEF Points, HarnessInvariant
<1>9. mmu \in {"hw", "sw"} /\ slot \in Descs /\ slot.ro \in BOOLEAN
  BY <1>6, <1>8 DEF Typed, Descs
<1>10. tlb = {FALSE} \/ mmu = "hw"
  BY <1>6, <1>7, <1>9
<1>11. todo' = Rest /\ UNCHANGED masked
  BY <1>10 DEF Store, Translated
<1>12. UNCHANGED <<mmu, buffer, vbar, printed, timer, virq, vppi, owed, carried>>
  BY DEF Store, irqVars
<1>13. /\ slot' = IF tlb = {TRUE} /\ mmu = "hw" THEN [slot EXCEPT !.ro = FALSE] ELSE slot
       /\ tlb' = IF mmu = "hw" THEN {FALSE} ELSE tlb
  BY DEF Store
<1>14. slot' \in Descs /\ slot'.af /\ ~slot'.ro /\ tlb' = {FALSE}
  <2>1. LET d == [slot EXCEPT !.ro = FALSE] IN d \in Descs /\ d.af = slot.af /\ ~d.ro
    BY <1>9 DEF Descs
  <2>2. CASE slot.ro
    BY <1>6, <1>7, <1>9, <1>13, <2>1, <2>2
  <2>3. CASE ~slot.ro
    <3>1. tlb = {FALSE} /\ tlb # {TRUE}
      BY <1>6, <1>9, <2>3
    <3> QED
      BY <1>6, <1>9, <1>13, <2>3, <3>1
  <2> QED
    BY <2>2, <2>3
<1>15. mmu = "sw" => slot' = Desc(TRUE, FALSE)
  BY <1>6, <1>13
<1>16. Typed' /\ (printed \cap FalseReports = {})'
  BY <1>8, <1>12, <1>14 DEF HarnessInvariant, Typed
<1>17. TablesAre(q)'
  BY <1>5, <1>6, <1>12, <1>14, <1>15 DEF TablesAre
<1>18. VectorsAre(q)'
  BY <1>2, <1>5, <1>11, <1>12, VectorsKept DEF Describes
<1>19. (~carried => TimerIs(q))'
  BY <1>2, <1>5, <1>12, TimerKept DEF Describes
<1>20. Describes(q)'
  BY <1>5, <1>17, <1>18, <1>19 DEF Describes
<1> QED
  BY <1>2, <1>4, <1>11, <1>16, <1>20, Arrives

\* The loops start over, and the verdict is about an updated descriptor.
LEMMA ControlStep ==
  ASSUME HarnessInvariant, Control
  PROVE  HarnessInvariant'
<1>1. /\ alive
      /\ \/ Cur.op = "tlbi_loop" /\ todo' = tlbi_loop
         \/ Cur.op = "walk_loop" /\ todo' = walk_loop(Cur.first, Cur.hw_updates)
         \/ /\ Cur.op = "verdict"
            /\ todo' = verdict(IF buffer = <<>> THEN slot ELSE buffer[1]) \o Rest
  BY DEF Control, At, Cur
<1>2. PICK p \in Points :
        /\ Describes(p) /\ p.m # "dead" /\ Allowed(p, Cur)
        /\ After(p, Cur) \in Points /\ Path(Rest, After(p, Cur), Dead)
  BY <1>1, Running
<1>3. /\ p.i = "none" /\ p.h \in {"hw", "sw"} /\ p.t \in Ts
      /\ Cur.op = "tlbi_loop" => p.m = "off"
      /\ Cur.op = "walk_loop" => /\ p.m \in {"on", "written"}
                                 /\ Cur.hw_updates = (p.h = "hw")
      /\ Cur.op = "verdict" => p.m = "written" /\ p.h = "hw"
  BY <1>1, <1>2 DEF Allowed, Points, Ts
<1>4. p = Pt(p.m, p.h, p.t)
  BY <1>3 DEF Pt, Points
<1>5. UNCHANGED <<mmuVars, masked, vbar, printed, timer, virq, vppi, owed, carried>>
  BY DEF Control, irqVars
<1>6. Typed' /\ (printed \cap FalseReports = {})'
  BY <1>5, TypedKept DEF HarnessInvariant
<1>7. Describes(p)'
  BY <1>2, <1>5, DescribesKept
<1>8. Path(todo', p, Dead)
  <2>1. CASE Cur.op = "tlbi_loop"
    <3>1. todo' = tlbi_loop /\ p.m = "off"
      BY <1>1, <1>3, <2>1
    <3>2. Path(tlbi_loop, Pt("off", p.h, p.t), Dead)
      BY <1>3, TlbiLoopPath
    <3> QED
      BY <1>4, <3>1, <3>2
  <2>2. CASE Cur.op = "walk_loop"
    <3>1. todo' = walk_loop(Cur.first, Cur.hw_updates)
      BY <1>1, <2>2
    <3>2. Path(walk_loop(Cur.first, p.h = "hw"), Pt(p.m, p.h, p.t), Dead)
      BY <1>3, <2>2, WalkLoopPath
    <3>3. Cur.hw_updates = (p.h = "hw")
      BY <1>3, <2>2
    <3> QED
      BY <1>4, <3>1, <3>2, <3>3, Zenon
  <2>3. CASE Cur.op = "verdict"
    <3>1. p.m = "written" /\ buffer = <<>> /\ slot.af /\ ~slot.ro
      BY <1>2, <1>3, <2>3 DEF Describes, TablesAre
    <3>2. todo' = verdict(slot) \o Rest
      BY <1>1, <2>3, <3>1
    <3>3. Path(verdict(slot), Pt("written", p.h, p.t), Pt("written", p.h, p.t))
      BY <1>3, <3>1, VerdictPath
    <3>4. After(p, Cur) = Pt("written", p.h, p.t)
      BY <1>2, <1>3, <2>3, <3>1 DEF After, Tabled
    <3> QED
      BY <1>2, <1>4, <3>1, <3>2, <3>3, <3>4, PathConcat
  <2> QED
    BY <1>1, <2>1, <2>2, <2>3
<1> QED
  BY <1>6, <1>7, <1>8, Arrives
-----------------------------------------------------------------------------
(* The machine *)

\* A step of the machine leaves the program where it is.
LEMMA MachineStep ==
  ASSUME HarnessInvariant, Typed', UNCHANGED <<alive, todo, printed>>,
         alive => \A p \in Points : Describes(p) => Describes(p)',
         ~alive => UNCHANGED <<timer, owed, carried>>
  PROVE  HarnessInvariant'
<1>1. (printed \cap FalseReports = {})'
  BY DEF HarnessInvariant
<1>2. CASE alive
  <2>1. PICK p \in Points : Path(todo, p, Dead) /\ Describes(p)
    BY <1>2 DEF HarnessInvariant
  <2>2. Path(todo', p, Dead)
    BY <2>1
  <2> QED
    BY <1>1, <1>2, <2>1, <2>2, Arrives
<1>3. CASE ~alive
  BY <1>1, <1>3, Halts
<1> QED
  BY <1>2, <1>3

LEMMA TableWalkStep ==
  ASSUME HarnessInvariant, TableWalk
  PROVE  HarnessInvariant'
<1>1. /\ alive /\ tlb = {} /\ mmu \in {"hw", "sw"} /\ tlb' = {slot.ro}
      /\ slot' = [slot EXCEPT !.af = TRUE]
      /\ UNCHANGED <<alive, todo, printed, mmu, buffer, vbar, timer, masked, virq,
                     vppi, owed, carried>>
  BY DEF TableWalk, cpuVars, irqVars
<1>2. Typed
  BY DEF HarnessInvariant
<1>3. /\ slot' \in Descs /\ slot'.af = TRUE /\ slot'.ro = slot.ro
      /\ slot.ro \in BOOLEAN
  BY <1>1, <1>2 DEF Typed, Descs
<1>4. Typed'
  BY <1>1, <1>2, <1>3 DEF Typed
<1>5. ASSUME NEW p \in Points, Describes(p)
      PROVE  Describes(p)'
  <2>1. TablesAre(p)'
    <3>1. TablesAre(p)
      BY <1>5 DEF Describes
    <3>2. mmu = "sw" => slot = Desc(TRUE, FALSE) /\ slot' = slot /\ ~slot.ro
      <4>1. mmu = "sw" => slot = Desc(TRUE, FALSE)
        BY <3>1 DEF TablesAre
      <4> QED
        BY <1>1, <4>1 DEF Desc
    <3>3. p.m \notin {"off", "set", "visible", "flushed"}
      BY <1>1, <3>1 DEF TablesAre
    <3>4. mmu = "sw" => tlb' \subseteq {FALSE}
      BY <1>1, <1>3, <3>2
    <3> QED
      BY <1>1, <1>3, <3>1, <3>2, <3>3, <3>4 DEF TablesAre
  <2>2. VectorsAre(p)'
    BY <1>1, <1>5, VectorsKept DEF Describes
  <2>3. (~carried => TimerIs(p))'
    BY <1>1, <1>5, TimerKept DEF Describes
  <2> QED
    BY <1>5, <2>1, <2>2, <2>3 DEF Describes
<1> QED
  BY <1>1, <1>4, <1>5, MachineStep

LEMMA EvictStep ==
  ASSUME HarnessInvariant, Evict
  PROVE  HarnessInvariant'
<1>1. /\ tlb' = {}
      /\ UNCHANGED <<alive, todo, printed, mmu, slot, buffer, vbar, timer, masked,
                     virq, vppi, owed, carried>>
  BY DEF Evict, cpuVars, irqVars
<1>2. Typed'
  BY <1>1 DEF Typed, HarnessInvariant
<1>3. ASSUME NEW p \in Points, Describes(p)
      PROVE  Describes(p)'
  <2>1. TablesAre(p)'
    BY <1>1, <1>3 DEF TablesAre, Describes
  <2>2. VectorsAre(p)'
    BY <1>1, <1>3, VectorsKept DEF Describes
  <2>3. (~carried => TimerIs(p))'
    BY <1>1, <1>3, TimerKept DEF Describes
  <2> QED
    BY <1>3, <2>1, <2>2, <2>3 DEF Describes
<1> QED
  BY <1>1, <1>2, <1>3, MachineStep

LEMMA DrainStep ==
  ASSUME HarnessInvariant, Drain
  PROVE  HarnessInvariant'
<1>1. /\ buffer # <<>> /\ slot' = buffer[1] /\ buffer' = <<>>
      /\ UNCHANGED <<alive, todo, printed, mmu, tlb, vbar, timer, masked, virq, vppi,
                     owed, carried>>
  BY DEF Drain, cpuVars, irqVars
<1>2. PICK d \in Descs : buffer = <<d>> /\ slot' = d
  BY <1>1 DEF Typed, HarnessInvariant
<1>3. Typed'
  BY <1>1, <1>2 DEF Typed, HarnessInvariant
<1>4. ASSUME NEW p \in Points, Describes(p)
      PROVE  Describes(p)'
  <2>1. TablesAre(p)'
    <3>1. TablesAre(p)
      BY <1>4 DEF Describes
    <3>2. PICK w, e : w = test_desc(p.h = "hw") /\ e = Desc(TRUE, FALSE)
      OBVIOUS
    <3>3. p.m \in {"on", "slotted", "set", "dead"}
      BY <1>1, <3>1 DEF TablesAre, Points
    <3>4. p.m = "set" => d = w
      BY <1>2, <3>1, <3>2 DEF TablesAre
    <3>5. mmu = "sw" => d = e
      BY <1>2, <3>1, <3>2 DEF TablesAre
    <3>6. p.m = "set" => slot' = test_desc(p.h = "hw")
      BY <1>2, <3>2, <3>4
    <3>7. mmu = "sw" => slot' = Desc(TRUE, FALSE)
      BY <1>2, <3>2, <3>5
    <3> QED
      BY <1>1, <3>1, <3>3, <3>6, <3>7 DEF TablesAre
  <2>2. VectorsAre(p)'
    BY <1>1, <1>4, VectorsKept DEF Describes
  <2>3. (~carried => TimerIs(p))'
    BY <1>1, <1>4, TimerKept DEF Describes
  <2> QED
    BY <1>4, <2>1, <2>2, <2>3 DEF Describes
<1> QED
  BY <1>1, <1>3, <1>4, MachineStep

LEMMA ExpireStep ==
  ASSUME HarnessInvariant, Expire
  PROVE  HarnessInvariant'
<1>1. /\ alive /\ timer.on /\ ~timer.expired /\ owed' = owed + 1
      /\ timer' = [timer EXCEPT !.expired = TRUE]
      /\ UNCHANGED <<alive, todo, printed, mmuVars, vbar, masked, virq, vppi, carried>>
  BY DEF Expire, cpuVars
<1>2. /\ timer' \in [on : BOOLEAN, expired : BOOLEAN]
      /\ timer'.expired = TRUE /\ timer'.on = timer.on
  BY <1>1 DEF Typed, HarnessInvariant
<1>3. Typed'
  BY <1>1, <1>2 DEF Typed, HarnessInvariant, mmuVars
<1>4. ASSUME NEW p \in Points, Describes(p)
      PROVE  Describes(p)'
  <2>1. TablesAre(p)'
    BY <1>1, <1>4, TablesKept DEF Describes
  <2>2. VectorsAre(p)'
    BY <1>1, <1>2, <1>4 DEF VectorsAre, Describes
  <2>3. (~carried => TimerIs(p))'
    BY <1>1, <1>2, <1>4 DEF TimerIs, Describes
  <2> QED
    BY <1>4, <2>1, <2>2, <2>3 DEF Describes
<1> QED
  BY <1>1, <1>3, <1>4, MachineStep

\* The VMM serves an exit of the timer's interrupt, or the run ends.
LEMMA VppiStep ==
  ASSUME HarnessInvariant, VppiEvent \/ Maintenance
  PROVE  HarnessInvariant'
<1>1. /\ alive
      /\ UNCHANGED <<masked, vbar, printed, mmuVars, timer, owed, carried>>
      /\ \/ timer.expired /\ ~vppi /\ vppi' = TRUE /\ virq' = "pending"
         \/ virq = "ended" /\ vppi' = FALSE /\ virq' = "idle"
  BY DEF VppiEvent, Maintenance
<1>2. \E f : Exit(f, todo)
  BY DEF VppiEvent, Maintenance
<1>3. ~alive' \/ (todo' = todo /\ alive')
  BY <1>1, <1>2, Exits
<1>4. Typed' /\ (printed \cap FalseReports = {})'
  BY <1>1, TypedKept DEF HarnessInvariant
<1>5. CASE ~alive'
  BY <1>1, <1>4, <1>5, Halts
<1>6. CASE todo' = todo
  <2>1. PICK p \in Points : Path(todo, p, Dead) /\ Describes(p)
    BY <1>1 DEF HarnessInvariant
  <2>2. TablesAre(p)'
    BY <1>1, <2>1, TablesKept DEF Describes
  <2>3. VectorsAre(p)'
    BY <1>1, <2>1, VectorsKept DEF Describes
  <2>4. (~carried => TimerIs(p))'
    BY <1>1, <2>1 DEF TimerIs, Describes
  <2>5. Describes(p)'
    BY <2>1, <2>2, <2>3, <2>4 DEF Describes
  <2> QED
    BY <1>4, <1>6, <2>1, <2>5, Arrives
<1> QED
  BY <1>3, <1>5, <1>6

\* An interrupt finds its vectors, and the program as it left it.
LEMMA TakeIrqStep ==
  ASSUME HarnessInvariant, TakeIrq
  PROVE  HarnessInvariant'
<1>1. /\ alive /\ ~masked /\ masked' = TRUE
      /\ todo' = Vector(Op("iar") \o Op("eret") \o todo)
      /\ UNCHANGED <<vbar, printed, mmuVars, timer, virq, vppi, owed, carried>>
  BY DEF TakeIrq, irqVars
<1>2. PICK p \in Points : Path(todo, p, Dead) /\ Describes(p)
  BY <1>1 DEF HarnessInvariant
<1>3. /\ p.m # "dead" /\ TablesAre(p) /\ VectorsAre(p) /\ (~carried => TimerIs(p))
  BY <1>2 DEF Describes
<1>4. p.i = "none" /\ p.t = "on" /\ vbar
  BY <1>1, <1>3 DEF VectorsAre
<1>5. todo' = Op("iar") \o Op("eret") \o todo
  BY <1>1, <1>4 DEF Vector
<1> DEFINE q == [p EXCEPT !.i = "iar"]
           r == [p EXCEPT !.i = "eret"]
<1>6. q \in Points /\ q.m = p.m /\ q.h = p.h /\ q.t = p.t /\ q.i = "iar"
  BY DEF Points
<1>7. Path(Op("iar"), q, r) /\ Path(Op("eret"), r, p)
  <2>1. Handled1("iar") = "eret" /\ Handled1("eret") = "none"
    BY DEF Handled1
  <2>2. [p EXCEPT !.i = "none"] = p
    BY <1>4 DEF Points
  <2> QED
    BY <1>3, <2>1, <2>2, HandlerPath
<1> HIDE DEF q, r
<1>8. Path(Op("iar") \o Op("eret"), q, p)
  BY <1>7, PathConcat
<1>9. Path(todo', q, Dead)
  BY <1>2, <1>5, <1>8, PathConcat
<1>10. Typed' /\ (printed \cap FalseReports = {})'
  BY <1>1, TypedKept DEF HarnessInvariant
<1>11. TablesAre(q)'
  BY <1>1, <1>3, <1>6, TablesKept
<1>12. VectorsAre(q)'
  BY <1>1, <1>3, <1>4, <1>6 DEF VectorsAre
<1>13. (~carried => TimerIs(q))'
  BY <1>1, <1>3, <1>4, <1>6 DEF TimerIs
<1>14. Describes(q)'
  BY <1>3, <1>6, <1>11, <1>12, <1>13 DEF Describes
<1> QED
  BY <1>6, <1>9, <1>10, <1>14, Arrives
-----------------------------------------------------------------------------
(* The theorems *)

\* Whatever the order of the guest's operations, table walks, evictions,
\* stores, expiries, interrupts, refused exits, stops and starts, the program
\* that is left is a path of the automaton from a point that describes the
\* machine.
THEOREM HarnessInvariantHolds == Spec => []HarnessInvariant
<1>1. Init => HarnessInvariant
  BY DEF Init, HarnessInvariant, Typed, Desc, Descs, TimerOff, TimerCounted
<1>2. HarnessInvariant /\ [Next]_vars => HarnessInvariant'
  <2> SUFFICES ASSUME HarnessInvariant, [Next]_vars
               PROVE  HarnessInvariant'
    OBVIOUS
  <2>1. ASSUME NEW mode \in Modes, Start(mode)
        PROVE  HarnessInvariant'
    BY <2>1, HarnessAssumption, StartStep
  <2>2. ASSUME GuestStep
        PROVE  HarnessInvariant'
    BY <2>2, UartStep, SmcOrMmioStep, SystemRegisterStep, TimerStep, IarStep,
       EoiStep, TablesStep, LoadStep, StoreStep, ControlStep DEF GuestStep
  <2>3. ASSUME Irq \/ SpuriousIrq
        PROVE  HarnessInvariant'
    BY <2>3, TakeIrqStep DEF Irq, SpuriousIrq
  <2>4. CASE UNCHANGED vars
    <3>1. UNCHANGED <<alive, todo, masked, vbar, printed, mmuVars, timer, virq, vppi,
                      owed, carried>>
      BY <2>4 DEF vars, cpuVars, mmuVars, irqVars
    <3>2. Typed'
      BY <3>1, TypedKept DEF HarnessInvariant
    <3>3. \A p \in Points : Describes(p) => Describes(p)'
      BY <3>1, DescribesKept
    <3> QED
      BY <3>1, <3>2, <3>3, MachineStep
  <2> QED
    BY <2>1, <2>2, <2>3, <2>4, StopStep, TableWalkStep, EvictStep, DrainStep,
       ExpireStep, VppiStep DEF Next
<1> QED
  BY <1>1, <1>2, PTL DEF Spec

\* The harness never makes a report of its own making: no run prints FAIL, an
\* unexpected exception, or that it resumed after the SMC that nobody handles
\* (harness.c, lab.c), and a vCPU that runs always has an operation to do: it
\* gets neither to its program's end nor into an exception without vectors.
THEOREM NoReportIsFalse == Spec => []NoFalseReport
<1>1. HarnessInvariant => NoFalseReport
  <2> SUFFICES ASSUME HarnessInvariant
               PROVE  NoFalseReport
    OBVIOUS
  <2>1. alive => todo # <<>>
    BY Running
  <2> QED
    BY <2>1 DEF NoFalseReport, HarnessInvariant, FalseReports
<1> QED
  BY <1>1, HarnessInvariantHolds, PTL

\* Every expiry of the timer is counted once by lab_irq(), in every run that
\* starts with a clean virtual GIC: never two owed, and one only until the
\* interrupt of an expired timer is served.
THEOREM ExpiriesAreCounted == Spec => []TimerCounted
<1>1. HarnessInvariant => TimerCounted
  BY DEF HarnessInvariant
<1> QED
  BY <1>1, HarnessInvariantHolds, PTL
=============================================================================
