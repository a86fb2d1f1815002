------------------------------- MODULE Mirror -------------------------------
(***************************************************************************)
(* The panel mirror: mirror_putc and mirror_notify (tracer/tracer.c) write *)
(* the console's bytes to a ring that fbcon (fbcon/fbcon.c: drain_ring,    *)
(* notified) draws from.  The tracer must never wait for the panel, so a   *)
(* byte that finds the ring full is dropped and counted, and the count is  *)
(* printed into the ring once there is room for the message.               *)
(*                                                                         *)
(* Every step is one access to memory shared with the other domain; what   *)
(* fbcon does with a byte is Fbcon's.  The message                         *)
(* "\n[fbcon dropped N bytes]\n" is a newline that carries N, some text and *)
(* a newline: 24 bytes and the digits of N, so its length is any number up *)
(* to ReportLen.                                                           *)
(***************************************************************************)
EXTENDS Fbcon

CONSTANTS
  Capacity,    \* CONSOLE_RING_CAPACITY
  ReportRoom,  \* the 64 bytes mirror_putc() asks for before it reports
  ReportLen,   \* the longest report: 44 bytes
  Texts,       \* outputs the console may print
  Registers    \* what IMG_SIZE and SRC_STRIDE_0 may read

ASSUME MirrorAssumption ==
  /\ Capacity \in Nat \ {0}
  /\ ReportLen \in Nat \ {0, 1} /\ ReportRoom \in Nat
  /\ ReportLen < ReportRoom
  /\ Texts \subseteq Seq(STRING)
  /\ Registers \subseteq [img : [width : Nat, height : Nat], stride : Nat]

\* A cell of the ring: its character, whether it is a byte of the console, the
\* start of a report or its text, and the byte's number or the drops reported.
Cell(ch, kind, n) == [ch |-> ch, kind |-> kind, n |-> n]
Blank == Cell("ctl", "text", 0)

VARIABLES
  \* struct console_ring and the notification to fbcon
  head, tail, buf, notification,
  \* the tracer's statics, pc, local copy of head, and the byte it prints
  mirror_dropped, mirror_pending, tpc, h, c,
  \* the console's output, and how many bytes of it were printed
  output, nput,
  \* fbcon: the geometry init() found (and whether it is `ready'), its grid,
  \* the rows as the panel shows them, spaces of a tab still to be put, pc,
  \* local copy of tail
  geometry, screen, panel, tab, fpc, t,
  \* history: the last cell passed to put(), the console bytes that it and
  \* those before it stand for, and all of them as lines
  shown, account, page

ringVars   == <<head, tail, buf>>
mirrorVars == <<mirror_dropped, mirror_pending>>
tracerVars == <<tpc, h, c, output, nput>>
displayVars == <<geometry, screen, panel, tab>>
history    == <<shown, account, page>>
fbconVars  == <<fpc, t, history>>
vars == <<ringVars, notification, mirrorVars, tracerVars, displayVars, fbconVars>>

Slot(i) == i % Capacity
Slots   == 0 .. Capacity - 1

Init ==
  /\ head = 0 /\ tail = 0 /\ buf = [i \in Slots |-> Blank]
  /\ notification = FALSE
  /\ mirror_dropped = 0 /\ mirror_pending = FALSE
  /\ tpc = "idle" /\ h = 0 /\ c = Blank /\ nput = 0
  /\ output \in Texts
  /\ geometry = NoGeometry /\ screen = <<>> /\ panel = <<>> /\ tab = 0
  /\ fpc = "init" /\ t = 0
  /\ shown = Blank /\ account = 0 /\ page = <<>>
-----------------------------------------------------------------------------
(* The tracer *)

\* Mutant: one byte too many.
mirror_has_room_OffByOne(i, bytes) == i - tail + bytes <= Capacity + 1

mirror_has_room(i, bytes) == i - tail + bytes <= Capacity

\* notified(): what it drains and prints comes as bytes to mirror_putc ...
Notified ==
  /\ tpc = "idle" /\ nput < Len(output)
  /\ tpc' = "body"
  /\ UNCHANGED <<ringVars, notification, mirrorVars, h, c, output, nput,
                 displayVars, fbconVars>>

\* mirror_putc(): entered with the next byte
PutC ==
  /\ tpc = "body" /\ nput < Len(output)
  /\ c' = Cell(output[nput + 1], "byte", nput + 1)
  /\ nput' = nput + 1
  /\ h' = head
  /\ tpc' = "report?"
  /\ UNCHANGED <<ringVars, notification, mirrorVars, output, displayVars,
                 fbconVars>>

ReportTest ==
  /\ tpc = "report?"
  /\ tpc' = IF mirror_dropped # 0 /\ mirror_has_room(h, ReportRoom)
              THEN "report" ELSE "room?"
  /\ UNCHANGED <<ringVars, notification, mirrorVars, h, c, output, nput,
                 displayVars, fbconVars>>

\* mirror_report_dropped()
Report ==
  /\ tpc = "report"
  /\ \E len \in 2 .. ReportLen :
       LET cell(j) == CASE j = 0 -> Cell("LF", "drop", mirror_dropped)
                        [] j = len - 1 -> Cell("LF", "text", 0)
                        [] OTHER -> Cell("d", "text", 0)
           At(i) == {j \in 0 .. len - 1 : Slot(h + j) = i}
       IN  /\ buf' = [i \in Slots |->
                        IF At(i) = {} THEN buf[i]
                        ELSE cell(CHOOSE j \in At(i) : TRUE)]
           /\ h' = h + len
  /\ mirror_dropped' = 0
  /\ tpc' = "room?"
  /\ UNCHANGED <<head, tail, notification, mirror_pending, c, output, nput,
                 displayVars, fbconVars>>

\* Mutant: wait for room, as console_putc() of the VMM and uartrx do.
Drop_Waits ==
  /\ tpc = "room?"
  /\ mirror_dropped # 0 \/ ~mirror_has_room(h, 1)
  /\ UNCHANGED vars

\* No room, or drops not reported yet: this byte is dropped too.
Drop ==
  /\ tpc = "room?"
  /\ mirror_dropped # 0 \/ ~mirror_has_room(h, 1)
  /\ mirror_dropped' = mirror_dropped + 1
  /\ head' = h
  /\ tpc' = "body"
  /\ UNCHANGED <<tail, buf, notification, mirror_pending, h, c, output, nput,
                 displayVars, fbconVars>>

\* Mutant: a byte is stored although drops are not reported yet.
RoomFound_Unreported ==
  /\ tpc = "room?"
  /\ mirror_has_room(h, 1)
  /\ tpc' = "store"
  /\ UNCHANGED <<ringVars, notification, mirrorVars, h, c, output, nput,
                 displayVars, fbconVars>>

RoomFound ==
  /\ tpc = "room?"
  /\ mirror_dropped = 0 /\ mirror_has_room(h, 1)
  /\ tpc' = "store"
  /\ UNCHANGED <<ringVars, notification, mirrorVars, h, c, output, nput,
                 displayVars, fbconVars>>

Store ==
  /\ tpc = "store"
  /\ buf' = [buf EXCEPT ![Slot(h)] = c]
  /\ h' = h + 1
  /\ tpc' = "publish"
  /\ UNCHANGED <<head, tail, notification, mirrorVars, c, output, nput,
                 displayVars, fbconVars>>

\* Mutant: the unfinished line is forgotten.
Publish_NotPending ==
  /\ tpc = "publish"
  /\ head' = h
  /\ tpc' = IF c.ch = "LF" THEN "notify" ELSE "body"
  /\ UNCHANGED <<tail, buf, notification, mirrorVars, h, c, output, nput,
                 displayVars, fbconVars>>

Publish ==
  /\ tpc = "publish"
  /\ head' = h
  /\ mirror_pending' = (c.ch # "LF")
  /\ tpc' = IF c.ch = "LF" THEN "notify" ELSE "body"
  /\ UNCHANGED <<tail, buf, notification, mirror_dropped, h, c, output, nput,
                 displayVars, fbconVars>>

NotifyLine ==
  /\ tpc = "notify"
  /\ notification' = TRUE
  /\ tpc' = "body"
  /\ UNCHANGED <<ringVars, mirrorVars, h, c, output, nput, displayVars,
                 fbconVars>>

\* ... and ends with mirror_notify(), for a line that is not finished.
mirror_notify ==
  /\ tpc = "body"
  /\ mirror_pending' = FALSE
  /\ notification' = (notification \/ mirror_pending)
  /\ tpc' = "idle"
  /\ UNCHANGED <<ringVars, mirror_dropped, h, c, output, nput, displayVars,
                 fbconVars>>

Tracer ==
  \/ Notified \/ PutC \/ ReportTest \/ Report \/ Drop \/ RoomFound \/ Store
  \/ Publish \/ NotifyLine \/ mirror_notify
-----------------------------------------------------------------------------
(* fbcon: init(), then notified(), which is drain_ring() and render() *)

FbconInit ==
  /\ fpc = "init"
  /\ \E reg \in Registers : geometry' = read_geometry(reg.img, reg.stride)
  /\ IF geometry'.ready
       THEN /\ screen' = clear_screen(geometry')
            /\ panel' = blank_panel(geometry')
            /\ page' = EmptyPage(geometry')
       ELSE UNCHANGED <<screen, panel, page>>
  /\ fpc' = "recv"
  /\ UNCHANGED <<ringVars, notification, mirrorVars, tracerVars, tab, t, shown,
                 account>>

Receive ==
  /\ fpc = "recv" /\ notification
  /\ notification' = FALSE
  /\ t' = tail
  /\ fpc' = "test"
  /\ UNCHANGED <<ringVars, mirrorVars, tracerVars, displayVars, history>>

DrainTest ==
  /\ fpc = "test" /\ tab = 0
  /\ fpc' = IF t # head THEN "read" ELSE "store"
  /\ UNCHANGED <<ringVars, notification, mirrorVars, tracerVars, displayVars, t,
                 history>>

\* A fault ends the protection domain.
Put(next, ch) ==
  /\ screen' = next
  /\ page' = IF geometry.cols = 0 THEN page ELSE Write(geometry, page, ch)

\* How many console bytes a cell stands for.
Stands(cell) ==
  CASE cell.kind = "byte" -> 1
    [] cell.kind = "drop" -> cell.n
    [] cell.kind = "text" -> 0

\* Without a framebuffer the byte is taken all the same.
Read ==
  /\ fpc = "read"
  /\ t' = t + 1
  /\ IF geometry.ready
       THEN LET ch == buf[Slot(t)].ch
            IN  /\ Put(put(geometry, screen, ch), ch)
                /\ tab' = spaces(ch)
                /\ shown' = buf[Slot(t)]
                /\ account' = account + Stands(shown')
                /\ fpc' = IF screen'.fault THEN "dead" ELSE "test"
       ELSE /\ fpc' = "test"
            /\ UNCHANGED <<screen, tab, history>>
  /\ UNCHANGED <<ringVars, notification, mirrorVars, tracerVars, geometry,
                 panel>>

PutSpace ==
  /\ fpc = "test" /\ tab > 0
  /\ Put(put_printable(geometry, screen, " "), " ")
  /\ tab' = tab - 1
  /\ fpc' = IF screen'.fault THEN "dead" ELSE "test"
  /\ UNCHANGED <<ringVars, notification, mirrorVars, tracerVars, geometry,
                 panel, t, shown, account>>

\* tail is stored once, when the ring is empty; `any' is t # tail.
StoreTail ==
  /\ fpc = "store"
  /\ tail' = t
  /\ fpc' = IF t # tail /\ geometry.ready THEN "render" ELSE "recv"
  /\ UNCHANGED <<head, buf, notification, mirrorVars, tracerVars, displayVars,
                 t, history>>

render ==
  /\ fpc = "render"
  /\ panel' = draw_rows(geometry, screen, panel)
  /\ screen' = drawn(geometry, screen)
  /\ fpc' = "recv"
  /\ UNCHANGED <<ringVars, notification, mirrorVars, tracerVars, geometry,
                 tab, t, history>>

FbconStep == FbconInit \/ Receive \/ DrainTest \/ Read \/ PutSpace
             \/ StoreTail \/ render
-----------------------------------------------------------------------------
Next == Tracer \/ FbconStep

Spec == Init /\ [][Next]_vars

\* The tracer and fbcon have a core each (vmm/caiman.system.S:59,92).  The
\* tracer finishes what it was woken for; nobody has to print more.
FairSpec ==
  /\ Spec
  /\ WF_vars(Tracer /\ ~Notified)
  /\ WF_vars(FbconStep)
-----------------------------------------------------------------------------
(* Properties *)

\* The cells the tracer may be writing.
Writing ==
  CASE tpc = "report" -> {Slot(h + j) : j \in 0 .. ReportLen - 1}
    [] tpc = "store"  -> {Slot(h)}
    [] OTHER          -> {}

\* fbcon gives its cells back only at the end of drain_ring, and reads beyond
\* the tail the tracer sees: the cell it reads is never being written, and
\* never one of a report that is longer than the room asked for.
NoSlotRace == fpc = "read" => Slot(t) \notin Writing

\* The panel never lies about what is missing: the byte drawn last is the
\* next one of the console, once the drops reported before it are counted.
DropsAccounted == shown.kind = "byte" => shown.n = account

\* When both domains sleep, everything the tracer did not drop has been drawn:
\* no byte waits in the ring for a notification that is not coming.
NothingWaits ==
  tpc = "idle" /\ fpc = "recv" /\ ~notification =>
    /\ head = tail
    /\ geometry.ready => account = nput - mirror_dropped

\* When fbcon sleeps, the panel shows the last lines of what it was given:
\* scrolling, wrapping and the redrawing of changed rows only leave no row
\* behind that is stale, twice there or out of order.
PanelShowsTail ==
  fpc = "recv" /\ geometry.ready /\ geometry.cols > 0 =>
    panel = LastLines(geometry, page.lines)

\* Geometry read from the controller never leads fbcon outside its memory: the
\* last pixel of the last cell lies inside the panel and the framebuffer, and
\* no index leaves the grid, unless read_geometry() accepted a panel without
\* room for one row.
DrawsInside ==
  geometry.ready =>
    LET right == MARGIN_SIDE + geometry.cols * CELL_W
        bottom == MARGIN_TOP + geometry.rows * CELL_H
    IN  /\ right + MARGIN_SIDE <= geometry.width
        /\ bottom + MARGIN_BOTTOM <= geometry.height
        /\ (geometry.height - 1) * geometry.stride
             + geometry.width * BytesPerPixel <= FBCON_FB_SIZE
        /\ geometry.rows > 0 => ~screen.fault

\* The tracer never waits for the panel: whatever fbcon does, and however full
\* its ring, the tracer comes back to its event loop.
TracerReturns == tpc # "idle" ~> tpc = "idle"
=============================================================================
