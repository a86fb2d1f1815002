-------------------------------- MODULE Fbcon --------------------------------
(***************************************************************************)
(* What fbcon draws (fbcon/fbcon.c): the geometry read from the display    *)
(* controller, the character grid with its cursor, and the rows drawn to   *)
(* the panel, as functions of the state before.                            *)
(*                                                                         *)
(* grid and dirty have MAX_ROWS rows whatever the panel.  An index outside *)
(* them is a fault: rows and cols are uint32_t, so row rows - 1 of no rows *)
(* lies 2^32 rows away, in memory that is not mapped.  A glyph is its      *)
(* character; writing the frame to memory and asking the controller to     *)
(* show it (cache_clean, present) is part of drawing.                      *)
(***************************************************************************)
EXTENDS Integers, Sequences

CONSTANTS
  CELL_W, CELL_H,        \* a character's pixels
  MARGIN_TOP, MARGIN_BOTTOM, MARGIN_SIDE,
  MAX_COLS, MAX_ROWS,
  FBCON_FB_SIZE,         \* bytes of framebuffer
  DPU_DEFAULT            \* width, height and stride if the registers read 0

ASSUME FbconAssumption ==
  /\ {CELL_W, CELL_H, MAX_COLS, MAX_ROWS} \subseteq Nat \ {0}
  /\ {MARGIN_TOP, MARGIN_BOTTOM, MARGIN_SIDE, FBCON_FB_SIZE} \subseteq Nat
  /\ DPU_DEFAULT \in [width : Nat, height : Nat, stride : Nat]

TAB_WIDTH == 4
BytesPerPixel == 4
-----------------------------------------------------------------------------
(* Geometry *)

\* read_size(): IMG_SIZE is two 16-bit fields
read_size(img) ==
  IF img = [width |-> 0, height |-> 0]
    THEN [width |-> DPU_DEFAULT.width, height |-> DPU_DEFAULT.height]
    ELSE img

read_stride(reg, width) ==
  IF reg # 0 THEN reg
  ELSE IF width = DPU_DEFAULT.width THEN DPU_DEFAULT.stride
  ELSE width * BytesPerPixel

NoGeometry == [ready |-> FALSE]

\* Mutant: the side margin is counted once.
read_geometry_OneMargin(img, reg) ==
  LET size == read_size(img)
      stride == read_stride(reg, size.width)
  IN  IF size.width <= MARGIN_SIDE \/ size.height <= MARGIN_TOP + MARGIN_BOTTOM
         \/ stride < size.width * BytesPerPixel
         \/ stride * size.height > FBCON_FB_SIZE
        THEN NoGeometry
        ELSE [ready |-> TRUE, stride |-> stride, width |-> size.width,
              height |-> size.height,
              cols |-> (size.width - MARGIN_SIDE) \div CELL_W,
              rows |-> (size.height - MARGIN_TOP - MARGIN_BOTTOM) \div CELL_H]

\* read_geometry(): what does not fit is refused, but not a panel that has no
\* room for one row or one column of cells.
read_geometry(img, reg) ==
  LET size == read_size(img)
      width == size.width
      height == size.height
      stride == read_stride(reg, width)
      cols == (width - 2 * MARGIN_SIDE) \div CELL_W
      rows == (height - MARGIN_TOP - MARGIN_BOTTOM) \div CELL_H
      refused ==
        \/ width = 0 \/ height = 0
        \/ stride < width * BytesPerPixel \/ stride % BytesPerPixel # 0
        \/ stride * height > FBCON_FB_SIZE
        \/ width <= 2 * MARGIN_SIDE \/ height <= MARGIN_TOP + MARGIN_BOTTOM
        \/ cols > MAX_COLS \/ rows > MAX_ROWS
  IN  IF refused THEN NoGeometry
      ELSE [ready |-> TRUE, stride |-> stride, width |-> width,
            height |-> height, cols |-> cols, rows |-> rows]
-----------------------------------------------------------------------------
(* The grid, on a panel of geometry g *)

Rows == 0 .. MAX_ROWS - 1
Cols == 0 .. MAX_COLS - 1

\* clear_screen(), and the statics as they start
clear_screen(g) ==
  [grid |-> [r \in Rows |-> [c \in Cols |-> " "]],
   dirty |-> [r \in Rows |-> FALSE], scrolled |-> FALSE,
   cur_row |-> 0, cur_col |-> 0, fault |-> FALSE]

blank_panel(g) == [r \in 0 .. g.rows - 1 |-> [c \in 0 .. g.cols - 1 |-> " "]]

scroll_grid(g, s) ==
  IF g.rows = 0 /\ g.cols > 0
    THEN [s EXCEPT !.fault = TRUE]
    ELSE [s EXCEPT !.scrolled = TRUE,
                   !.grid = [r \in Rows |-> [c \in Cols |->
                      IF c < g.cols /\ r < g.rows
                        THEN IF r + 1 < g.rows THEN s.grid[r + 1][c] ELSE " "
                        ELSE s.grid[r][c]]]]

newline(g, s) ==
  LET start == [s EXCEPT !.cur_col = 0]
  IN  IF s.cur_row + 1 < g.rows
        THEN [start EXCEPT !.cur_row = @ + 1]
        ELSE scroll_grid(g, start)

put_printable(g, s, ch) ==
  LET n == IF s.cur_col >= g.cols THEN newline(g, s) ELSE s
  IN  IF n.fault THEN n
      ELSE IF n.cur_row \notin Rows \/ n.cur_col \notin Cols
        THEN [n EXCEPT !.fault = TRUE]
      ELSE [n EXCEPT !.grid[n.cur_row][n.cur_col] = ch,
                     !.dirty[n.cur_row] = TRUE,
                     !.cur_col = @ + 1]

\* put(): a tab is spaces(ch) calls of put_printable(), which follow; another
\* control character is not shown.
spaces(ch) == IF ch = "TAB" THEN TAB_WIDTH ELSE 0
put(g, s, ch) ==
  CASE ch = "LF"           -> newline(g, s)
    [] ch = "CR"           -> [s EXCEPT !.cur_col = 0]
    [] ch \in {"TAB", "ctl"} -> s
    [] OTHER               -> put_printable(g, s, ch)

\* Mutant: a scroll does not redraw the rows it moved.
draw_rows_DirtyOnly(g, s, panel) ==
  [r \in DOMAIN panel |-> IF s.dirty[r] THEN [c \in 0 .. g.cols - 1 |-> s.grid[r][c]]
                                        ELSE panel[r]]

\* render(): the rows that changed, or all of them after a scroll ...
draw_rows(g, s, panel) ==
  [r \in DOMAIN panel |->
     IF s.scrolled \/ s.dirty[r] THEN [c \in 0 .. g.cols - 1 |-> s.grid[r][c]]
                                 ELSE panel[r]]

\* ... and nothing is left to draw.
drawn(g, s) ==
  [s EXCEPT !.scrolled = FALSE,
            !.dirty = [r \in Rows |-> IF r < g.rows THEN FALSE ELSE s.dirty[r]]]
-----------------------------------------------------------------------------
(* What the panel should show *)

\* The output as lines of g.cols cells, on a screen that never ends: a line
\* begins at a newline or when the one before is full.
BlankLine(g) == [c \in 0 .. g.cols - 1 |-> " "]
EmptyPage(g) == [lines |-> <<BlankLine(g)>>, col |-> 0]
NewLine(g, page) == [lines |-> Append(page.lines, BlankLine(g)), col |-> 0]
Place(g, page, ch) ==
  LET p == IF page.col >= g.cols THEN NewLine(g, page) ELSE page
  IN  [lines |-> [p.lines EXCEPT ![Len(p.lines)][p.col] = ch], col |-> p.col + 1]
Write(g, page, ch) ==
  CASE ch = "LF"  -> NewLine(g, page)
    [] ch = "CR"  -> [page EXCEPT !.col = 0]
    [] ch \in {"TAB", "ctl"} -> page
    [] OTHER      -> Place(g, page, ch)

\* A panel shows the last lines, from the top if there are fewer than rows.
LastLines(g, lines) ==
  LET first == IF Len(lines) > g.rows THEN Len(lines) - g.rows ELSE 0
  IN  [r \in 0 .. g.rows - 1 |->
         IF first + r < Len(lines) THEN lines[first + r + 1]
                                   ELSE BlankLine(g)]
=============================================================================
