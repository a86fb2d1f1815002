------------------------------- MODULE Uartrx --------------------------------
(***************************************************************************)
(* uartrx's receive loop and line editor (uartrx/uartrx.c: rx_ready,       *)
(* rx_poll_forever, rx_byte, add_char, erase_char, end_line): what a byte  *)
(* from the UART does to the line, to the echo the typist sees, and to the *)
(* receive errors noted for the line; and what running a line makes of it  *)
(* (CommandLine).                                                          *)
(*                                                                         *)
(* Bytes go on arriving while uartrx is at something else, a line that     *)
(* waits two seconds for the VMM for example, so the UART's FIFO may       *)
(* overrun.  UERSTAT is zero or not.  The echo goes to a terminal, whose   *)
(* line of the cursor is kept.                                             *)
(***************************************************************************)
EXTENDS CommandLine, FiniteSets

CONSTANTS
  LineMax,     \* LINE_MAX
  FifoDepth,   \* bytes the UART holds: its FIFO, or its holding register
  Bytes,       \* bytes typed
  MaxBytes     \* bound: bytes that arrive

Erase     == {"BS", "DEL"}
Printable == Bytes \ (Erase \cup {"CR", "LF", "ctl"})

ASSUME UartrxAssumption ==
  LineMax \in Nat \ {0} /\ FifoDepth \in Nat \ {0} /\ MaxBytes \in Nat

VARIABLES
  \* the UART: bytes received, each with whether it was damaged; whether one
  \* was lost since UERSTAT was read
  fifo, overrun,
  \* uartrx.c: UERSTAT as read before the byte, its statics, the records made
  uerstat, line, line_errors, last_was_cr, commands_received, records,
  \* what the terminal shows since the last prompt; the lines run, each with
  \* whether receive errors were reported for it
  screen, ran,
  \* history: every byte taken from the UART and whether UERSTAT was set with
  \* it; for every byte lost, how many were taken before and what comes next
  input, losses

uartVars == <<fifo, overrun, losses>>
lineVars == <<line, line_errors, last_was_cr, screen, ran, input>>
cmdVars  == <<commands_received, records>>
vars == <<uartVars, uerstat, lineVars, cmdVars>>

\* A terminal: a backspace moves the cursor, a character overwrites.
Space    == " "
Prompted == [text |-> <<>>, cursor |-> 1]
Backspace(scr) == [scr EXCEPT !.cursor = @ - 1]
Put(scr, c) ==
  [text   |-> IF scr.cursor > Len(scr.text) THEN Append(scr.text, c)
              ELSE [scr.text EXCEPT ![scr.cursor] = c],
   cursor |-> scr.cursor + 1]

Init ==
  /\ fifo = <<>> /\ overrun = FALSE /\ losses = {} /\ uerstat = <<>>
  /\ commands_received = 0 /\ records = <<>>
  /\ line = <<>> /\ line_errors = FALSE /\ last_was_cr = FALSE
  /\ screen = Prompted /\ ran = <<>> /\ input = <<>>

\* Mutant: the errors of this line are reported for the next one too.
end_line_KeepsErrors(errors) ==
  /\ ran' = Append(ran, [line |-> line, errors |-> errors])
  /\ line' = <<>>
  /\ line_errors' = errors
  /\ screen' = Prompted

\* end_line(): the errors are reported, the line is run, a prompt follows.
end_line(errors) ==
  /\ ran' = Append(ran, [line |-> line, errors |-> errors])
  /\ line' = <<>>
  /\ line_errors' = FALSE
  /\ screen' = Prompted

erase_char(errors) ==
  /\ IF line # <<>>
       THEN /\ line' = Front(line)
            /\ screen' = Backspace(Put(Backspace(screen), Space))
       ELSE UNCHANGED <<line, screen>>
  /\ line_errors' = errors
  /\ UNCHANGED ran

\* Mutant: echoed whether taken or not.
add_char_EchoesAll(c, errors) ==
  /\ line' = IF Len(line) < LineMax THEN Append(line, c) ELSE line
  /\ screen' = Put(screen, c)
  /\ line_errors' = errors
  /\ UNCHANGED ran

\* A full line takes no more, and does not echo what it does not take.
add_char(c, errors) ==
  /\ IF Len(line) < LineMax
       THEN /\ line' = Append(line, c)
            /\ screen' = Put(screen, c)
       ELSE UNCHANGED <<line, screen>>
  /\ line_errors' = errors
  /\ UNCHANGED ran

\* Nothing but the error bits is kept of a control character, or of the LF
\* of a CR LF.
ignore(errors) ==
  /\ line_errors' = errors
  /\ UNCHANGED <<line, screen, ran>>

\* Mutant: the LF of a CR LF is ignored with its errors.
rx_byte_LateErrors(c, error) ==
  LET errors == line_errors \/ error
  IN  /\ last_was_cr' = (c = "CR")
      /\ CASE c = "LF" /\ last_was_cr -> ignore(line_errors)
           [] c = "CR" \/ (c = "LF" /\ ~last_was_cr) -> end_line(errors)
           [] c \in Erase             -> erase_char(errors)
           [] c \in Printable         -> add_char(c, errors)
           [] OTHER                   -> ignore(errors)

rx_byte(c, error) ==
  LET errors == line_errors \/ error
  IN  /\ last_was_cr' = (c = "CR")
      /\ CASE c = "LF" /\ last_was_cr -> ignore(errors)
           [] c = "CR" \/ (c = "LF" /\ ~last_was_cr) -> end_line(errors)
           [] c \in Erase             -> erase_char(errors)
           [] c \in Printable         -> add_char(c, errors)
           [] OTHER                   -> ignore(errors)

\* The UART: a byte arrives, and is lost when there is no room for it.
Arrive(c, damaged) ==
  /\ Len(input) + Len(fifo) + Cardinality(losses) < MaxBytes
  /\ IF Len(fifo) < FifoDepth
       THEN /\ fifo' = Append(fifo, [c |-> c, error |-> damaged])
            /\ UNCHANGED <<overrun, losses>>
       ELSE /\ overrun' = TRUE
            /\ losses' = losses \cup {[taken |-> Len(input),
                                       next  |-> Len(input) + Len(fifo) + 1]}
            /\ UNCHANGED fifo
  /\ UNCHANGED <<uerstat, lineVars, cmdVars>>

\* rx_poll_forever(): rx_ready(), and UERSTAT, which reading clears
ReadStatus ==
  /\ fifo # <<>> /\ uerstat = <<>>
  /\ uerstat' = <<Head(fifo).error \/ overrun>>
  /\ overrun' = FALSE
  /\ UNCHANGED <<fifo, losses, lineVars, cmdVars>>

\* rx_poll_forever(): URXH
ReadByte ==
  /\ uerstat # <<>>
  /\ rx_byte(Head(fifo).c, uerstat[1])
  /\ input' = Append(input, [c |-> Head(fifo).c, error |-> uerstat[1]])
  /\ fifo' = Tail(fifo) /\ uerstat' = <<>>
  /\ UNCHANGED <<overrun, losses, cmdVars>>

\* What run_line() makes of a line of words, which characters do not show:
\* any line, instead of typing.
RunLine ==
  /\ input = <<>> /\ fifo = <<>> /\ records = <<>>
  /\ \E words \in Lines : records' = run_line(words, commands_received + 1)
  /\ commands_received' = Len(records')
  /\ UNCHANGED <<uartVars, uerstat, lineVars>>

Next ==
  \/ /\ records = <<>>
     /\ \/ \E c \in Bytes, damaged \in BOOLEAN : Arrive(c, damaged)
        \/ ReadStatus \/ ReadByte
  \/ RunLine

Spec == Init /\ [][Next]_vars
-----------------------------------------------------------------------------
(* Properties *)

\* What will run is what the typist sees, also after the line was full and
\* after erasing more than there was: the terminal shows the line and then
\* blanks, with its cursor behind the line.
EchoIsLine ==
  /\ screen.cursor = Len(line) + 1
  /\ Len(screen.text) >= Len(line)
  /\ \A i \in 1 .. Len(screen.text) :
       screen.text[i] = IF i <= Len(line) THEN line[i] ELSE Space

\* Positions of the input that end a line: CR LF ends one line, not two.
LineEnds ==
  {i \in 1 .. Len(input) :
     \/ input[i].c = "CR"
     \/ input[i].c = "LF" /\ (i = 1 \/ input[i - 1].c # "CR")}

\* How many lines the first n bytes of the input end.
Ended(n) == Cardinality({e \in LineEnds : e <= n})

\* A byte after the last line end before position e, and no later than e, was
\* read with an error.
ErrorBefore(e) ==
  \E i \in 1 .. Len(input) :
    i <= e /\ input[i].error /\ \A x \in LineEnds : x < e => x < i

\* Each line end runs a line, in order, and the line that ends at position e
\* reports errors if and only if a byte after the line end before it had one.
\* So an error is reported once, and none is forgotten.
ErrorsReported ==
  /\ Len(ran) = Ended(Len(input))
  /\ \A e \in LineEnds : ran[Ended(e)].errors <=> ErrorBefore(e)
  /\ line_errors <=> ErrorBefore(Len(input) + 1)

\* A byte the UART had no room for is never lost unnoticed: once the byte
\* after it has been taken, a line has reported receive errors, or will, that
\* was not yet ended when the byte was lost and is no later than its own.
LossReported ==
  \A l \in losses : l.next <= Len(input) =>
    \E n \in (Ended(l.taken) + 1) .. (Ended(l.next - 1) + 1) :
       IF n <= Len(ran) THEN ran[n].errors ELSE line_errors

\* guest-start is accepted for exactly the lines of the grammar, and the VMM
\* starts the guest, mode and vCPU the line names (uartrx.c:477-507).
StartAsTyped == \A i \in 1 .. Len(records) : AsTyped(records[i])
=============================================================================
