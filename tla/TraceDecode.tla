----------------------------- MODULE TraceDecode -----------------------------
(***************************************************************************)
(* The lines of a trace dump (tracer/tracer.c: send_header, emit_line,     *)
(* dump_archive) and what tools/trace-decode.py makes of a log of them.    *)
(*                                                                         *)
(* A line is what the decoder's two regular expressions find in it: its    *)
(* type, the digit of its prefix, whether the hex digits that follow are a *)
(* structure of the right size, and of that structure the fields decode()  *)
(* looks at.  The kernel's debug output is not serialised between cores,   *)
(* so a log may hold any line broken by another core's output.             *)
(***************************************************************************)
EXTENDS Integers, Sequences, SequencesExt

TRACE_VERSION == 9
KINDS_BY_VERSION(version) ==
  {"MMIO"} \cup (IF version >= 1 THEN {"SMC_ENTER", "SMC_REGS", "SMC_EXIT"} ELSE {})
           \cup (IF version >= 2 THEN {"CMD"} ELSE {})
           \cup (IF version >= 3 THEN {"GUEST"} ELSE {})

\* send_header(): all copies are identical.  emit_line() of a record.
HeaderLine ==
  [type |-> "TRH", digit |-> TRACE_VERSION, ok |-> TRUE,
   version |-> TRACE_VERSION, hexdata |-> "stamp"]
RecordLine(seq, kind) ==
  [type |-> "TRC", digit |-> TRACE_VERSION, ok |-> TRUE,
   seq |-> seq, kind |-> kind]
InfoLine(count) == [type |-> "INFO", count |-> count]

\* Another core's output in the middle of a line hides the prefix, puts
\* another digit after it, or cuts the hex digits short.
Damages == {"none", "hidden", "digit", "cut"}
Damage(line, how) ==
  CASE line.type = "INFO" \/ how = "none" -> line
    [] how = "hidden" -> [line EXCEPT !.type = "other"]
    [] how = "digit"  -> [line EXCEPT !.digit = 0]
    [] how = "cut"    -> [line EXCEPT !.ok = FALSE]
-----------------------------------------------------------------------------
(* decode(): a fold over the lines of the log *)

Start == [header |-> <<>>, pending |-> <<>>, expected_seq |-> 0,
          decoded |-> <<>>, errors |-> 0]

error(s) == [s EXCEPT !.errors = @ + 1]

\* Mutant: a gap is not noticed.
record_AnySeq(s, line) ==
  IF line.digit # s.header[1].version \/ ~line.ok THEN error(s)
  ELSE [s EXCEPT !.expected_seq = line.seq + 1,
                 !.decoded = Append(@, line.seq)]

\* A record that parses is decoded whatever its number; the number expected
\* next follows it.
record(s, line) ==
  LET version == s.header[1].version
      One(odd) == IF odd THEN 1 ELSE 0
  IN  IF line.digit # version \/ ~line.ok THEN error(s)
      ELSE [s EXCEPT !.errors = @ + One(line.kind \notin KINDS_BY_VERSION(version))
                                  + One(line.seq # s.expected_seq),
                     !.expected_seq = line.seq + 1,
                     !.decoded = Append(@, line.seq)]

\* The first valid header counts, and lets the records held so far through; a
\* later one must be the same.
header(s, line) ==
  IF ~line.ok \/ line.digit # line.version THEN error(s)
  ELSE IF s.header = <<>>
    THEN FoldLeft(record, [s EXCEPT !.header = <<line>>, !.pending = <<>>],
                  s.pending)
  ELSE IF line.hexdata # s.header[1].hexdata THEN error(s)
  ELSE s

read_line(s, line) ==
  CASE line.type = "TRH" -> header(s, line)
    [] line.type = "TRC" -> IF s.header = <<>>
                              THEN [s EXCEPT !.pending = Append(@, line)]
                              ELSE record(s, line)
    [] OTHER -> s

decode(log) ==
  LET s == FoldLeft(read_line, Start, log)
  IN  IF s.header = <<>> THEN error(s) ELSE s
=============================================================================
