---------------------------- MODULE CommandLine ----------------------------
(***************************************************************************)
(* What uartrx does with a finished line (uartrx/uartrx.c: run_line,       *)
(* lookup, parse_args and the parsers below it), up to the trace record it *)
(* makes and the argument it hands to the VMM, and how the VMM takes the   *)
(* argument apart again (the macros of include/trace/cmd_ring.h).          *)
(*                                                                         *)
(* A line is its words: the parsers skip runs of spaces wherever they      *)
(* split, and run_line trims the ends.  A word is a name or a string of    *)
(* digits.  uint64_t is WordBits wide, and the fields of the packed        *)
(* argument, 8 bits in the code, FieldBits.                                *)
(***************************************************************************)
EXTENDS Integers, Sequences, SequencesExt

CONSTANTS
  WordBits,      \* 64
  FieldBits,     \* 8
  Digits,        \* the digits typed
  MaxDigits,     \* bound: digits in a number
  MaxArgs        \* bound: words after the verb

ASSUME CommandLineAssumption ==
  /\ WordBits \in Nat /\ FieldBits \in Nat /\ 3 * FieldBits <= WordBits
  /\ Digits \subseteq 0 .. 9 /\ MaxDigits \in Nat /\ MaxArgs \in Nat

Name(name)   == [name |-> name, digits |-> <<>>]
Number(ds)   == [name |-> "number", digits |-> ds]
Numbers      == {Number(ds) : ds \in BoundedSeq(Digits, MaxDigits) \ {<<>>}}
ArgWords     == {Name("linux"), Name("harness"), Name("vcpu"), Name("junk")}
                  \cup Numbers

\* The commands table: the verbs that take the packed argument, that go to
\* the VMM without one, and that uartrx runs itself.
VmmVerbs   == {"guest-start", "guest-stop", "status", "guest-regs"}
LocalVerbs == {"help", "ping", "trace-dump", "gic-dump", "pc-sample",
               "tlbi-stress"}
commands   == VmmVerbs \cup LocalVerbs

\* Every line: none, or a verb, known or not, and arguments.
Verbs == {"guest-start", "status", "ping", "junk"}
Lines == {<<>>} \cup {<<Name(v)>> \o args :
                        v \in Verbs, args \in BoundedSeq(ArgWords, MaxArgs)}
-----------------------------------------------------------------------------
(* The packed argument *)

Pow2(n) == 2 ^ n
Field   == Pow2(FieldBits)

GUEST_SELECT_DEFAULT == 0
GUEST_SELECT_LINUX   == 1
GUEST_SELECT_HARNESS == Field

GUEST_SELECT_HARNESS_MODE(s) == s % Field
GUEST_SELECT_VCPU(s)         == (s \div (Field * Field)) % Field
GUEST_SELECT_GUEST(s)        == s % (Field * Field)
GUEST_SELECT_IS_HARNESS(s)   ==
  GUEST_SELECT_GUEST(s) - GUEST_SELECT_HARNESS_MODE(s) = GUEST_SELECT_HARNESS
-----------------------------------------------------------------------------
(* The parsers: a value of the word's width, or Bad *)

Bad == -1

parse_decimal(words) ==
  IF Len(words) # 1 \/ Head(words).name # "number" THEN Bad
  ELSE FoldLeft(LAMBDA val, d : (val * 10 + d) % Pow2(WordBits), 0,
                Head(words).digits)

parse_harness_mode(words) ==
  LET mode == IF words = <<>> THEN 0 ELSE parse_decimal(words)
  IN  IF mode = Bad \/ mode > Field - 1 THEN Bad
      ELSE GUEST_SELECT_HARNESS + mode

parse_guest_kind(words) ==
  CASE words = <<>>                  -> GUEST_SELECT_DEFAULT
    [] words = <<Name("linux")>>     -> GUEST_SELECT_LINUX
    [] words # <<>> /\ Head(words) = Name("harness")
                                     -> parse_harness_mode(Tail(words))
    [] OTHER                         -> Bad

\* Mutant: no limit on the vCPU's number.
parse_vcpu_NoLimit(words) ==
  IF words = <<>> THEN 0 ELSE parse_decimal(Tail(words))

\* What follows the first word, which is vcpu, or nothing at all.
parse_vcpu(words) ==
  IF words = <<>> THEN 0
  ELSE LET vcpu == parse_decimal(Tail(words))
       IN  IF vcpu > Field - 1 THEN Bad ELSE vcpu

\* The words before the first vcpu, as find_word() finds it, and the rest
find_word(words) ==
  LET at == SelectInSeq(words, LAMBDA w : w = Name("vcpu"))
  IN  IF at = 0 THEN Len(words) + 1 ELSE at

parse_guest_select(words) ==
  LET at   == find_word(words)
      kind == parse_guest_kind(SubSeq(words, 1, at - 1))
      vcpu == parse_vcpu(SubSeq(words, at, Len(words)))
  IN  IF kind = Bad \/ vcpu = Bad THEN Bad
      ELSE (kind + vcpu * Field * Field) % Pow2(WordBits)

parse_args(verb, words) ==
  IF verb = "guest-start" THEN parse_guest_select(words)
  ELSE IF words = <<>> THEN 0 ELSE Bad
-----------------------------------------------------------------------------
\* run_line(): the CMD record made of a line, if any.  cmd_to_vmm() is handed
\* the same argument as the record of an accepted command.
run_line(words, id) ==
  LET verb == Head(words).name
      arg  == parse_args(verb, Tail(words))
      record_command(v, flags, a) ==
        <<[words |-> words, verb |-> v, id |-> id, flags |-> flags, arg |-> a]>>
  IN  IF words = <<>> THEN <<>>
      ELSE IF verb \notin commands THEN record_command("none", "REJECTED_VERB", 0)
      ELSE IF arg = Bad THEN record_command(verb, "REJECTED_ARGS", 0)
      ELSE record_command(verb, "ACCEPTED", arg)
-----------------------------------------------------------------------------
\* The reference: the lines the help text (uartrx.c:159) and the trace
\* format (docs/trace-format.md:95) describe, generated from their grammar
\* with what each one means.  A number is worth what its digits say, modulo
\* the word: parse_decimal() lets the value wrap, so that 2^64 + 1 is 1.
Value(ds) == FoldLeft(LAMBDA val, d : val * 10 + d, 0, ds) % Pow2(WordBits)
InField   == {n \in Numbers : Value(n.digits) < Field}

Meaning(guest, mode, vcpu) == [guest |-> guest, mode |-> mode, vcpu |-> vcpu]

GuestForms ==
  {[words |-> <<>>, guest |-> "default", mode |-> 0],
   [words |-> <<Name("linux")>>, guest |-> "linux", mode |-> 0],
   [words |-> <<Name("harness")>>, guest |-> "harness", mode |-> 0]}
  \cup {[words |-> <<Name("harness"), n>>, guest |-> "harness",
         mode |-> Value(n.digits)] : n \in InField}
VcpuForms ==
  {[words |-> <<>>, vcpu |-> 0]}
  \cup {[words |-> <<Name("vcpu"), n>>, vcpu |-> Value(n.digits)] : n \in InField}

Meanings(args) ==
  {Meaning(gv[1].guest, gv[1].mode, gv[2].vcpu) : gv \in
     {f \in GuestForms \X VcpuForms : f[1].words \o f[2].words = args}}

\* What the VMM makes of an argument (guest_image_load, boot_fresh)
Decoded(arg) ==
  LET guest == GUEST_SELECT_GUEST(arg)
  IN  Meaning(CASE GUEST_SELECT_IS_HARNESS(arg)   -> "harness"
                [] guest = GUEST_SELECT_DEFAULT   -> "default"
                [] guest = GUEST_SELECT_LINUX     -> "linux"
                [] OTHER                          -> "unknown",
              IF GUEST_SELECT_IS_HARNESS(arg)
                THEN GUEST_SELECT_HARNESS_MODE(arg) ELSE 0,
              GUEST_SELECT_VCPU(arg))

\* A guest-start is accepted if the grammar has its line, and then means what
\* the line means.
AsTyped(record) ==
  record.words[1] = Name("guest-start") =>
    Meanings(Tail(record.words)) =
      IF record.flags = "ACCEPTED" THEN {Decoded(record.arg)} ELSE {}
=============================================================================
