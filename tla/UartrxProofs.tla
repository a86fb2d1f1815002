---------------------------- MODULE UartrxProofs ----------------------------
(***************************************************************************)
(* Proofs about Uartrx, for any length of the line and depth of the FIFO,  *)
(* any bytes and any arrivals.  LineInvariant is inductive: what the       *)
(* terminal shows is the line, every error read so far has been reported   *)
(* or is noted for the line being typed, and a byte that was lost leaves   *)
(* an error in the input or one that will be read with the next byte.      *)
(***************************************************************************)
EXTENDS Uartrx, FiniteSetTheorems, SequenceTheorems, TLAPS

Byte   == [c : Bytes, error : BOOLEAN]
Glyphs == Bytes \cup {Space}

\* The UART, the line and the history are well typed, the FIFO and the line
\* within their bounds; UERSTAT is read only for a byte that is in the FIFO.
TypeOK ==
  /\ fifo \in Seq(Byte) /\ Len(fifo) <= FifoDepth /\ overrun \in BOOLEAN
  /\ uerstat \in {<<>>, <<TRUE>>, <<FALSE>>} /\ Len(uerstat) <= Len(fifo)
  /\ line \in Seq(Bytes) /\ Len(line) <= LineMax
  /\ line_errors \in BOOLEAN /\ last_was_cr \in BOOLEAN
  /\ screen \in [text : Seq(Glyphs), cursor : Nat]
  /\ ran \in Seq([line : Seq(Bytes), errors : BOOLEAN])
  /\ input \in Seq(Byte) /\ losses \subseteq [taken : Nat, next : Nat]

\* The bound of the line buffer, which add_char() relies on.
LineFits == Len(line) <= LineMax

\* What the line editor remembers of the byte before.
LastInv == last_was_cr <=> Len(input) > 0 /\ input[Len(input)].c = "CR"

\* Line n has reported errors, or will if it is the line being typed.
Reported(n) == IF n <= Len(ran) THEN ran[n].errors ELSE line_errors

\* Every error is one of the line its byte belongs to.
EveryErrorReported ==
  \A i \in 1 .. Len(input) : input[i].error => Reported(Ended(i - 1) + 1)

\* A byte lost has left an error between the byte after which it was lost and
\* the one that follows it, or will, with a byte that has yet to be read.
StatusSet == uerstat = <<TRUE>>
Seen(l) ==
  \E i \in 1 .. Len(input) : l.taken < i /\ i <= l.next /\ input[i].error
LossInv ==
  \A l \in losses :
    /\ l.taken <= Len(input)
    /\ \/ Seen(l)
       \/ overrun /\ Len(input) + Len(uerstat) < l.next
       \/ StatusSet /\ Len(input) < l.next

LineInvariant ==
  /\ TypeOK /\ LastInv /\ EchoIsLine /\ ErrorsReported /\ EveryErrorReported
  /\ LossInv
-----------------------------------------------------------------------------
(* Line ends *)

\* A byte that ends a line: the LF of a CR LF does not.
Ends(c) == c = "CR" \/ (c = "LF" /\ ~last_was_cr)

\* Appending to a sequence.
LEMMA AppendFacts ==
  ASSUME NEW S, NEW q \in Seq(S), NEW x \in S
  PROVE  /\ Append(q, x) \in Seq(S) /\ Len(Append(q, x)) = Len(q) + 1
         /\ \A i \in 1 .. Len(q) : Append(q, x)[i] = q[i]
         /\ Append(q, x)[Len(q) + 1] = x
  OBVIOUS

\* The line ends are positions of the input.
LEMMA LineEndsFinite ==
  ASSUME input \in Seq(Byte)
  PROVE  /\ LineEnds \subseteq 1 .. Len(input) /\ IsFiniteSet(LineEnds)
         /\ Len(input) \in Nat
<1>1. LineEnds \in SUBSET (1 .. Len(input)) /\ Len(input) \in Nat
  BY DEF LineEnds
<1>2. IsFiniteSet(1 .. Len(input))
  BY <1>1, FS_Interval
<1> QED
  BY <1>1, <1>2, FS_Subset

\* The lines ended never decrease from one position to a later one.
LEMMA EndedMonotonic ==
  ASSUME input \in Seq(Byte), NEW a \in Int, NEW b \in Int, a <= b
  PROVE  Ended(a) \in Nat /\ Ended(b) \in Nat /\ Ended(a) <= Ended(b)
<1> DEFINE A == {e \in LineEnds : e <= a}
           B == {e \in LineEnds : e <= b}
<1>1. LineEnds \subseteq Int /\ IsFiniteSet(LineEnds)
  BY LineEndsFinite
<1>2. A \in SUBSET B /\ B \in SUBSET LineEnds /\ A \in SUBSET LineEnds
  <2>1. \A x \in Int : x <= a => x <= b
    OBVIOUS
  <2>2. \A x \in A : x \in B
    BY <1>1, <2>1
  <2> QED
    BY <2>2
<1> HIDE DEF A, B
<1>3. IsFiniteSet(A) /\ IsFiniteSet(B)
  BY <1>1, <1>2, FS_Subset
<1>4. Cardinality(A) \in Nat /\ Cardinality(B) \in Nat
  BY <1>3, FS_CardinalityType
<1>5. Cardinality(A) <= Cardinality(B)
  BY <1>2, <1>3, FS_Subset
<1> QED
  BY <1>4, <1>5 DEF Ended, A, B

\* A line end has a number, no larger than that of all the lines ended.
LEMMA EndedInRange ==
  ASSUME input \in Seq(Byte), NEW e \in LineEnds
  PROVE  /\ Ended(e) \in Nat /\ 1 <= Ended(e)
         /\ Ended(e) <= Ended(Len(input))
<1>1. /\ e \in 1 .. Len(input) /\ IsFiniteSet(LineEnds)
      /\ Len(input) \in Nat /\ LineEnds \subseteq Int
  BY LineEndsFinite
<1>2. Ended(e) \in Nat /\ Ended(e) <= Ended(Len(input))
  BY <1>1, EndedMonotonic
<1> DEFINE A == {x \in LineEnds : x <= e}
<1>3. A \in SUBSET LineEnds /\ e \in A
  BY <1>1
<1> HIDE DEF A
<1>4. IsFiniteSet(A) /\ A # {}
  BY <1>1, <1>3, FS_Subset
<1>5. Cardinality(A) # 0
  BY <1>4, FS_EmptySet
<1> QED
  BY <1>2, <1>5 DEF Ended, A

\* What a byte read does to the line ends.
LEMMA LineEndsStep ==
  ASSUME input \in Seq(Byte), LastInv, NEW b \in Byte,
         input' = Append(input, b)
  PROVE  LineEnds' = IF Ends(b.c) THEN LineEnds \cup {Len(input) + 1}
                                  ELSE LineEnds
<1> DEFINE N == Len(input)
<1>1. /\ N \in Nat /\ Len(input') = N + 1 /\ input'[N + 1] = b
      /\ \A i \in 1 .. N : input'[i] = input[i]
  BY AppendFacts
<1>2. /\ \A i \in LineEnds : i \in 1 .. N
      /\ \A i \in 1 .. N :
           i \in LineEnds <=>
             \/ input[i].c = "CR"
             \/ input[i].c = "LF" /\ (i = 1 \/ input[i - 1].c # "CR")
  BY DEF LineEnds
<1>3. /\ \A i \in LineEnds' : i \in 1 .. (N + 1)
      /\ \A i \in 1 .. (N + 1) :
           i \in LineEnds' <=>
             \/ input'[i].c = "CR"
             \/ input'[i].c = "LF" /\ (i = 1 \/ input'[i - 1].c # "CR")
  BY <1>1 DEF LineEnds
<1>4. Ends(b.c) <=>
        \/ b.c = "CR" 
        \/ b.c = "LF" /\ (N + 1 = 1 \/ input[N].c # "CR")
  BY <1>1 DEF Ends, LastInv
<1> HIDE DEF N
<1>5. ASSUME NEW i \in 1 .. N PROVE i \in LineEnds' <=> i \in LineEnds
  <2>1. CASE i = 1
    BY <1>1, <1>2, <1>3, <2>1
  <2>2. CASE i # 1
    <3>1. i - 1 \in 1 .. N /\ i \in 1 .. (N + 1)
      BY <1>1, <2>2
    <3> QED
      BY <1>1, <1>2, <1>3, <2>2, <3>1
  <2> QED
    BY <2>1, <2>2
<1>6. N + 1 \in LineEnds' <=> Ends(b.c)
  <2>1. CASE N = 0
    BY <1>1, <1>3, <1>4, <2>1
  <2>2. CASE N # 0
    <3>1. N \in 1 .. N /\ (N + 1) - 1 = N /\ N + 1 \in 1 .. (N + 1)
      BY <1>1, <2>2
    <3> QED
      BY <1>1, <1>3, <1>4, <2>2, <3>1
  <2> QED
    BY <2>1, <2>2
<1>7. \A i \in 1 .. (N + 1) : i \in 1 .. N \/ i = N + 1
  BY <1>1
<1>8. \A i : i \in LineEnds' <=> i \in LineEnds \/ (i = N + 1 /\ Ends(b.c))
  BY <1>2, <1>3, <1>5, <1>6, <1>7
<1> QED
  BY <1>8 DEF N

\* A byte read leaves the count of earlier positions alone, and adds the line
\* it ends.
LEMMA EndedStep ==
  ASSUME input \in Seq(Byte), LastInv, NEW b \in Byte,
         input' = Append(input, b)
  PROVE  /\ \A n \in Int : n <= Len(input) => (Ended(n))' = Ended(n)
         /\ \A n \in Int : n > Len(input) =>
              (Ended(n))' = Ended(Len(input)) + (IF Ends(b.c) THEN 1 ELSE 0)
<1> DEFINE N == Len(input)
<1>1. /\ LineEnds \subseteq 1 .. N /\ IsFiniteSet(LineEnds) /\ N \in Nat
  BY LineEndsFinite
<1>2. LineEnds' = IF Ends(b.c) THEN LineEnds \cup {N + 1} ELSE LineEnds
  BY LineEndsStep
<1>3. {e \in LineEnds : e <= N} = LineEnds
  <2>1. \A e \in LineEnds : e <= N
    BY <1>1
  <2> QED
    BY <2>1
<1> HIDE DEF N
<1>4. ASSUME NEW n \in Int, n <= N PROVE (Ended(n))' = Ended(n)
  <2>1. \A e \in LineEnds' : e <= n => e \in LineEnds
    BY <1>1, <1>2, <1>4
  <2>2. \A e \in LineEnds : e \in LineEnds'
    BY <1>2
  <2>3. {e \in LineEnds' : e <= n} = {e \in LineEnds : e <= n}
    BY <2>1, <2>2
  <2> QED
    BY <2>3 DEF Ended
<1>5. ASSUME NEW n \in Int, n > N
      PROVE  (Ended(n))' = Ended(N) + (IF Ends(b.c) THEN 1 ELSE 0)
  <2>1. \A e \in LineEnds' : e <= n
    BY <1>1, <1>2, <1>5
  <2>2. {e \in LineEnds' : e <= n} = LineEnds'
    BY <2>1
  <2>3. N + 1 \notin LineEnds
    BY <1>1
  <2>4. Cardinality(LineEnds \cup {N + 1}) = Cardinality(LineEnds) + 1
    BY <1>1, <2>3, FS_AddElement
  <2>5. Cardinality(LineEnds) \in Nat
    BY <1>1, FS_CardinalityType
  <2>6. (Ended(n))' = Cardinality(LineEnds') /\ Ended(N) = Cardinality(LineEnds)
    BY <1>3, <2>2 DEF Ended
  <2> QED
    BY <1>2, <2>4, <2>5, <2>6
<1> QED
  BY <1>4, <1>5 DEF N

\* What a byte read does to the errors of each line.
LEMMA ErrorBeforeStep ==
  ASSUME input \in Seq(Byte), LastInv, NEW b \in Byte,
         input' = Append(input, b), NEW N, N = Len(input)
  PROVE  /\ \A e \in LineEnds : (ErrorBefore(e))' <=> ErrorBefore(e)
         /\ (ErrorBefore(N + 1))' <=> ErrorBefore(N + 1) \/ b.error
         /\ (ErrorBefore(N + 2))' <=>
               ~Ends(b.c) /\ (ErrorBefore(N + 1) \/ b.error)
<1>1. /\ N \in Nat /\ Len(input') = N + 1 /\ input'[N + 1] = b
      /\ \A i \in 1 .. N : input'[i] = input[i]
  BY AppendFacts
<1>2. LineEnds' = IF Ends(b.c) THEN LineEnds \cup {N + 1} ELSE LineEnds
  BY LineEndsStep
<1>3. \A x \in LineEnds : x \in Int /\ 1 <= x /\ x <= N
  BY LineEndsFinite
<1>4. \A e : (ErrorBefore(e))' <=>
        \E i \in 1 .. (N + 1) :
          i <= e /\ input'[i].error /\ \A x \in LineEnds' : x < e => x < i
  BY <1>1 DEF ErrorBefore
<1>5. \A e : ErrorBefore(e) <=>
        \E i \in 1 .. N :
          i <= e /\ input[i].error /\ \A x \in LineEnds : x < e => x < i
  BY DEF ErrorBefore
<1>6. ASSUME NEW e \in LineEnds PROVE (ErrorBefore(e))' <=> ErrorBefore(e)
  <2>1. \A i \in 1 .. (N + 1) : i <= e <=> i \in 1 .. N /\ i <= e
    BY <1>1, <1>3
  <2>2. \A x \in LineEnds' : x < e <=> x \in LineEnds /\ x < e
    BY <1>1, <1>2, <1>3
  <2>3. \A x \in LineEnds : x \in LineEnds'
    BY <1>2
  <2>4. \A i \in 1 .. N : i \in 1 .. (N + 1)
    BY <1>1
  <2>5. ASSUME NEW i \in 1 .. N
        PROVE  (\A x \in LineEnds' : x < e => x < i)
                 <=> (\A x \in LineEnds : x < e => x < i)
    BY <2>2, <2>3
  <2> QED
    BY <1>1, <1>4, <1>5, <2>1, <2>4, <2>5
<1>7. ASSUME NEW i \in 1 .. (N + 1)
      PROVE  (\A x \in LineEnds' : x < N + 1 => x < i)
               <=> (\A x \in LineEnds : x < N + 1 => x < i)
  BY <1>1, <1>2
<1>8. \A i \in 1 .. (N + 1) : i \in 1 .. N \/ i = N + 1
  BY <1>1
<1>9. \A i \in 1 .. N : i \in 1 .. (N + 1)
  BY <1>1
<1>10. (ErrorBefore(N + 1))' <=> ErrorBefore(N + 1) \/ b.error
  <2>1. ASSUME ErrorBefore(N + 1) PROVE (ErrorBefore(N + 1))'
    <3>1. PICK i \in 1 .. N : 
            i <= N + 1 /\ input[i].error
              /\ \A x \in LineEnds : x < N + 1 => x < i
      BY <1>5, <2>1
    <3> QED
      BY <1>1, <1>4, <1>7, <1>9, <3>1
  <2>2. ASSUME b.error PROVE (ErrorBefore(N + 1))'
    <3>1. N + 1 \in 1 .. (N + 1) /\ N + 1 <= N + 1
      BY <1>1
    <3> QED
      BY <1>1, <1>4, <1>7, <2>2, <3>1
  <2>3. ASSUME (ErrorBefore(N + 1))' PROVE ErrorBefore(N + 1) \/ b.error
    <3>1. PICK i \in 1 .. (N + 1) :
            i <= N + 1 /\ input'[i].error
              /\ \A x \in LineEnds' : x < N + 1 => x < i
      BY <1>4, <2>3
    <3>2. CASE i = N + 1
      BY <1>1, <3>1, <3>2
    <3>3. CASE i \in 1 .. N
      BY <1>1, <1>5, <1>7, <3>1, <3>3
    <3> QED
      BY <1>8, <3>2, <3>3
  <2> QED
    BY <2>1, <2>2, <2>3
<1>11. CASE Ends(b.c)
  <2>1. N + 1 \in LineEnds' /\ \A i \in 1 .. (N + 1) : ~(N + 1 < i)
    BY <1>1, <1>2, <1>11
  <2>2. N + 1 < N + 2
    BY <1>1
  <2>3. ~(ErrorBefore(N + 2))'
    BY <1>4, <2>1, <2>2
  <2> QED
    BY <1>6, <1>10, <1>11, <2>3
<1>12. CASE ~Ends(b.c)
  <2>1. LineEnds' = LineEnds
    BY <1>2, <1>12
  <2>2. \A x \in LineEnds' : x < N + 2 /\ x < N + 1
    BY <1>1, <1>3, <2>1
  <2>3. \A i \in 1 .. (N + 1) : i <= N + 2 /\ i <= N + 1
    BY <1>1
  <2>4. (ErrorBefore(N + 2))' <=> (ErrorBefore(N + 1))'
    BY <1>4, <2>2, <2>3
  <2> QED
    BY <1>6, <1>10, <1>12, <2>4
<1> QED
  BY <1>11, <1>12
-----------------------------------------------------------------------------
(* The line editor *)

\* The line and the screen change only by a character taken or erased.
LineStep(c) ==
  \/ UNCHANGED <<line, screen>>
  \/ /\ line # <<>> /\ line' = Front(line)
     /\ screen' = Backspace(Put(Backspace(screen), Space))
  \/ /\ c \in Bytes /\ Len(line) < LineMax /\ line' = Append(line, c)
     /\ screen' = Put(screen, c)

\* What rx_byte() does with a byte that ends a line and with any other.
LEMMA RxByte ==
  ASSUME NEW b \in Byte, rx_byte(b.c, b.error),
         NEW errors \in BOOLEAN, errors = (line_errors \/ b.error)
  PROVE  /\ last_was_cr' = (b.c = "CR")
         /\ Ends(b.c) =>
              /\ ran' = Append(ran, [line |-> line, errors |-> errors])
              /\ line' = <<>> /\ line_errors' = FALSE /\ screen' = Prompted
         /\ ~Ends(b.c) =>
              /\ ran' = ran /\ line_errors' = errors
              /\ LineStep(b.c)
<1>1. last_was_cr' = (b.c = "CR")
  BY DEF rx_byte
<1>2. CASE b.c = "LF" /\ last_was_cr
  <2>1. ignore(errors) /\ ~Ends(b.c)
    BY <1>2 DEF rx_byte, Ends, Erase, Printable
  <2> QED
    BY <1>1, <2>1 DEF ignore, LineStep
<1>3. CASE Ends(b.c)
  <2>1. end_line(errors)
    BY <1>3 DEF rx_byte, Ends, Erase, Printable
  <2> QED
    BY <1>1, <1>3, <2>1 DEF end_line
<1>4. CASE b.c \in Erase
  <2>1. erase_char(errors) /\ ~Ends(b.c)
    BY <1>4 DEF rx_byte, Ends, Erase, Printable
  <2>2. UNCHANGED <<line, screen>> \/
          /\ line # <<>> /\ line' = Front(line)
          /\ screen' = Backspace(Put(Backspace(screen), Space))
    BY <2>1 DEF erase_char
  <2> QED
    BY <1>1, <2>1, <2>2 DEF erase_char, LineStep
<1>5. CASE b.c \in Printable
  <2>1. add_char(b.c, errors) /\ ~Ends(b.c) /\ b.c \in Bytes
    BY <1>5 DEF rx_byte, Ends, Erase, Printable
  <2>2. UNCHANGED <<line, screen>> \/
          /\ Len(line) < LineMax /\ line' = Append(line, b.c)
          /\ screen' = Put(screen, b.c)
    BY <2>1 DEF add_char
  <2> QED
    BY <1>1, <2>1, <2>2 DEF add_char, LineStep
<1>6. CASE /\ ~(b.c = "LF" /\ last_was_cr) /\ ~Ends(b.c)
           /\ b.c \notin Erase /\ b.c \notin Printable
  <2>1. ignore(errors)
    BY <1>6 DEF rx_byte, Ends
  <2> QED
    BY <1>1, <1>6, <2>1 DEF ignore, LineStep
<1> QED
  BY <1>2, <1>3, <1>4, <1>5, <1>6

\* A character taken or erased leaves the line and the screen well typed and
\* alike.
LEMMA LineStepKeepsEcho ==
  ASSUME NEW c, LineStep(c), EchoIsLine, UartrxAssumption,
         line \in Seq(Bytes), Len(line) <= LineMax,
         screen \in [text : Seq(Glyphs), cursor : Nat]
  PROVE  /\ line' \in Seq(Bytes) /\ Len(line') <= LineMax
         /\ screen' \in [text : Seq(Glyphs), cursor : Nat]
         /\ EchoIsLine'
<1> DEFINE L == Len(line)
           T == screen.text
<1>1. /\ L \in Nat /\ T \in Seq(Glyphs) /\ screen.cursor = L + 1
      /\ Len(T) \in Nat /\ Len(T) >= L
      /\ \A i \in 1 .. Len(T) : T[i] = IF i <= L THEN line[i] ELSE Space
  BY DEF EchoIsLine
<1>2. CASE UNCHANGED <<line, screen>>
  BY <1>2 DEF EchoIsLine
<1>3. CASE /\ line # <<>> /\ line' = Front(line)
           /\ screen' = Backspace(Put(Backspace(screen), Space))
  <2>1. L > 0
    BY <1>3
  <2>2. /\ line' \in Seq(Bytes) /\ Len(line') = L - 1
        /\ \A i \in 1 .. L - 1 : line'[i] = line[i]
    <3>1. line' = SubSeq(line, 1, L - 1)
      BY <1>3 DEF Front
    <3> HIDE DEF L
    <3>2. L - 1 \in Nat /\ \A i \in 1 .. L - 1 : line[i] \in Bytes
      BY <1>1, <2>1 DEF L
    <3>3. \A i \in 1 .. L - 1 : 1 + i - 1 = i
      BY <1>1
    <3> QED
      BY <3>1, <3>2, <3>3, SubSeqProperties
  <2>3. Backspace(screen) = [text |-> T, cursor |-> L]
    BY <1>1 DEF Backspace
  <2>4. Put(Backspace(screen), Space) =
          [text |-> [T EXCEPT ![L] = Space], cursor |-> L + 1]
    BY <1>1, <2>1, <2>3 DEF Put
  <2>5. screen' = [text |-> [T EXCEPT ![L] = Space], cursor |-> L]
    BY <1>1, <1>3, <2>4 DEF Backspace
  <2>6. /\ [T EXCEPT ![L] = Space] \in Seq(Glyphs)
        /\ Len([T EXCEPT ![L] = Space]) = Len(T)
        /\ \A i \in 1 .. Len(T) :
             [T EXCEPT ![L] = Space][i] = IF i = L THEN Space ELSE T[i]
    <3>1. Space \in Glyphs
      BY DEF Glyphs
    <3> QED
      BY <1>1, <2>1, <3>1
  <2>7. \A i \in 1 .. Len(T) :
          [T EXCEPT ![L] = Space][i] = IF i <= L - 1 THEN line'[i] ELSE Space
    <3> DEFINE E == [T EXCEPT ![L] = Space]
    <3> TAKE i \in 1 .. Len(T)
    <3>1. E[i] = IF i = L THEN Space ELSE T[i]
      BY <2>6
    <3>2. T[i] = IF i <= L THEN line[i] ELSE Space
      BY <1>1
    <3>3. L \in Nat /\ i \in Nat /\ i >= 1
      BY <1>1
    <3> HIDE DEF E, L, T
    <3>4. ASSUME i <= L - 1
          PROVE  E[i] = line'[i]
      <4>1. i \in 1 .. L - 1 /\ i # L /\ i <= L
        BY <3>3, <3>4
      <4> QED
        BY <2>2, <3>1, <3>2, <3>4, <4>1
    <3>5. ASSUME ~(i <= L - 1)
          PROVE  E[i] = Space
      <4>1. i = L \/ ~(i <= L)
        BY <3>3, <3>5
      <4> QED
        BY <3>1, <3>2, <3>5, <4>1
    <3>6. E[i] = IF i <= L - 1 THEN line'[i] ELSE Space
      BY <3>4, <3>5
    <3> QED
      BY <3>6 DEF E, L, T
  <2>8. /\ screen'.text = [T EXCEPT ![L] = Space] /\ screen'.cursor = L
        /\ screen' \in [text : Seq(Glyphs), cursor : Nat]
    BY <1>1, <2>5, <2>6
  <2> QED
    BY <1>1, <2>1, <2>2, <2>6, <2>7, <2>8 DEF EchoIsLine
<1>4. CASE /\ c \in Bytes /\ L < LineMax /\ line' = Append(line, c)
           /\ screen' = Put(screen, c)
  <2>1. /\ line' \in Seq(Bytes) /\ Len(line') = L + 1 /\ line'[L + 1] = c
        /\ \A i \in 1 .. L : line'[i] = line[i]
    BY <1>4, AppendFacts
  <2>2. c \in Glyphs
    BY <1>4 DEF Glyphs
  <2>3. CASE L + 1 > Len(T)
    <3>1. screen' = [text |-> Append(T, c), cursor |-> L + 2]
      BY <1>1, <1>4, <2>3 DEF Put
    <3>2. /\ Append(T, c) \in Seq(Glyphs) /\ Len(Append(T, c)) = Len(T) + 1
          /\ \A i \in 1 .. Len(T) : Append(T, c)[i] = T[i]
          /\ Append(T, c)[Len(T) + 1] = c
      BY <1>1, <2>2, AppendFacts
    <3>3. Len(T) = L
      BY <1>1, <2>3
    <3>4. \A i \in 1 .. L + 1 :
            Append(T, c)[i] = IF i <= L + 1 THEN line'[i] ELSE Space
      BY <1>1, <2>1, <3>2, <3>3
    <3>5. /\ screen'.text = Append(T, c) /\ screen'.cursor = L + 2
          /\ screen' \in [text : Seq(Glyphs), cursor : Nat]
      BY <1>1, <3>1, <3>2
    <3> QED
      BY <1>1, <1>4, <2>1, <3>2, <3>3, <3>4, <3>5, UartrxAssumption
         DEF EchoIsLine
  <2>4. CASE ~(L + 1 > Len(T))
    <3> DEFINE W == [T EXCEPT ![L + 1] = c]
    <3>1. screen' = [text |-> W, cursor |-> L + 2]
      BY <1>1, <1>4, <2>4 DEF Put
    <3>2. /\ W \in Seq(Glyphs) /\ Len(W) = Len(T)
          /\ \A i \in 1 .. Len(T) : W[i] = IF i = L + 1 THEN c ELSE T[i]
      BY <1>1, <2>2, <2>4
    <3>3. \A i \in 1 .. Len(T) : W[i] = IF i <= L + 1 THEN line'[i] ELSE Space
      BY <1>1, <2>1, <2>4, <3>2
    <3>4. /\ screen'.text = W /\ screen'.cursor = L + 2
          /\ screen' \in [text : Seq(Glyphs), cursor : Nat]
      BY <1>1, <3>1, <3>2
    <3> HIDE DEF W
    <3> QED
      BY <1>1, <1>4, <2>1, <2>4, <3>2, <3>3, <3>4, UartrxAssumption
         DEF EchoIsLine
  <2> QED
    BY <2>3, <2>4
<1> QED
  BY <1>2, <1>3, <1>4 DEF LineStep
-----------------------------------------------------------------------------
(* The steps *)

\* Next by what it does to the line and the UART; RunLine leaves both alone.
LEMMA NextIs ==
  ASSUME [Next]_vars
  PROVE  \/ \E c \in Bytes, damaged \in BOOLEAN : Arrive(c, damaged)
         \/ ReadStatus \/ ReadByte
         \/ UNCHANGED <<uartVars, uerstat, lineVars>>
  BY DEF Next, RunLine, vars

\* The byte that ReadByte takes, with the status read for it.
LEMMA ReadByteIs ==
  ASSUME TypeOK, ReadByte
  PROVE  \E b \in Byte :
           /\ rx_byte(b.c, b.error) /\ input' = Append(input, b)
           /\ uerstat = <<b.error>> /\ uerstat' = <<>>
           /\ fifo # <<>> /\ fifo' = Tail(fifo)
           /\ UNCHANGED <<overrun, losses>>
<1> DEFINE b == [c |-> Head(fifo).c, error |-> uerstat[1]]
<1>1. Len(uerstat) = 1 /\ uerstat[1] \in BOOLEAN /\ uerstat = <<uerstat[1]>>
  <2>1. uerstat = <<TRUE>> \/ uerstat = <<FALSE>>
    BY DEF TypeOK, ReadByte
  <2>2. CASE uerstat = <<TRUE>>
    BY <2>2
  <2>3. CASE uerstat = <<FALSE>>
    BY <2>3
  <2> QED
    BY <2>1, <2>2, <2>3
<1>2. fifo # <<>> /\ Head(fifo) \in Byte
  BY <1>1 DEF TypeOK
<1>3. b \in Byte
  BY <1>1, <1>2 DEF Byte
<1>4. /\ rx_byte(b.c, b.error) /\ input' = Append(input, b)
      /\ uerstat = <<b.error>> /\ uerstat' = <<>> /\ fifo' = Tail(fifo)
      /\ UNCHANGED <<overrun, losses>>
  BY <1>1 DEF ReadByte
<1> HIDE DEF b
<1> QED
  BY <1>2, <1>3, <1>4

\* What follows a byte read, for the editor and for the errors.
LEMMA ReadByteKeeps ==
  ASSUME LineInvariant, UartrxAssumption, NEW b \in Byte,
         rx_byte(b.c, b.error), input' = Append(input, b)
  PROVE  /\ LastInv'
         /\ line' \in Seq(Bytes) /\ Len(line') <= LineMax
         /\ screen' \in [text : Seq(Glyphs), cursor : Nat]
         /\ line_errors' \in BOOLEAN /\ last_was_cr' \in BOOLEAN
         /\ ran' \in Seq([line : Seq(Bytes), errors : BOOLEAN])
         /\ EchoIsLine'
<1>1. /\ input \in Seq(Byte) /\ line \in Seq(Bytes) /\ Len(line) <= LineMax
      /\ screen \in [text : Seq(Glyphs), cursor : Nat] /\ EchoIsLine
      /\ ran \in Seq([line : Seq(Bytes), errors : BOOLEAN])
      /\ line_errors \in BOOLEAN
  BY DEF LineInvariant, TypeOK
<1>2. PICK errors \in BOOLEAN : errors = (line_errors \/ b.error)
  BY <1>1 DEF Byte
<1>3. LastInv'
  <2>1. /\ Len(input') = Len(input) + 1 /\ Len(input) \in Nat
        /\ input'[Len(input) + 1] = b
    BY <1>1, AppendFacts
  <2>2. Len(input') > 0 /\ input'[Len(input')].c = b.c
    BY <2>1
  <2> QED
    BY <1>2, <2>2, RxByte DEF LastInv
<1>4. last_was_cr' \in BOOLEAN
  BY <1>2, RxByte
<1>5. CASE Ends(b.c)
  <2>1. /\ ran' = Append(ran, [line |-> line, errors |-> errors])
        /\ line' = <<>> /\ line_errors' = FALSE /\ screen' = Prompted
    BY <1>2, <1>5, RxByte
  <2>2. [line |-> line, errors |-> errors]
          \in [line : Seq(Bytes), errors : BOOLEAN]
    BY <1>1, <1>2
  <2>3. ran' \in Seq([line : Seq(Bytes), errors : BOOLEAN])
    BY <1>1, <2>1, <2>2, AppendFacts
  <2>4. line' \in Seq(Bytes) /\ Len(line') = 0 /\ 0 <= LineMax
    BY <2>1, UartrxAssumption
  <2>5. screen'.text = <<>> /\ screen'.cursor = 1 /\ <<>> \in Seq(Glyphs)
    BY <2>1 DEF Prompted
  <2>6. screen' \in [text : Seq(Glyphs), cursor : Nat]
    BY <2>1, <2>5 DEF Prompted
  <2>7. EchoIsLine'
    BY <2>4, <2>5 DEF EchoIsLine
  <2> QED
    BY <1>3, <1>4, <2>1, <2>3, <2>4, <2>6, <2>7
<1>6. CASE ~Ends(b.c)
  <2>1. ran' = ran /\ line_errors' = errors /\ LineStep(b.c)
    BY <1>2, <1>6, RxByte
  <2>2. /\ line' \in Seq(Bytes) /\ Len(line') <= LineMax
        /\ screen' \in [text : Seq(Glyphs), cursor : Nat] /\ EchoIsLine'
    BY <1>1, <2>1, UartrxAssumption, LineStepKeepsEcho
  <2> QED
    BY <1>1, <1>2, <1>3, <1>4, <2>1, <2>2
<1> QED
  BY <1>5, <1>6

\* A byte read leaves every line that has ended with its errors, and notes
\* its own for the line it belongs to.
LEMMA ReadByteKeepsErrors ==
  ASSUME LineInvariant, NEW b \in Byte,
         rx_byte(b.c, b.error), input' = Append(input, b)
  PROVE  ErrorsReported' /\ EveryErrorReported'
<1>1. PICK N : N = Len(input)
  OBVIOUS
<1>2. PICK R : R = Len(ran)
  OBVIOUS
<1>3. /\ input \in Seq(Byte) /\ LastInv /\ line_errors \in BOOLEAN
      /\ ran \in Seq([line : Seq(Bytes), errors : BOOLEAN]) /\ R \in Nat
      /\ b.error \in BOOLEAN
  BY <1>2 DEF LineInvariant, TypeOK, Byte
<1>4. /\ R = Ended(N) /\ (line_errors <=> ErrorBefore(N + 1))
      /\ \A e \in LineEnds : ran[Ended(e)].errors <=> ErrorBefore(e)
  BY <1>1, <1>2 DEF LineInvariant, ErrorsReported
<1>5. \A i \in 1 .. N : input[i].error => Reported(Ended(i - 1) + 1)
  BY <1>1 DEF LineInvariant, EveryErrorReported
<1>6. /\ N \in Nat /\ Len(input') = N + 1 /\ input'[N + 1] = b
      /\ \A i \in 1 .. N : input'[i] = input[i]
  BY <1>1, <1>3, AppendFacts
<1>7. PICK errors \in BOOLEAN : errors = (line_errors \/ b.error)
  BY <1>3
<1>8. /\ \A n \in Int : n <= N => (Ended(n))' = Ended(n)
      /\ \A n \in Int : n > N => (Ended(n))' = R + (IF Ends(b.c) THEN 1 ELSE 0)
  BY <1>1, <1>3, <1>4, EndedStep
<1>9. /\ \A e \in LineEnds : (ErrorBefore(e))' <=> ErrorBefore(e)
      /\ (ErrorBefore(N + 1))' <=> errors
      /\ (ErrorBefore(N + 2))' <=> ~Ends(b.c) /\ errors
  BY <1>1, <1>3, <1>4, <1>7, ErrorBeforeStep
<1>10. LineEnds' = IF Ends(b.c) THEN LineEnds \cup {N + 1} ELSE LineEnds
  BY <1>1, <1>3, LineEndsStep
<1>11. \A e \in LineEnds :
         /\ e \in Int /\ e <= N /\ Ended(e) \in 1 .. R /\ (Ended(e))' = Ended(e)
  <2> TAKE e \in LineEnds
  <2>1. e \in Int /\ e <= N
    BY <1>1, <1>3, LineEndsFinite
  <2>2. Ended(e) \in 1 .. R
    BY <1>1, <1>3, <1>4, EndedInRange
  <2> QED
    BY <1>8, <2>1, <2>2
<1>12. \A i \in 1 .. N :
         Ended(i - 1) \in 0 .. R /\ (Ended(i - 1))' = Ended(i - 1)
  <2> TAKE i \in 1 .. N
  <2>1. i - 1 \in Int /\ i - 1 <= N /\ N \in Int
    BY <1>6
  <2>2. Ended(i - 1) \in Nat /\ Ended(i - 1) <= Ended(N)
    BY <1>3, <2>1, EndedMonotonic
  <2> QED
    BY <1>3, <1>4, <1>8, <2>1, <2>2
<1>13. (Ended(N))' = R /\ (Ended(N + 1))' = R + (IF Ends(b.c) THEN 1 ELSE 0)
  BY <1>4, <1>6, <1>8
<1>14. \A i \in 1 .. Len(input') : i \in 1 .. N \/ i = N + 1
  BY <1>6
<1>15. (Ended(Len(input)))' = (Ended(N + 1))'
  BY <1>6 DEF Ended
<1>16. (ErrorBefore(Len(input) + 1))' <=> (ErrorBefore(N + 2))'
  <2>1. Len(input') + 1 = N + 2
    BY <1>6
  <2> QED
    BY <2>1 DEF ErrorBefore
<1>17. CASE Ends(b.c)
  <2>1. /\ ran' = Append(ran, [line |-> line, errors |-> errors])
        /\ line_errors' = FALSE
    BY <1>7, <1>17, RxByte
  <2>2. /\ Len(ran') = R + 1 /\ ran'[R + 1].errors = errors
        /\ \A n \in 1 .. R : ran'[n] = ran[n]
    <3>1. [line |-> line, errors |-> errors]
            \in [line : Seq(Bytes), errors : BOOLEAN]
      BY <1>7 DEF LineInvariant, TypeOK
    <3> QED
      BY <1>2, <1>3, <2>1, <3>1, AppendFacts
  <2>3. \A e \in LineEnds' : ran'[(Ended(e))'].errors <=> (ErrorBefore(e))'
    <3> TAKE e \in LineEnds'
    <3>1. CASE e \in LineEnds
      BY <1>4, <1>9, <1>11, <2>2, <3>1
    <3>2. CASE e = N + 1
      BY <1>9, <1>13, <1>17, <2>2, <3>2
    <3> QED
      BY <1>10, <1>17, <3>1, <3>2
  <2>4. ErrorsReported'
    BY <1>9, <1>13, <1>15, <1>16, <1>17, <2>1, <2>2, <2>3 DEF ErrorsReported
  <2>5. ASSUME NEW i \in 1 .. Len(input'), input'[i].error
        PROVE  (Reported(Ended(i - 1) + 1))'
    <3>1. CASE i = N + 1
      <4>1. i - 1 = N /\ b.error
        BY <1>6, <2>5, <3>1
      <4>2. (Ended(i - 1))' = R
        BY <1>13, <4>1
      <4>3. ran'[R + 1].errors
        BY <1>7, <2>2, <4>1
      <4> QED
        BY <1>3, <2>2, <4>2, <4>3 DEF Reported
    <3>2. CASE i \in 1 .. N
      <4>1. Reported(Ended(i - 1) + 1) /\ Ended(i - 1) \in 0 .. R
            /\ (Ended(i - 1))' = Ended(i - 1)
        BY <1>5, <1>6, <1>12, <2>5, <3>2
      <4>2. CASE Ended(i - 1) = R
        <5>1. line_errors
          BY <1>2, <1>3, <4>1, <4>2 DEF Reported
        <5>2. ran'[R + 1].errors
          BY <1>7, <2>2, <5>1
        <5> QED
          BY <1>3, <2>2, <4>1, <4>2, <5>2 DEF Reported
      <4>3. CASE Ended(i - 1) # R
        <5>1. Ended(i - 1) + 1 \in 1 .. R
          BY <1>3, <4>1, <4>3
        <5>2. ran[Ended(i - 1) + 1].errors
          BY <1>2, <4>1, <5>1 DEF Reported
        <5> QED
          BY <1>3, <2>2, <4>1, <5>1, <5>2 DEF Reported
      <4> QED
        BY <4>2, <4>3
    <3> QED
      BY <1>14, <3>1, <3>2
  <2> QED
    BY <2>4, <2>5 DEF EveryErrorReported
<1>18. CASE ~Ends(b.c)
  <2>1. ran' = ran /\ line_errors' = errors
    BY <1>7, <1>18, RxByte
  <2>2. \A e \in LineEnds' : ran'[(Ended(e))'].errors <=> (ErrorBefore(e))'
    BY <1>4, <1>9, <1>10, <1>11, <1>18, <2>1
  <2>3. line_errors' <=> (ErrorBefore(N + 2))'
    BY <1>9, <1>18, <2>1
  <2>4. Len(ran') = (Ended(N + 1))'
    BY <1>2, <1>3, <1>13, <1>18, <2>1
  <2>5. ErrorsReported'
    BY <1>15, <1>16, <2>2, <2>3, <2>4 DEF ErrorsReported
  <2>6. ASSUME NEW i \in 1 .. Len(input'), input'[i].error
        PROVE  (Reported(Ended(i - 1) + 1))'
    <3>1. CASE i = N + 1
      <4>1. i - 1 = N /\ b.error
        BY <1>6, <2>6, <3>1
      <4>2. (Ended(i - 1))' = R
        BY <1>13, <4>1
      <4>3. line_errors'
        BY <1>7, <2>1, <4>1
      <4> QED
        BY <1>2, <1>3, <2>1, <4>2, <4>3 DEF Reported
    <3>2. CASE i \in 1 .. N
      <4>1. Reported(Ended(i - 1) + 1) /\ Ended(i - 1) \in 0 .. R
            /\ (Ended(i - 1))' = Ended(i - 1)
        BY <1>5, <1>6, <1>12, <2>6, <3>2
      <4>2. line_errors => line_errors'
        BY <1>7, <2>1
      <4> QED
        BY <2>1, <4>1, <4>2 DEF Reported
    <3> QED
      BY <1>14, <3>1, <3>2
  <2> QED
    BY <2>5, <2>6 DEF EveryErrorReported
<1> QED
  BY <1>17, <1>18

\* A byte that arrives: the FIFO takes it, or it is lost and the overrun noted.
LEMMA ArriveKeeps ==
  ASSUME TypeOK, LossInv, UartrxAssumption, NEW c \in Bytes,
         NEW damaged \in BOOLEAN, Arrive(c, damaged)
  PROVE  /\ fifo' \in Seq(Byte) /\ Len(fifo') <= FifoDepth
         /\ overrun' \in BOOLEAN /\ Len(uerstat) <= Len(fifo')
         /\ losses' \subseteq [taken : Nat, next : Nat]
         /\ UNCHANGED <<uerstat, lineVars>> /\ LossInv'
<1>1. /\ fifo \in Seq(Byte) /\ Len(fifo) <= FifoDepth /\ overrun \in BOOLEAN
      /\ Len(uerstat) <= Len(fifo) /\ losses \subseteq [taken : Nat, next : Nat]
      /\ Len(input) \in Nat /\ Len(uerstat) \in Nat /\ FifoDepth \in Nat \ {0}
      /\ Len(fifo) \in Nat
  BY UartrxAssumption DEF TypeOK
<1>2. UNCHANGED <<uerstat, lineVars>>
  BY DEF Arrive
<1>3. uerstat' = uerstat /\ input' = input
  BY <1>2 DEF lineVars
<1>4. CASE Len(fifo) < FifoDepth
  <2>1. /\ fifo' = Append(fifo, [c |-> c, error |-> damaged])
        /\ overrun' = overrun /\ losses' = losses
    BY <1>4 DEF Arrive
  <2>2. [c |-> c, error |-> damaged] \in Byte
    BY DEF Byte
  <2>3. fifo' \in Seq(Byte) /\ Len(fifo') = Len(fifo) + 1
    BY <1>1, <2>1, <2>2, AppendFacts
  <2>4. LossInv'
    BY <1>3, <2>1 DEF LossInv, Seen, StatusSet
  <2> QED
    BY <1>1, <1>2, <1>4, <2>1, <2>3, <2>4
<1>5. CASE ~(Len(fifo) < FifoDepth)
  <2> DEFINE new == [taken |-> Len(input), next |-> Len(input) + Len(fifo) + 1]
  <2>1. fifo' = fifo /\ overrun' = TRUE /\ losses' = losses \cup {new}
    BY <1>5 DEF Arrive
  <2>2. /\ new \in [taken : Nat, next : Nat] /\ new.taken = Len(input)
        /\ new.next = Len(input) + Len(fifo) + 1
    BY <1>1
  <2>3. Len(input) + Len(uerstat) < new.next
    BY <1>1, <2>2
  <2> HIDE DEF new
  <2>4. ASSUME NEW l \in losses'
        PROVE  /\ l.taken <= Len(input)
               /\ \/ Seen(l)
                  \/ Len(input) + Len(uerstat) < l.next
                  \/ StatusSet /\ Len(input) < l.next
    <3>1. CASE l \in losses
      BY <3>1 DEF LossInv
    <3>2. CASE l = new
      BY <1>1, <2>2, <2>3, <3>2
    <3> QED
      BY <2>1, <3>1, <3>2
  <2>5. LossInv'
    BY <1>3, <2>1, <2>4 DEF LossInv, Seen, StatusSet
  <2> QED
    BY <1>1, <1>2, <2>1, <2>2, <2>5
<1> QED
  BY <1>4, <1>5

\* Reading UERSTAT moves a noted overrun to the byte about to be read.
LEMMA ReadStatusKeeps ==
  ASSUME TypeOK, LossInv, ReadStatus
  PROVE  /\ uerstat' \in {<<>>, <<TRUE>>, <<FALSE>>}
         /\ Len(uerstat') <= Len(fifo) /\ overrun' \in BOOLEAN
         /\ UNCHANGED <<fifo, losses, lineVars>> /\ LossInv'
<1>1. /\ fifo \in Seq(Byte) /\ fifo # <<>> /\ uerstat = <<>>
      /\ overrun \in BOOLEAN /\ overrun' = FALSE
      /\ UNCHANGED <<fifo, losses, lineVars>>
      /\ uerstat' = <<Head(fifo).error \/ overrun>>
  BY DEF ReadStatus, TypeOK
<1>2. PICK error \in BOOLEAN : error = (Head(fifo).error \/ overrun)
  BY <1>1
<1>3. uerstat' = <<error>> /\ Len(uerstat') = 1
  BY <1>1, <1>2
<1>4. uerstat' \in {<<>>, <<TRUE>>, <<FALSE>>}
  BY <1>2, <1>3
<1>5. Len(fifo) >= 1 /\ Len(uerstat) = 0 /\ Len(input) \in Nat
  BY <1>1 DEF TypeOK
<1>6. overrun => StatusSet'
  BY <1>2, <1>3 DEF StatusSet
<1>7. losses' = losses /\ input' = input
  BY <1>1 DEF lineVars
<1>8. ASSUME NEW l \in losses
      PROVE  /\ l.taken <= Len(input)
             /\ Seen(l) \/ (StatusSet' /\ Len(input) < l.next)
  <2>1. ~StatusSet
    BY <1>1 DEF StatusSet
  <2>2. Len(input) + Len(uerstat) = Len(input)
    BY <1>5
  <2> QED
    BY <1>6, <2>1, <2>2 DEF LossInv
<1>9. LossInv'
  BY <1>7, <1>8 DEF LossInv, Seen
<1> QED
  BY <1>1, <1>3, <1>4, <1>5, <1>9

\* A status that is set.
LEMMA SetStatus ==
  ASSUME NEW x \in BOOLEAN, <<x>> = <<TRUE>>
  PROVE  x
  OBVIOUS

\* A byte read with the overrun in its status is the error that was missing.
LEMMA ReadByteKeepsLosses ==
  ASSUME TypeOK, LossInv, NEW b \in Byte, input' = Append(input, b),
         uerstat = <<b.error>>, uerstat' = <<>>, UNCHANGED <<overrun, losses>>
  PROVE  LossInv'
<1>1. PICK N : N = Len(input)
  OBVIOUS
<1>2. /\ N \in Nat /\ Len(input') = N + 1 /\ input'[N + 1] = b
      /\ \A i \in 1 .. N : input'[i] = input[i]
  BY <1>1, AppendFacts DEF TypeOK
<1>3. Len(uerstat) = 1 /\ Len(uerstat') = 0
  OBVIOUS
<1>4. losses' = losses /\ overrun' = overrun
  OBVIOUS
<1>5. StatusSet => b.error
  <2>1. b.error \in BOOLEAN /\ uerstat = <<b.error>>
    BY DEF Byte
  <2> QED
    BY <2>1, SetStatus DEF StatusSet
<1>6. ASSUME NEW l \in losses
      PROVE  /\ l.taken <= N + 1
             /\ \/ (Seen(l))'
                \/ overrun /\ N + 1 < l.next
  <2>1. l.taken \in Nat /\ l.next \in Nat /\ l.taken <= N
    BY <1>1 DEF TypeOK, LossInv
  <2>2. CASE Seen(l)
    <3>1. \A i \in 1 .. N : i \in 1 .. N + 1
      BY <1>2
    <3>2. (Seen(l))'
      BY <1>1, <1>2, <2>2, <3>1 DEF Seen
    <3> QED
      BY <1>2, <2>1, <3>2
  <2>3. CASE overrun /\ N + 1 < l.next
    BY <1>2, <2>1, <2>3
  <2>4. CASE StatusSet /\ N < l.next
    <3>1. N + 1 \in 1 .. N + 1 /\ l.taken < N + 1 /\ N + 1 <= l.next
      BY <1>2, <2>1, <2>4
    <3>2. input'[N + 1].error
      BY <1>2, <1>5, <2>4
    <3>3. (Seen(l))'
      BY <1>2, <3>1, <3>2 DEF Seen
    <3> QED
      BY <1>2, <2>1, <3>3
  <2>5. N + Len(uerstat) = N + 1
    BY <1>3
  <2> QED
    BY <1>1, <2>2, <2>3, <2>4, <2>5 DEF LossInv
<1>7. Len(input') = N + 1 /\ Len(input') + Len(uerstat') = N + 1
  BY <1>2, <1>3
<1> QED
  BY <1>4, <1>6, <1>7 DEF LossInv
-----------------------------------------------------------------------------
(* The theorems *)

\* The invariant of the receive loop and the line editor is inductive.
THEOREM LineInvariantHolds == Spec => []LineInvariant
<1> USE UartrxAssumption
<1>1. Init => LineInvariant
  <2> SUFFICES ASSUME Init PROVE LineInvariant
    OBVIOUS
  <2>1. /\ input = <<>> /\ ran = <<>> /\ line = <<>> /\ fifo = <<>>
        /\ losses = {} /\ uerstat = <<>> /\ screen = Prompted
        /\ overrun = FALSE /\ line_errors = FALSE /\ last_was_cr = FALSE
    BY DEF Init
  <2>2. screen.text = <<>> /\ screen.cursor = 1
    BY <2>1 DEF Prompted
  <2>3. screen \in [text : Seq(Glyphs), cursor : Nat]
    BY <2>1 DEF Prompted
  <2>4. TypeOK
    <3>1. Len(<<>>) = 0 /\ 0 <= FifoDepth /\ 0 <= LineMax /\ 0 <= 0
      OBVIOUS
    <3>2. /\ <<>> \in Seq(Byte) /\ <<>> \in Seq(Bytes)
          /\ <<>> \in Seq([line : Seq(Bytes), errors : BOOLEAN])
      OBVIOUS
    <3> QED
      BY <2>1, <2>3, <3>1, <3>2 DEF TypeOK
  <2>5. LastInv /\ LossInv /\ EveryErrorReported
    BY <2>1 DEF LastInv, LossInv, EveryErrorReported
  <2>6. EchoIsLine
    BY <2>1, <2>2 DEF EchoIsLine
  <2>7. LineEnds = {}
    BY <2>1 DEF LineEnds
  <2>8. Ended(Len(input)) = 0
    <3>1. {e \in LineEnds : e <= Len(input)} = {}
      BY <2>7
    <3> QED
      BY <3>1, FS_EmptySet DEF Ended
  <2>9. ~ErrorBefore(Len(input) + 1)
    BY <2>1 DEF ErrorBefore
  <2>10. ErrorsReported
    BY <2>1, <2>7, <2>8, <2>9 DEF ErrorsReported
  <2> QED
    BY <2>4, <2>5, <2>6, <2>10 DEF LineInvariant
<1>2. LineInvariant /\ [Next]_vars => LineInvariant'
  <2> SUFFICES ASSUME LineInvariant, [Next]_vars PROVE LineInvariant'
    OBVIOUS
  <2>1. TypeOK /\ LossInv
    BY DEF LineInvariant
  <2>2. ASSUME UNCHANGED lineVars
        PROVE  /\ LastInv' /\ EchoIsLine' /\ ErrorsReported'
               /\ EveryErrorReported'
    <3>1. /\ line' = line /\ line_errors' = line_errors
          /\ last_was_cr' = last_was_cr /\ screen' = screen /\ ran' = ran
          /\ input' = input
      BY <2>2 DEF lineVars
    <3>2. LineEnds' = LineEnds
      BY <3>1 DEF LineEnds
    <3> QED
      BY <3>1, <3>2 DEF LineInvariant, LastInv, EchoIsLine, ErrorsReported,
         EveryErrorReported, Reported, Ended, ErrorBefore
  <2>3. ASSUME NEW c \in Bytes, NEW damaged \in BOOLEAN, Arrive(c, damaged)
        PROVE  LineInvariant'
    <3>1. /\ fifo' \in Seq(Byte) /\ Len(fifo') <= FifoDepth
          /\ overrun' \in BOOLEAN /\ Len(uerstat) <= Len(fifo')
          /\ losses' \subseteq [taken : Nat, next : Nat]
          /\ UNCHANGED <<uerstat, lineVars>> /\ LossInv'
      BY <2>1, <2>3, ArriveKeeps
    <3>2. TypeOK'
      BY <2>1, <3>1 DEF TypeOK, lineVars
    <3> QED
      BY <2>2, <3>1, <3>2 DEF LineInvariant
  <2>4. ASSUME ReadStatus PROVE LineInvariant'
    <3>1. /\ uerstat' \in {<<>>, <<TRUE>>, <<FALSE>>}
          /\ Len(uerstat') <= Len(fifo) /\ overrun' \in BOOLEAN
          /\ UNCHANGED <<fifo, losses, lineVars>> /\ LossInv'
      BY <2>1, <2>4, ReadStatusKeeps
    <3>2. TypeOK'
      BY <2>1, <3>1 DEF TypeOK, lineVars
    <3> QED
      BY <2>2, <3>1, <3>2 DEF LineInvariant
  <2>5. ASSUME ReadByte PROVE LineInvariant'
    <3>1. PICK b \in Byte :
            /\ rx_byte(b.c, b.error) /\ input' = Append(input, b)
            /\ uerstat = <<b.error>> /\ uerstat' = <<>>
            /\ fifo # <<>> /\ fifo' = Tail(fifo)
            /\ UNCHANGED <<overrun, losses>>
      BY <2>1, <2>5, ReadByteIs
    <3>2. /\ LastInv' /\ EchoIsLine'
          /\ line' \in Seq(Bytes) /\ Len(line') <= LineMax
          /\ screen' \in [text : Seq(Glyphs), cursor : Nat]
          /\ line_errors' \in BOOLEAN /\ last_was_cr' \in BOOLEAN
          /\ ran' \in Seq([line : Seq(Bytes), errors : BOOLEAN])
      BY <3>1, ReadByteKeeps
    <3>3. ErrorsReported' /\ EveryErrorReported'
      BY <3>1, ReadByteKeepsErrors
    <3>4. LossInv'
      BY <2>1, <3>1, ReadByteKeepsLosses
    <3>5. /\ fifo' \in Seq(Byte) /\ Len(fifo') = Len(fifo) - 1
          /\ Len(fifo) \in Nat /\ Len(fifo) > 0
      BY <2>1, <3>1 DEF TypeOK
    <3>6. input' \in Seq(Byte)
      BY <2>1, <3>1, AppendFacts DEF TypeOK
    <3>7. TypeOK'
      BY <2>1, <3>1, <3>2, <3>5, <3>6 DEF TypeOK
    <3> QED
      BY <3>2, <3>3, <3>4, <3>7 DEF LineInvariant
  <2>6. ASSUME UNCHANGED <<uartVars, uerstat, lineVars>> PROVE LineInvariant'
    <3>1. TypeOK'
      BY <2>1, <2>6 DEF TypeOK, lineVars, uartVars
    <3>2. LossInv'
      BY <2>1, <2>6 DEF LossInv, Seen, StatusSet, lineVars, uartVars
    <3> QED
      BY <2>2, <2>6, <3>1, <3>2 DEF LineInvariant
  <2> QED
    BY <2>3, <2>4, <2>5, <2>6, NextIs
<1> QED
  BY <1>1, <1>2, PTL DEF Spec

\* The line buffer is never written past its end, however much is typed
\* (uartrx.c: add_char).
THEOREM LineFitsBuffer == Spec => []LineFits
<1>1. LineInvariant => LineFits
  BY DEF LineInvariant, TypeOK, LineFits
<1> QED
  BY <1>1, LineInvariantHolds, PTL

\* What the terminal shows is the line that will run (uartrx.c: add_char,
\* erase_char).
THEOREM TypistSeesTheLine == Spec => []EchoIsLine
<1>1. LineInvariant => EchoIsLine
  BY DEF LineInvariant
<1> QED
  BY <1>1, LineInvariantHolds, PTL

\* Every line reports exactly the receive errors of its own bytes (uartrx.c:
\* rx_byte, end_line).
THEOREM LinesReportTheirErrors == Spec => []ErrorsReported
<1>1. LineInvariant => ErrorsReported
  BY DEF LineInvariant
<1> QED
  BY <1>1, LineInvariantHolds, PTL

\* No byte is lost unnoticed, also when it is lost between the read of
\* UERSTAT and the read of the byte (uartrx.c: rx_poll_forever).
THEOREM NoLossUnnoticed == Spec => []LossReported
<1>1. LineInvariant => LossReported
  <2> SUFFICES ASSUME LineInvariant, NEW l \in losses, l.next <= Len(input)
               PROVE  \E n \in (Ended(l.taken) + 1) .. (Ended(l.next - 1) + 1) :
                        Reported(n)
    BY DEF LossReported, Reported
  <2>1. /\ input \in Seq(Byte) /\ l.taken \in Nat /\ l.next \in Nat
        /\ Len(input) \in Nat /\ Len(uerstat) \in Nat
    BY DEF LineInvariant, TypeOK
  <2>2. PICK i \in 1 .. Len(input) :
          l.taken < i /\ i <= l.next /\ input[i].error
    <3>1. \/ Seen(l)
          \/ Len(input) + Len(uerstat) < l.next
          \/ Len(input) < l.next
      BY DEF LineInvariant, LossInv
    <3>2. Seen(l)
      BY <2>1, <3>1
    <3> QED
      BY <3>2 DEF Seen
  <2>3. Reported(Ended(i - 1) + 1)
    BY <2>2 DEF LineInvariant, EveryErrorReported
  <2>4. /\ l.taken \in Int /\ i - 1 \in Int /\ l.next - 1 \in Int
        /\ l.taken <= i - 1 /\ i - 1 <= l.next - 1
    BY <2>1, <2>2
  <2>5. /\ Ended(l.taken) \in Nat /\ Ended(i - 1) \in Nat
        /\ Ended(l.taken) <= Ended(i - 1)
    BY <2>1, <2>4, EndedMonotonic
  <2>6. Ended(l.next - 1) \in Nat /\ Ended(i - 1) <= Ended(l.next - 1)
    BY <2>1, <2>4, EndedMonotonic
  <2>7. Ended(i - 1) + 1 \in (Ended(l.taken) + 1) .. (Ended(l.next - 1) + 1)
    BY <2>5, <2>6
  <2> QED
    BY <2>3, <2>7
<1> QED
  BY <1>1, LineInvariantHolds, PTL
=============================================================================
