------------------------------ MODULE Compress ------------------------------
(***************************************************************************)
(* The tool that turns a text proof into a binary one and back.  It finds    *)
(* out by itself which of the two it reads, and whether the proof is DSR or  *)
(* LSR, then copies it number by number.  Here it runs twice, the second     *)
(* time on its own output, and either file may have been cut short.          *)
(*                                                                         *)
(* A file of text is a sequence of numbers, of D and G for the letters that  *)
(* mark deletions and global units, and of NewLine; a binary file is a       *)
(* sequence of bytes.  In a build with LONGTYPE, identifiers are longer than *)
(* literals and are read by another function.                               *)
(***************************************************************************)
EXTENDS Codec

CONSTANTS
  D, G, NewLine,
  TextFiles,     (* Well-formed text proofs, one line each per proof line.   *)
  MaxOutput      (* Bound on the size of a file that is written.             *)

VARIABLES
  original,      (* The text proof.                                         *)
  long,          (* Built with LONGTYPE.                                    *)
  cut,           (* The pass that read a file cut short, 0 if none did.      *)
  file,          (* The file that is read: whether it is text, its content.  *)
  pos,           (* What is to be read next.                                *)
  out,           (* The content that is written; its format is the other.    *)
  dsr,           (* is_dsr                                                  *)
  zeros_left,
  pass,          (* 1 or 2.                                                 *)
  pc

vars == <<original, long, cut, file, pos, out, dsr, zeros_left, pass, pc>>

Letters == {D, G}

LineStarts == 1..6

AtEnd(p) == p > Len(file.data)

(* A file is cut before its last line ends, or not at all.                   *)
Cuts(f) == {f} \cup {[f EXCEPT !.data = SubSeq(@, 1, n)] : n \in 0..Len(f.data) - 1}

Init ==
  /\ original \in TextFiles
  /\ long \in BOOLEAN
  /\ file \in Cuts([text |-> TRUE, data |-> original])
  /\ cut = IF file.data = original THEN 0 ELSE 1
  /\ pos = 1 /\ out = << >> /\ dsr = FALSE /\ zeros_left = 0
  /\ pass = 1 /\ pc = "configure"

-----------------------------------------------------------------------------
(* Reading.  A read gives a number and the place after it, or Failed, which  *)
(* is a fatal error.                                                        *)

Failed == [n |-> 0, next |-> 0]

(* Reading skips white space.                                               *)
SkipSpace(p) ==
  IF ~file.text THEN p
  ELSE CHOOSE k \in p..Len(file.data) + 1 :
         /\ \A m \in p..k - 1 : file.data[m] = NewLine
         /\ k <= Len(file.data) => file.data[k] # NewLine

ReadText(p) ==
  LET k == SkipSpace(p)
  IN  IF AtEnd(k) \/ file.data[k] \in Letters THEN Failed
      ELSE [n |-> file.data[k], next |-> k + 1]

LastByte(p) == SelectInSubSeq(file.data, p, Len(file.data), LAMBDA b : b < Groups)

EOF == -1

(* Variants: the end of the file is read as a number.                        *)
EndIsZero(p) == [n |-> 0, next |-> Len(file.data) + 1]
EndIsEOF(p) == [n |-> EOF, next |-> p]

(* The end of the file in a literal is a fatal error.                        *)
EndInLit(p) == Failed

ReadLitBinary(p) ==
  LET last == LastByte(p)
  IN  IF last = 0 THEN EndInLit(p)
      ELSE [n |-> Decoded(SubSeq(file.data, p, last), IntBits), next |-> last + 1]

(* read_clause_id_binary() with LONGTYPE: the end of the file is the number
   -1, or the last group of one.                                            *)
ReadLongBinary(p) ==
  LET last == LastByte(p)
  IN  IF AtEnd(p) THEN [n |-> EOF, next |-> p]
      ELSE IF last = 0
      THEN [n |-> Decoded(SubSeq(file.data, p, Len(file.data)) \o <<Groups - 1>>, LongBits),
            next |-> Len(file.data) + 1]
      ELSE [n |-> Decoded(SubSeq(file.data, p, last), LongBits), next |-> last + 1]

ReadLit(p) == IF file.text THEN ReadText(p) ELSE ReadLitBinary(p)

ReadClauseId(p) ==
  IF file.text THEN ReadText(p) ELSE IF long THEN ReadLongBinary(p) ELSE ReadLitBinary(p)

(* Where the line at p starts: its kind, its identifier in an LSR proof.      *)
KindOfLetter(p) ==
  CASE file.data[p] = D -> "DELETION" [] file.data[p] = G -> "GLOBAL_UNIT"
    [] OTHER -> "ADDITION"

AfterLetter(p) == IF file.data[p] \in Letters THEN p + 1 ELSE p

KindOfByte(b) ==
  CASE b \in {1, 3} -> "ADDITION" [] b \in {2, 4} -> "DELETION" [] OTHER -> "GLOBAL_UNIT"

BytesOfFormat == IF dsr THEN {1, 2, 5} ELSE {3, 4, 6}

BadStart == [kind |-> "FATAL", id |-> 0, next |-> 0]

ReadLineStart(p) ==
  LET id == IF ~file.text THEN ReadClauseId(p + 1) ELSE ReadText(p)
      letter == SkipSpace(id.next)
  IN  IF ~file.text
      THEN IF file.data[p] \notin BytesOfFormat THEN BadStart
           ELSE IF dsr THEN [kind |-> KindOfByte(file.data[p]), id |-> 0, next |-> p + 1]
           ELSE IF id.n <= 0 THEN BadStart
           ELSE [kind |-> KindOfByte(file.data[p]), id |-> id.n, next |-> id.next]
      ELSE IF dsr THEN [kind |-> KindOfLetter(p), id |-> 0, next |-> AfterLetter(p)]
      ELSE IF id.n <= 0 \/ AtEnd(letter) THEN BadStart
      ELSE [kind |-> KindOfLetter(letter), id |-> id.n, next |-> AfterLetter(letter)]

(* is_dsr_proof(): "dsr", "lsr" or a fatal error.  A line of text starts with
   an identifier if it has two zeros.                                       *)
KindOfProof ==
  LET first == SkipSpace(1)
      second == SkipSpace(first + 1)
      end == SelectInSubSeq(file.data, second, Len(file.data), LAMBDA s : s = NewLine)
      line == second..(IF end = 0 THEN Len(file.data) ELSE end - 1)
      zeros == Cardinality({k \in line : file.data[k] = 0})
  IN  IF AtEnd(first) THEN "FATAL"
      ELSE IF ~file.text
      THEN CASE file.data[1] \in {1, 2} -> "dsr" [] file.data[1] \in {3, 4} -> "lsr"
             [] OTHER -> "FATAL"
      ELSE IF file.data[first] = D \/ file.data[first] = 0 THEN "dsr"
      ELSE IF file.data[first] = G \/ AtEnd(second) THEN "FATAL"
      ELSE IF file.data[second] = D THEN "lsr"
      ELSE IF \E k \in line : file.data[k] \in Letters THEN "FATAL"
      ELSE CASE zeros = 1 -> "dsr" [] zeros = 2 -> "lsr" [] OTHER -> "FATAL"

-----------------------------------------------------------------------------
(* Writing, in the other format.                                            *)

LitSymbols(n) == IF file.text THEN Encoded(n, IntBits) ELSE <<n>>

IdSymbols(n) ==
  IF file.text THEN Encoded(n, IF long THEN LongBits ELSE IntBits) ELSE <<n>>

LineEnd == IF file.text THEN Encoded(0, IntBits) ELSE <<0, NewLine>>

(* A global unit line is written as a deletion line.                        *)
LineStart(kind, id) ==
  LET byte == (IF dsr THEN 1 ELSE 3) + (IF kind = "ADDITION" THEN 0 ELSE 1)
      letter == IF kind = "ADDITION" THEN << >> ELSE <<D>>
  IN  IF file.text THEN <<byte>> \o (IF dsr THEN << >> ELSE IdSymbols(id))
      ELSE (IF dsr THEN << >> ELSE <<id>>) \o letter

Write(s) == out' = IF Len(out) + Len(s) <= MaxOutput THEN out \o s ELSE out

-----------------------------------------------------------------------------

Configure ==
  /\ pc = "configure"
  /\ dsr' = (KindOfProof = "dsr")
  /\ pc' = IF KindOfProof = "FATAL" THEN "FATAL" ELSE "line"
  /\ UNCHANGED <<original, long, cut, file, pos, out, zeros_left, pass>>

(* has_another_line()                                                       *)
EndOfProof ==
  /\ pc = "line" /\ AtEnd(SkipSpace(pos))
  /\ pc' = "done"
  /\ UNCHANGED <<original, long, cut, file, pos, out, dsr, zeros_left, pass>>

StartLine ==
  /\ pc = "line" /\ ~AtEnd(SkipSpace(pos))
  /\ LET start == ReadLineStart(SkipSpace(pos))
     IN  IF start.kind = "FATAL" THEN pc' = "FATAL" /\ UNCHANGED <<pos, out, zeros_left>>
         ELSE /\ pos' = start.next
              /\ Write(LineStart(start.kind, start.id))
              /\ zeros_left' = IF ~dsr /\ start.kind = "ADDITION" THEN 2 ELSE 1
              /\ pc' = "numbers"
  /\ UNCHANGED <<original, long, cut, file, dsr, pass>>

(* Numbers of the clause of an LSR line are literals, all others are
   identifiers, those of a DSR proof too.                                   *)
IsLiteral == zeros_left = 2

Number == IF IsLiteral THEN ReadLit(pos) ELSE ReadClauseId(pos)

CopyNumber ==
  /\ pc = "numbers" /\ Number # Failed /\ (Number.n # 0 \/ IsLiteral)
  /\ pos' = Number.next
  /\ Write(IF IsLiteral THEN LitSymbols(Number.n) ELSE IdSymbols(Number.n))
  /\ zeros_left' = IF Number.n = 0 THEN zeros_left - 1 ELSE zeros_left
  /\ UNCHANGED <<original, long, cut, file, dsr, pass, pc>>

EndLine ==
  /\ pc = "numbers" /\ Number # Failed /\ Number.n = 0 /\ ~IsLiteral
  /\ pos' = Number.next
  /\ Write(LineEnd)
  /\ zeros_left' = 0
  /\ pc' = "line"
  /\ UNCHANGED <<original, long, cut, file, dsr, pass>>

RefuseNumber ==
  /\ pc = "numbers" /\ Number = Failed
  /\ pc' = "FATAL"
  /\ UNCHANGED <<original, long, cut, file, pos, out, dsr, zeros_left, pass>>

(* The tool runs again, on what it wrote.                                   *)
RunAgain ==
  /\ pc = "done" /\ pass = 1
  /\ \E f \in Cuts([text |-> ~file.text, data |-> out]) :
       /\ file' = f
       /\ \/ f.data = out /\ UNCHANGED cut
          \/ f.data # out /\ cut = 0 /\ cut' = 2
  /\ pos' = 1 /\ out' = << >> /\ dsr' = FALSE /\ zeros_left' = 0
  /\ pass' = 2 /\ pc' = "configure"
  /\ UNCHANGED <<original, long>>

Exited ==
  /\ pc = "FATAL" \/ (pc = "done" /\ pass = 2)
  /\ UNCHANGED vars

Next ==
  \/ Configure \/ EndOfProof \/ StartLine \/ CopyNumber \/ EndLine \/ RefuseNumber
  \/ RunAgain \/ Exited

(* One thread copies as long as it can, and the tool is run again.           *)
Spec == Init /\ [][Next]_vars /\ WF_vars(Next)

-----------------------------------------------------------------------------
(* Properties.                                                              *)

(* Numbers that a literal, or in a longer build an identifier, can hold, and
   no global unit line, which compress.c does not keep, see the README.     *)
Translatable ==
  \A n \in ToSet(original) \ {D, NewLine} :
    n # G /\ (Representable(n, IntBits) \/ (long /\ Representable(n, LongBits)))

(* A proof that is compressed and then decompressed is the proof it was:
   format, kind of proof and build are told apart by the content alone, and
   numbers of the same line are read by functions of different widths.       *)
RoundTrip ==
  Translatable /\ cut = 0 =>
    /\ pc # "FATAL"
    /\ pc = "done" /\ pass = 2 => out = original

(* A first line of LSR text that was cut at the first of its two zeros is a
   line of DSR.                                                             *)
Mistaken ==
  LET zeros == {k \in 1..Len(original) : original[k] = 0 /\ NewLine \notin {original[m] : m \in 1..k}}
  IN  cut = 1 /\ dsr /\ original[1] # D /\ Cardinality(zeros) = 2

(* Of a file cut short the lines that are whole are kept, or nothing is: no
   line with numbers missing or made up ends up in a proof.                  *)
CutKeepsWholeLines ==
  [][ Translatable /\ ~Mistaken /\ pc = "line" /\ pass = 2 /\ pc' = "done"
        => IsPrefix(out, original) ]_vars

(* The tool ends, even on a file that was cut short.  In a LONGTYPE build it
   reads the end of a binary file as the number -1 for ever, see the README. *)
Termination ==
  <>(pc = "FATAL" \/ (pc = "done" /\ pass = 2) \/ (long /\ cut = 2 /\ pass = 2))
=============================================================================
