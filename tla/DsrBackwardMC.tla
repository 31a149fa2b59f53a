--------------------------- MODULE DsrBackwardMC ---------------------------
(***************************************************************************)
(* Small CNF formulas and parsed DSR proofs for DsrBackward.                *)
(***************************************************************************)
EXTENDS DsrBackward

CONSTANT MaxLines   (* Bound on the addition lines of a proof.              *)

Variables == 1..5

(* A line whose witness sets the pivot p, the literals tt and the pairs map. *)
Line(C, p, tt, map) == [clause |-> C, witness |-> [pivot |-> p, tt |-> tt, map |-> map]]

Clausal(C) == Line(C, C[1], << >>, << >>)

Pair(l, m) == [from |-> l, to |-> m]

(***************************************************************************)
(* Formulas that are satisfiable, or that unit propagation refutes only with *)
(* the help of lines, each with the lines its proofs are made of.  No clause *)
(* is in a proof twice.                                                     *)
(***************************************************************************)
Instances ==
  { [cnf |-> << <<-1, 2>>, <<-1, -2>>, <<1, 3>> >>,
     lines |-> {Clausal(<<-1>>), Clausal(<<1, 2>>), Clausal(<<1>>),
                Line(<<-2, -3>>, -2, <<1>>, << >>)}],
    [cnf |-> << <<1, 2>>, <<-1, 3>>, <<-2, 3>>, <<-1, -3>>, <<1, -2, -3>> >>,
     lines |-> {Clausal(<<3>>), Clausal(<<-1, 2>>), Clausal(<<1>>),
                Line(<<-1, -2>>, -1, << >>, <<Pair(2, 3)>>)}],
    [cnf |-> << <<1, 2, 3>>, <<-1, 2>>, <<-2, 3>>, <<1, -3>>, <<-1, -2, -3>> >>,
     lines |-> {Clausal(<<1>>), Clausal(<<2, 3>>), Clausal(<<1, 2>>),
                Line(<<1, 2>>, 2, << >>, <<Pair(1, 3), Pair(3, 1)>>)}],
    [cnf |-> << <<-1, 2, 3>>, <<-1, 5>>, <<-1, -2, 4>>, <<2, 4>>, <<3, -4>>, <<-3, -4>>,
                <<-2, 4>> >>,
     lines |-> {Clausal(<<1>>), Line(<<1>>, 1, <<5>>, << >>), Clausal(<<2>>),
                Line(<<1, -4>>, 1, <<3, 5>>, << >>)}],
    [cnf |-> << <<1, 2>>, <<-1, 2>>, <<-2, 3>>, <<-2, 4>>, <<-1, -4>>, <<1, -4>> >>,
     lines |-> {Clausal(<<1>>), Clausal(<<-4>>), Clausal(<<2, 3>>)}],
    [cnf |-> << <<1>>, <<-1, 2>>, <<-1, 4>>, <<3, -4, 5>>, <<3, -4, -5>>, <<-3, -2, 5>>,
                <<-3, -2, -5>> >>,
     lines |-> {Clausal(<<4>>), Clausal(<<3, 5>>), Clausal(<<3>>), Clausal(<<-5>>)}] }

Chosen(lines) ==
  {s \in BoundedSeq(lines, MaxLines) :
     \A m, n \in 1..Len(s) : m < n => s[m].clause # s[n].clause}

(* At most one clause is deleted, before a line that comes after it.         *)
ChosenDeletions(cnf, s) ==
  {[L |-> 0, c |-> 0]}
  \cup {d \in [L : 1..Len(s), c : 1..Len(cnf) + Len(s)] : d.c < Len(cnf) + d.L}

WithDeletion(s, d) ==
  [k \in 1..Len(s) |-> [clause |-> s[k].clause, witness |-> s[k].witness,
                        dels |-> IF k = d.L THEN <<d.c>> ELSE << >>]]

ParsedProofs ==
  UNION {UNION {{[cnf |-> in.cnf, lines |-> WithDeletion(s, d), empty |-> e] :
                   d \in ChosenDeletions(in.cnf, s), e \in BOOLEAN} :
                s \in Chosen(in.lines)} :
         in \in Instances}
=============================================================================
