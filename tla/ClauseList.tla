----------------------------- MODULE ClauseList ------------------------------
(***************************************************************************)
(* What the clause database promises: a list of clauses to which clauses    *)
(* are added, and whose clauses can be deleted, for good or until they are  *)
(* restored.  Deleting a clause changes no other clause, nor the clause     *)
(* that is still being written.                                             *)
(***************************************************************************)
EXTENDS Sequences, Integers

CONSTANT Elt

VARIABLES
  clauses,   (* The clauses: their literals, and whether they are          *)
             (* "live", "deleted" or "gone"; a clause that is gone has no   *)
             (* literals any more.                                         *)
  writing    (* The literals of the clause being written.                  *)

vars == <<clauses, writing>>

Clause(lits, status) == [lits |-> lits, status |-> status]

Init == clauses = << >> /\ writing = << >>

Insert ==
  /\ \E l \in Elt : writing' = Append(writing, l)
  /\ UNCHANGED clauses

Drop ==
  /\ writing' = << >>
  /\ UNCHANGED clauses

Commit ==
  /\ clauses' = Append(clauses, Clause(writing, "live"))
  /\ writing' = << >>

Becomes(i, from, c) ==
  /\ clauses[i].status = from
  /\ clauses' = [clauses EXCEPT ![i] = c]
  /\ UNCHANGED writing

Delete ==
  \E i \in DOMAIN clauses : Becomes(i, "live", Clause(<< >>, "gone"))

SoftDelete ==
  \E i \in DOMAIN clauses :
    Becomes(i, "live", Clause(clauses[i].lits, "deleted"))

SoftUndelete ==
  \E i \in DOMAIN clauses :
    Becomes(i, "deleted", Clause(clauses[i].lits, "live"))

(* Only the first clauses are kept, and the empty clause is added.          *)
Discard ==
  /\ \E i \in DOMAIN clauses :
       clauses' = Append(SubSeq(clauses, 1, i), Clause(<< >>, "live"))
  /\ writing' = << >>

Next ==
  \/ Insert \/ Drop \/ Commit \/ Delete \/ SoftDelete \/ SoftUndelete \/ Discard

Spec == Init /\ [][Next]_vars
=============================================================================
