---------------------------- MODULE DsrForwardMC ----------------------------
(***************************************************************************)
(* Small CNF formulas and DSR proofs for DsrForward.                        *)
(***************************************************************************)
EXTENDS DsrForward

Variables == 1..4

(* Chains of implications, unit clauses before and after clauses they        *)
(* satisfy or shorten, formulas that unit propagation refutes on the way in  *)
(* or only under an assumption, and one where a deletion makes it miss a     *)
(* unit that a second deletion finds again.                                 *)
CnfFormulas ==
  { << <<1, 2, 3>>, <<-1, 2>>, <<-2, 3, 4>>, <<-3, 4>> >>,
    << <<1, 2>>, <<-1, 3>>, <<-3, -2, 4>>, <<3, 4, -1>> >>,
    << <<1, 2>>, <<1>>, <<-1, 3>>, <<-3, -1, 2, 4>> >>,
    << <<1, 2>>, <<-2>>, <<-1, 2, 3, 4>> >>,
    << <<2>>, <<-2, 3, -1>>, <<-2, 4, 1>>, <<-3, -4>>, <<1, 3>> >>,
    << <<1>>, <<2, 3>>, <<-1, -2>>, <<-3>> >>,
    << <<1>>, <<-1, 2>>, <<-1, -2>> >>,
    << <<1>>, <<2>>, <<3, 4>>, <<2, 3>>, <<3>>, <<-1, 4>> >> }

CandidateClauses ==
  { <<1>>, <<-4>>, <<2, 3, 4>>, <<-2>>, <<-4, 3>>, <<-4, -3>>, << >> }

(* The last one is a tautology.                                             *)
ReducedImages == { <<1, -2>>, <<-4, 3>>, <<2, -3, -2>> }
=============================================================================
