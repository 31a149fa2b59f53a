# A TLA+ model of dsr-trim and lsr-check

`dsr-trim` turns DSR proofs (clausal proofs with substitution witnesses, no
hints) into LSR proofs (with hints), and `lsr-check` checks LSR proofs. This
directory models the two programs' core in TLA+, checks the model with TLC on
small formulas and proofs, and proves some of its properties with TLAPS for all
sizes. Paths below are relative to the repository; line numbers are those of
its sources.

## 1. The system

Both tools are sequential C programs around one process-wide state
(`global_data.c`). Nothing runs concurrently and nothing is persisted; what is
hard is bookkeeping: lazily refreshed caches, generation counters in place of
clearing, 0- and 1-indexed identifiers, offsets that carry a deletion bit, and
structures that must be taken back together. Deletion lines, hint groups and
copies of clauses may come in any order, and that order is what tests hardly
explore.

| Component | State | Operations | What makes it correct |
|---|---|---|---|
| lsr-check (`lsr-check.c`, `lsr-check/lsr_data.c`) | line and clause ids, occurrence counters, hints, hint groups | read an addition, deletion or global-unit line; unit propagation over hints; RAT hint groups; scan of the affected clauses; verdict | "VERIFIED UNSAT" only of an unsatisfiable formula; every accepted clause is redundant; counters are exact |
| Assignment and witness (`global_data.c` 156-245, 640-830) | `alpha`, generations, `subst_mappings` | assume, evaluate, map a clause | an assignment of an older generation is never seen; it follows from what was assumed |
| Clause intervals (`global_data.c` 840-1083) | `lits_first_last_clauses` | extend, refresh lazily | no live clause with the literal lies outside its interval |
| Clause database (`global_data.c` 247-445, 610-640) | `lits_db`, `formula`, sizes | insert, commit, delete, collect, truncate | behaves as a list of clauses; the sizes decide collection correctly |
| Range array (`range_array.c`) | `data`, `indexes` | insert, commit, uncommit, clear, reset | behaves as a list of ranges with pending data |
| Hash table (`hash_table.c`) | buckets of entries | insert, grow, remove, iterate over a bucket | behaves as a bag of entries; lookup finds them all |
| CNF and SR parsers (`cnf_parser.c`, `sr_parser.c`) | `new_clause_size`, `witnesses` | read a clause, a witness | tautologies leave no trace; a witness belongs to its line |
| dsr-trim parsing (`dsr-trim.c` 1280-1733) | clause and multiplicity tables, `clauses_lui`, `bcu_deletions` | add or delete a copy of a clause | copies are counted; the proof that is checked is the one the file means |
| dsr-trim propagation (`dsr-trim.c` 2490-3014) | trail, reasons, watch pointers | assume, propagate, unassign, remove and restore watches | no unit is missed; every reason stays unit |
| dsr-trim checking (`dsr-trim.c` 1778-2210, 3056-3722) | `clauses_lui`, dependency marks, hints, derived deletions | check a line, mark, minimise hints, emit | the emitted proof passes lsr-check; last uses are exact; only bad proofs are refused |
| Witnesses (`dsr-trim.c` 1008-1088, 2232-2448) | `witnesses` | minimise, find another pivot, print | the meaning is kept; what is printed is what was checked |
| Codec and compress (`global_parsing.c`, `compress.c`) | stream position, format flags | detect the format, read and write lines and numbers | decompressing inverts compressing; a truncated file adds nothing |
| Command line, diagnostics (`cli.c`, `logger.c`, `xio.c`, ...) | flags | parse options, print | not modelled |

The parsers call the clause database and the range arrays; dsr-trim's parser
calls the hash table; both checkers read the database, the assignment, the
intervals and the witnesses. dsr-trim's output is lsr-check's input.

## 2. Modules

| Module | What it is |
|---|---|
| `Cnf` | literals, clauses as sets, substitutions, satisfaction |
| `Redundancy` | abstract: what a clausal proof checker promises |
| `LsrCheck` | the streaming checker |
| `LsrCheckMC` | small formulas and proof lines for it |
| `LsrCheckProofs` | proofs about `LsrCheck`: its bookkeeping, intervals, scan and generations; on top of them its soundness |
| `Places`, `NatSets` | what a loop leaves that keeps some places of an array; facts about it and about finite sets of numbers, for the proofs |
| `RangeList` | abstract: a list of ranges and pending data |
| `RangeArray`, `RangeArrayProofs` | the flat array, and the proof that it implements the list |
| `EntryBag`, `HashTable` | abstract bag of entries, and the table that grows |
| `ClauseList`, `ClauseDb`, `ClauseDbProofs` | abstract list of clauses, the database with garbage collection, and the proof that it implements the list |
| `DsrParse`, `DsrParseMC`, `DsrParseProofs` | dsr-trim's eager parser, with `RangeArray` instantiated; the proof, over `RangeArrayProofs`, that what it leaves is what the file means |
| `DsrTrail`, `DsrTrailProofs` | what both checks of dsr-trim share: units and reasons, watch pointers, assumptions at three levels, dependency marks; and what its operators keep |
| `DsrForward`, `DsrForwardMC`, `DsrForwardProofs` | the forward check (`dsr-trim -f`), over `DsrTrail`, and, over `DsrTrailProofs`, the proof of its trail, reasons, watches and propagation |
| `Witness`, `DsrWitness` | the algorithms on witnesses; all small witnesses through them |
| `Lsr` | abstract: what lsr-check does with a whole proof, as a function of it |
| `DsrBackward`, `DsrBackwardMC`, `DsrBackwardProofs` | the backward check, dsr-trim's default, over `DsrTrail`, `Witness` and `Lsr`, and, over `DsrTrailProofs`, the proof of its trail, reasons and watches |
| `Codec` | numbers as bytes, with the width of the type that reads them |
| `Compress`, `CompressMC` | compress, run twice on a text proof, with cut files |

### LsrCheck

One action per thing the checker does between two reads of its input. The proof
file is the environment: the head of an addition line (clause, pivot, witness,
identifiers that open the hint groups) is chosen in `AddLine`, because
`check_line()` counts the groups first; a unit propagation hint is chosen when
it is consumed (`UnitHint`, `RefutedByHint`, `UselessHint`,
`RATClauseRefuted`), the only moment the code looks at it. The program counter
follows `check_line()`: `assume` (is the candidate satisfied?), `up` (its own
hints), `hints`/`hintsUp` (`check_only_hints()`), `scan`/`scanUp` (the loop
over the affected interval), and the final states. `FATAL` is
`log_fatal_err()`. `CRASH` is undefined behaviour, a read outside the database:
the code goes on or dies, so the step that reads may do either.

Clauses are sets of literals: `sort_and_dedup_new_clause()` makes them so, and
the checker never depends on the order. An assignment is the code's stamp, an
even generation plus a sign bit, since what a stale stamp shows is a hazard.
`first_last` is the cached interval with its lazy refresh. Identifiers are the
1-indexed ones of the file.

`Redundancy` has three variables: the CNF formula, the citable clauses and the
verdict. A step adds a clause only if it keeps satisfiability, deletes clauses,
stops, or refutes an unsatisfiable database. `LsrCheck` refines it with
`F <- TrustedClauses`, the clauses whose line has been checked.

### RangeArray, HashTable, ClauseDb

Each is the C data structure with one action per exported function, and refines
an abstract one whose actions say what the callers rely on. `RangeArray` keeps
`indexes` one longer than the ranges as the code does, so the abstract action
for `ra_uncommit_range()` says what the code does with the range's data: it
becomes pending. `ClauseDb` keeps `lits_db` as one sequence, with offsets that
carry a deletion bit, and collects at the moment `delete_clause()` does. What
the loop of `gc_lits_db()` computes is stated by rank: a literal that is kept
goes to the place that is the number of kept ones up to it, and an offset to the
number of kept ones before it.
`HashTable` abstracts only the contents: the hash decides the bucket.

### DsrParse

`CnfClause` and `Prepare` read the formula, `AddFormulaClauseToHt` hashes one
clause per step, then each action is one line: `DeletionLine`, `TautologyLine`,
`NewLine`, `CopyLine`. Distinct clauses have distinct hashes here (a collision
is resolved by comparing the literals, `dsr-trim.c` 1334-1357), so the hash
table is a set of entries; what a deleted slot looks like to that comparison is
modelled by `Matches` and `UnsafeRead`. `file` is a history variable: what the
file means is defined from it alone, and the properties compare.

### DsrTrail and DsrForward

`DsrTrail` has the variables and operators common to the two checks; those that
prime variables are parts of the actions of the modules that extend it.
`clauses`, `wps` and `units` are sequences, since watches sit in the first two
places, a reason's unit in the first, and a watch list is compacted from its
end while it is walked. `AssumeCandidate`, `AssumeImage` and their undoing are
the levels of assumptions; `SatisfiedByAssumption` and `SatisfiedByUnit` the
cases of `assume_RAT_clause_under_subst()` in which nothing is propagated.
Generations are abstracted: `alpha` is the set of true literals, and `marks`
what carries a mark of this line.

`DsrForward` is the forward mode (`dsr-trim.c` 1454-1493 and 2790-3498), where
lines are parsed and checked one by one. Unit propagation is one action per
watcher visited (`SkipSatisfied`, `ReplaceWatch`, `FindConflict`, `FindUnit`),
`NextUnit` and `FinishUp` being the ends of its two loops; `i` and `j` are the
loops' counters. What happens to a conflict depends on who started propagation:
`RefuteFormula`, `RefuteCandidate`, `RefuteImage`, or nothing after a deletion.
`AddUnit`, `AddFalsified` and `AddWatched` are the cases of
`add_wps_and_perform_up()`; `ReadAddition` assumes a candidate; `ImageHolds`
and `CheckImage` take one clause that the witness reduces; `IgnoreDeletion`,
`DeleteOther` and `DeleteAndUnassign` are the branches of a deletion, with the
default of both deletion options. Which clauses a witness reduces, and to what,
is chosen freely from `Images`. Formulas and candidates have a variable once per
clause (`Proper`): `sort_and_dedup_new_clause()` removes repeated literals, a
candidate that is a tautology is a fatal error (`sr_parser.c` 96), and a clause
of the formula that is one is deleted as soon as it is read, so it never gets a
watch and only leaves a slot that is skipped, which the model leaves out.

### DsrBackward

The default mode, from the parsed proof to the printed one. The constant
`Proofs` is the set of parsed proofs (`DsrParse` is how they come about); after
the choice of one in `Init` the program is deterministic, as the code is.

- Forward pass (`AddUnit` ... `EndOfForwardPass`, `StoreRange`, `SoftDelete`,
  `IgnoreDeletion`): clauses are added until propagation refutes them; user
  deletions before a line are carried out, unless the clause is a reason.
- Core-first propagation (`dsr-trim.c` 2628-2786): `FindCoreUnit` takes a unit
  from a clause in use, `AcceptUnused` from another one, `IgnoreUnused` passes
  one by, `ReturnToIgnored` goes back to where clauses were passed by.
  `ignored_j`, `progressed_i`, `bookmarked_i` and `accepting` are the code's
  saved positions, `wp_up` is `unit_literals_wp_up_indexes`.
- Backward pass: `RestoreDeleted`, `UncommitClause`, `RestartGlobalUp` take one
  line back, `AssumeLine` to `UnassumeCandidate` check it if its clause is used.
  A check without a witness ends in `RefuteCandidate`; with one,
  `AssumeWitness` minimises it and fixes the interval of clauses, and
  `PassClause`, `ImageHolds`, `CheckImage`, `RefuteImage` go over the interval.
  `StoreLine` minimises the hint groups and updates the last uses.
- `PrintProof` computes what `print_stored_lsr_proof()` writes.

An entry of `clauses_lui` keeps the code's encoding: a line, `Unused`, or the
line of a user deletion with an offset in place of the top bit. The interval
recorded for a line and the reduction of each clause are those of the code
(`Witness`). `FATAL` is `log_fatal_err()`.

`Lsr` says what lsr-check does with the result: which lines it refuses. Its
database is a function from identifiers to clauses and nothing else; `LsrCheck`
is how the program keeps that in its own state. `EmittedAccepted` composes the
two tools through it.

### Witness and DsrWitness

`Minimized`, `MustFindNewPivot`, `NewPivot`, `Repivoted` and `Printed` are
`minimize_witness()`, `find_new_pivot_for_witness()` and `print_witness()` as
functions of a witness and an assignment: a pivot, the literals set to true, and
the pairs, in order, because the code overwrites its array from the end while it
walks it and the order is printed. `DsrWitness` runs every witness the parser
accepts, up to a size, through them, under every assignment that falsifies the
clause.

### Codec and Compress

`Encoded` and `Decoded` work on groups of `PayloadBits` bits and wrap at the
width of the type that holds the number. `Compress` copies a proof number by
number, as the tool does: `StartLine`, `CopyNumber`, `EndLine`. The first run
reads text, `RunAgain` feeds its output to a second one; either input may be cut
at any place (`Cuts`), which is how a full disk or an interrupted write leaves
it. A text file is a sequence of numbers, line ends and the letters `d` and
`g`. `long` is the build with `LONGTYPE`, where identifiers are 64 bits wide and
are read by `read_clause_id_binary()`.

## 3. What each run checks

| Run | Question |
|---|---|
| `lsr_rat` | RUP and RAT lines with global units, deletions and groups in any order, tautologies in the formula: types, exact occurrence counters, intervals that lose no clause, assignments that are entailed, generations that suffice, a fall-through that always refuses, and a sound verdict |
| `lsr_sr` | lines with witnesses: no clause the witness touches is passed over, and the checker implements `Redundancy` |
| `range_array` | any sequence of calls: partition, and refinement of `RangeList` |
| `hash_table` | any sequence of insertions and removals: lookup is complete, load bounded, refinement of `EntryBag` |
| `clause_db` | any sequence of calls: offsets ordered, refinement of `ClauseList` |
| `dsr_parse` | five lines over formulas with copies and tautologies: multiplicities, formula, user deletions, refusals, witnesses, and the sizes the collector decides by |
| `dsr_forward` | four lines over eight formulas: every reason is unit by earlier units, checks undo what they assume, watches are where they are sought, the hints that are printed are those lsr-check accepts, and propagation misses nothing until a deletion has unassigned units |
| `dsr_backward` | every parsed proof of up to three lines with at most one user deletion, over six formulas: reasons are clauses of the line's own database, watches survive deletion and restoration, propagation is complete and prefers clauses in use, last uses are exact, the printed proof is accepted line by line, only bad proofs are refused, and the program ends |
| `dsr_witness` | every small witness: minimisation keeps the meaning, and the printed witness, read back, is the one that was checked |
| `compress` | text proofs of up to two lines, both builds, either file cut anywhere: the round trip is the identity, a cut file yields its whole lines or nothing, and the tool ends |

Every property of these runs has a mutant in `PROJECT.json`: a plausible bug of
the code (a wrong bound, a missing reset, a swapped order) written as an
operator beside the definition it replaces and marked "Variant" in its comment.
TLC finds the property violated under it. Variants are used by no action.

### Runs that show a disagreement

Each has one property and the code violates it. Where it says "confirmed", the
compiled program was run on the counterexample or on a proof built from it.

| Run | What it shows |
|---|---|
| `lsr_forward_hints` | a hint may be the candidate itself: `insert_hint()` compares a 0-indexed clause with a 1-indexed bound (`lsr_data.c` 262), and a satisfiable formula is refuted |
| `dsr_backward_verdict` | the clauses that refute the formula are entered in `clauses_lui` with the line before the refutation (`dsr-trim.c` 590, 3304), so that line's redundancy check skips them: a RAT line that contradicts one is accepted, and dsr-trim prints `s VERIFIED UNSAT` for a satisfiable formula; confirmed. lsr-check refuses the printed proof |

Other disagreements were met while modelling; the passing runs step around
them as the next paragraph says.

In lsr-check:

- A global unit outlives the deletion of the clause it came from (`lsr_data.c`
  244-245). With `LateDeletions = TRUE` in `LsrRat.cfg`, TLC refutes
  `VerdictSound`.
- The parser admits the pivot mapped to itself (`sr_parser.c` 58-61), and a
  clause that is not redundant can then be added.
- Deleted tautologies are counted at startup (`lsr_data.c` 302-304), a read
  outside the database: `PrepareReadsDeleted`, an action of `LsrCheck`.
- A second deletion reads the clause before it is refused (`lsr_data.c`
  157-160): `DeleteTwice`.

In dsr-trim's parser:

- The witness of a copy stays in front of the next line's witness
  (`range_array.c` 81-84); confirmed: a valid proof is rejected.
- A collected tautology stands in the table as the empty clause (`dsr-trim.c`
  1519-1525); confirmed: the emitted proof lacks its last line.
- A formula of one clause asks for a table of no buckets (`dsr-trim.c` 1724;
  confirmed).

In the forward check:

- Deleting a clause that a unit merely satisfies unassigns the unit for good
  (`dsr-trim.c` 1458, 1475); confirmed: a valid proof is rejected.
- After an unassigning deletion a conflict found by propagating again is dropped
  (`dsr-trim.c` 1491); `FindConflict` does this in `dsr_forward`, where two
  deletions and two additions lead to it.
- `num_reduced_clauses` is reset when the next line is read (`dsr-trim.c` 3579),
  after the refutation that a RAT line completes has been printed: the line of
  the empty clause gets the witness of the RAT line; confirmed.

In the backward check:

- An addition line whose clause is false when it is added gets no watch pointers
  (`dsr-trim.c` 2993); taking it back is then fatal, "Clause not in watch
  pointers", and a valid proof is refused; confirmed.
- The first addition line is checked even if nothing uses it (the loop at
  `dsr-trim.c` 3542-3563 stops at line 0), so an unneeded bad first line
  refuses the proof.
- A formula that unit propagation refutes before its last clause has no addition
  line: tables are read below their start (`dsr-trim.c` 3657).

In the treatment of witnesses:

- When the witness maps its pivot to what is false, `minimize_witness()` drops
  the pair as redundant (`dsr-trim.c` 2304-2313), though 2299 says 'We *do* keep
  this "redundant" literal': the pivot then stands for true again, and a valid
  SR line is refused; confirmed.
- Whether a new pivot is needed is decided with the sign of the pivot where the
  sign of the pair's literal counts (`dsr-trim.c` 2295), and the old pivot, left
  in the witness, is printed twice.

In compress:

- Global unit lines are written as deletion lines (`5 g 3 0` becomes `5 d 3 0`,
  `compress.c` 218-223) though `compress.c` 3 promises a tool "to compress and
  decompress"; a proof that starts with one is refused. Confirmed.
- With `LONGTYPE`, the end of a binary file inside a line is read as the number
  -1 (`global_parsing.c` 134-136) and copied forever, where `global_parsing.h` 142
  says "If EOF is reached, it prints an error and exits". Confirmed.
- Numbers of absolute value 2^30 and more are misread in the `int` build:
  doubling them for the sign bit overflows.

The passing runs exclude these causes and no others. `lsr_rat`, `lsr_sr`:
`ForwardHints = FALSE` (hints below the candidate), `LateDeletions = FALSE` (no
deletion after a global unit), no pivot mapped to itself. `lsr_rat` still
deletes clauses twice and deletes the pending slot. `dsr_parse`: the formula and
its copies only for formulas without tautologies, refusals not for formulas of
one clause, and never the pivot. `dsr_forward`: `PropagationComplete` up to the
first deletion that unassigns units. `dsr_backward`: `EmittedAccepted` exempts
the RAT line right before the refutation, `CountedAt` says what `clauses_lui`
holds for it, `OnlyBadProofsRefused` allows a clause that was false when it was
added to be refused when it is taken back, before anything is assumed, and judges
every other refusal, and no formula of the instance refutes itself. `dsr_witness`: a pivot mapped to what is
false, and what is printed after a new pivot was sought. `compress`: no global
unit lines, numbers that fit, and a cut binary file of identifiers under
`LONGTYPE` need not end.

One cut is inherent to the format: an LSR text whose first line breaks off after
the first of its two zeros is a DSR line (`Mistaken`).

### Agreement with the compiled program

All 1902 proofs of the instance of `DsrBackward` with `MaxLines = 2` were also
given to the compiled dsr-trim, each as a CNF and a DSR file: the verdict is the
model's for every one, and the 850 LSR proofs that are printed agree with `lsr`
in identifiers, clauses, witnesses, hints, groups and deletions.

## 4. Bounds

| Bound | Value | Why it is enough |
|---|---|---|
| `Var` | two variables | the smallest with a pivot and another literal, so that clauses resolve, are touched on one side, and are mapped onto each other |
| `MaxId` | 4 (3 with witnesses) | two formula clauses and two lines (one): a line after a line shows stale state, and a skipped identifier fits |
| hint groups | at most 2 | out of order, repeated, and one too few |
| `GLOBAL_GEN` | 100 | the bound no generation reaches within `MaxId` lines; guards keep it so |
| `MaxData`, `MaxRanges` | 4, 3 | pending data behind an empty, a nonempty and a given-up range |
| `InitBuckets`, `MaxEntries`, `LOAD_FACTOR` | {1,2}, 5, 1 | two growths, buckets that split and that do not |
| `MaxLits`, `MaxClauses`, `DELETION_GC_DENOM` | 4, 4, 2 | with one half in place of one quarter, four literals suffice for a deletion that does not collect and one that does, with pending literals |
| `MaxLines`, `MinCnf`, `MaxCnf` of `DsrParse` | 5, 1, 3 | add, copy, delete, delete the last copy, add again |
| `Var` of `DsrForward` | four variables | clauses of four literals, whose watches move more than once |
| `MaxLines`, `MaxImages` of `DsrForward` | 4, 2 | delete, add twice, delete again; marks of one reduced clause meet those of the next |
| `MaxLines`, `Var` of `DsrBackward` | 3, five variables | two lines are taken back below a third that is checked, and the middle one may be unused, deleted or a RAT line; the forward pass may end at each of them |
| formulas of `DsrBackward` | six | satisfiable ones and ones that need one, two or three lines; two of them have unit clauses or ternary clauses enough for core-first propagation to pass a clause by, go back to it and pass it by again |
| user deletions of `DsrBackward` | at most one | deleted before the line it comes with; of a formula clause, an earlier line, a reason, a clause used later or never |
| `DsrBackwardVerdict` | `MaxLines = 1` | the shortest proof that shows it |
| `MaxTrue`, `MaxPairs`, `Var` of `DsrWitness` | 1, 2, three variables | a pair dropped before one that is kept, a pair on the pivot and one on another literal, in both orders |
| `PayloadBits`, `IntBits`, `LongBits` | 2, 6, 9 in place of 7, 32, 64 | numbers of one to three and one to five groups, the last one filled in part as in the code, and numbers that fit only the longer type |
| `Texts` | one or two lines | detection sees the first line only, so a second line of each kind suffices; every cut of either file |
| `MaxOutput` | 40 | no file of the instance is longer, except that of a run that does not end |

Integer widths matter in the codec only and are modelled there; elsewhere
identifiers and offsets are `int` or `long long`, and generations 64 bits, far
above these bounds.

## 5. Fairness and liveness

The programs are single-threaded: after the choice of the input each always
takes its next step. `DsrBackward` and `Compress` state this as `WF_vars(Next)`,
and each has a property `Termination`. It is not obvious for either. Core-first
propagation goes back to earlier units with positions saved in lists that have
been changed since, and every line starts propagation again from the first unit;
a position saved too low, or clauses only walked again instead of accepted, has
it go round forever. The reading loops of compress end only at a zero that a
truncated file does not have.

The other modules have safety properties only. lsr-check and the parser read
lines that the environment need not supply, and the data structures wait for
calls. Deadlock is checked in every run: final states loop explicitly
(`Exited`).

## 6. Proofs

`RangeArrayProofs` proves, for any element set and any bounds, that the indexes
partition the data (`Partition`) and that `RangeArray` implements `RangeList`
(`ImplementsRangeList`). The inductive invariant is the type of the array and
the order of its indexes; each step is a lemma of its own, `Append`-style facts
about slices of the data come first.

`LsrCheckProofs` proves `TypeOK` and `OccurrencesExact` for any number of
variables, formulas and lines, with `VarAssumption` and `LsrAssumption` as the
only hypotheses. `TypeOK` is not inductive: that a counter does not fall below
zero needs `OccurrencesExact`, which needs to know that the candidate is the
last slot, live, and equal to the line's clause while it is checked. `Bookkeeping`
is the conjunction of the three (`TypeOK`, `OccurrencesExact`,
`LineInProgress`), and the proof has one step per action of `Next`. `NatSets`
holds the facts about minima and maxima of finite sets of numbers, and about
ranks in them.

The second part of the module is about the scan. It first proves `IntervalsCover`. With `Bookkeeping` it is inductive;
the lemma that carries it is `RefreshedCovers`: the ends of an interval move only
over deleted clauses and clauses without the literal, so a live clause with the
literal is never passed, and `parse_cnf` and the end of a line extend the
interval to the clause they add. It then proves `WitnessCoversFormula` from both.
Its invariant, `ScanInv`, says of every clause that the witness changes that it
is checked or still ahead of the cursor, and of every clause that
`check_only_hints` counts that it has the negated pivot. The start of the scan
rests on `IntervalsCover` (a clause outside the interval has no touched literal,
so the witness satisfies it or leaves it alone); the shortcut rests on
`OccurrencesExact` (as many checked clauses as occurrences are all of them).

Its third part proves `GenerationsSuffice` and `FallThroughFails`, again without
hypotheses on the proof file. Neither is inductive. `Generations` is an
exact account: the current generation plus two for each hint group that may still
be opened is the generation of the candidate's negation, which is below the one
of assignments made forever. That no more groups are opened than the line has
needs `GroupsVisited`: each loop deals with a clause once, and only with clauses
that open a group. The same account refutes the fall-through: when fewer groups
were counted than the negated pivot has occurrences, one occurrence opens no
group, and the scan cannot get past it. The lemma `StepKinds` sorts the steps of
`Next` into a dozen kinds by what they change; the later proofs go by it.

The last part is about truth. `AssignmentSound` proves `AssignmentEntailed`,
`ImplementsRedundancy` that the checker implements `Redundancy`, and
`VerdictCorrect` that "VERIFIED UNSAT" is printed of unsatisfiable formulas only.
The inductive invariant, `Entailment`, has a part for each lifetime of a stamp:
what is assigned forever follows from the clauses that may be cited; what the
line assigned follows from those and the negated candidate; what the current hint
group assigned follows from those and the negated image of its clause; and every
clause whose group is done is satisfied by each counterexample once the witness
has changed it. A stamp of one lifetime must never be read as one of another,
which is what `Generations` is for. When a line ends, a model of the database is
one of the database and the candidate, or the witness makes it one
(`WitnessRepairs`, which needs `WitnessCoversFormula` for the clauses no group was
opened for). `VerdictCorrect` then follows from the abstract steps alone.

The three theorems have hypotheses, each about the proof file, and each one that
the code leaves to it:

- `~ForwardHints` (no line cites its own candidate or a later slot as a hint).
  `insert_hint` lets such hints through; without the hypothesis the theorems are
  false, as the run `lsr_forward_hints` shows.
- `~LateDeletions` (no clause is deleted after a global unit, for
  `AssignmentSound` and what rests on it): the unit stays assigned, so it follows
  from the formula as it was, not from what may still be cited.
- `PivotsMoved` (no witness maps the variable of its pivot to itself, for the
  last two): `parse_sr_clause_and_witness` refuses such a pair for every other
  variable. With one, the witness leaves the candidate alone, and
  `reduce_clause_under_subst` then takes it to be as good as satisfied.

The constants of the runs `lsr_rat` and `lsr_sr` meet all three.

`ClauseDbProofs` is about the clause database, for any set of literals, any
bounds and any ratio of collection. `DbInv` says that the starts of the clauses
are ordered as pairs (neighbours alone would not say that a clause far to the
left of a deleted one stays apart from it), that the slot being written is not
deleted (the remark "the final clause is not deleted" in `gc_lits_db()`), and
that what is gone is marked. A collection is dealt with by ranks: the kept places
have the ranks 1, 2 and so on, each that of one place (`UpToBijection`), and the
ranks of an interval that is kept whole follow one another (`UpToInterval`), so a
clause that is not dead keeps its literals in their order (`CollectedPlace`).
`OffsetsCorrect` is that `get_clause_size()` never sees a clause end before it
starts, `ImplementsClauseList` the refinement of `ClauseList`, one lemma per
action.

`DsrTrailProofs` is about `DsrTrail`, for any set of clauses in use (`live`), any
set of clauses without watches (`bare`) and any candidate. `TrailInv` has the
parts both checks need, and one lemma says for each operator that primes
variables what it keeps of them:

- `TrailExact`: a variable has one unit, and `vars_unit_indexes` is its place
  unless the unit is assumed. That no other variable has an index is what lets a
  new unit be told from an assumption.
- `ReasonsHold`: the reasons themselves. A watch is moved in a clause that is the
  reason of no unit, for a reason has a true first literal and would have been
  skipped (`VisitedReason`).
- `WatchesHold`: what `WatchesAttached` and `WatchesRestored` say by counting
  places, said by membership. `remove_wp_for_lit()` and the replacement of a
  watch put the last watcher of a list in the place of the one removed, which
  keeps a list without repetitions (`Removed`).
- `Levels`: the candidate's assumptions are below those of an image; the units in
  between are assumed for the candidate, every variable of the candidate is set
  before the candidate's units begin, and `assumed` is the union of the two
  levels. The levels are undone from different data, and without the second fact
  the variables of the candidate that an image has would be lost or left.
- `ClausesProper`: a clause has a variable once (a clause with a literal twice
  would be watched twice by it).

`DsrForwardProofs` is about the forward check, for any variables, formulas,
candidates and images, and any number of lines. `Reasons`, `Assumptions` and
`Watched` prove `ReasonsOrdered`, `AssumptionsUndone` and `WatchesAttached`;
none of them is inductive, and each needs parts of the others, so they are read
off one invariant, `ForwardInv`: the trail, with the clauses added and not
deleted as the ones in use, and `Control`, what each `pc` says of the level. A
deletion of a reason keeps the units before it, whose reasons only need earlier
units, and those of unit clauses, whose reasons need none (`UnitsKept`).

`Complete` proves `PropagationComplete` from `ForwardInv` and a second invariant,
`QueueInv`. What two watched literals rest on is that backtracking needs no
repair: when a unit that the propagation has passed makes a watch false, the other
watch is true and stays so as long as the first is false. `Settled` says this with
places: the unit of the true watch is taken back no earlier than that of the false
one (`Below`), because propagation at a level only adds units of that level and
starts where the level starts (`Floor`). `Reached` is how far the queue has been
passed, within the watch list of unit `i` up to `j`, and back to the start of the
level when a conflict ends the propagation. A watch that is replaced was in no
passed unit's way: had one made the other watch false, the clause would have a
true watch (`ReplaceQueue`). Both exceptions are in `Undisturbed`: after a
deletion that unassigns units the claim is false, as its hazard says, and when the
formula is refuted the check is over.

`Hints` proves `HintsRefute`: the hints that are emitted satisfy the reference
checker of `Lsr`. One argument serves the three kinds of hints there are. The marks
are closed (`Closed`): whatever the clause of a marked unit needs is marked, or is
assumed by the checker too. So if A, the literals the checker starts with, has what
is assumed and none of what is derived (`Given`), the reasons of the marked units
propagate one after another, each making its own unit true (`Replay`), and the
conflict is false at the end (`MarksRefute`). A candidate that holds already is
refuted by the reason of the first unit among its literals; the marks are then
before that unit (`MarkedBelow`), and what comes later does not matter. The third
invariant, `HintInv`, says besides

- what a conflict is (`ConflictHolds`): a live clause that is false while the
  literals of the candidate are false too, or the reason of a literal of the
  candidate, the first of them on the trail;
- `ImageHeld`: all literals of the image are false, those that were open by units
  between `RAT_assumed` and `RAT_unit`, and the variables marked as assumed for the
  image are its own;
- `ReducedHolds`: each group that is complete refutes its image from *any*
  literals of the trail that contain the negated candidate and the marked units
  (`Base`). Marks are only added, for later images and by `PrintLine`, so a group
  stays good whatever the line needs in the end; and what the printed hints make
  true is such a set of literals (`PrintHints`), which is what lsr-check has when it
  comes to the groups.

The hypotheses of these theorems are `VarAssumption` and
`DsrForwardAssumption`, which is what the parsers let through: a formula has a
clause and no empty one (`cnf_parser.c` 78-96 refuses others), and clauses and
candidates are `Proper`. Images are any sequences of literals. A deletion
renumbers the units (`KeptUnits`), and the ranks of `NatSets` that serve the
collection of `ClauseDb` serve here too: the units that stay keep their order, so
a reason's other literals stay before it.

`DsrBackwardProofs` proves `ReasonsPrecede` and `WatchesRestored` of the backward
check, for any variables and any parsed proofs that meet `ProofsAssumption`
(which is what `DsrParse` lets through: no empty clause, for an empty line ends
the proof; none with a variable twice; and deletions of earlier clauses only, each
once). The
invariant, `BackwardInv`, is the trail and

- `Data`: which clauses there are at each `pc`. The clauses in use (`Base`) are
  those loaded and not deleted on the way forward, and on the way back those
  before the line that is checked; while a line is taken back its own clause is
  still among them. Hence a restored clause is one that was deleted in the pass
  forward, and appending it to the watch lists repeats nothing. The clause that
  refuted the formula when it was added never got watches (`Bare`).
- `Propagated`: what the saved positions of core-first propagation mean.
  `ReturnToIgnored` takes a unit from a clause passed by earlier, or a conflict,
  without looking for another watch again: it is right only if the clause still
  has none. `Searched` says that every place of a watch list that is done with
  (before `i`, `progressed_i`, `j` or `wp_up`) has a clause with a true watch or
  no replacement (`Exhausted`), and it survives because a list only loses
  watchers from the place being looked at, whose last watcher moves in there, and
  units are only added meanwhile. `Loops` and `WpUp` say where the positions are.

A reason is never out of use: user deletions of reasons are ignored on the way
forward, and on the way back the line of a clause that is the reason of a unit
takes back that unit with all later ones before the clause goes.

`DsrParseProofs` proves all properties of the eager parser but `SizesExact`, for
any formula, any set of lines and any number of them; as in the run, they speak of
formulas without tautologies. They compare the parser's tables with what the history
`file` means, and none is inductive: whether a line finds its clause depends on
all lines before it. `ParseInv` says of every state that is still read

- `Table`: there is an entry for exactly the clauses that have copies, one each,
  of a clause that is in the database and was not deleted, and its count is the
  number of copies. So a lookup never compares a deleted clause (`UnsafeRead`), and
  a deletion that finds nothing deletes what the file has no copy of.
- `DeletedOnce`: the lines that got a clause of their own (`Firsts`) and the
  entries correspond until the deletion of the last copy. A clause may come back
  later: it then gets a new identifier, and the deletion of the last copy of one
  line is told from that of the other because copies are counted from the whole
  file (`DeletedForgetting`). Two lines of the same clause are never both without
  such a deletion, or the second would have been a copy.
- `Stored`, `Ranged` and `Witnessed`: the database, the deletions and the
  witnesses by line. The witness of a copy is uncommitted and becomes pending
  data, so a witness is only a suffix of its range.

`Hashed` and `Entered` let one invariant serve the reading of the formula, the
loop that hashes it and the reading of the proof: the lemmas on a step
(`Entering`, `Counting`, `Uncounting`, `Forgetting`) are about the next line to be
looked up, which is the next of the formula or a new one. `ParseAssumption` is the
only hypothesis. What the range arrays do is taken from lemmas of
`RangeArrayProofs`, instantiated for each of the two.

Only model-checked: `HashTable`, `DsrWitness` and `Compress`; of the parser
`SizesExact`; of the backward check `PropagationReturns`, `LastUseExact`,
`EmittedAccepted`, `OnlyBadProofsRefused`, `CoreFirst` and `Termination`. Out of the
prover's reach are liveness (`Termination`), anything about `ENABLED`, and induction
with an operator as parameter, by which the folds of `SizesExact`, `Minimized`,
`RefusedLines` and `Encoded` are defined. What the proofs need of the recursive
functions that scan the trail and replay the hints is that they exist, which is
proved from the first index that has none (`ScanExists`, `ListExists`, `RunExists`).

## 7. Not modelled, and the plan

1. `LsrEager`: the eager strategy of lsr-check (deletions stored per line and
   replayed, identifiers with gaps), compared with the streaming one.
2. The deletion options of dsr-trim that differ from the default, and forward
   checking with the reduction of clauses under a witness (in `DsrBackward`) in
   place of free images.
3. `sort_and_dedup_new_clause` against sets (the models start from its result),
   and `hash_clause`.
4. Proofs: `PropagationReturns` and `CoreFirst` of the backward check; the
   refinement of `EntryBag`, whose map flattens the buckets with a fold.

Left out for good: the growth of the per-variable tables, the text of messages
and options, comments in proof files, wrappers of the C library, timing, and the
generators under `php/`. Formulas that refute themselves before their last
clause read outside the tables, and what follows is not defined by the code.
