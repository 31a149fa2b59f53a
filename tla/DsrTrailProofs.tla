---------------------------- MODULE DsrTrailProofs ----------------------------
(***************************************************************************)
(* The trail, the reasons, the levels and the watches of dsr-trim, and what  *)
(* the parts of the actions that both modes are made of do to them.  live is *)
(* the set of clauses the check may use, bare the set of those that were     *)
(* false when they were added and have no watches, and C the candidate.      *)
(***************************************************************************)
EXTENDS DsrTrail, NatSets, SequenceTheorems, TLAPS

(***************************************************************************)
(* The invariant.                                                           *)
(***************************************************************************)
Unit == [lit: Lit, clause: Nat]

TrailTypes ==
  /\ clauses \in Seq(Seq(Lit))
  /\ wps \in [Lit -> Seq(Nat)]
  /\ alpha \subseteq Lit
  /\ units \in Seq(Unit)
  /\ vars_unit_indexes \in [Var -> Nat]
  /\ assumed \subseteq Var /\ RAT_marked \subseteq Var
  /\ up_state \in {"GLOBAL_UP", "CANDIDATE_UP", "RAT_UP"}
  /\ candidate_assumed \in Nat /\ candidate_unit \in Nat
  /\ RAT_assumed \in Nat /\ RAT_unit \in Nat

ClausesProper == \A c \in 1..Len(clauses) : Proper(clauses[c])

(* The trail: what is true is what the units hold, each variable once, at    *)
(* the index it has unless it is assumed.                                   *)
TrailExact ==
  /\ \A n \in 1..Len(units) : units[n].lit \in alpha
  /\ \A l \in alpha : \E n \in 1..Len(units) : units[n].lit = l
  /\ \A m, n \in 1..Len(units) : VarOf(units[m].lit) = VarOf(units[n].lit) => m = n
  /\ \A n \in 1..Len(units) :
       vars_unit_indexes[VarOf(units[n].lit)] = IF units[n].clause = 0 THEN 0 ELSE n
  /\ \A v \in Var : vars_unit_indexes[v] # 0 =>
       /\ vars_unit_indexes[v] \in 1..Len(units)
       /\ VarOf(units[vars_unit_indexes[v]].lit) = v

Reason(n, live) ==
  LET c == units[n].clause
  IN  /\ c \in live /\ Len(clauses[c]) >= 1
      /\ clauses[c][1] = units[n].lit
      /\ \A k \in 2..Len(clauses[c]) :
           \E m \in 1..n - 1 : units[m].lit = -clauses[c][k]

ReasonsHold(live) == \A n \in 1..Len(units) : units[n].clause # 0 => Reason(n, live)

(* A clause is in a list at most once; those in a list are live and watched  *)
(* by its literal, and every live clause is in the lists of its watches.     *)
Has(s, c) == \E k \in 1..Len(s) : s[k] = c

OnceEach(s) == \A k, m \in 1..Len(s) : s[k] = s[m] => k = m

WatchesHold(live, bare) ==
  /\ \A l \in Lit : OnceEach(wps[l])
  /\ \A l \in Lit : \A c \in Nat : Has(wps[l], c) =>
       c \in live /\ Len(clauses[c]) >= 2 /\ (l = clauses[c][1] \/ l = clauses[c][2])
  /\ \A c \in live : Len(clauses[c]) >= 2 /\ c \notin bare =>
       Has(wps[clauses[c][1]], c) /\ Has(wps[clauses[c][2]], c)

(* The levels of the units, and whose variables are assumed.                 *)
CandidateLevel(C) ==
  /\ candidate_assumed >= 1 /\ candidate_assumed <= candidate_unit
  /\ candidate_unit <= Len(units) + 1
  /\ \A n \in 1..Len(units) :
       /\ n < candidate_assumed => units[n].clause # 0
       /\ candidate_assumed <= n /\ n < candidate_unit =>
            units[n].clause = 0 /\ VarOf(units[n].lit) \in Vars(ToSet(C))
  /\ \A v \in Vars(ToSet(C)) :
       \E n \in 1..Len(units) : n < candidate_unit /\ VarOf(units[n].lit) = v
  /\ assumed = {v \in Vars(ToSet(C)) : vars_unit_indexes[v] > 0} \cup RAT_marked
  /\ RAT_marked \cap Vars(ToSet(C)) = {}

Levels(C) ==
  /\ up_state = "GLOBAL_UP" =>
       /\ assumed = {} /\ RAT_marked = {}
       /\ \A n \in 1..Len(units) : units[n].clause # 0
  /\ up_state # "GLOBAL_UP" => CandidateLevel(C)
  /\ up_state = "CANDIDATE_UP" => RAT_marked = {}
  /\ up_state = "RAT_UP" => candidate_unit <= RAT_assumed /\ RAT_assumed <= Len(units) + 1

TrailInv(live, bare, C) ==
  /\ TrailTypes /\ ClausesProper /\ live \subseteq 1..Len(clauses)
  /\ TrailExact /\ ReasonsHold(live) /\ WatchesHold(live, bare) /\ Levels(C)

-----------------------------------------------------------------------------
(***************************************************************************)
(* Literals, and clauses whose literals change places.                      *)
(***************************************************************************)
LEMMA LitFacts ==
  ASSUME NEW l \in Lit
  PROVE  /\ -l \in Lit /\ l # -l /\ -(-l) = l /\ l \in Int
         /\ VarOf(l) \in Var /\ VarOf(-l) = VarOf(l)
         /\ \A m \in Lit : VarOf(m) = VarOf(l) <=> m = l \/ m = -l
<1>1. \A v \in Var : v \in Nat /\ v # 0
  BY VarAssumption
<1>2. \A m \in Lit : m \in Int /\ m # 0 /\ (m > 0 => m \in Var) /\ (~(m > 0) => -m \in Var)
  BY <1>1 DEF Lit
<1>3. l \in Int /\ l # 0 /\ -l \in Lit /\ VarOf(l) \in Var /\ -(-l) = l
  <2>1. CASE l > 0
    BY <1>2, <2>1 DEF Lit, VarOf
  <2>2. CASE ~(l > 0)
    BY <1>2, <2>2 DEF Lit, VarOf
  <2> QED
    BY <2>1, <2>2
<1>4. VarOf(-l) = VarOf(l) /\ l # -l
  BY <1>3 DEF VarOf
<1>5. \A m \in Lit : VarOf(m) = VarOf(l) <=> m = l \/ m = -l
  BY <1>2, <1>3 DEF VarOf
<1> QED
  BY <1>3, <1>4, <1>5

LEMMA Swapped ==
  ASSUME NEW s, Proper(s), NEW a \in 1..Len(s), NEW b \in 1..Len(s)
  PROVE  /\ Proper(Swap(s, a, b)) /\ Len(Swap(s, a, b)) = Len(s)
         /\ Swap(s, a, b)[a] = s[b] /\ Swap(s, a, b)[b] = s[a]
         /\ \A k \in 1..Len(s) : k # a /\ k # b => Swap(s, a, b)[k] = s[k]
<1> DEFINE t == Swap(s, a, b)
<1>1. s \in Seq(Lit) /\ \A k, m \in 1..Len(s) : VarOf(s[k]) = VarOf(s[m]) => k = m
  BY DEF Proper
<1>2. t \in Seq(Lit) /\ Len(t) = Len(s)
  BY <1>1 DEF Swap
<1>3. \A k \in 1..Len(s) : t[k] = IF k = b THEN s[a] ELSE IF k = a THEN s[b] ELSE s[k]
  BY <1>1 DEF Swap
<1> HIDE DEF t
<1>4. \A k, m \in 1..Len(s) : VarOf(t[k]) = VarOf(t[m]) => k = m
  BY <1>1, <1>3
<1>5. Proper(t)
  BY <1>2, <1>4 DEF Proper
<1> QED
  BY <1>2, <1>3, <1>5 DEF t

(* The literals of a proper clause are different ones.                      *)
LEMMA ProperFacts ==
  ASSUME NEW s, Proper(s)
  PROVE  /\ s \in Seq(Lit) /\ Len(s) \in Nat
         /\ \A k \in 1..Len(s) : s[k] \in Lit
         /\ \A k, m \in 1..Len(s) : s[k] = s[m] \/ s[k] = -s[m] => k = m
<1>1. s \in Seq(Lit) /\ \A k, m \in 1..Len(s) : VarOf(s[k]) = VarOf(s[m]) => k = m
  BY DEF Proper
<1>2. \A k \in 1..Len(s) : s[k] \in Lit
  BY <1>1
<1>3. \A k, m \in 1..Len(s) : s[k] = s[m] \/ s[k] = -s[m] => VarOf(s[k]) = VarOf(s[m])
  BY <1>2, LitFacts
<1> QED
  BY <1>1, <1>2, <1>3

LEMMA Prefix ==
  ASSUME NEW S, NEW s \in Seq(S), NEW L \in Nat, L <= Len(s)
  PROVE  /\ SubSeq(s, 1, L) \in Seq(S) /\ Len(SubSeq(s, 1, L)) = L
         /\ \A m \in 1..L : SubSeq(s, 1, L)[m] = s[m]
<1>1. Len(s) \in Nat /\ 1 \in Int /\ L \in Int /\ \A m \in 1..L : s[m] \in S
  OBVIOUS
<1>2. /\ SubSeq(s, 1, L) \in Seq(S)
      /\ Len(SubSeq(s, 1, L)) = IF 1 <= L THEN L - 1 + 1 ELSE 0
      /\ \A m \in 1..L - 1 + 1 : SubSeq(s, 1, L)[m] = s[1 + m - 1]
  BY <1>1, SubSeqProperties
<1>3. L - 1 + 1 = L /\ \A m \in 1..L : 1 + m - 1 = m
  OBVIOUS
<1> QED
  BY <1>2, <1>3

(* A nonempty set of places has a first one.                                *)
LEMMA FirstPlace ==
  ASSUME NEW K, K # {}, K \subseteq Nat
  PROVE  /\ (CHOOSE m \in K : \A n \in K : m <= n) \in K
         /\ \A n \in K : (CHOOSE m \in K : \A n2 \in K : m <= n2) <= n
<1>1. \E m \in K : \A n \in K : m <= n
  BY MinExists
<1> QED
  BY <1>1

LEMMA VarsOf ==
  ASSUME NEW C \in Seq(Lit)
  PROVE  /\ \A k \in 1..Len(C) : C[k] \in ToSet(C) /\ VarOf(C[k]) \in Vars(ToSet(C))
         /\ \A v \in Vars(ToSet(C)) : \E k \in 1..Len(C) : VarOf(C[k]) = v
         /\ \A l \in ToSet(C) : l \in Lit
         /\ Vars(ToSet(C)) \subseteq Var
<1>1. ToSet(C) = {C[k] : k \in 1..Len(C)} /\ \A k \in 1..Len(C) : C[k] \in Lit
  BY DEF ToSet
<1> QED
  BY <1>1, LitFacts DEF Vars

(* A variable is true or false on the trail, not both.                      *)
LEMMA Consistent ==
  ASSUME TrailTypes, TrailExact, NEW l \in alpha
  PROVE  l \in Lit /\ -l \notin alpha
<1>1. l \in Lit
  BY DEF TrailTypes
<1>2. ASSUME -l \in alpha PROVE FALSE
  <2>1. PICK n \in 1..Len(units) : units[n].lit = l
    BY DEF TrailExact
  <2>2. PICK m \in 1..Len(units) : units[m].lit = -l
    BY <1>2 DEF TrailExact
  <2>3. VarOf(units[m].lit) = VarOf(units[n].lit) /\ l # -l
    BY <1>1, <2>1, <2>2, LitFacts
  <2>4. m = n
    BY <2>3 DEF TrailExact
  <2> QED
    BY <2>1, <2>2, <2>3, <2>4
<1> QED
  BY <1>1, <1>2

LEMMA UnitTypes ==
  ASSUME TrailTypes
  PROVE  /\ Len(units) \in Nat
         /\ \A n \in 1..Len(units) : units[n].lit \in Lit /\ units[n].clause \in Nat
<1>1. Len(units) \in Nat /\ \A n \in 1..Len(units) : units[n] \in Unit
  BY DEF TrailTypes
<1> QED
  BY <1>1 DEF Unit

LEMMA ClauseTypes ==
  ASSUME NEW live, NEW bare, NEW C, TrailInv(live, bare, C)
  PROVE  /\ Len(clauses) \in Nat /\ live \subseteq Nat /\ 0 \notin live
         /\ \A c \in 1..Len(clauses) : Proper(clauses[c]) /\ clauses[c] \in Seq(Lit)
         /\ \A c \in live : c \in 1..Len(clauses) /\ c \in Nat \ {0} /\ Proper(clauses[c])
<1>1. Len(clauses) \in Nat /\ live \subseteq 1..Len(clauses)
  BY DEF TrailInv, TrailTypes
<1>2. \A c \in 1..Len(clauses) : Proper(clauses[c])
  BY DEF TrailInv, ClausesProper
<1> QED
  BY <1>1, <1>2 DEF Proper

-----------------------------------------------------------------------------
(***************************************************************************)
(* Visiting a watcher of a falsified literal.                               *)
(***************************************************************************)
Visits == i \in 1..Len(units) /\ j \in 1..Len(wps[FalsifiedLit])

LEMMA Visit ==
  ASSUME NEW live, NEW bare, NEW C, TrailInv(live, bare, C), Visits
  PROVE  /\ FalsifiedLit \in Lit /\ IsFalse(FalsifiedLit) /\ ~IsTrue(FalsifiedLit)
         /\ Watcher = wps[FalsifiedLit][j]
         /\ Watcher \in live /\ Watcher \in 1..Len(clauses) /\ Len(clauses[Watcher]) >= 2
         /\ Proper(OtherFirst) /\ Len(OtherFirst) = Len(clauses[Watcher])
         /\ OtherFirst[2] = FalsifiedLit
         /\ \/ OtherFirst = clauses[Watcher]
            \/ /\ clauses[Watcher][1] = FalsifiedLit
               /\ OtherFirst[1] = clauses[Watcher][2]
               /\ \A k \in 3..Len(OtherFirst) : OtherFirst[k] = clauses[Watcher][k]
<1>1. TrailTypes /\ ClausesProper /\ TrailExact /\ WatchesHold(live, bare)
  BY DEF TrailInv
<1>2. i \in 1..Len(units) /\ j \in 1..Len(wps[FalsifiedLit])
  BY DEF Visits
<1>3. units[i].lit \in Lit /\ units[i].lit \in alpha
  BY <1>1, <1>2, UnitTypes DEF TrailExact
<1>4. FalsifiedLit \in Lit /\ IsFalse(FalsifiedLit) /\ ~IsTrue(FalsifiedLit)
  BY <1>1, <1>3, Consistent, LitFacts DEF FalsifiedLit, IsFalse, IsTrue
<1>5. wps[FalsifiedLit] \in Seq(Nat) /\ Len(wps[FalsifiedLit]) \in Nat
  BY <1>1, <1>4 DEF TrailTypes
<1> DEFINE l == FalsifiedLit
           w == Watcher
<1>7. /\ w \in live /\ Len(clauses[w]) >= 2
      /\ l = clauses[w][1] \/ l = clauses[w][2]
  <2>1. l \in Lit /\ wps[l] \in Seq(Nat) /\ j \in 1..Len(wps[l]) /\ w = wps[l][j]
    BY <1>2, <1>4, <1>5 DEF Watcher
  <2> HIDE DEF l, w
  <2>2. w \in Nat /\ Has(wps[l], w)
    BY <2>1 DEF Has
  <2> QED
    BY <1>1, <2>1, <2>2 DEF WatchesHold
<1>8. w \in 1..Len(clauses) /\ Proper(clauses[w]) /\ Len(clauses[w]) \in Nat
  BY <1>7, ClauseTypes, ProperFacts
<1> DEFINE D == clauses[w]
<1>9. 1 \in 1..Len(D) /\ 2 \in 1..Len(D)
  BY <1>7, <1>8
<1> HIDE DEF l, w
<1>10. /\ D[1] = l => /\ Proper(Swap(D, 1, 2)) /\ Len(Swap(D, 1, 2)) = Len(D)
                      /\ Swap(D, 1, 2)[1] = D[2] /\ Swap(D, 1, 2)[2] = D[1]
                      /\ \A k \in 1..Len(D) : k # 1 /\ k # 2 => Swap(D, 1, 2)[k] = D[k]
       /\ D[1] # l => D[2] = l
  BY <1>7, <1>8, <1>9, Swapped
<1>11. OtherFirst = IF D[1] = l THEN Swap(D, 1, 2) ELSE D
  BY DEF OtherFirst, l, w
<1>12. CASE D[1] = l
  <2> DEFINE E == Swap(D, 1, 2)
  <2>1. \A k \in 3..Len(D) : k \in 1..Len(D) /\ k # 1 /\ k # 2
    BY <1>8
  <2>2. OtherFirst = E /\ Len(E) = Len(D) /\ E[1] = D[2] /\ E[2] = l /\ Proper(E)
    BY <1>10, <1>11, <1>12
  <2>3. \A k \in 3..Len(OtherFirst) : OtherFirst[k] = D[k]
    BY <1>10, <1>12, <2>1, <2>2
  <2> QED
    BY <1>4, <1>7, <1>8, <1>12, <2>2, <2>3 DEF l, w, Watcher
<1>13. CASE D[1] # l
  <2>1. OtherFirst = D /\ D[2] = l
    BY <1>10, <1>11, <1>13
  <2> QED
    BY <1>4, <1>7, <1>8, <2>1 DEF l, w, Watcher
<1> QED
  BY <1>12, <1>13

(* A clause whose first literal is not true is no reason.                   *)
LEMMA NoReason ==
  ASSUME NEW live, NEW bare, NEW C, TrailInv(live, bare, C),
         NEW c \in live, ~IsTrue(clauses[c][1])
  PROVE  \A n \in 1..Len(units) : units[n].clause # c
<1> SUFFICES ASSUME NEW n \in 1..Len(units), units[n].clause = c PROVE FALSE
  OBVIOUS
<1>1. c # 0
  BY ClauseTypes
<1>2. Reason(n, live) /\ units[n].lit \in alpha
  BY <1>1 DEF TrailInv, ReasonsHold, TrailExact
<1> QED
  BY <1>2 DEF Reason, IsTrue

(* Putting the falsified watch second disturbs no reason.                   *)
LEMMA VisitedReason ==
  ASSUME NEW live, NEW bare, NEW C, TrailInv(live, bare, C), Visits
  PROVE  /\ OtherFirst # clauses[Watcher] => \A n \in 1..Len(units) : units[n].clause # Watcher
         /\ ~IsTrue(OtherFirst[1]) => \A n \in 1..Len(units) : units[n].clause # Watcher
<1>1. /\ Watcher \in live /\ ~IsTrue(FalsifiedLit)
      /\ \/ OtherFirst = clauses[Watcher]
         \/ clauses[Watcher][1] = FalsifiedLit
  BY Visit
<1>2. OtherFirst # clauses[Watcher] \/ ~IsTrue(OtherFirst[1]) => ~IsTrue(clauses[Watcher][1])
  BY <1>1
<1> QED
  BY <1>1, <1>2, NoReason

-----------------------------------------------------------------------------
(***************************************************************************)
(* What a step does to the clauses, the trail and the watches, one at a time *)
(***************************************************************************)
LEMMA ClauseEdited ==
  ASSUME TrailTypes, ClausesProper, NEW w \in 1..Len(clauses), NEW D, Proper(D),
         Len(D) = Len(clauses[w]), clauses' = [clauses EXCEPT ![w] = D]
  PROVE  /\ clauses' \in Seq(Seq(Lit)) /\ Len(clauses') = Len(clauses)
         /\ clauses'[w] = D
         /\ \A c \in 1..Len(clauses) : c # w => clauses'[c] = clauses[c]
         /\ \A c \in 1..Len(clauses) : Proper(clauses'[c]) /\ Len(clauses'[c]) = Len(clauses[c])
         /\ ClausesProper'
<1>1. clauses \in Seq(Seq(Lit)) /\ D \in Seq(Lit)
  BY DEF TrailTypes, Proper
<1>2. /\ clauses' \in Seq(Seq(Lit)) /\ Len(clauses') = Len(clauses)
      /\ \A c \in 1..Len(clauses) : clauses'[c] = IF c = w THEN D ELSE clauses[c]
  <2> DEFINE S == Seq(Lit)
  <2>1. clauses \in Seq(S) /\ D \in S
    BY <1>1
  <2> HIDE DEF S
  <2>2. /\ clauses' \in Seq(S) /\ Len(clauses') = Len(clauses)
        /\ \A c \in 1..Len(clauses) : clauses'[c] = IF c = w THEN D ELSE clauses[c]
    BY <2>1
  <2> QED
    BY <2>2 DEF S
<1>3. \A c \in 1..Len(clauses) : Proper(clauses[c])
  BY DEF ClausesProper
<1>4. \A c \in 1..Len(clauses) : Proper(clauses'[c]) /\ Len(clauses'[c]) = Len(clauses[c])
  BY <1>2, <1>3
<1>5. ClausesProper'
  BY <1>2, <1>4 DEF ClausesProper
<1> QED
  BY <1>2, <1>4, <1>5

(* Reasons last as long as their clauses do, and the units before them.      *)
LEMMA ReasonsLast ==
  ASSUME NEW live, NEW live2, NEW n \in Nat \ {0}, Reason(n, live),
         \A m \in 1..n : units'[m].lit = units[m].lit,
         units'[n].clause = units[n].clause,
         units[n].clause \in live2, clauses'[units[n].clause] = clauses[units[n].clause]
  PROVE  Reason(n, live2)'
<1>1. n \in 1..n /\ \A m \in 1..n - 1 : m \in 1..n
  OBVIOUS
<1>2. units'[n].lit = units[n].lit /\ \A m \in 1..n - 1 : units'[m].lit = units[m].lit
  BY <1>1
<1> QED
  BY <1>2 DEF Reason

(* A new unit goes to the end of the trail.                                 *)
LEMMA TrailExtended ==
  ASSUME TrailTypes, TrailExact, NEW l \in Lit, Unassigned(l), NEW c \in Nat \ {0}, SetUnit(l, c)
  PROVE  /\ units' \in Seq(Unit) /\ Len(units') = Len(units) + 1
         /\ units'[Len(units) + 1].lit = l /\ units'[Len(units) + 1].clause = c
         /\ \A n \in 1..Len(units) : units'[n] = units[n]
         /\ alpha' \subseteq Lit /\ vars_unit_indexes' \in [Var -> Nat]
         /\ \A v \in Var : v # VarOf(l) => vars_unit_indexes'[v] = vars_unit_indexes[v]
         /\ \A n \in 1..Len(units) : VarOf(units[n].lit) # VarOf(l)
         /\ TrailExact'
<1> DEFINE u == [lit |-> l, clause |-> c]
           L == Len(units)
<1>1. /\ units \in Seq(Unit) /\ u \in Unit /\ u.lit = l /\ u.clause = c /\ L \in Nat
      /\ alpha \subseteq Lit /\ vars_unit_indexes \in [Var -> Nat] /\ VarOf(l) \in Var
  BY LitFacts DEF TrailTypes, Unit
<1>2. /\ alpha' = alpha \cup {l} /\ units' = Append(units, u)
      /\ vars_unit_indexes' = [vars_unit_indexes EXCEPT ![VarOf(l)] = Len(units')]
  BY DEF SetUnit
<1> HIDE DEF u
<1>3. /\ units' \in Seq(Unit) /\ Len(units') = L + 1 /\ units'[L + 1] = u
      /\ \A n \in 1..L : units'[n] = units[n]
  BY <1>1, <1>2
<1>4. /\ alpha' \subseteq Lit /\ vars_unit_indexes' \in [Var -> Nat]
      /\ vars_unit_indexes'[VarOf(l)] = L + 1
      /\ \A v \in Var : v # VarOf(l) => vars_unit_indexes'[v] = vars_unit_indexes[v]
  BY <1>1, <1>2, <1>3
<1>5. \A n \in 1..L : VarOf(units[n].lit) # VarOf(l) /\ units[n].lit \in Lit
  <2> SUFFICES ASSUME NEW n \in 1..L
               PROVE  VarOf(units[n].lit) # VarOf(l) /\ units[n].lit \in Lit
    OBVIOUS
  <2>1. units[n].lit \in alpha /\ units[n].lit \in Lit
    BY UnitTypes DEF TrailExact
  <2>2. units[n].lit # l /\ units[n].lit # -l
    BY <2>1 DEF Unassigned, IsTrue, IsFalse
  <2> QED
    BY <2>1, <2>2, LitFacts
<1>6. TrailExact'
  <2>1. \A n \in 1..L + 1 : n \in 1..L \/ n = L + 1
    BY <1>1
  <2>2. \A n \in 1..L + 1 : units'[n].lit \in alpha'
    BY <1>1, <1>2, <1>3, <2>1 DEF TrailExact
  <2>3. \A x \in alpha' : \E n \in 1..L + 1 : units'[n].lit = x
    <3> SUFFICES ASSUME NEW x \in alpha' PROVE \E n \in 1..L + 1 : units'[n].lit = x
      OBVIOUS
    <3>1. CASE x = l
      <4>1. L + 1 \in 1..L + 1
        BY <1>1
      <4> QED
        BY <1>1, <1>3, <3>1, <4>1
    <3>2. CASE x \in alpha
      <4>1. PICK n \in 1..L : units[n].lit = x
        BY <3>2 DEF TrailExact
      <4>2. n \in 1..L + 1
        BY <1>1
      <4> QED
        BY <1>3, <4>1, <4>2
    <3> QED
      BY <1>2, <3>1, <3>2
  <2>4. \A m, n \in 1..L + 1 : VarOf(units'[m].lit) = VarOf(units'[n].lit) => m = n
    <3>1. \A n \in 1..L : VarOf(units'[n].lit) # VarOf(units'[L + 1].lit)
      BY <1>1, <1>3, <1>5
    <3>2. \A m, n \in 1..L : VarOf(units'[m].lit) = VarOf(units'[n].lit) => m = n
      BY <1>3 DEF TrailExact
    <3> QED
      BY <2>1, <3>1, <3>2
  <2>5. \A n \in 1..L + 1 :
          vars_unit_indexes'[VarOf(units'[n].lit)] = IF units'[n].clause = 0 THEN 0 ELSE n
    <3> SUFFICES ASSUME NEW n \in 1..L + 1
                 PROVE  vars_unit_indexes'[VarOf(units'[n].lit)]
                          = IF units'[n].clause = 0 THEN 0 ELSE n
      OBVIOUS
    <3>1. CASE n = L + 1
      BY <1>1, <1>3, <1>4, <3>1
    <3>2. CASE n \in 1..L
      <4>1. VarOf(units[n].lit) \in Var /\ units'[n] = units[n]
        BY <1>3, <1>5, <3>2, LitFacts
      <4> QED
        BY <1>4, <1>5, <3>2, <4>1 DEF TrailExact
    <3> QED
      BY <2>1, <3>1, <3>2
  <2>6. ASSUME NEW v \in Var, vars_unit_indexes'[v] # 0
        PROVE  /\ vars_unit_indexes'[v] \in 1..L + 1
               /\ VarOf(units'[vars_unit_indexes'[v]].lit) = v
    <3>1. CASE v = VarOf(l)
      BY <1>1, <1>3, <1>4, <3>1
    <3>2. CASE v # VarOf(l)
      <4>1. vars_unit_indexes'[v] = vars_unit_indexes[v]
        BY <1>4, <3>2
      <4>2. /\ vars_unit_indexes[v] \in 1..L
            /\ VarOf(units[vars_unit_indexes[v]].lit) = v
        BY <2>6, <4>1 DEF TrailExact
      <4> QED
        BY <1>1, <1>3, <4>1, <4>2
    <3> QED
      BY <3>1, <3>2
  <2> QED
    BY <1>3, <2>2, <2>3, <2>4, <2>5, <2>6 DEF TrailExact
<1> QED
  BY <1>1, <1>3, <1>4, <1>5, <1>6 DEF u

(***************************************************************************)
(* Watch lists: a clause is appended, or removed from its place.            *)
(***************************************************************************)
LEMMA Appended ==
  ASSUME NEW s \in Seq(Nat), OnceEach(s), NEW c \in Nat, ~Has(s, c)
  PROVE  /\ Append(s, c) \in Seq(Nat) /\ OnceEach(Append(s, c))
         /\ \A d : Has(Append(s, c), d) <=> Has(s, d) \/ d = c
<1> DEFINE t == Append(s, c)
<1>1. /\ t \in Seq(Nat) /\ Len(t) = Len(s) + 1 /\ t[Len(s) + 1] = c /\ Len(s) \in Nat
      /\ \A k \in 1..Len(s) : t[k] = s[k]
      /\ \A k \in 1..Len(s) + 1 : k \in 1..Len(s) \/ k = Len(s) + 1
      /\ Len(s) + 1 \in 1..Len(s) + 1 /\ 1..Len(s) \subseteq 1..Len(s) + 1
  OBVIOUS
<1> HIDE DEF t
<1>2. \A k \in 1..Len(s) : t[k] # c
  BY <1>1 DEF Has
<1>3. \A k, m \in 1..Len(t) : t[k] = t[m] => k = m
  BY <1>1, <1>2 DEF OnceEach
<1>4. \A d : Has(t, d) <=> Has(s, d) \/ d = c
  BY <1>1 DEF Has
<1> QED
  BY <1>1, <1>3, <1>4 DEF OnceEach, t

LEMMA Removed ==
  ASSUME NEW s \in Seq(Nat), OnceEach(s), NEW k \in 1..Len(s)
  PROVE  /\ RemoveWatch(s, k) \in Seq(Nat) /\ OnceEach(RemoveWatch(s, k))
         /\ \A d : Has(RemoveWatch(s, k), d) <=> Has(s, d) /\ d # s[k]
<1> DEFINE e == [s EXCEPT ![k] = s[Len(s)]]
           t == RemoveWatch(s, k)
<1> PICK L \in Nat : L = Len(s) /\ L >= 1
  OBVIOUS
<1>1. e \in Seq(Nat) /\ Len(e) = L /\ \A m \in 1..L : e[m] = IF m = k THEN s[L] ELSE s[m]
  OBVIOUS
<1>2. t = SubSeq(e, 1, L - 1)
  BY <1>1 DEF RemoveWatch
<1> HIDE DEF e, t
<1>3. t \in Seq(Nat) /\ Len(t) = L - 1 /\ \A m \in 1..L - 1 : t[m] = e[m]
  <2>1. L - 1 \in Nat /\ L - 1 <= Len(e)
    BY <1>1
  <2> QED
    BY <1>1, <1>2, <2>1, Prefix
<1>5. /\ \A m \in 1..L - 1 : m \in 1..L /\ m # L
      /\ L \in 1..L /\ \A m \in 1..L : m # L => m \in 1..L - 1
  OBVIOUS
<1>4. \A m \in 1..L - 1 : t[m] = IF m = k THEN s[L] ELSE s[m]
  BY <1>1, <1>3, <1>5
<1>6. \A m, n \in 1..L - 1 : t[m] = t[n] => m = n
  <2>1. \A m, n \in 1..L : s[m] = s[n] => m = n
    BY DEF OnceEach
  <2> SUFFICES ASSUME NEW m \in 1..L - 1, NEW n \in 1..L - 1, t[m] = t[n] PROVE m = n
    OBVIOUS
  <2>2. m \in 1..L /\ n \in 1..L /\ m # L /\ n # L /\ L \in 1..L
    BY <1>5
  <2>3. /\ t[m] = IF m = k THEN s[L] ELSE s[m]
        /\ t[n] = IF n = k THEN s[L] ELSE s[n]
    BY <1>4
  <2> QED
    BY <2>1, <2>2, <2>3
<1>7. ASSUME NEW d PROVE Has(t, d) <=> Has(s, d) /\ d # s[k]
  <2>1. ASSUME NEW m \in 1..L - 1, t[m] = d PROVE Has(s, d) /\ d # s[k]
    <3>1. CASE m = k
      BY <1>4, <1>5, <2>1, <3>1 DEF Has, OnceEach
    <3>2. CASE m # k
      BY <1>4, <1>5, <2>1, <3>2 DEF Has, OnceEach
    <3> QED
      BY <3>1, <3>2
  <2>2. ASSUME NEW m \in 1..L, s[m] = d, d # s[k] PROVE Has(t, d)
    <3>1. CASE m = L
      <4>1. k \in 1..L - 1 /\ t[k] = d
        BY <1>4, <1>5, <2>2, <3>1
      <4> QED
        BY <1>3, <4>1 DEF Has
    <3>2. CASE m # L
      <4>1. m \in 1..L - 1 /\ t[m] = d
        BY <1>4, <1>5, <2>2, <3>2
      <4> QED
        BY <1>3, <4>1 DEF Has
    <3> QED
      BY <3>1, <3>2
  <2> QED
    BY <1>3, <2>1, <2>2 DEF Has
<1> QED
  BY <1>3, <1>6, <1>7 DEF OnceEach, t

(* A longer trail disturbs no level.                                        *)
LEMMA LevelsExtended ==
  ASSUME NEW live, NEW bare, NEW C, TrailInv(live, bare, C),
         UNCHANGED <<levelVars, markVars>>,
         Len(units') \in Nat, Len(units) <= Len(units'),
         \A n \in 1..Len(units) : units'[n] = units[n],
         \A n \in 1..Len(units') : n > Len(units) => units'[n].clause # 0,
         \A n \in 1..Len(units) :
           vars_unit_indexes'[VarOf(units[n].lit)] = vars_unit_indexes[VarOf(units[n].lit)]
  PROVE  Levels(C)'
<1> DEFINE CV == Vars(ToSet(C))
<1>1. /\ TrailTypes /\ Levels(C) /\ Len(units) \in Nat
      /\ up_state \in {"GLOBAL_UP", "CANDIDATE_UP", "RAT_UP"}
  BY UnitTypes DEF TrailInv, TrailTypes
<1>2. /\ up_state' = up_state /\ candidate_assumed' = candidate_assumed
      /\ candidate_unit' = candidate_unit /\ RAT_assumed' = RAT_assumed
      /\ assumed' = assumed /\ RAT_marked' = RAT_marked
  BY DEF levelVars, markVars
<1>3. \A n \in 1..Len(units') : n \in 1..Len(units) \/ n > Len(units)
  BY <1>1
<1>4. CASE up_state = "GLOBAL_UP"
  <2>1. \A n \in 1..Len(units') : units'[n].clause # 0
    BY <1>1, <1>3, <1>4 DEF Levels
  <2> QED
    BY <1>1, <1>2, <1>4, <2>1 DEF Levels
<1>5. CASE up_state # "GLOBAL_UP"
  <2>1. CandidateLevel(C)
    BY <1>1, <1>5 DEF Levels
  <2>2. candidate_unit \in Nat /\ RAT_assumed \in Nat /\ candidate_assumed \in Nat
    BY <1>1 DEF TrailTypes
  <2>3. candidate_unit <= Len(units') + 1
    BY <1>1, <1>5, <2>1, <2>2 DEF CandidateLevel
  <2>4. ASSUME NEW n \in 1..Len(units')
        PROVE  /\ n < candidate_assumed => units'[n].clause # 0
               /\ candidate_assumed <= n /\ n < candidate_unit =>
                    units'[n].clause = 0 /\ VarOf(units'[n].lit) \in CV
    <3>1. CASE n \in 1..Len(units)
      BY <2>1, <3>1 DEF CandidateLevel
    <3>2. CASE n > Len(units)
      <4>1. ~(n < candidate_unit) /\ units'[n].clause # 0
        BY <1>1, <2>1, <2>2, <3>2 DEF CandidateLevel
      <4> QED
        BY <4>1
    <3> QED
      BY <1>3, <3>1, <3>2
  <2>5. ASSUME NEW v \in CV
        PROVE  /\ \E n \in 1..Len(units') : n < candidate_unit /\ VarOf(units'[n].lit) = v
               /\ vars_unit_indexes'[v] = vars_unit_indexes[v]
    <3>1. PICK n \in 1..Len(units) : n < candidate_unit /\ VarOf(units[n].lit) = v
      BY <2>1 DEF CandidateLevel
    <3>2. n \in 1..Len(units') /\ units'[n] = units[n]
      BY <1>1
    <3> QED
      BY <3>1, <3>2
  <2>6. assumed = {v \in CV : vars_unit_indexes'[v] > 0} \cup RAT_marked
    <3>1. assumed = {v \in CV : vars_unit_indexes[v] > 0} \cup RAT_marked
      BY <2>1 DEF CandidateLevel
    <3> QED
      BY <2>5, <3>1
  <2> HIDE DEF CV
  <2>7. CandidateLevel(C)'
    BY <1>2, <2>1, <2>3, <2>4, <2>5, <2>6 DEF CandidateLevel, CV
  <2>8. up_state = "RAT_UP" => candidate_unit <= RAT_assumed /\ RAT_assumed <= Len(units') + 1
    BY <1>1, <2>2 DEF Levels
  <2> QED
    BY <1>1, <1>2, <1>5, <2>7, <2>8 DEF Levels
<1> QED
  BY <1>4, <1>5

(* What stays when the units and the levels do.                             *)
LEMMA Unmoved ==
  ASSUME NEW live, NEW bare, NEW C, TrailInv(live, bare, C), NEW live2,
         UNCHANGED <<alphaVars, levelVars, markVars>>,
         \A n \in 1..Len(units) :
           units[n].clause # 0 => /\ clauses'[units[n].clause] = clauses[units[n].clause]
                                  /\ units[n].clause \in live2
  PROVE  TrailExact' /\ ReasonsHold(live2)' /\ Levels(C)'
<1>1. /\ TrailTypes /\ TrailExact /\ ReasonsHold(live) /\ Len(units) \in Nat
      /\ units' = units /\ alpha' = alpha /\ vars_unit_indexes' = vars_unit_indexes
  BY UnitTypes DEF TrailInv, alphaVars
<1>2. TrailExact'
  BY <1>1 DEF TrailExact
<1>3. ASSUME NEW n \in 1..Len(units'), units'[n].clause # 0
      PROVE  Reason(n, live2)'
  <2>1. n \in 1..Len(units) /\ units[n].clause # 0 /\ Reason(n, live) /\ n \in Nat \ {0}
    BY <1>1, <1>3 DEF ReasonsHold
  <2> QED
    BY <1>1, <2>1, ReasonsLast
<1>4. Levels(C)'
  <2>1. /\ Len(units') \in Nat /\ Len(units) <= Len(units')
        /\ \A n \in 1..Len(units') : ~(n > Len(units))
    BY <1>1
  <2> QED
    BY <1>1, <2>1, LevelsExtended
<1> QED
  BY <1>2, <1>3, <1>4 DEF ReasonsHold

(* Steps that leave the watches, the trail and the live clauses as they are. *)
LEMMA StillKeeps ==
  ASSUME NEW live, NEW bare, NEW C, TrailInv(live, bare, C), NEW bare2, NEW C2,
         UNCHANGED <<wps, alphaVars, levelVars, markVars>>,
         clauses' \in Seq(Seq(Lit)), ClausesProper', live \subseteq 1..Len(clauses'),
         \A c \in live : clauses'[c] = clauses[c],
         bare \subseteq bare2, up_state = "GLOBAL_UP" \/ C2 = C
  PROVE  TrailInv(live, bare2, C2)'
<1>1. TrailTypes /\ ReasonsHold(live) /\ WatchesHold(live, bare) /\ Levels(C)
  BY DEF TrailInv
<1>2. TrailTypes'
  BY <1>1 DEF TrailTypes, alphaVars, levelVars, markVars
<1>3. TrailExact' /\ ReasonsHold(live)' /\ Levels(C)'
  <2>1. \A n \in 1..Len(units) : units[n].clause # 0 => units[n].clause \in live
    BY <1>1 DEF ReasonsHold, Reason
  <2> QED
    BY <2>1, Unmoved
<1>4. Levels(C2)'
  BY <1>3 DEF Levels, levelVars
<1>5. WatchesHold(live, bare2)'
  BY <1>1 DEF WatchesHold
<1> QED
  BY <1>2, <1>3, <1>4, <1>5 DEF TrailInv

(* The clauses of a watch list may change places.                           *)
Permuted ==
  /\ wps' \in [Lit -> Seq(Nat)]
  /\ \A l \in Lit : OnceEach(wps'[l]) /\ \A c : Has(wps'[l], c) <=> Has(wps[l], c)

LEMMA UnchangedPermuted ==
  ASSUME NEW live, NEW bare, NEW C, TrailInv(live, bare, C), wps' = wps
  PROVE  Permuted
BY DEF TrailInv, TrailTypes, WatchesHold, Permuted

Exchanges(f, a, b) == wps' = [wps EXCEPT ![f] = Swap(@, a, b)]

LEMMA SwapPermutes ==
  ASSUME NEW live, NEW bare, NEW C, TrailInv(live, bare, C), NEW f \in Lit,
         NEW a \in 1..Len(wps[f]), NEW b \in 1..Len(wps[f]), Exchanges(f, a, b)
  PROVE  /\ Permuted
         /\ Len(wps'[f]) = Len(wps[f])
         /\ \A k \in 1..Len(wps[f]) : wps'[f][k] = IF k = b THEN wps[f][a]
                                                   ELSE IF k = a THEN wps[f][b] ELSE wps[f][k]
         /\ \A l \in Lit : l # f => wps'[l] = wps[l]
<1> DEFINE s == wps[f]
           t == Swap(s, a, b)
<1>1. wps \in [Lit -> Seq(Nat)] /\ s \in Seq(Nat) /\ \A l \in Lit : OnceEach(wps[l])
  BY DEF TrailInv, TrailTypes, WatchesHold
<1>2. /\ t \in Seq(Nat) /\ Len(t) = Len(s)
      /\ \A k \in 1..Len(s) : t[k] = IF k = b THEN s[a] ELSE IF k = a THEN s[b] ELSE s[k]
  BY <1>1 DEF Swap
<1>3. wps' \in [Lit -> Seq(Nat)] /\ wps'[f] = t /\ \A l \in Lit : l # f => wps'[l] = wps[l]
  BY <1>1, <1>2 DEF Exchanges
<1>4. OnceEach(s)
  BY <1>1
<1> HIDE DEF s, t
<1>5. a \in 1..Len(s) /\ b \in 1..Len(s)
  BY DEF s
<1>6. OnceEach(t)
  BY <1>2, <1>4, <1>5 DEF OnceEach
<1>7. \A c : Has(t, c) <=> Has(s, c)
  BY <1>2, <1>5 DEF Has
<1>8. Permuted
  BY <1>1, <1>3, <1>6, <1>7 DEF Permuted, s
<1> QED
  BY <1>2, <1>3, <1>8 DEF s

(* The two watches of a clause change places, if they change at all.         *)
LEMMA WatchesEdited ==
  ASSUME NEW live, NEW bare, NEW C, TrailInv(live, bare, C),
         NEW w \in live, Len(clauses[w]) >= 2,
         NEW D, Proper(D), Len(D) = Len(clauses[w]),
         \/ D[1] = clauses[w][1] /\ D[2] = clauses[w][2]
         \/ D[1] = clauses[w][2] /\ D[2] = clauses[w][1],
         clauses' = [clauses EXCEPT ![w] = D], Permuted
  PROVE  WatchesHold(live, bare)'
<1>1. /\ clauses'[w] = D /\ w \in 1..Len(clauses) /\ live \subseteq 1..Len(clauses)
      /\ \A c \in 1..Len(clauses) : c # w => clauses'[c] = clauses[c]
      /\ \A c \in 1..Len(clauses) : Len(clauses'[c]) = Len(clauses[c])
  BY ClauseTypes, ClauseEdited DEF TrailInv
<1>2. \A c \in live :
        /\ Len(clauses'[c]) = Len(clauses[c])
        /\ \/ clauses'[c][1] = clauses[c][1] /\ clauses'[c][2] = clauses[c][2]
           \/ clauses'[c][1] = clauses[c][2] /\ clauses'[c][2] = clauses[c][1]
  BY <1>1
<1>3. \A l \in Lit : OnceEach(wps'[l]) /\ \A c : Has(wps'[l], c) <=> Has(wps[l], c)
  BY DEF Permuted
<1>4. \A l \in Lit : \A c \in Nat : Has(wps'[l], c) =>
        c \in live /\ Len(clauses'[c]) >= 2 /\ (l = clauses'[c][1] \/ l = clauses'[c][2])
  <2>1. \A l \in Lit : \A c \in Nat : Has(wps[l], c) =>
          c \in live /\ Len(clauses[c]) >= 2 /\ (l = clauses[c][1] \/ l = clauses[c][2])
    BY DEF TrailInv, WatchesHold
  <2> QED
    BY <1>2, <1>3, <2>1
<1>5. ASSUME NEW c \in live, Len(clauses'[c]) >= 2, c \notin bare
      PROVE  Has(wps'[clauses'[c][1]], c) /\ Has(wps'[clauses'[c][2]], c)
  <2>1. Len(clauses[c]) >= 2 /\ Proper(clauses[c])
    BY <1>2, <1>5, ClauseTypes
  <2>2. Has(wps[clauses[c][1]], c) /\ Has(wps[clauses[c][2]], c)
    BY <1>5, <2>1 DEF TrailInv, WatchesHold
  <2>3. clauses[c][1] \in Lit /\ clauses[c][2] \in Lit
    BY <2>1, ProperFacts
  <2> QED
    BY <1>2, <1>3, <2>2, <2>3
<1> QED
  BY <1>3, <1>4, <1>5 DEF WatchesHold

LEMMA PutFirst ==
  ASSUME NEW live, NEW bare, NEW C, TrailInv(live, bare, C), Visits, PutOtherFirst, Permuted
  PROVE  /\ clauses' \in Seq(Seq(Lit)) /\ Len(clauses') = Len(clauses)
         /\ clauses'[Watcher] = OtherFirst
         /\ \A c \in 1..Len(clauses) : c # Watcher => clauses'[c] = clauses[c]
         /\ ClausesProper' /\ WatchesHold(live, bare)'
         /\ \A n \in 1..Len(units) :
              units[n].clause # 0 => /\ clauses'[units[n].clause] = clauses[units[n].clause]
                                     /\ units[n].clause \in live
<1> DEFINE w == Watcher
           D == OtherFirst
<1>1. TrailTypes /\ ClausesProper /\ ReasonsHold(live)
  BY DEF TrailInv
<1>2. /\ w \in live /\ w \in 1..Len(clauses) /\ Len(clauses[w]) >= 2
      /\ Proper(D) /\ Len(D) = Len(clauses[w])
      /\ \/ D[1] = clauses[w][1] /\ D[2] = clauses[w][2]
         \/ D[1] = clauses[w][2] /\ D[2] = clauses[w][1]
      /\ D # clauses[w] => \A n \in 1..Len(units) : units[n].clause # w
  BY Visit, VisitedReason
<1>3. clauses' = [clauses EXCEPT ![w] = D]
  BY DEF PutOtherFirst
<1> HIDE DEF w, D
<1>4. /\ clauses' \in Seq(Seq(Lit)) /\ Len(clauses') = Len(clauses)
      /\ clauses'[w] = D
      /\ \A c \in 1..Len(clauses) : c # w => clauses'[c] = clauses[c]
      /\ ClausesProper'
  BY <1>1, <1>2, <1>3, ClauseEdited
<1>5. WatchesHold(live, bare)'
  BY <1>2, <1>3, WatchesEdited
<1>6. ASSUME NEW n \in 1..Len(units), units[n].clause # 0
      PROVE  clauses'[units[n].clause] = clauses[units[n].clause] /\ units[n].clause \in live
  <2>1. units[n].clause \in live /\ units[n].clause \in 1..Len(clauses)
    BY <1>1, <1>6, ClauseTypes DEF ReasonsHold, Reason
  <2> QED
    BY <1>2, <1>4, <2>1
<1> QED
  BY <1>4, <1>5, <1>6 DEF w, D

(* A watcher is left as it is, but for the order of its watches.             *)
LEMMA PutKeeps ==
  ASSUME NEW live, NEW bare, NEW C, TrailInv(live, bare, C), Visits, PutOtherFirst, Permuted,
         UNCHANGED <<alphaVars, levelVars, markVars>>
  PROVE  TrailInv(live, bare, C)'
<1>1. /\ clauses' \in Seq(Seq(Lit)) /\ Len(clauses') = Len(clauses)
      /\ ClausesProper' /\ WatchesHold(live, bare)'
      /\ TrailExact' /\ ReasonsHold(live)' /\ Levels(C)'
  BY PutFirst, Unmoved
<1>2. TrailTypes'
  BY <1>1 DEF TrailInv, TrailTypes, Permuted, alphaVars, levelVars, markVars
<1> QED
  BY <1>1, <1>2 DEF TrailInv

(* A clause whose other literals are false is the reason of a new unit.      *)
LEMMA UnitAdded ==
  ASSUME NEW live, NEW bare, NEW C, TrailInv(live, bare, C), NEW live2, live \subseteq live2,
         NEW l \in Lit, Unassigned(l), NEW c \in Nat \ {0}, SetUnit(l, c), c \in live2,
         clauses'[c] \in Seq(Lit), Len(clauses'[c]) >= 1, clauses'[c][1] = l,
         \A k \in 2..Len(clauses'[c]) : IsFalse(clauses'[c][k]),
         \A n \in 1..Len(units) :
           units[n].clause # 0 => clauses'[units[n].clause] = clauses[units[n].clause],
         UNCHANGED <<levelVars, markVars>>
  PROVE  /\ units' \in Seq(Unit) /\ Len(units') = Len(units) + 1
         /\ \A n \in 1..Len(units) : units'[n] = units[n]
         /\ alpha' \subseteq Lit /\ vars_unit_indexes' \in [Var -> Nat]
         /\ TrailExact' /\ ReasonsHold(live2)' /\ Levels(C)'
<1>1. TrailTypes /\ TrailExact /\ ReasonsHold(live) /\ Len(units) \in Nat
  BY UnitTypes DEF TrailInv
<1>2. /\ units' \in Seq(Unit) /\ Len(units') = Len(units) + 1
      /\ units'[Len(units) + 1].lit = l /\ units'[Len(units) + 1].clause = c
      /\ \A n \in 1..Len(units) : units'[n] = units[n]
      /\ alpha' \subseteq Lit /\ vars_unit_indexes' \in [Var -> Nat]
      /\ \A v \in Var : v # VarOf(l) => vars_unit_indexes'[v] = vars_unit_indexes[v]
      /\ \A n \in 1..Len(units) : VarOf(units[n].lit) # VarOf(l)
      /\ TrailExact'
  BY <1>1, TrailExtended
<1> PICK N : N = Len(units) + 1
  OBVIOUS
<1>3. \A n \in 1..Len(units') : n \in 1..Len(units) \/ n = N
  BY <1>1, <1>2
<1>4. Reason(N, live2)'
  <2>1. \A x \in alpha : \E m \in 1..Len(units) : units'[m].lit = x
    BY <1>1, <1>2 DEF TrailExact
  <2>2. N - 1 = Len(units) /\ units'[N].clause = c /\ units'[N].lit = l
    BY <1>1, <1>2
  <2>3. \A k \in 2..Len(clauses'[c]) : \E m \in 1..N - 1 : units'[m].lit = -clauses'[c][k]
    BY <2>1, <2>2 DEF IsFalse
  <2> QED
    BY <2>2, <2>3 DEF Reason
<1>5. ASSUME NEW n \in 1..Len(units), units[n].clause # 0
      PROVE  Reason(n, live2)'
  <2>1. Reason(n, live) /\ n \in Nat \ {0}
    BY <1>1, <1>5 DEF ReasonsHold
  <2>3. units[n].clause \in live2
    BY <2>1 DEF Reason
  <2>2. \A m \in 1..n : m \in 1..Len(units)
    BY <1>1
  <2> QED
    BY <1>2, <1>5, <2>1, <2>2, <2>3, ReasonsLast
<1>6. ReasonsHold(live2)'
  <2> SUFFICES ASSUME NEW n \in 1..Len(units'), units'[n].clause # 0
               PROVE  Reason(n, live2)'
    BY DEF ReasonsHold
  <2>1. CASE n = N
    BY <1>4, <2>1
  <2>2. CASE n \in 1..Len(units)
    BY <1>2, <1>5, <2>2
  <2> QED
    BY <1>3, <2>1, <2>2
<1>7. Levels(C)'
  <2>1. /\ Len(units') \in Nat /\ Len(units) <= Len(units')
        /\ \A n \in 1..Len(units') : n > Len(units) => units'[n].clause # 0
    BY <1>1, <1>2, <1>3
  <2>2. \A n \in 1..Len(units) :
          vars_unit_indexes'[VarOf(units[n].lit)] = vars_unit_indexes[VarOf(units[n].lit)]
    BY <1>1, <1>2, UnitTypes, LitFacts
  <2> QED
    BY <1>2, <2>1, <2>2, LevelsExtended
<1> QED
  BY <1>2, <1>6, <1>7

(* A watcher whose other literals are false makes its other watch true.      *)
LEMMA UnitKeeps ==
  ASSUME NEW live, NEW bare, NEW C, TrailInv(live, bare, C), Visits, PutOtherFirst, Permuted,
         Unassigned(OtherFirst[1]), Replacements = {}, SetUnit(OtherFirst[1], Watcher),
         UNCHANGED <<levelVars, markVars>>
  PROVE  TrailInv(live, bare, C)'
<1> DEFINE l == OtherFirst[1]
           w == Watcher
<1>1. /\ clauses' \in Seq(Seq(Lit)) /\ Len(clauses') = Len(clauses)
      /\ clauses'[w] = OtherFirst
      /\ ClausesProper' /\ WatchesHold(live, bare)'
      /\ \A n \in 1..Len(units) :
           units[n].clause # 0 => clauses'[units[n].clause] = clauses[units[n].clause]
  BY PutFirst
<1>2. /\ w \in live /\ w \in Nat \ {0} /\ Len(OtherFirst) \in Nat
      /\ Proper(OtherFirst) /\ Len(OtherFirst) >= 2 /\ OtherFirst \in Seq(Lit)
      /\ OtherFirst[2] = FalsifiedLit /\ IsFalse(FalsifiedLit)
  BY Visit, ProperFacts, ClauseTypes
<1>3. l \in Lit
  BY <1>2
<1>4. \A k \in 2..Len(OtherFirst) : IsFalse(OtherFirst[k])
  <2>1. \A k \in 2..Len(OtherFirst) : k = 2 \/ k \in 3..Len(OtherFirst)
    BY <1>2
  <2>2. \A k \in 3..Len(OtherFirst) : IsFalse(OtherFirst[k])
    BY DEF Replacements
  <2> QED
    BY <1>2, <2>1, <2>2
<1>5. Unassigned(l) /\ SetUnit(l, w)
  OBVIOUS
<1> HIDE DEF l, w
<1>6. clauses'[w] \in Seq(Lit) /\ Len(clauses'[w]) >= 1 /\ clauses'[w][1] = l
  BY <1>1, <1>2 DEF l
<1>7. \A k \in 2..Len(clauses'[w]) : IsFalse(clauses'[w][k])
  BY <1>1, <1>4
<1>8. /\ units' \in Seq(Unit)
      /\ alpha' \subseteq Lit /\ vars_unit_indexes' \in [Var -> Nat]
      /\ TrailExact' /\ ReasonsHold(live)' /\ Levels(C)'
  <2>1. TrailInv(live, bare, C) /\ live \subseteq live /\ UNCHANGED <<levelVars, markVars>>
    OBVIOUS
  <2> QED
    BY ONLY <1>1, <1>2, <1>3, <1>5, <1>6, <1>7, <2>1, UnitAdded, ZenonT(40)
<1>9. TrailTypes'
  BY <1>1, <1>8 DEF TrailInv, TrailTypes, Permuted, levelVars, markVars
<1> QED
  BY <1>1, <1>8, <1>9 DEF TrailInv

(* A watcher with a literal that is not false is watched by it instead.      *)
LEMMA MoveFacts ==
  ASSUME NEW live, NEW bare, NEW C, TrailInv(live, bare, C), Visits,
         Replacements # {}, MoveWatch
  PROVE  \E k \in 3..Len(OtherFirst) :
           /\ ~IsFalse(OtherFirst[k]) /\ OtherFirst[k] \in Lit /\ OtherFirst[k] # FalsifiedLit
           /\ clauses' = [clauses EXCEPT ![Watcher] = Swap(OtherFirst, 2, k)]
           /\ wps'[OtherFirst[k]] = Append(wps[OtherFirst[k]], Watcher)
           /\ wps'[FalsifiedLit] = RemoveWatch(wps[FalsifiedLit], j)
           /\ wps' = [l \in Lit |-> wps'[l]]
           /\ \A l \in Lit : l # OtherFirst[k] /\ l # FalsifiedLit => wps'[l] = wps[l]
<1> DEFINE D == OtherFirst
           k == CHOOSE m \in Replacements : \A n \in Replacements : m <= n
           x == D[k]
<1>1. /\ clauses' = [clauses EXCEPT ![Watcher] = Swap(D, 2, k)]
      /\ wps' = [wps EXCEPT ![x] = Append(@, Watcher), ![FalsifiedLit] = RemoveWatch(@, j)]
  BY DEF MoveWatch
<1>2. /\ D \in Seq(Lit) /\ Len(D) \in Nat /\ FalsifiedLit \in Lit /\ IsFalse(FalsifiedLit)
  BY Visit, ProperFacts
<1>3. k \in 3..Len(D) /\ ~IsFalse(D[k])
  <2>1. Replacements \subseteq 3..Len(D) /\ 3..Len(D) \subseteq Nat
    BY <1>2 DEF Replacements
  <2>2. k \in Replacements
    BY <2>1, FirstPlace
  <2> QED
    BY <2>1, <2>2 DEF Replacements
<1> HIDE DEF k, D
<1>4. x \in Lit /\ x # FalsifiedLit
  BY <1>2, <1>3
<1>5. wps \in [Lit -> Seq(Nat)]
  BY DEF TrailInv, TrailTypes
<1> HIDE DEF x
<1>6. /\ wps'[x] = Append(wps[x], Watcher)
      /\ wps'[FalsifiedLit] = RemoveWatch(wps[FalsifiedLit], j)
      /\ wps' = [l \in Lit |-> wps'[l]]
      /\ \A l \in Lit : l # x /\ l # FalsifiedLit => wps'[l] = wps[l]
  BY <1>1, <1>2, <1>4, <1>5
<1> QED
  BY <1>1, <1>3, <1>4, <1>6 DEF D, x

LEMMA MoveKeeps ==
  ASSUME NEW live, NEW bare, NEW C, TrailInv(live, bare, C), Visits,
         ~IsTrue(OtherFirst[1]), Replacements # {}, MoveWatch,
         UNCHANGED <<alphaVars, levelVars, markVars>>
  PROVE  TrailInv(live, bare, C)'
<1> DEFINE E == OtherFirst
           w == Watcher
           f == FalsifiedLit
<1>1. PICK k \in 3..Len(E) :
           /\ ~IsFalse(E[k]) /\ E[k] \in Lit /\ E[k] # f
           /\ clauses' = [clauses EXCEPT ![w] = Swap(E, 2, k)]
           /\ wps'[E[k]] = Append(wps[E[k]], w)
           /\ wps'[f] = RemoveWatch(wps[f], j)
           /\ wps' = [l \in Lit |-> wps'[l]]
           /\ \A l \in Lit : l # E[k] /\ l # f => wps'[l] = wps[l]
  BY MoveFacts
<1> DEFINE D == Swap(E, 2, k)
           x == E[k]
<1>2. TrailTypes /\ ClausesProper /\ ReasonsHold(live)
  BY DEF TrailInv
<1>3. /\ w \in live /\ w \in 1..Len(clauses) /\ Len(clauses[w]) >= 2
      /\ Proper(E) /\ Len(E) = Len(clauses[w]) /\ E[2] = f /\ f \in Lit /\ IsFalse(f)
      /\ j \in 1..Len(wps[f]) /\ w = wps[f][j]
      /\ \/ E = clauses[w]
         \/ clauses[w][1] = f /\ E[1] = clauses[w][2]
      /\ \A n \in 1..Len(units) : units[n].clause # w
  BY Visit, VisitedReason DEF Visits
<1>4. /\ E \in Seq(Lit) /\ Len(E) \in Nat /\ w \in Nat /\ Len(clauses) \in Nat
      /\ \A m \in 1..Len(E) : E[m] \in Lit
      /\ \A m, n \in 1..Len(E) : E[m] = E[n] \/ E[m] = -E[n] => m = n
  BY <1>3, ProperFacts, ClauseTypes
<1>6. 1 \in 1..Len(E) /\ 2 \in 1..Len(E) /\ k \in 1..Len(E) /\ k # 1 /\ k # 2
  BY <1>1, <1>3, <1>4, SMTT(30)
<1> HIDE DEF E
<1>7. /\ Proper(D) /\ Len(D) = Len(clauses[w]) /\ D[1] = E[1] /\ D[2] = x
      /\ x \in Lit /\ x # f /\ x # E[1] /\ E[1] # f
  <2>1. /\ Proper(D) /\ Len(D) = Len(E) /\ D[2] = E[k]
        /\ \A m \in 1..Len(E) : m # 2 /\ m # k => D[m] = E[m]
    BY ONLY <1>3, <1>6, Swapped, ZenonT(40)
  <2>2. x \in Lit /\ x # E[2] /\ x # E[1] /\ E[1] # E[2]
    BY <1>4, <1>6
  <2> QED
    BY <1>3, <1>6, <2>1, <2>2
<1>8. /\ wps'[x] = Append(wps[x], w) /\ wps'[f] = RemoveWatch(wps[f], j)
      /\ wps' = [l \in Lit |-> wps'[l]]
      /\ \A l \in Lit : l # x /\ l # f => wps'[l] = wps[l]
      /\ clauses' = [clauses EXCEPT ![w] = D]
  BY <1>1
<1> HIDE DEF w, f, D, x
<1>9. /\ clauses' \in Seq(Seq(Lit)) /\ Len(clauses') = Len(clauses) /\ clauses'[w] = D
      /\ \A c \in 1..Len(clauses) : c # w => clauses'[c] = clauses[c]
      /\ ClausesProper'
  BY <1>2, <1>3, <1>7, <1>8, ClauseEdited
<1>10. ASSUME NEW n \in 1..Len(units), units[n].clause # 0
       PROVE  clauses'[units[n].clause] = clauses[units[n].clause] /\ units[n].clause \in live
  <2>1. units[n].clause \in live /\ units[n].clause \in 1..Len(clauses)
    BY <1>2, <1>10, ClauseTypes DEF ReasonsHold, Reason
  <2> QED
    BY <1>3, <1>9, <2>1
<1>12. TrailExact' /\ ReasonsHold(live)' /\ Levels(C)'
  BY <1>10, Unmoved
<1>13. /\ wps \in [Lit -> Seq(Nat)]
       /\ \A l \in Lit : wps[l] \in Seq(Nat) /\ OnceEach(wps[l])
       /\ \A l \in Lit : \A c \in Nat : Has(wps[l], c) =>
            c \in live /\ Len(clauses[c]) >= 2 /\ (l = clauses[c][1] \/ l = clauses[c][2])
       /\ \A c \in live : Len(clauses[c]) >= 2 /\ c \notin bare =>
            Has(wps[clauses[c][1]], c) /\ Has(wps[clauses[c][2]], c)
  BY <1>2 DEF TrailInv, TrailTypes, WatchesHold
<1>14. ~Has(wps[x], w)
  <2>1. x # clauses[w][1] /\ x # clauses[w][2]
    BY <1>3, <1>7
  <2> QED
    BY <1>4, <1>7, <1>13, <2>1
<1>15. /\ wps' \in [Lit -> Seq(Nat)]
       /\ \A l \in Lit : OnceEach(wps'[l])
       /\ \A l \in Lit : \A c :
            Has(wps'[l], c) <=> (Has(wps[l], c) /\ ~(l = f /\ c = w)) \/ (l = x /\ c = w)
  <2>2. /\ wps'[x] \in Seq(Nat) /\ OnceEach(wps'[x])
        /\ \A d : Has(wps'[x], d) <=> Has(wps[x], d) \/ d = w
    BY <1>4, <1>7, <1>8, <1>13, <1>14, Appended, SMTT(30)
  <2>3. /\ wps'[f] \in Seq(Nat) /\ OnceEach(wps'[f])
        /\ \A d : Has(wps'[f], d) <=> Has(wps[f], d) /\ d # w
    BY <1>3, <1>8, <1>13, Removed, SMTT(30)
  <2>4. \A l \in Lit : wps'[l] \in Seq(Nat) /\ OnceEach(wps'[l])
    BY <1>8, <1>13, <2>2, <2>3
  <2>5. ASSUME NEW l \in Lit, NEW c
        PROVE  Has(wps'[l], c) <=> (Has(wps[l], c) /\ ~(l = f /\ c = w)) \/ (l = x /\ c = w)
    BY <1>7, <1>8, <2>2, <2>3
  <2> QED
    BY <1>8, <2>4, <2>5
<1>16. WatchesHold(live, bare)'
  <2>2. ASSUME NEW l \in Lit, NEW c \in Nat, Has(wps'[l], c)
        PROVE  /\ c \in live /\ Len(clauses'[c]) >= 2
               /\ l = clauses'[c][1] \/ l = clauses'[c][2]
    <3>1. CASE c = w
      <4>1. l = x \/ (Has(wps[l], w) /\ l # f)
        BY <1>15, <2>2, <3>1
      <4>2. Has(wps[l], w) => l = clauses[w][1] \/ l = clauses[w][2]
        BY <1>4, <1>13
      <4>3. l = x \/ l = E[1]
        BY <1>3, <4>1, <4>2
      <4> QED
        BY <1>3, <1>7, <1>9, <3>1, <4>3
    <3>2. CASE c # w
      <4>1. Has(wps[l], c)
        BY <1>15, <2>2, <3>2
      <4>2. c \in live /\ Len(clauses[c]) >= 2 /\ (l = clauses[c][1] \/ l = clauses[c][2])
        BY <1>13, <4>1
      <4>3. clauses'[c] = clauses[c]
        BY <1>9, <3>2, <4>2, ClauseTypes
      <4> QED
        BY <4>2, <4>3
    <3> QED
      BY <3>1, <3>2
  <2>3. ASSUME NEW c \in live, Len(clauses'[c]) >= 2, c \notin bare
        PROVE  Has(wps'[clauses'[c][1]], c) /\ Has(wps'[clauses'[c][2]], c)
    <3>2. CASE c = w
      <4>1. Has(wps[clauses[w][1]], w) /\ Has(wps[clauses[w][2]], w)
        BY <1>3, <1>13, <2>3, <3>2
      <4>2. Has(wps[E[1]], w) /\ E[1] \in Lit
        BY <1>3, <1>4, <1>6, <4>1
      <4> QED
        BY <1>7, <1>9, <1>15, <3>2, <4>2
    <3>3. CASE c # w
      <4>1. clauses'[c] = clauses[c] /\ Len(clauses[c]) >= 2 /\ Proper(clauses[c])
        BY <1>9, <2>3, <3>3, ClauseTypes
      <4>2. /\ clauses[c][1] \in Lit /\ clauses[c][2] \in Lit
            /\ Has(wps[clauses[c][1]], c) /\ Has(wps[clauses[c][2]], c)
        BY <1>13, <2>3, <4>1, ProperFacts
      <4> QED
        BY <1>15, <3>3, <4>1, <4>2
    <3> QED
      BY <3>2, <3>3
  <2> QED
    BY <1>15, <2>2, <2>3 DEF WatchesHold
<1>17. TrailTypes'
  BY <1>2, <1>9, <1>15 DEF TrailTypes, alphaVars, levelVars, markVars
<1> QED
  BY <1>9, <1>12, <1>16, <1>17 DEF TrailInv

-----------------------------------------------------------------------------
(***************************************************************************)
(* A clause is added.                                                       *)
(***************************************************************************)
LEMMA Fresh ==
  ASSUME NEW live, NEW bare, NEW C, TrailInv(live, bare, C),
         NEW a \in 1..Len(clauses), a \notin live
  PROVE  /\ a \in Nat \ {0} /\ live \subseteq 1..Len(clauses)
         /\ \A n \in 1..Len(units) : units[n].clause # a
         /\ \A l \in Lit : ~Has(wps[l], a)
<1>1. /\ TrailTypes /\ ReasonsHold(live) /\ WatchesHold(live, bare) /\ Len(clauses) \in Nat
      /\ live \subseteq 1..Len(clauses)
  BY ClauseTypes DEF TrailInv
<1>2. a \in Nat \ {0}
  BY <1>1
<1>3. \A n \in 1..Len(units) : units[n].clause # 0 => units[n].clause \in live
  BY <1>1 DEF ReasonsHold, Reason
<1>4. \A l \in Lit : ~Has(wps[l], a)
  BY <1>1, <1>2 DEF WatchesHold
<1> QED
  BY <1>1, <1>2, <1>3, <1>4

(* A clause that is not watched is shorter, or false.                       *)
LEMMA UnwatchedAdded ==
  ASSUME NEW live, NEW bare, NEW C, TrailInv(live, bare, C),
         NEW a \in 1..Len(clauses), a \notin live, NEW bare2, bare \subseteq bare2,
         Len(clauses[a]) < 2 \/ a \in bare2, UNCHANGED <<clauses, wps>>
  PROVE  WatchesHold(live \cup {a}, bare2)' /\ live \cup {a} \subseteq 1..Len(clauses)
<1>1. WatchesHold(live, bare) /\ live \subseteq 1..Len(clauses)
  BY DEF TrailInv
<1>2. \A c \in live \cup {a} : Len(clauses[c]) >= 2 /\ c \notin bare2 => c \in live /\ c \notin bare
  <2>1. Len(clauses[a]) \in Nat
    BY ClauseTypes, ProperFacts
  <2>2. Len(clauses[a]) < 2 => ~(Len(clauses[a]) >= 2)
    BY <2>1
  <2> QED
    BY <2>2
<1>3. WatchesHold(live \cup {a}, bare2)'
  BY <1>1, <1>2 DEF WatchesHold
<1> QED
  BY <1>1, <1>3

(* A clause that is false is added, without watches.                        *)
LEMMA FalsifiedKeeps ==
  ASSUME NEW live, NEW bare, NEW C, TrailInv(live, bare, C),
         NEW a \in 1..Len(clauses), a \notin live,
         UNCHANGED <<clauses, wps, alphaVars, levelVars, markVars>>
  PROVE  TrailInv(live \cup {a}, bare \cup {a}, C)'
<1>1. /\ WatchesHold(live \cup {a}, bare \cup {a})'
      /\ live \cup {a} \subseteq 1..Len(clauses)
  <2> PICK bare2 : bare2 = bare \cup {a}
    OBVIOUS
  <2>1. bare \subseteq bare2 /\ a \in bare2
    OBVIOUS
  <2>2. UNCHANGED <<clauses, wps>> /\ (Len(clauses[a]) < 2 \/ a \in bare2)
    BY <2>1
  <2>3. WatchesHold(live \cup {a}, bare2)' /\ live \cup {a} \subseteq 1..Len(clauses)
    BY <2>1, <2>2, UnwatchedAdded
  <2> QED
    BY <2>3
<1>2. TrailExact' /\ ReasonsHold(live \cup {a})' /\ Levels(C)'
  <2>1. \A n \in 1..Len(units) :
          units[n].clause # 0 => /\ clauses'[units[n].clause] = clauses[units[n].clause]
                                 /\ units[n].clause \in live \cup {a}
    BY DEF TrailInv, ReasonsHold, Reason
  <2> QED
    BY <2>1, Unmoved
<1>3. TrailTypes' /\ ClausesProper'
  BY DEF TrailInv, TrailTypes, ClausesProper, alphaVars, levelVars, markVars
<1> QED
  BY <1>1, <1>2, <1>3 DEF TrailInv

(* The unit clause becomes the reason of a literal that is true already.     *)
LEMMA ReasonReplaced ==
  ASSUME NEW live, NEW bare, NEW C, TrailInv(live, bare, C), up_state = "GLOBAL_UP",
         NEW a \in 1..Len(clauses), a \notin live, UNCHANGED clauses,
         Len(clauses[a]) = 1, IsTrue(clauses[a][1]),
         units' = [units EXCEPT ![vars_unit_indexes[VarOf(clauses[a][1])]].clause = a],
         UNCHANGED <<alpha, vars_unit_indexes>>
  PROVE  /\ units' \in Seq(Unit) /\ TrailExact' /\ ReasonsHold(live \cup {a})'
         /\ \A n \in 1..Len(units') : units'[n].clause # 0
<1>1. /\ TrailTypes /\ TrailExact /\ Len(units) \in Nat /\ a \in Nat \ {0}
      /\ live \subseteq 1..Len(clauses) /\ ReasonsHold(live)
      /\ \A n \in 1..Len(units) : units[n].clause # 0
  BY Fresh, UnitTypes DEF TrailInv, Levels
<1>2. PICK l : l = clauses[a][1]
  OBVIOUS
<1>4. PICK N \in 1..Len(units) : units[N].lit = l
  BY <1>1, <1>2 DEF TrailExact, IsTrue
<1>5. vars_unit_indexes[VarOf(l)] = N
  BY <1>1, <1>4 DEF TrailExact
<1>6. /\ Len(units') = Len(units) /\ units' \in Seq(Unit)
      /\ \A n \in 1..Len(units) :
           /\ units'[n].lit = units[n].lit
           /\ units'[n].clause = IF n = N THEN a ELSE units[n].clause
  <2>1. units \in Seq(Unit) /\ units' = [units EXCEPT ![N].clause = a] /\ a \in Nat
    BY <1>1, <1>2, <1>5 DEF TrailTypes
  <2>2. PICK u : u = [units[N] EXCEPT !.clause = a]
    OBVIOUS
  <2>3. units \in Seq(Unit) /\ N \in 1..Len(units) /\ units[N] \in Unit
    BY <2>1
  <2>4. u \in Unit /\ u.lit = units[N].lit /\ u.clause = a
    BY <2>1, <2>2, <2>3 DEF Unit
  <2>5. units' = [units EXCEPT ![N] = u]
    BY <2>1, <2>2
  <2>6. /\ Len(units') = Len(units) /\ units' \in Seq(Unit)
        /\ \A n \in 1..Len(units) : units'[n] = IF n = N THEN u ELSE units[n]
    BY ONLY <2>3, <2>4, <2>5
  <2> QED
    BY ONLY <2>4, <2>6
<1>7. \A n \in 1..Len(units') : units'[n].clause # 0
  BY <1>1, <1>6
<1>8. TrailExact'
  <2>1. /\ \A n \in 1..Len(units) : vars_unit_indexes[VarOf(units[n].lit)] = n
        /\ \A v \in Var : vars_unit_indexes[v] # 0 =>
             /\ vars_unit_indexes[v] \in 1..Len(units)
             /\ VarOf(units[vars_unit_indexes[v]].lit) = v
    BY <1>1 DEF TrailExact
  <2>2. /\ \A n \in 1..Len(units') : units'[n].lit \in alpha'
        /\ \A x \in alpha' : \E n \in 1..Len(units') : units'[n].lit = x
        /\ \A m, n \in 1..Len(units') : VarOf(units'[m].lit) = VarOf(units'[n].lit) => m = n
    <3>1. /\ Len(units') = Len(units) /\ alpha' = alpha
          /\ \A n \in 1..Len(units) : units'[n].lit = units[n].lit
      BY <1>1, <1>6
    <3>2. /\ \A n \in 1..Len(units) : units[n].lit \in alpha
          /\ \A x \in alpha : \E n \in 1..Len(units) : units[n].lit = x
          /\ \A m, n \in 1..Len(units) : VarOf(units[m].lit) = VarOf(units[n].lit) => m = n
      BY <1>1 DEF TrailExact
    <3> QED
      BY <3>1, <3>2
  <2>3. \A n \in 1..Len(units') :
          vars_unit_indexes'[VarOf(units'[n].lit)] = IF units'[n].clause = 0 THEN 0 ELSE n
    BY <1>6, <1>7, <2>1
  <2>4. \A v \in Var : vars_unit_indexes'[v] # 0 =>
          /\ vars_unit_indexes'[v] \in 1..Len(units')
          /\ VarOf(units'[vars_unit_indexes'[v]].lit) = v
    BY <1>6, <2>1
  <2> QED
    BY <2>2, <2>3, <2>4 DEF TrailExact
<1>9. ASSUME NEW n \in 1..Len(units') PROVE Reason(n, live \cup {a})'
  <2>1. CASE n = N
    <3>1. units'[n].clause = a /\ units'[n].lit = l
      BY <1>1, <1>4, <1>6, <2>1
    <3>2. clauses'[a][1] = l /\ Len(clauses'[a]) = 1
      BY <1>2
    <3>3. a \in live \cup {a} /\ Len(clauses'[a]) >= 1 /\ clauses'[a][1] = units'[n].lit
      BY <3>1, <3>2
    <3>4. \A k \in 2..Len(clauses'[a]) : FALSE
      BY <3>2
    <3> QED
      BY <3>1, <3>3, <3>4 DEF Reason
  <2>2. CASE n # N
    <3>1. /\ n \in 1..Len(units) /\ n \in Nat \ {0} /\ \A m \in 1..n : m \in 1..Len(units)
      BY <1>1, <1>6, <1>9
    <3>2. Reason(n, live)
      BY <1>1, <3>1 DEF ReasonsHold
    <3>3. units[n].clause \in live
      BY <3>2 DEF Reason
    <3>4. /\ units'[n].clause = units[n].clause
          /\ units[n].clause \in live \cup {a}
          /\ \A m \in 1..n : units'[m].lit = units[m].lit
      BY <1>6, <2>2, <3>1, <3>3
    <3> QED
      BY <3>1, <3>2, <3>4, ReasonsLast
  <2> QED
    BY <2>1, <2>2
<1> QED
  BY <1>6, <1>7, <1>8, <1>9 DEF ReasonsHold

LEMMA AttachUnitKeeps ==
  ASSUME NEW live, NEW bare, NEW C, TrailInv(live, bare, C), up_state = "GLOBAL_UP",
         NEW a \in 1..Len(clauses), a \notin live, AttachUnit(a),
         UNCHANGED <<clauses, wps, levelVars, markVars>>
  PROVE  TrailInv(live \cup {a}, bare, C)'
<1>1. /\ WatchesHold(live \cup {a}, bare)' /\ live \cup {a} \subseteq 1..Len(clauses)
  <2>1. UNCHANGED <<clauses, wps>> /\ Len(clauses[a]) < 2 /\ bare \subseteq bare
    BY DEF AttachUnit
  <2> QED
    BY <2>1, UnwatchedAdded
<1>2. TrailTypes /\ TrailExact /\ ReasonsHold(live) /\ Levels(C) /\ a \in Nat \ {0}
  BY Fresh DEF TrailInv
<1>4. /\ units' \in Seq(Unit) /\ alpha' \subseteq Lit /\ vars_unit_indexes' \in [Var -> Nat]
      /\ TrailExact' /\ ReasonsHold(live \cup {a})' /\ Levels(C)'
  <2> PICK l : l = clauses[a][1]
    OBVIOUS
  <2>1. CASE /\ IsTrue(l)
             /\ units' = [units EXCEPT ![vars_unit_indexes[VarOf(l)]].clause = a]
             /\ UNCHANGED <<alpha, vars_unit_indexes>>
    <3>1. /\ units' \in Seq(Unit) /\ TrailExact' /\ ReasonsHold(live \cup {a})'
          /\ \A n \in 1..Len(units') : units'[n].clause # 0
      BY <2>1, ReasonReplaced DEF AttachUnit
    <3>2. Levels(C)'
      BY <1>2, <3>1 DEF Levels, levelVars, markVars
    <3> QED
      BY <1>2, <2>1, <3>1, <3>2 DEF TrailTypes
  <2>2. CASE Unassigned(l) /\ SetUnit(l, a)
    <3> PICK c \in Nat \ {0} : c = a
      BY <1>2
    <3> PICK live2 : live2 = live \cup {a}
      OBVIOUS
    <3>1. clauses'[c] \in Seq(Lit) /\ Len(clauses'[c]) = 1 /\ clauses'[c][1] = l /\ l \in Lit
      BY ClauseTypes DEF AttachUnit
    <3>2. /\ c \in live2 /\ live \subseteq live2 /\ Len(clauses'[c]) >= 1
          /\ \A k \in 2..Len(clauses'[c]) : IsFalse(clauses'[c][k])
          /\ \A n \in 1..Len(units) :
               units[n].clause # 0 => clauses'[units[n].clause] = clauses[units[n].clause]
      BY <3>1
    <3>3. Unassigned(l) /\ SetUnit(l, c)
      BY <2>2
    <3>4. /\ units' \in Seq(Unit) /\ alpha' \subseteq Lit /\ vars_unit_indexes' \in [Var -> Nat]
          /\ TrailExact' /\ ReasonsHold(live2)' /\ Levels(C)'
      BY <3>1, <3>2, <3>3, UnitAdded
    <3> QED
      BY <3>4
  <2> QED
    BY <2>1, <2>2 DEF AttachUnit
<1>5. TrailTypes' /\ ClausesProper'
  BY <1>4 DEF TrailInv, TrailTypes, ClausesProper, levelVars, markVars
<1> QED
  BY <1>1, <1>4, <1>5 DEF TrailInv

(* The first literal is not false, and the second only if all the others are. *)
LEMMA FirstNonFalse ==
  ASSUME NEW s, Proper(s), Len(s) >= 2, NEW a \in 1..Len(s), ~IsFalse(s[a])
  PROVE  LET C == NonFalseFirst(s)
         IN  /\ Proper(C) /\ Len(C) = Len(s) /\ ~IsFalse(C[1])
             /\ IsFalse(C[2]) => \A k \in 2..Len(C) : IsFalse(C[k])
<1> DEFINE NonFF == {k \in 1..Len(s) : ~IsFalse(s[k])}
           k1 == CHOOSE k \in NonFF : \A m \in NonFF : k <= m
           D  == Swap(s, 1, k1)
           rest == {k \in 2..Len(D) : ~IsFalse(D[k])}
           k2 == CHOOSE k \in rest : \A m \in rest : k <= m
           E == Swap(D, 2, k2)
           C == NonFalseFirst(s)
<1>1. Len(s) \in Nat /\ 1 \in 1..Len(s) /\ 2 \in 1..Len(s)
  BY ProperFacts
<1>2. k1 \in 1..Len(s) /\ ~IsFalse(s[k1])
  <2>1. NonFF \subseteq Nat /\ NonFF # {}
    OBVIOUS
  <2>2. k1 \in NonFF
    BY <2>1, FirstPlace
  <2> HIDE DEF k1
  <2> QED
    BY <2>2
<1>3. C = IF rest = {} THEN D ELSE E
  BY DEF NonFalseFirst
<1> HIDE DEF k1, C
<1>4. Proper(D) /\ Len(D) = Len(s) /\ D[1] = s[k1]
  BY <1>1, <1>2, Swapped
<1> HIDE DEF D
<1>5. CASE rest = {}
  <2>1. \A k \in 2..Len(D) : IsFalse(D[k])
    BY <1>5
  <2> HIDE DEF rest
  <2> QED
    BY <1>2, <1>3, <1>4, <1>5, <2>1 DEF C
<1>6. CASE rest # {}
  <2>1. rest \subseteq Nat
    BY <1>1, <1>4
  <2>2. k2 \in rest
    BY <1>6, <2>1, FirstPlace
  <2> HIDE DEF k2
  <2>3. k2 \in 1..Len(D) /\ k2 >= 2 /\ ~IsFalse(D[k2]) /\ 1 \in 1..Len(D) /\ 2 \in 1..Len(D)
    BY <1>1, <1>4, <2>2
  <2>4. /\ Proper(E) /\ Len(E) = Len(D) /\ E[2] = D[k2]
        /\ \A k \in 1..Len(D) : k # 2 /\ k # k2 => E[k] = D[k]
    BY <1>4, <2>3, Swapped, SMTT(30)
  <2>5. 1 # 2 /\ 1 # k2
    BY <2>3
  <2> HIDE DEF rest, E
  <2>6. C = E /\ E[1] = s[k1]
    BY <1>3, <1>4, <1>6, <2>3, <2>4, <2>5
  <2> QED
    BY <1>2, <1>4, <2>3, <2>4, <2>6 DEF C
<1> QED
  BY <1>5, <1>6


LEMMA AttachWatchedKeeps ==
  ASSUME NEW live, NEW bare, NEW C, TrailInv(live, bare, C), up_state = "GLOBAL_UP",
         NEW a \in 1..Len(clauses), a \notin live, AttachWatched(a),
         UNCHANGED <<levelVars, markVars>>
  PROVE  /\ TrailInv(live \cup {a}, bare, C)'
         /\ Len(clauses') = Len(clauses)
         /\ \A c \in 1..Len(clauses) : c # a => clauses'[c] = clauses[c]
         /\ Len(clauses'[a]) = Len(clauses[a])
<1> DEFINE D == NonFalseFirst(clauses[a])
<1>1. /\ Len(clauses[a]) > 1 /\ NonFalse(a) # {}
      /\ clauses' = [clauses EXCEPT ![a] = D]
      /\ wps' = [wps EXCEPT ![D[1]] = Append(@, a), ![D[2]] = Append(@, a)]
      /\ \/ IsFalse(D[2]) /\ Unassigned(D[1]) /\ SetUnit(D[1], a)
         \/ UNCHANGED alphaVars
  BY DEF AttachWatched
<1>2. /\ a \in Nat \ {0} /\ live \subseteq 1..Len(clauses)
      /\ \A n \in 1..Len(units) : units[n].clause # a
      /\ \A l \in Lit : ~Has(wps[l], a)
  BY Fresh
<1>3. /\ TrailTypes /\ ClausesProper /\ WatchesHold(live, bare) /\ ReasonsHold(live)
      /\ Levels(C) /\ Len(clauses) \in Nat
      /\ Proper(clauses[a]) /\ clauses[a] \in Seq(Lit)
  BY ClauseTypes DEF TrailInv
<1>4. /\ Proper(D) /\ Len(D) = Len(clauses[a]) /\ Len(D) >= 2
      /\ IsFalse(D[2]) => \A k \in 2..Len(D) : IsFalse(D[k])
  <2>1. \E k \in 1..Len(clauses[a]) : ~IsFalse(clauses[a][k])
    BY <1>1 DEF NonFalse
  <2>2. Len(clauses[a]) >= 2
    BY <1>1, <1>3
  <2> QED
    BY <1>3, <2>1, <2>2, FirstNonFalse
<1> HIDE DEF D
<1>5. /\ D \in Seq(Lit) /\ Len(D) \in Nat /\ D[1] \in Lit /\ D[2] \in Lit /\ D[1] # D[2]
  <2>1. 1 \in 1..Len(D) /\ 2 \in 1..Len(D)
    BY <1>4, ProperFacts
  <2> QED
    BY <1>4, <2>1, ProperFacts
<1>6. /\ clauses' \in Seq(Seq(Lit)) /\ Len(clauses') = Len(clauses) /\ clauses'[a] = D
      /\ \A c \in 1..Len(clauses) : c # a => clauses'[c] = clauses[c]
      /\ ClausesProper'
  BY <1>1, <1>3, <1>4, ClauseEdited
<1>7. \A n \in 1..Len(units) :
        units[n].clause # 0 => /\ clauses'[units[n].clause] = clauses[units[n].clause]
                               /\ units[n].clause \in live
  BY <1>2, <1>3, <1>6 DEF ReasonsHold, Reason
<1> PICK live2 : live2 = live \cup {a}
  OBVIOUS
<1>8. /\ units' \in Seq(Unit) /\ alpha' \subseteq Lit /\ vars_unit_indexes' \in [Var -> Nat]
      /\ TrailExact' /\ ReasonsHold(live2)' /\ Levels(C)'
  <2>1. CASE IsFalse(D[2]) /\ Unassigned(D[1]) /\ SetUnit(D[1], a)
    <3>1. PICK l \in Lit : l = D[1]
      BY <1>5
    <3>2. /\ a \in live2 /\ live \subseteq live2
          /\ clauses'[a] \in Seq(Lit) /\ Len(clauses'[a]) >= 1 /\ clauses'[a][1] = l
          /\ \A k \in 2..Len(clauses'[a]) : IsFalse(clauses'[a][k])
      BY <1>4, <1>5, <1>6, <2>1, <3>1
    <3>4. Unassigned(l) /\ SetUnit(l, a)
      BY <2>1, <3>1
    <3> PICK c \in Nat \ {0} : c = a
      BY <1>2
    <3>5. \A n \in 1..Len(units) :
            units[n].clause # 0 => clauses'[units[n].clause] = clauses[units[n].clause]
      BY <1>7
    <3>6. /\ Unassigned(l) /\ SetUnit(l, c) /\ c \in live2
          /\ clauses'[c] \in Seq(Lit) /\ Len(clauses'[c]) >= 1 /\ clauses'[c][1] = l
          /\ \A k \in 2..Len(clauses'[c]) : IsFalse(clauses'[c][k])
      BY <3>2, <3>4
    <3> QED
      BY <3>2, <3>5, <3>6, UnitAdded
  <2>2. CASE UNCHANGED alphaVars
    <3>1. TrailExact' /\ ReasonsHold(live2)' /\ Levels(C)'
      BY <1>7, <2>2, Unmoved
    <3> QED
      BY <1>3, <2>2, <3>1 DEF alphaVars, TrailTypes
  <2> QED
    BY <1>1, <2>1, <2>2
<1>9. /\ wps \in [Lit -> Seq(Nat)]
      /\ \A l \in Lit : wps[l] \in Seq(Nat) /\ OnceEach(wps[l]) /\ ~Has(wps[l], a)
      /\ \A l \in Lit : \A c \in Nat : Has(wps[l], c) =>
           c \in live /\ Len(clauses[c]) >= 2 /\ (l = clauses[c][1] \/ l = clauses[c][2])
      /\ \A c \in live : Len(clauses[c]) >= 2 /\ c \notin bare =>
           Has(wps[clauses[c][1]], c) /\ Has(wps[clauses[c][2]], c)
  BY <1>2, <1>3 DEF TrailTypes, WatchesHold
<1>10. /\ wps' \in [Lit -> Seq(Nat)]
       /\ \A l \in Lit : OnceEach(wps'[l])
       /\ \A l \in Lit : \A c :
            Has(wps'[l], c) <=> Has(wps[l], c) \/ (c = a /\ (l = D[1] \/ l = D[2]))
  <2>1. /\ wps'[D[1]] = Append(wps[D[1]], a) /\ wps'[D[2]] = Append(wps[D[2]], a)
        /\ wps' = [l \in Lit |-> wps'[l]]
        /\ \A l \in Lit : l # D[1] /\ l # D[2] => wps'[l] = wps[l]
    BY <1>1, <1>5, <1>9
  <2>2. \A l \in {D[1], D[2]} :
          /\ wps'[l] \in Seq(Nat) /\ OnceEach(wps'[l])
          /\ \A d : Has(wps'[l], d) <=> Has(wps[l], d) \/ d = a
    <3> SUFFICES ASSUME NEW l \in {D[1], D[2]}
                 PROVE  /\ wps'[l] \in Seq(Nat) /\ OnceEach(wps'[l])
                        /\ \A d : Has(wps'[l], d) <=> Has(wps[l], d) \/ d = a
      OBVIOUS
    <3>1. /\ wps'[l] = Append(wps[l], a) /\ l \in Lit
          /\ wps[l] \in Seq(Nat) /\ OnceEach(wps[l]) /\ ~Has(wps[l], a)
      BY <1>5, <1>9, <2>1
    <3> QED
      BY <1>2, <3>1, Appended
  <2>3. \A l \in Lit : wps'[l] \in Seq(Nat) /\ OnceEach(wps'[l])
    BY <1>9, <2>1, <2>2
  <2>4. ASSUME NEW l \in Lit, NEW c
        PROVE  Has(wps'[l], c) <=> Has(wps[l], c) \/ (c = a /\ (l = D[1] \/ l = D[2]))
    BY <2>1, <2>2
  <2> QED
    BY <2>1, <2>3, <2>4
<1>11. WatchesHold(live2, bare)'
  <2>1. ASSUME NEW l \in Lit, NEW c \in Nat, Has(wps'[l], c)
        PROVE  /\ c \in live2 /\ Len(clauses'[c]) >= 2
               /\ l = clauses'[c][1] \/ l = clauses'[c][2]
    <3>1. CASE c = a
      BY <1>2, <1>4, <1>6, <1>9, <1>10, <2>1, <3>1
    <3>2. CASE c # a
      <4>1. Has(wps[l], c)
        BY <1>10, <2>1, <3>2
      <4>2. /\ c \in live /\ Len(clauses[c]) >= 2
            /\ l = clauses[c][1] \/ l = clauses[c][2]
        BY <1>9, <4>1
      <4>3. clauses'[c] = clauses[c]
        BY <1>2, <1>6, <3>2, <4>2
      <4> QED
        BY <4>2, <4>3
    <3> QED
      BY <3>1, <3>2
  <2>2. ASSUME NEW c \in live2, Len(clauses'[c]) >= 2, c \notin bare
        PROVE  Has(wps'[clauses'[c][1]], c) /\ Has(wps'[clauses'[c][2]], c)
    <3>1. CASE c = a
      BY <1>5, <1>6, <1>10, <3>1
    <3>2. CASE c # a
      <4>1. c \in live /\ c \in 1..Len(clauses) /\ clauses'[c] = clauses[c]
        BY <1>2, <1>6, <2>2, <3>2
      <4>2. Has(wps[clauses[c][1]], c) /\ Has(wps[clauses[c][2]], c)
        BY <1>2, <1>9, <2>2, <4>1
      <4>3. clauses[c][1] \in Lit /\ clauses[c][2] \in Lit
        BY <1>3, <2>2, <4>1, ProperFacts DEF ClausesProper
      <4> QED
        BY <1>10, <4>1, <4>2, <4>3
    <3> QED
      BY <3>1, <3>2
  <2> QED
    BY <1>10, <2>1, <2>2 DEF WatchesHold
<1>12. TrailTypes'
  BY <1>3, <1>6, <1>8, <1>10 DEF TrailTypes, levelVars, markVars
<1>13. live2 \subseteq 1..Len(clauses')
  BY <1>2, <1>6
<1>14. TrailInv(live2, bare, C)'
  BY <1>6, <1>8, <1>11, <1>12, <1>13 DEF TrailInv
<1> QED
  BY <1>4, <1>6, <1>14

-----------------------------------------------------------------------------
(***************************************************************************)
(* The negation of a candidate, or of an image, is assumed.                 *)
(***************************************************************************)

(* A variable that is unassigned has no index.                              *)
LEMMA NoIndex ==
  ASSUME TrailTypes, TrailExact, NEW l \in Lit, Unassigned(l)
  PROVE  /\ vars_unit_indexes[VarOf(l)] = 0
         /\ \A n \in 1..Len(units) : VarOf(units[n].lit) # VarOf(l)
<1>1. ASSUME NEW n \in 1..Len(units) PROVE VarOf(units[n].lit) # VarOf(l)
  <2>1. units[n].lit \in Lit /\ units[n].lit \in alpha
    BY UnitTypes DEF TrailExact
  <2>2. units[n].lit # l /\ units[n].lit # -l
    BY <2>1 DEF Unassigned, IsTrue, IsFalse
  <2> QED
    BY <2>1, <2>2, LitFacts
<1>2. VarOf(l) \in Var
  BY LitFacts
<1>3. ASSUME vars_unit_indexes[VarOf(l)] # 0 PROVE FALSE
  BY <1>1, <1>2, <1>3 DEF TrailExact
<1> QED
  BY <1>1, <1>3

LEMMA UnitsAssumed ==
  ASSUME TrailTypes, TrailExact, NEW C \in Seq(Lit), NEW open \in SUBSET (1..Len(C)),
         \A k \in open : Unassigned(C[k]),
         \A k, m \in open : VarOf(C[k]) = VarOf(C[m]) => k = m,
         AssumeUnits(C, open)
  PROVE  /\ units' \in Seq(Unit) /\ Len(units') \in Nat /\ Len(units) <= Len(units')
         /\ alpha' \subseteq Lit /\ vars_unit_indexes' = vars_unit_indexes
         /\ \A n \in 1..Len(units) : units'[n] = units[n]
         /\ \A n \in 1..Len(units') : n > Len(units) =>
              units'[n].clause = 0 /\ \E k \in open : units'[n].lit = -C[k]
         /\ \A k \in open : \E n \in 1..Len(units') : units'[n].lit = -C[k]
         /\ TrailExact'
<1> DEFINE new == AtPlaces(C, open)
           tail == [k \in DOMAIN new |-> [lit |-> -new[k], clause |-> 0]]
           L == Len(units)
<1> PICK K \in Nat : K = Cardinality(open)
  BY AtPlacesSeq
<1>1. /\ new \in Seq(Lit) /\ Len(new) = K
      /\ \A p \in open : UpTo(open, p) \in 1..K /\ new[UpTo(open, p)] = C[p]
      /\ \A n \in 1..K : \E p \in open : UpTo(open, p) = n /\ new[n] = C[p]
  BY AtPlacesSeq
<1>2. /\ alpha' = alpha \cup {-C[k] : k \in open} /\ units' = units \o tail
      /\ vars_unit_indexes' = vars_unit_indexes
  BY DEF AssumeUnits
<1>3. \A k \in open : C[k] \in Lit /\ -C[k] \in Lit
  BY LitFacts
<1> HIDE DEF new
<1>4. /\ tail \in Seq(Unit) /\ Len(tail) = K
      /\ \A n \in 1..K : tail[n].lit = -new[n] /\ tail[n].clause = 0
  <2>1. DOMAIN new = 1..K /\ \A n \in 1..K : new[n] \in Lit /\ -new[n] \in Lit
    BY <1>1, LitFacts
  <2>2. \A n \in 1..K : tail[n] = [lit |-> -new[n], clause |-> 0]
    BY <2>1
  <2>3. \A n \in 1..K : tail[n] \in Unit /\ tail[n].lit = -new[n] /\ tail[n].clause = 0
    BY <2>1, <2>2 DEF Unit
  <2>4. tail = [n \in 1..K |-> tail[n]]
    BY <2>1
  <2> HIDE DEF tail
  <2>5. tail \in Seq(Unit) /\ Len(tail) = K
    BY <2>3, <2>4
  <2> QED
    BY <2>3, <2>5
<1> HIDE DEF tail
<1>5. L \in Nat /\ units \in Seq(Unit) /\ alpha \subseteq Lit
  BY UnitTypes DEF TrailTypes
<1>6. /\ units' \in Seq(Unit) /\ Len(units') = L + K
      /\ \A n \in 1..L : units'[n] = units[n]
      /\ \A n \in 1..K : units'[L + n] = tail[n]
  <2>1. /\ units' \in Seq(Unit) /\ Len(units') = L + K
        /\ \A n \in 1..L + K : units'[n] = IF n <= L THEN units[n] ELSE tail[n - L]
    <3>1. units \in Seq(Unit) /\ tail \in Seq(Unit) /\ Len(tail) = K
      BY <1>4, <1>5
    <3>2. PICK t : t = units \o tail
      OBVIOUS
    <3>3. /\ t \in Seq(Unit) /\ Len(t) = Len(units) + Len(tail)
          /\ \A n \in 1..Len(units) + Len(tail) :
               t[n] = IF n <= Len(units) THEN units[n] ELSE tail[n - Len(units)]
      BY ONLY <3>1, <3>2, ConcatProperties
    <3>4. units' = t
      BY <1>2, <3>2
    <3> QED
      BY ONLY <3>1, <3>3, <3>4 DEF L
  <2>2. /\ \A n \in 1..L : n \in 1..L + K /\ n <= L
        /\ \A n \in 1..K : L + n \in 1..L + K /\ ~(L + n <= L) /\ (L + n) - L = n
    BY <1>5
  <2> QED
    BY <2>1, <2>2
<1>7. /\ \A n \in 1..K : L + n \in 1..L + K /\ L + n > L
      /\ \A n \in 1..L + K : n > L => n - L \in 1..K /\ L + (n - L) = n
      /\ \A n \in 1..L + K : n > L \/ n \in 1..L
  BY <1>5
<1>8. \A n \in 1..L + K : n > L =>
        /\ units'[n].clause = 0
        /\ \E k \in open : UpTo(open, k) = n - L /\ units'[n].lit = -C[k]
  <2> SUFFICES ASSUME NEW n \in 1..L + K, n > L
               PROVE  /\ units'[n].clause = 0
                      /\ \E k \in open : UpTo(open, k) = n - L /\ units'[n].lit = -C[k]
    OBVIOUS
  <2> PICK m \in 1..K : m = n - L /\ L + m = n
    BY <1>7
  <2>1. units'[n] = tail[m]
    BY <1>6
  <2>2. PICK k \in open : UpTo(open, k) = m /\ new[m] = C[k]
    BY <1>1
  <2> QED
    BY <1>4, <2>1, <2>2
<1>9. ASSUME NEW k \in open
      PROVE  \E n \in 1..L + K : units'[n].lit = -C[k]
  <2> PICK m \in 1..K : m = UpTo(open, k)
    BY <1>1
  <2>1. L + m \in 1..L + K /\ units'[L + m] = tail[m] /\ tail[m].lit = -C[k]
    BY <1>1, <1>4, <1>6, <1>7
  <2>2. units'[L + m].lit = -C[k]
    BY <2>1
  <2> QED
    BY <2>1, <2>2
<1>10. ASSUME NEW k \in open
       PROVE  /\ \A n \in 1..L : VarOf(units[n].lit) # VarOf(-C[k])
              /\ vars_unit_indexes[VarOf(-C[k])] = 0
  BY <1>3, NoIndex, LitFacts
<1>11. TrailExact'
  <2>1. ASSUME NEW n \in 1..L + K PROVE units'[n].lit \in alpha'
    <3>1. CASE n \in 1..L
      BY <1>2, <1>6, <3>1 DEF TrailExact
    <3>2. CASE n > L
      BY <1>2, <1>8, <3>2
    <3> QED
      BY <1>7, <3>1, <3>2
  <2>2. ASSUME NEW l \in alpha' PROVE \E n \in 1..L + K : units'[n].lit = l
    <3>1. CASE l \in alpha
      <4>1. PICK n \in 1..L : units[n].lit = l
        BY <3>1 DEF TrailExact
      <4>2. n \in 1..L + K
        BY <1>5
      <4> QED
        BY <1>6, <4>1, <4>2
    <3>2. CASE l \in {-C[k] : k \in open}
      BY <1>9, <3>2
    <3> QED
      BY <1>2, <3>1, <3>2
  <2>3. ASSUME NEW m \in 1..L + K, NEW n \in 1..L + K, VarOf(units'[m].lit) = VarOf(units'[n].lit)
        PROVE  m = n
    <3>1. CASE m \in 1..L /\ n \in 1..L
      BY <1>6, <2>3, <3>1 DEF TrailExact
    <3>2. CASE m > L /\ n > L
      <4>1. PICK p \in open : UpTo(open, p) = m - L /\ units'[m].lit = -C[p]
        BY <1>8, <3>2
      <4>2. PICK q \in open : UpTo(open, q) = n - L /\ units'[n].lit = -C[q]
        BY <1>8, <3>2
      <4>3. VarOf(C[p]) = VarOf(C[q])
        BY <1>3, <2>3, <4>1, <4>2, LitFacts
      <4>4. m - L = n - L
        BY <4>1, <4>2, <4>3
      <4> QED
        BY <1>5, <4>4
    <3>3. CASE m > L /\ n \in 1..L
      <4>1. PICK p \in open : units'[m].lit = -C[p]
        BY <1>8, <3>3
      <4> QED
        BY <1>6, <1>10, <2>3, <3>3, <4>1
    <3>4. CASE m \in 1..L /\ n > L
      <4>1. PICK p \in open : units'[n].lit = -C[p]
        BY <1>8, <3>4
      <4> QED
        BY <1>6, <1>10, <2>3, <3>4, <4>1
    <3> QED
      BY <1>7, <3>1, <3>2, <3>3, <3>4
  <2>4. ASSUME NEW n \in 1..L + K
        PROVE  vars_unit_indexes'[VarOf(units'[n].lit)] = IF units'[n].clause = 0 THEN 0 ELSE n
    <3>1. CASE n \in 1..L
      BY <1>2, <1>6, <3>1 DEF TrailExact
    <3>2. CASE n > L
      BY <1>2, <1>8, <1>10, <3>2
    <3> QED
      BY <1>7, <3>1, <3>2
  <2>5. ASSUME NEW v \in Var, vars_unit_indexes'[v] # 0
        PROVE  /\ vars_unit_indexes'[v] \in 1..L + K
               /\ VarOf(units'[vars_unit_indexes'[v]].lit) = v
    <3>1. PICK n \in 1..L : n = vars_unit_indexes[v] /\ VarOf(units[n].lit) = v
      BY <1>2, <2>5 DEF TrailExact
    <3>2. n \in 1..L + K /\ vars_unit_indexes'[v] = n /\ units'[n] = units[n]
      BY <1>2, <1>5, <1>6, <3>1
    <3> QED
      BY <3>1, <3>2
  <2> QED
    BY <1>6, <2>1, <2>2, <2>3, <2>4, <2>5 DEF TrailExact
<1>12. alpha' \subseteq Lit
  BY <1>2, <1>3, <1>5
<1>13. Len(units') \in Nat /\ L <= Len(units')
  BY <1>5, <1>6
<1>14. /\ \A n \in 1..Len(units') : n > L =>
            units'[n].clause = 0 /\ \E k \in open : units'[n].lit = -C[k]
       /\ \A k \in open : \E n \in 1..Len(units') : units'[n].lit = -C[k]
       /\ \A n \in 1..L : units'[n] = units[n]
  BY <1>6, <1>8, <1>9
<1> QED
  BY <1>2, <1>6, <1>11, <1>12, <1>13, <1>14

(* A literal that is not unassigned has its variable among the units.        *)
LEMMA SetByUnit ==
  ASSUME TrailTypes, TrailExact, NEW l \in Lit, ~Unassigned(l)
  PROVE  \E n \in 1..Len(units) : VarOf(units[n].lit) = VarOf(l)
<1>1. l \in alpha \/ -l \in alpha
  BY DEF Unassigned, IsTrue, IsFalse
<1>2. PICK n \in 1..Len(units) : units[n].lit = l \/ units[n].lit = -l
  BY <1>1 DEF TrailExact
<1> QED
  BY <1>2, LitFacts


(* What holds once units without a reason have been put on top.              *)
LEMMA AssumedKeep ==
  ASSUME NEW live, NEW bare, NEW C, TrailInv(live, bare, C),
         units' \in Seq(Unit), Len(units') \in Nat, Len(units) <= Len(units'),
         \A n \in 1..Len(units) : units'[n] = units[n],
         \A n \in 1..Len(units') : n > Len(units) => units'[n].clause = 0,
         \A c \in live : clauses'[c] = clauses[c]
  PROVE  ReasonsHold(live)'
<1>1. Len(units) \in Nat /\ ReasonsHold(live)
  BY UnitTypes DEF TrailInv
<1> SUFFICES ASSUME NEW n \in 1..Len(units'), units'[n].clause # 0
             PROVE  Reason(n, live)'
  BY DEF ReasonsHold
<1>2. n \in 1..Len(units) /\ n \in Nat \ {0}
  <2>1. ~(n > Len(units))
    OBVIOUS
  <2> QED
    BY <1>1, <2>1
<1>3. units'[n] = units[n] /\ \A m \in 1..n : units'[m] = units[m]
  BY <1>1, <1>2
<1>4. Reason(n, live) /\ units[n].clause \in live
  BY <1>1, <1>2, <1>3 DEF ReasonsHold, Reason
<1> QED
  BY <1>2, <1>3, <1>4, ReasonsLast

(* The watches stay when the clauses of the check do.                        *)
LEMMA WatchesStay ==
  ASSUME NEW live, NEW bare, WatchesHold(live, bare), UNCHANGED wps,
         \A c \in live : clauses'[c] = clauses[c]
  PROVE  WatchesHold(live, bare)'
<1>1. /\ \A l \in Lit : OnceEach(wps[l])
      /\ \A l \in Lit : \A c \in Nat : Has(wps[l], c) =>
           c \in live /\ Len(clauses[c]) >= 2 /\ (l = clauses[c][1] \/ l = clauses[c][2])
      /\ \A c \in live : Len(clauses[c]) >= 2 /\ c \notin bare =>
           Has(wps[clauses[c][1]], c) /\ Has(wps[clauses[c][2]], c)
  BY DEF WatchesHold
<1>2. \A l \in Lit : OnceEach(wps'[l])
  BY <1>1
<1>3. \A l \in Lit : \A c \in Nat : Has(wps'[l], c) =>
        c \in live /\ Len(clauses'[c]) >= 2 /\ (l = clauses'[c][1] \/ l = clauses'[c][2])
  BY <1>1
<1>4. \A c \in live : Len(clauses'[c]) >= 2 /\ c \notin bare =>
        Has(wps'[clauses'[c][1]], c) /\ Has(wps'[clauses'[c][2]], c)
  BY <1>1
<1> QED
  BY <1>2, <1>3, <1>4 DEF WatchesHold

(* The candidate need not be among the clauses yet.                         *)
LEMMA AssumeCandidateKeeps ==
  ASSUME NEW live, NEW bare, NEW C0, TrailInv(live, bare, C0), up_state = "GLOBAL_UP",
         NEW C, Proper(C), AssumeCandidate(C),
         clauses' \in Seq(Seq(Lit)), ClausesProper', live \subseteq 1..Len(clauses'),
         \A c \in live : clauses'[c] = clauses[c],
         UNCHANGED <<wps, RAT_marked, RAT_assumed, RAT_unit>>
  PROVE  TrailInv(live, bare, C)'
<1>3. /\ TrailTypes /\ TrailExact /\ ReasonsHold(live) /\ WatchesHold(live, bare)
      /\ assumed = {} /\ RAT_marked = {}
      /\ \A n \in 1..Len(units) : units[n].clause # 0
      /\ Len(units) \in Nat
  BY UnitTypes DEF TrailInv, Levels
<1>4. /\ C \in Seq(Lit) /\ Len(C) \in Nat
      /\ \A k \in 1..Len(C) : C[k] \in Lit
      /\ \A k, m \in 1..Len(C) : VarOf(C[k]) = VarOf(C[m]) => k = m
  BY ProperFacts DEF Proper
<1> DEFINE open == {k \in DOMAIN C : Unassigned(C[k])}
<1>5. /\ AssumeUnits(C, open)
      /\ assumed' = assumed \cup {v \in Vars(ToSet(C)) : vars_unit_indexes[v] > 0}
      /\ up_state' = "CANDIDATE_UP"
      /\ candidate_assumed' = Len(units) + 1 /\ candidate_unit' = Len(units') + 1
  BY DEF AssumeCandidate
<1>6. open = {k \in 1..Len(C) : Unassigned(C[k])}
  BY <1>4
<1>7. /\ units' \in Seq(Unit) /\ Len(units') \in Nat /\ Len(units) <= Len(units')
      /\ alpha' \subseteq Lit /\ vars_unit_indexes' = vars_unit_indexes
      /\ \A n \in 1..Len(units) : units'[n] = units[n]
      /\ \A n \in 1..Len(units') : n > Len(units) =>
           units'[n].clause = 0 /\ \E k \in open : units'[n].lit = -C[k]
      /\ \A k \in open : \E n \in 1..Len(units') : units'[n].lit = -C[k]
      /\ TrailExact'
  <2> HIDE DEF open
  <2>1. /\ open \in SUBSET (1..Len(C)) /\ \A k \in open : Unassigned(C[k])
        /\ \A k, m \in open : VarOf(C[k]) = VarOf(C[m]) => k = m
    BY <1>4, <1>6
  <2> QED
    BY <1>3, <1>4, <1>5, <2>1, UnitsAssumed
<1>9. \A n \in 1..Len(units') : n \in 1..Len(units) \/ n > Len(units)
  BY <1>3, <1>7
<1>12. ReasonsHold(live)'
  BY <1>7, AssumedKeep
<1>13. WatchesHold(live, bare)'
  BY <1>3, WatchesStay
<1>15. CandidateLevel(C)'
  <2> DEFINE V == Vars(ToSet(C))
  <2>2. /\ candidate_assumed' >= 1 /\ candidate_assumed' <= candidate_unit'
        /\ candidate_unit' <= Len(units') + 1
    BY <1>3, <1>5, <1>7
  <2>3. ASSUME NEW n \in 1..Len(units')
        PROVE  /\ n < candidate_assumed' => units'[n].clause # 0
               /\ candidate_assumed' <= n /\ n < candidate_unit' =>
                    units'[n].clause = 0 /\ VarOf(units'[n].lit) \in V
    <3>1. n < candidate_assumed' => n \in 1..Len(units)
      BY <1>3, <1>5
    <3>2. n < candidate_assumed' => units'[n].clause # 0
      BY <1>3, <1>7, <3>1
    <3>3. ASSUME candidate_assumed' <= n PROVE units'[n].clause = 0 /\ VarOf(units'[n].lit) \in V
      <4>1. n > Len(units)
        BY <1>3, <1>5, <3>3
      <4>2. PICK k \in open : units'[n].lit = -C[k]
        BY <1>7, <4>1
      <4>3. k \in 1..Len(C) /\ VarOf(-C[k]) = VarOf(C[k])
        BY <1>4, <1>6, LitFacts
      <4> QED
        BY <1>4, <1>7, <4>1, <4>2, <4>3, VarsOf
    <3> QED
      BY <3>2, <3>3
  <2>4. ASSUME NEW v \in V
        PROVE  \E n \in 1..Len(units') : n < candidate_unit' /\ VarOf(units'[n].lit) = v
    <3>1. PICK k \in 1..Len(C) : VarOf(C[k]) = v
      BY <1>4, VarsOf
    <3>2. \E n \in 1..Len(units') : VarOf(units'[n].lit) = v
      <4>1. CASE Unassigned(C[k])
        <5>1. k \in open
          BY <1>6, <4>1
        <5>2. PICK n \in 1..Len(units') : units'[n].lit = -C[k]
          BY <1>7, <5>1
        <5> QED
          BY <1>4, <3>1, <5>2, LitFacts
      <4>2. CASE ~Unassigned(C[k])
        <5>1. PICK n \in 1..Len(units) : VarOf(units[n].lit) = v
          BY <1>3, <1>4, <3>1, <4>2, SetByUnit
        <5>2. n \in 1..Len(units') /\ units'[n] = units[n]
          BY <1>3, <1>7
        <5> QED
          BY <5>1, <5>2
      <4> QED
        BY <4>1, <4>2
    <3>3. \A n \in 1..Len(units') : n < candidate_unit'
      BY <1>5, <1>7
    <3> QED
      BY <3>2, <3>3
  <2>5. /\ assumed' = {v \in V : vars_unit_indexes'[v] > 0} \cup RAT_marked'
        /\ RAT_marked' \cap V = {}
    BY <1>3, <1>5, <1>7
  <2> QED
    BY <2>2, <2>3, <2>4, <2>5 DEF CandidateLevel
<1>16. Levels(C)'
  BY <1>3, <1>5, <1>15 DEF Levels
<1>17. TrailTypes'
  <2>1. assumed' \subseteq Var
    BY <1>3, <1>4, <1>5, VarsOf
  <2>3. candidate_assumed' \in Nat /\ candidate_unit' \in Nat
    BY <1>3, <1>5, <1>7
  <2> QED
    BY <1>3, <1>5, <1>7, <2>1, <2>3 DEF TrailTypes
<1> QED
  BY <1>7, <1>12, <1>13, <1>16, <1>17 DEF TrailInv

(* The literals of an image that are assumed have different variables, and    *)
(* are all that are open.                                                   *)
LEMMA ImageOpen ==
  ASSUME NEW D \in Seq(Lit), AssumeImage(D)
  PROVE  \E open \in SUBSET (1..Len(D)) :
           /\ \A k \in open : Unassigned(D[k])
           /\ \A n \in 1..Len(D) : Unassigned(D[n]) => \E k \in open : D[k] = D[n]
           /\ \A k, m \in open : VarOf(D[k]) = VarOf(D[m]) => k = m
           /\ AssumeUnits(D, open)
<1> DEFINE repeated(n) == D[n] \in ToSet(SubSeq(D, 1, n - 1))
           open == {n \in DOMAIN D : Unassigned(D[n]) /\ ~repeated(n)}
<1>1. ~SatisfiedByAssumption(D) /\ AssumeUnits(D, open) /\ Len(D) \in Nat /\ DOMAIN D = 1..Len(D)
  BY DEF AssumeImage
<1>2. ASSUME NEW n \in 1..Len(D), NEW m \in 1..Len(D), m < n
      PROVE  D[m] \in ToSet(SubSeq(D, 1, n - 1))
  <2>1. n - 1 \in Nat /\ n - 1 <= Len(D) /\ m \in 1..n - 1
    BY <1>1, <1>2
  <2>2. /\ SubSeq(D, 1, n - 1) \in Seq(Lit) /\ Len(SubSeq(D, 1, n - 1)) = n - 1
        /\ SubSeq(D, 1, n - 1)[m] = D[m]
    BY <2>1, Prefix
  <2>3. m \in DOMAIN SubSeq(D, 1, n - 1)
    BY <2>1, <2>2
  <2> QED
    BY <2>2, <2>3 DEF ToSet
<1>3. ASSUME NEW n \in 1..Len(D), NEW m \in 1..Len(D), m < n, Unassigned(D[n]),
             VarOf(D[m]) = VarOf(D[n]), ~repeated(n)
      PROVE  FALSE
  <2>1. D[n] \in Lit /\ D[m] \in Lit /\ D[m] \in ToSet(SubSeq(D, 1, n - 1))
    BY <1>2, <1>3
  <2>2. D[m] # D[n]
    BY <1>3, <2>1
  <2>3. D[m] = -D[n]
    BY <1>3, <2>1, <2>2, LitFacts
  <2>4. SatisfiedByAssumption(D)
    BY <1>3, <2>1, <2>3 DEF SatisfiedByAssumption, Unassigned
  <2> QED
    BY <1>1, <2>4
<1>4. ASSUME NEW k \in open, NEW m \in open, VarOf(D[k]) = VarOf(D[m]) PROVE k = m
  <2>1. k \in 1..Len(D) /\ m \in 1..Len(D) /\ Unassigned(D[k]) /\ Unassigned(D[m])
        /\ ~repeated(k) /\ ~repeated(m)
    BY <1>1
  <2>2. ~(k < m) /\ ~(m < k)
    BY <1>3, <1>4, <2>1
  <2> QED
    BY <1>1, <2>1, <2>2
<1>5. open \in SUBSET (1..Len(D)) /\ \A k \in open : Unassigned(D[k])
  BY <1>1
<1>6. ASSUME NEW n \in 1..Len(D), Unassigned(D[n]) PROVE \E k \in open : D[k] = D[n]
  <2> DEFINE Same == {k \in 1..Len(D) : D[k] = D[n]}
  <2> PICK k \in Same : \A m \in Same : k <= m
    <3>1. Same \in SUBSET Nat /\ n \in Same
      OBVIOUS
    <3> HIDE DEF Same
    <3> QED
      BY <3>1, MinExists
  <2>1. k \in 1..Len(D) /\ D[k] = D[n]
    OBVIOUS
  <2>2. ASSUME repeated(k) PROVE FALSE
    <3>1. k - 1 \in Nat /\ k - 1 <= Len(D)
      BY <1>1, <2>1
    <3>2. /\ SubSeq(D, 1, k - 1) \in Seq(Lit) /\ Len(SubSeq(D, 1, k - 1)) = k - 1
          /\ \A m \in 1..k - 1 : SubSeq(D, 1, k - 1)[m] = D[m]
      BY <3>1, Prefix
    <3>3. DOMAIN SubSeq(D, 1, k - 1) = 1..k - 1
      BY <3>2
    <3>4. PICK m \in 1..k - 1 : D[m] = D[k]
      BY <2>2, <3>2, <3>3 DEF ToSet
    <3>5. m \in 1..Len(D) /\ ~(k <= m)
      BY <1>1, <2>1
    <3> QED
      BY <2>1, <3>4, <3>5
  <2> HIDE DEF Same
  <2> QED
    BY <1>1, <1>6, <2>1, <2>2
<1> HIDE DEF open
<1> QED
  BY <1>1, <1>4, <1>5, <1>6


LEMMA AssumeImageKeeps ==
  ASSUME NEW live, NEW bare, NEW C, TrailInv(live, bare, C), up_state = "CANDIDATE_UP",
         NEW D \in Seq(Lit), AssumeImage(D),
         UNCHANGED <<clauses, wps, candidate_assumed, candidate_unit>>
  PROVE  TrailInv(live, bare, C)'
<1>4. /\ assumed' = assumed \cup FalseByUnits(D) /\ RAT_marked' = FalseByUnits(D)
      /\ up_state' = "RAT_UP"
      /\ RAT_assumed' = Len(units) + 1 /\ RAT_unit' = Len(units') + 1
  BY DEF AssumeImage
<1>5. /\ TrailTypes /\ ClausesProper /\ TrailExact /\ ReasonsHold(live)
      /\ WatchesHold(live, bare) /\ CandidateLevel(C) /\ RAT_marked = {}
      /\ Len(units) \in Nat /\ candidate_unit \in Nat /\ candidate_assumed \in Nat
  BY UnitTypes DEF TrailInv, TrailTypes, Levels
<1>6. /\ units' \in Seq(Unit) /\ Len(units') \in Nat /\ Len(units) <= Len(units')
      /\ alpha' \subseteq Lit /\ vars_unit_indexes' = vars_unit_indexes
      /\ \A n \in 1..Len(units) : units'[n] = units[n]
      /\ \A n \in 1..Len(units') : n > Len(units) => units'[n].clause = 0
      /\ TrailExact'
  <2>1. PICK open \in SUBSET (1..Len(D)) :
          /\ \A k \in open : Unassigned(D[k])
          /\ \A k, m \in open : VarOf(D[k]) = VarOf(D[m]) => k = m
          /\ AssumeUnits(D, open)
    BY ImageOpen
  <2> QED
    BY <1>5, <2>1, UnitsAssumed
<1>7. ClausesProper' /\ WatchesHold(live, bare)'
  BY <1>5 DEF ClausesProper, WatchesHold
<1>8. \A n \in 1..Len(units') : n \in 1..Len(units) \/ n > Len(units)
  BY <1>5, <1>6
<1>9. ReasonsHold(live)'
  <2>1. \A c \in live : clauses'[c] = clauses[c]
    OBVIOUS
  <2> QED
    BY <1>6, <2>1, AssumedKeep
<1>11. CandidateLevel(C)'
  <2> DEFINE V == Vars(ToSet(C))
  <2>1. /\ candidate_assumed' >= 1 /\ candidate_assumed' <= candidate_unit'
        /\ candidate_unit' <= Len(units') + 1
    BY <1>5, <1>6 DEF CandidateLevel
  <2>2. ASSUME NEW n \in 1..Len(units')
        PROVE  /\ n < candidate_assumed => units'[n].clause # 0
               /\ candidate_assumed <= n /\ n < candidate_unit =>
                    units'[n].clause = 0 /\ VarOf(units'[n].lit) \in V
    <3>1. CASE n \in 1..Len(units)
      BY <1>5, <1>6, <3>1 DEF CandidateLevel
    <3>2. CASE n > Len(units)
      <4>1. ~(n < candidate_unit) /\ ~(n < candidate_assumed)
        BY <1>5, <1>6, <3>2 DEF CandidateLevel
      <4> QED
        BY <4>1
    <3> QED
      BY <1>8, <3>1, <3>2
  <2>3. ASSUME NEW v \in V
        PROVE  \E n \in 1..Len(units') : n < candidate_unit /\ VarOf(units'[n].lit) = v
    <3>1. PICK n \in 1..Len(units) : n < candidate_unit /\ VarOf(units[n].lit) = v
      BY <1>5 DEF CandidateLevel
    <3>2. n \in 1..Len(units') /\ units'[n] = units[n]
      BY <1>5, <1>6
    <3> QED
      BY <3>1, <3>2
  <2>4. assumed = {v \in V : vars_unit_indexes[v] > 0}
    BY <1>5 DEF CandidateLevel
  <2>5. assumed' = {v \in V : vars_unit_indexes'[v] > 0} \cup RAT_marked'
    BY <1>4, <1>6, <2>4
  <2>6. RAT_marked' \cap V = {}
    BY <1>4, <2>4 DEF FalseByUnits, IsVarSetDueToUp
  <2> QED
    BY <2>1, <2>2, <2>3, <2>5, <2>6 DEF CandidateLevel
<1>12. Levels(C)'
  <2>1. candidate_unit' <= RAT_assumed' /\ RAT_assumed' <= Len(units') + 1
    BY <1>4, <1>5, <1>6 DEF CandidateLevel
  <2> QED
    BY <1>4, <1>11, <2>1 DEF Levels
<1>13. TrailTypes'
  <2>1. FalseByUnits(D) \subseteq Var
    <3>1. \A l \in ToSet(D) : l \in Lit /\ VarOf(l) \in Var
      BY VarsOf, LitFacts
    <3> QED
      BY <3>1 DEF FalseByUnits, Vars
  <2>2. assumed' \subseteq Var /\ RAT_marked' \subseteq Var
    BY <1>4, <1>5, <2>1 DEF TrailTypes
  <2>3. RAT_assumed' \in Nat /\ RAT_unit' \in Nat
    BY <1>4, <1>5, <1>6
  <2> QED
    BY <1>4, <1>5, <1>6, <2>2, <2>3 DEF TrailTypes
<1> QED
  BY <1>5, <1>6, <1>7, <1>9, <1>12, <1>13 DEF TrailInv
-----------------------------------------------------------------------------
(***************************************************************************)
(* What was assumed, and what followed, is undone.                          *)
(***************************************************************************)
(***************************************************************************)
(* What was assumed, and what followed, is undone.                          *)
(***************************************************************************)
LEMMA TrailCut ==
  ASSUME NEW live, NEW bare, NEW C, TrailInv(live, bare, C), NEW P \in Nat,
         P <= Len(units), units' = SubSeq(units, 1, P),
         alpha' \subseteq alpha,
         \A n \in 1..Len(units) : units[n].lit \in alpha' <=> n <= P,
         vars_unit_indexes' \in [Var -> Nat],
         \A n \in 1..P :
           vars_unit_indexes'[VarOf(units[n].lit)] = vars_unit_indexes[VarOf(units[n].lit)],
         \A v \in Var : (\A n \in 1..P : VarOf(units[n].lit) # v) => vars_unit_indexes'[v] = 0,
         UNCHANGED clauses
  PROVE  /\ units' \in Seq(Unit) /\ Len(units') = P /\ alpha' \subseteq Lit
         /\ \A n \in 1..P : units'[n] = units[n]
         /\ TrailExact' /\ ReasonsHold(live)'
<1>1. /\ TrailTypes /\ TrailExact /\ ReasonsHold(live) /\ Len(units) \in Nat
      /\ units \in Seq(Unit) /\ alpha \subseteq Lit
  BY UnitTypes DEF TrailInv, TrailTypes
<1>2. /\ units' \in Seq(Unit) /\ Len(units') = P
      /\ \A n \in 1..P : units'[n] = units[n] /\ n \in 1..Len(units)
  BY <1>1, Prefix
<1>3. TrailExact'
  <2>1. \A n \in 1..P : units'[n].lit \in alpha'
    BY <1>2
  <2>2. ASSUME NEW l \in alpha' PROVE \E n \in 1..P : units'[n].lit = l
    <3>1. PICK n \in 1..Len(units) : units[n].lit = l
      BY <1>1, <2>2 DEF TrailExact
    <3>2. n \in 1..P
      BY <1>1, <2>2, <3>1
    <3> QED
      BY <1>2, <3>1, <3>2
  <2>3. \A m, n \in 1..P : VarOf(units'[m].lit) = VarOf(units'[n].lit) => m = n
    BY <1>1, <1>2 DEF TrailExact
  <2>4. \A n \in 1..P :
          vars_unit_indexes'[VarOf(units'[n].lit)] = IF units'[n].clause = 0 THEN 0 ELSE n
    BY <1>1, <1>2 DEF TrailExact
  <2>5. ASSUME NEW v \in Var, vars_unit_indexes'[v] # 0
        PROVE  /\ vars_unit_indexes'[v] \in 1..P
               /\ VarOf(units'[vars_unit_indexes'[v]].lit) = v
    <3>1. PICK n \in 1..P : VarOf(units[n].lit) = v
      BY <2>5
    <3>2. vars_unit_indexes'[v] = n
      BY <1>2, <2>4, <2>5, <3>1
    <3> QED
      BY <1>2, <3>1, <3>2
  <2> QED
    BY <1>2, <2>1, <2>2, <2>3, <2>4, <2>5 DEF TrailExact
<1>5. ASSUME NEW n \in 1..Len(units'), units'[n].clause # 0
      PROVE  Reason(n, live)'
  <2>1. n \in 1..P /\ n \in 1..Len(units) /\ units'[n] = units[n]
    BY <1>2
  <2>2. \A m \in 1..n : m \in 1..P
    BY <2>1
  <2>3. \A m \in 1..n : units'[m] = units[m]
    BY <1>2, <2>2
  <2>4. Reason(n, live) /\ n \in Nat \ {0} /\ units[n].clause \in live
    BY <1>1, <1>5, <2>1 DEF ReasonsHold, Reason
  <2> QED
    BY <2>1, <2>3, <2>4, ReasonsLast
<1> QED
  BY <1>1, <1>2, <1>3, <1>5 DEF ReasonsHold

(* The literals of the units from a place on.                               *)
LEMMA UnitsFrom ==
  ASSUME TrailTypes, NEW a \in Nat \ {0}
  PROVE  /\ \A n \in 1..Len(units) : n >= a => units[n] \in ToSet(SubSeq(units, a, Len(units)))
         /\ \A u \in ToSet(SubSeq(units, a, Len(units))) :
              \E n \in 1..Len(units) : n >= a /\ units[n] = u
<1> DEFINE L == Len(units)
           t == SubSeq(units, a, L)
<1>1. L \in Nat /\ units \in Seq(Unit) /\ \A n \in a..L : units[n] \in Unit
  BY UnitTypes DEF TrailTypes
<1>2. /\ t \in Seq(Unit) /\ Len(t) = IF a <= L THEN L - a + 1 ELSE 0
      /\ \A k \in 1..L - a + 1 : t[k] = units[a + k - 1]
  BY <1>1, SubSeqProperties
<1> HIDE DEF t
<1>3. ToSet(t) = {t[k] : k \in 1..Len(t)}
  BY <1>2 DEF ToSet
<1>4. ASSUME NEW n \in 1..L, n >= a PROVE units[n] \in ToSet(t)
  <2>1. n - a + 1 \in 1..L - a + 1 /\ a + (n - a + 1) - 1 = n /\ Len(t) = L - a + 1
    BY <1>1, <1>2, <1>4
  <2>2. t[n - a + 1] = units[n]
    BY <1>2, <2>1
  <2> QED
    BY <1>3, <2>1, <2>2
<1>5. ASSUME NEW u \in ToSet(t) PROVE \E n \in 1..L : n >= a /\ units[n] = u
  <2>1. PICK k \in 1..Len(t) : t[k] = u
    BY <1>3, <1>5
  <2>2. k \in 1..L - a + 1 /\ a + k - 1 \in 1..L /\ a + k - 1 >= a
    BY <1>1, <1>2
  <2> QED
    BY <1>2, <2>1, <2>2
<1> QED
  BY <1>4, <1>5 DEF t

LEMMA UndoImageKeeps ==
  ASSUME NEW live, NEW bare, NEW C, TrailInv(live, bare, C), up_state = "RAT_UP",
         UndoImage,
         UNCHANGED <<clauses, wps, candidate_assumed, candidate_unit, RAT_assumed, RAT_unit>>
  PROVE  TrailInv(live, bare, C)'
<1> DEFINE undone == {u.lit : u \in ToSet(SubSeq(units, RAT_assumed, Len(units)))}
<1>1. /\ alpha' = alpha \ undone
      /\ vars_unit_indexes' = [v \in Var |-> IF v \in Vars(undone)
                                             THEN 0 ELSE vars_unit_indexes[v]]
      /\ units' = SubSeq(units, 1, RAT_assumed - 1)
      /\ assumed' = assumed \ RAT_marked /\ RAT_marked' = {} /\ up_state' = "CANDIDATE_UP"
  BY DEF UndoImage
<1>2. /\ TrailTypes /\ ClausesProper /\ TrailExact /\ WatchesHold(live, bare)
      /\ CandidateLevel(C)
      /\ Len(units) \in Nat /\ candidate_unit \in Nat /\ candidate_assumed \in Nat
      /\ RAT_assumed \in Nat /\ candidate_unit <= RAT_assumed
      /\ RAT_assumed <= Len(units) + 1
      /\ vars_unit_indexes \in [Var -> Nat]
  BY UnitTypes DEF TrailInv, Levels, TrailTypes
<1>3. /\ candidate_assumed >= 1 /\ candidate_assumed <= candidate_unit
  BY <1>2 DEF CandidateLevel
<1> PICK P \in Nat : P = RAT_assumed - 1
  BY <1>2, <1>3
<1>4. /\ P <= Len(units) /\ \A n \in 1..Len(units) : ~(n <= P) <=> n >= RAT_assumed
      /\ candidate_unit <= P + 1 /\ RAT_assumed \in Nat \ {0}
  BY <1>2, <1>3
<1>5. /\ \A n \in 1..Len(units) : ~(n <= P) => units[n].lit \in undone
      /\ \A l \in undone : \E n \in 1..Len(units) : ~(n <= P) /\ units[n].lit = l
  <2> DEFINE T == ToSet(SubSeq(units, RAT_assumed, Len(units)))
  <2>1. /\ \A n \in 1..Len(units) : n >= RAT_assumed => units[n] \in T
        /\ \A u \in T : \E n \in 1..Len(units) : n >= RAT_assumed /\ units[n] = u
    BY <1>2, <1>4, UnitsFrom
  <2>2. undone = {u.lit : u \in T}
    OBVIOUS
  <2> HIDE DEF T, undone
  <2>3. \A n \in 1..Len(units) : ~(n <= P) => units[n].lit \in undone
    BY <1>4, <2>1, <2>2
  <2>4. ASSUME NEW l \in undone
        PROVE  \E n \in 1..Len(units) : ~(n <= P) /\ units[n].lit = l
    <3>1. PICK u \in T : u.lit = l
      BY <2>2
    <3>2. PICK n \in 1..Len(units) : n >= RAT_assumed /\ units[n] = u
      BY <2>1
    <3> QED
      BY <1>4, <3>1, <3>2
  <2> QED
    BY <2>3, <2>4
<1> HIDE DEF undone
<1>6. /\ \A n \in 1..Len(units) : units[n].lit \in Lit
      /\ \A m, n \in 1..Len(units) : VarOf(units[m].lit) = VarOf(units[n].lit) => m = n
      /\ \A n \in 1..Len(units) : units[n].lit \in alpha
  BY <1>2, UnitTypes DEF TrailExact
<1>7. \A n \in 1..Len(units) : VarOf(units[n].lit) \in Vars(undone) <=> ~(n <= P)
  <2> SUFFICES ASSUME NEW n \in 1..Len(units)
               PROVE  VarOf(units[n].lit) \in Vars(undone) <=> ~(n <= P)
    OBVIOUS
  <2>1. ASSUME ~(n <= P) PROVE VarOf(units[n].lit) \in Vars(undone)
    BY <1>5, <2>1 DEF Vars
  <2>2. ASSUME VarOf(units[n].lit) \in Vars(undone) PROVE ~(n <= P)
    <3>1. PICK l \in undone : VarOf(l) = VarOf(units[n].lit)
      BY <2>2 DEF Vars
    <3>2. PICK m \in 1..Len(units) : ~(m <= P) /\ units[m].lit = l
      BY <1>5
    <3>3. m = n
      BY <1>6, <3>1, <3>2
    <3> QED
      BY <3>2, <3>3
  <2> QED
    BY <2>1, <2>2
<1>8. \A n \in 1..Len(units) : units[n].lit \in undone <=> ~(n <= P)
  BY <1>5, <1>7 DEF Vars
<1>9. \A n \in 1..P : n \in 1..Len(units) /\ n <= P
  BY <1>2, <1>4
<1>10. /\ alpha' \subseteq alpha /\ \A n \in 1..Len(units) : units[n].lit \in alpha' <=> n <= P
       /\ vars_unit_indexes' \in [Var -> Nat]
       /\ units' = SubSeq(units, 1, P)
  <2>1. vars_unit_indexes' \in [Var -> Nat]
    BY <1>1, <1>2
  <2> QED
    BY <1>1, <1>6, <1>8, <2>1
<1>11. \A n \in 1..P :
         vars_unit_indexes'[VarOf(units[n].lit)] = vars_unit_indexes[VarOf(units[n].lit)]
  BY <1>1, <1>6, <1>7, <1>9, LitFacts
<1>12. ASSUME NEW v \in Var, \A n \in 1..P : VarOf(units[n].lit) # v
       PROVE  vars_unit_indexes'[v] = 0
  <2>1. CASE v \in Vars(undone)
    BY <1>1, <2>1
  <2>2. CASE v \notin Vars(undone)
    <3>1. vars_unit_indexes'[v] = vars_unit_indexes[v]
      BY <1>1, <2>2
    <3>2. ASSUME vars_unit_indexes[v] # 0 PROVE FALSE
      <4>1. PICK n \in 1..Len(units) : VarOf(units[n].lit) = v
        BY <1>2, <3>2 DEF TrailExact
      <4>2. n <= P
        BY <1>7, <2>2, <4>1
      <4>3. n \in 1..P
        BY <4>2
      <4> QED
        BY <1>12, <4>1, <4>3
    <3> QED
      BY <3>1, <3>2
  <2> QED
    BY <2>1, <2>2
<1>13. /\ units' \in Seq(Unit) /\ Len(units') = P /\ alpha' \subseteq Lit
       /\ \A n \in 1..P : units'[n] = units[n]
       /\ TrailExact' /\ ReasonsHold(live)'
  BY <1>1, <1>4, <1>10, <1>11, <1>12, TrailCut
<1>14. ClausesProper' /\ WatchesHold(live, bare)'
  BY <1>2 DEF ClausesProper, WatchesHold
<1>15. CandidateLevel(C)'
  <2> DEFINE V == Vars(ToSet(C))
  <2>1. ASSUME NEW v \in V
        PROVE  \E n \in 1..P : n < candidate_unit /\ VarOf(units[n].lit) = v
    <3>1. PICK n \in 1..Len(units) : n < candidate_unit /\ VarOf(units[n].lit) = v
      BY <1>2 DEF CandidateLevel
    <3>2. n \in 1..P
      BY <1>2, <1>4, <3>1
    <3> QED
      BY <3>1, <3>2
  <2>2. \A v \in V : vars_unit_indexes'[v] = vars_unit_indexes[v]
    BY <1>11, <2>1
  <2>3. /\ assumed = {v \in V : vars_unit_indexes[v] > 0} \cup RAT_marked
        /\ RAT_marked \cap V = {}
    BY <1>2 DEF CandidateLevel
  <2>4. assumed' = {v \in V : vars_unit_indexes'[v] > 0} \cup RAT_marked'
    BY <1>1, <2>2, <2>3
  <2>5. \A n \in 1..P :
          /\ n < candidate_assumed => units'[n].clause # 0
          /\ candidate_assumed <= n /\ n < candidate_unit =>
               units'[n].clause = 0 /\ VarOf(units'[n].lit) \in V
    BY <1>2, <1>9, <1>13 DEF CandidateLevel
  <2>6. \A v \in V : \E n \in 1..P : n < candidate_unit /\ VarOf(units'[n].lit) = v
    BY <1>13, <2>1
  <2> QED
    BY <1>1, <1>3, <1>4, <1>13, <2>4, <2>5, <2>6 DEF CandidateLevel
<1>16. Levels(C)'
  BY <1>1, <1>15 DEF Levels
<1>17. TrailTypes'
  <2>1. assumed' \subseteq Var /\ RAT_marked' \subseteq Var
    BY <1>1, <1>2 DEF TrailTypes
  <2> QED
    BY <1>1, <1>2, <1>10, <1>13, <2>1 DEF TrailTypes
<1> QED
  BY <1>13, <1>14, <1>16, <1>17 DEF TrailInv

LEMMA UndoCandidateKeeps ==
  ASSUME NEW live, NEW bare, NEW C \in Seq(Lit), TrailInv(live, bare, C),
         up_state = "CANDIDATE_UP", UndoCandidate(C),
         UNCHANGED <<clauses, wps, RAT_marked, candidate_assumed, candidate_unit,
                     RAT_assumed, RAT_unit>>
  PROVE  TrailInv(live, bare, C)'
<1> DEFINE V == Vars(ToSet(C))
           derived == {VarOf(u.lit) : u \in ToSet(SubSeq(units, candidate_unit, Len(units)))}
           opened == {v \in V : vars_unit_indexes[v] = 0}
<1>1. /\ alpha' = {l \in alpha : VarOf(l) \notin derived \cup opened}
      /\ vars_unit_indexes' = [v \in Var |-> IF v \in derived
                                             THEN 0 ELSE vars_unit_indexes[v]]
      /\ assumed' = assumed \ V
      /\ units' = SubSeq(units, 1, candidate_assumed - 1)
      /\ up_state' = "GLOBAL_UP"
  BY DEF UndoCandidate
<1>2. /\ TrailTypes /\ ClausesProper /\ TrailExact /\ WatchesHold(live, bare)
      /\ CandidateLevel(C)
      /\ Len(units) \in Nat /\ candidate_unit \in Nat /\ candidate_assumed \in Nat
      /\ RAT_marked = {}
      /\ vars_unit_indexes \in [Var -> Nat]
  BY UnitTypes DEF TrailInv, Levels, TrailTypes
<1>3. /\ candidate_assumed >= 1 /\ candidate_assumed <= candidate_unit
      /\ candidate_unit <= Len(units) + 1
      /\ \A n \in 1..Len(units) :
           /\ n < candidate_assumed => units[n].clause # 0
           /\ candidate_assumed <= n /\ n < candidate_unit =>
                units[n].clause = 0 /\ VarOf(units[n].lit) \in V
      /\ assumed = {v \in V : vars_unit_indexes[v] > 0} \cup RAT_marked
  BY <1>2 DEF CandidateLevel
<1> PICK P \in Nat : P = candidate_assumed - 1
  BY <1>2, <1>3
<1>4. /\ P <= Len(units) /\ candidate_unit \in Nat \ {0}
      /\ \A n \in 1..Len(units) : n <= P <=> n < candidate_assumed
      /\ \A n \in 1..P : n \in 1..Len(units) /\ n < candidate_assumed /\ ~(n >= candidate_unit)
      /\ \A n \in 1..Len(units) :
           n <= P \/ (candidate_assumed <= n /\ n < candidate_unit) \/ n >= candidate_unit
      /\ \A n \in 1..Len(units) : n <= P => n \in 1..P
  BY <1>2, <1>3
<1>5. /\ \A n \in 1..Len(units) : n >= candidate_unit => VarOf(units[n].lit) \in derived
      /\ \A v \in derived : \E n \in 1..Len(units) : n >= candidate_unit /\ VarOf(units[n].lit) = v
  <2> DEFINE T == ToSet(SubSeq(units, candidate_unit, Len(units)))
  <2>1. /\ \A n \in 1..Len(units) : n >= candidate_unit => units[n] \in T
        /\ \A u \in T : \E n \in 1..Len(units) : n >= candidate_unit /\ units[n] = u
    BY <1>2, <1>4, UnitsFrom
  <2>2. derived = {VarOf(u.lit) : u \in T}
    OBVIOUS
  <2> HIDE DEF T, derived
  <2>3. \A n \in 1..Len(units) : n >= candidate_unit => VarOf(units[n].lit) \in derived
    BY <2>1, <2>2
  <2>4. ASSUME NEW v \in derived
        PROVE  \E n \in 1..Len(units) : n >= candidate_unit /\ VarOf(units[n].lit) = v
    <3>1. PICK u \in T : VarOf(u.lit) = v
      BY <2>2
    <3>2. PICK n \in 1..Len(units) : n >= candidate_unit /\ units[n] = u
      BY <2>1
    <3> QED
      BY <3>1, <3>2
  <2> QED
    BY <2>3, <2>4
<1> HIDE DEF derived
<1>6. /\ \A n \in 1..Len(units) : units[n].lit \in Lit /\ VarOf(units[n].lit) \in Var
      /\ \A m, n \in 1..Len(units) : VarOf(units[m].lit) = VarOf(units[n].lit) => m = n
      /\ \A n \in 1..Len(units) : units[n].lit \in alpha
      /\ \A n \in 1..Len(units) :
           vars_unit_indexes[VarOf(units[n].lit)] = IF units[n].clause = 0 THEN 0 ELSE n
  BY <1>2, UnitTypes, LitFacts DEF TrailExact
<1>7. \A n \in 1..Len(units) : VarOf(units[n].lit) \in derived <=> n >= candidate_unit
  BY <1>5, <1>6
<1>8. \A n \in 1..P : VarOf(units[n].lit) \notin opened /\ VarOf(units[n].lit) \notin derived
  <2> SUFFICES ASSUME NEW n \in 1..P
               PROVE  VarOf(units[n].lit) \notin opened /\ VarOf(units[n].lit) \notin derived
    OBVIOUS
  <2>1. n \in 1..Len(units) /\ units[n].clause # 0 /\ n # 0 /\ ~(n >= candidate_unit)
    BY <1>3, <1>4
  <2>2. vars_unit_indexes[VarOf(units[n].lit)] = n
    BY <1>6, <2>1
  <2> QED
    BY <1>7, <2>1, <2>2
<1>9. \A n \in 1..Len(units) : ~(n <= P) => VarOf(units[n].lit) \in derived \cup opened
  <2> SUFFICES ASSUME NEW n \in 1..Len(units), ~(n <= P)
               PROVE  VarOf(units[n].lit) \in derived \cup opened
    OBVIOUS
  <2>1. CASE candidate_assumed <= n /\ n < candidate_unit
    <3>1. VarOf(units[n].lit) \in V /\ vars_unit_indexes[VarOf(units[n].lit)] = 0
      BY <1>3, <1>6, <2>1
    <3> QED
      BY <3>1
  <2>2. CASE n >= candidate_unit
    BY <1>7, <2>2
  <2> QED
    BY <1>4, <2>1, <2>2
<1> HIDE DEF opened
<1>10. /\ alpha' \subseteq alpha /\ \A n \in 1..Len(units) : units[n].lit \in alpha' <=> n <= P
       /\ vars_unit_indexes' \in [Var -> Nat]
       /\ units' = SubSeq(units, 1, P)
  <2>1. vars_unit_indexes' \in [Var -> Nat]
    BY <1>1, <1>2
  <2>2. \A n \in 1..Len(units) : units[n].lit \in alpha' <=> n <= P
    BY <1>1, <1>4, <1>6, <1>8, <1>9
  <2> QED
    BY <1>1, <2>1, <2>2
<1>11. \A n \in 1..P :
         vars_unit_indexes'[VarOf(units[n].lit)] = vars_unit_indexes[VarOf(units[n].lit)]
  BY <1>1, <1>4, <1>6, <1>8
<1>12. ASSUME NEW v \in Var, \A n \in 1..P : VarOf(units[n].lit) # v
       PROVE  vars_unit_indexes'[v] = 0
  <2>1. CASE v \in derived
    BY <1>1, <2>1
  <2>2. CASE v \notin derived
    <3>1. vars_unit_indexes'[v] = vars_unit_indexes[v]
      BY <1>1, <2>2
    <3>2. ASSUME vars_unit_indexes[v] # 0 PROVE FALSE
      <4>1. PICK n \in 1..Len(units) : n = vars_unit_indexes[v] /\ VarOf(units[n].lit) = v
        BY <1>2, <3>2 DEF TrailExact
      <4>2. ~(n >= candidate_unit) /\ ~(n <= P)
        BY <1>4, <1>7, <1>12, <2>2, <4>1
      <4>3. units[n].clause = 0
        BY <1>3, <1>4, <4>2
      <4>4. vars_unit_indexes[v] = 0
        BY <1>6, <4>1, <4>3
      <4> QED
        BY <3>2, <4>4
    <3> QED
      BY <3>1, <3>2
  <2> QED
    BY <2>1, <2>2
<1>13. /\ units' \in Seq(Unit) /\ Len(units') = P /\ alpha' \subseteq Lit
       /\ \A n \in 1..P : units'[n] = units[n]
       /\ TrailExact' /\ ReasonsHold(live)'
  BY <1>1, <1>4, <1>10, <1>11, <1>12, TrailCut
<1>14. ClausesProper' /\ WatchesHold(live, bare)'
  BY <1>2 DEF ClausesProper, WatchesHold
<1>15. Levels(C)'
  <2>1. \A n \in 1..P : units'[n].clause # 0
    BY <1>3, <1>4, <1>13
  <2>2. assumed' = {} /\ RAT_marked' = {}
    BY <1>1, <1>2, <1>3
  <2> QED
    BY <1>1, <1>13, <2>1, <2>2 DEF Levels
<1>16. TrailTypes'
  <2>1. assumed' \subseteq Var
    BY <1>1, <1>2 DEF TrailTypes
  <2> QED
    BY <1>1, <1>2, <1>10, <1>13, <2>1 DEF TrailTypes
<1> QED
  BY <1>13, <1>14, <1>15, <1>16 DEF TrailInv

-----------------------------------------------------------------------------
(***************************************************************************)
(* A clause goes, and its unit with those that follow.                      *)
(***************************************************************************)
(***************************************************************************)
(* A deletion.                                                              *)
(***************************************************************************)
(* A unit clause has no watches; a longer one has its first two literals.    *)
LEMMA WatchesAre ==
  ASSUME NEW c, clauses[c] \in Seq(Lit), clauses[c] # << >>
  PROVE  /\ Len(clauses[c]) = 1 => Watches(c) = {}
         /\ Len(clauses[c]) # 1 => /\ Len(clauses[c]) >= 2
                                   /\ Watches(c) = {clauses[c][1], clauses[c][2]}
                                   /\ clauses[c][1] \in Lit /\ clauses[c][2] \in Lit
<1>1. 1..0 = {} /\ 1..2 = {1, 2}
  OBVIOUS
<1>2. Len(clauses[c]) = 1 => Watches(c) = {}
  BY <1>1 DEF Watches
<1>3. ASSUME Len(clauses[c]) # 1
      PROVE  /\ Len(clauses[c]) >= 2
             /\ Watches(c) = {clauses[c][1], clauses[c][2]}
             /\ clauses[c][1] \in Lit /\ clauses[c][2] \in Lit
  <2> PICK n \in Nat : n = Len(clauses[c])
    OBVIOUS
  <2>1. n # 0 /\ n # 1
    BY <1>3
  <2>2. n >= 2
    BY ONLY n \in Nat, <2>1
  <2>3. Watches(c) = {clauses[c][k] : k \in 1..2}
    BY <1>3 DEF Watches
  <2>4. Watches(c) = {clauses[c][1], clauses[c][2]}
    BY ONLY <1>1, <2>3
  <2> QED
    BY <2>2, <2>4
<1> QED
  BY <1>2, <1>3

(* A live clause is in the lists of its watches.                             *)
LEMMA LiveWatched ==
  ASSUME NEW live, NEW bare, NEW C, TrailInv(live, bare, C),
         NEW c \in live, c \notin bare, clauses[c] # << >>
  PROVE  IsWatched(c)
<1>1. /\ clauses[c] \in Seq(Lit) /\ wps \in [Lit -> Seq(Nat)]
      /\ Len(clauses[c]) >= 2 => Has(wps[clauses[c][1]], c) /\ Has(wps[clauses[c][2]], c)
  BY ClauseTypes, ProperFacts DEF TrailInv, TrailTypes, WatchesHold
<1>2. \A l \in Watches(c) : l \in Lit /\ Has(wps[l], c)
  BY <1>1, WatchesAre
<1> SUFFICES ASSUME NEW l \in Watches(c) PROVE c \in ToSet(wps[l])
  BY DEF IsWatched
<1>3. PICK k \in 1..Len(wps[l]) : wps[l][k] = c
  BY <1>2 DEF Has
<1>4. k \in DOMAIN wps[l]
  BY <1>1, <1>2
<1> QED
  BY <1>3, <1>4 DEF ToSet

(* A clause that is watched, or has a single literal, leaves the lists.      *)
LEMMA Detached ==
  ASSUME NEW live, NEW bare, NEW C, TrailInv(live, bare, C),
         NEW c \in 1..Len(clauses), clauses[c] # << >>, IsWatched(c), Detach(c),
         UNCHANGED clauses
  PROVE  wps' \in [Lit -> Seq(Nat)] /\ WatchesHold(live \ {c}, bare)'
<1>1. /\ TrailTypes /\ ClausesProper /\ WatchesHold(live, bare)
      /\ live \subseteq 1..Len(clauses) /\ c \in Nat
      /\ Proper(clauses[c]) /\ clauses[c] \in Seq(Lit)
  <2>1. \A d \in 1..Len(clauses) : Proper(clauses[d]) /\ clauses[d] \in Seq(Lit)
    BY ClauseTypes
  <2> QED
    BY <2>1 DEF TrailInv
<1>3. /\ wps \in [Lit -> Seq(Nat)]
      /\ \A l \in Lit : wps[l] \in Seq(Nat) /\ OnceEach(wps[l])
      /\ \A l \in Lit : \A d \in Nat : Has(wps[l], d) =>
           d \in live /\ Len(clauses[d]) >= 2 /\ (l = clauses[d][1] \/ l = clauses[d][2])
      /\ \A d \in live : Len(clauses[d]) >= 2 /\ d \notin bare =>
           Has(wps[clauses[d][1]], d) /\ Has(wps[clauses[d][2]], d)
  BY <1>1 DEF TrailTypes, WatchesHold
<1>5. /\ Len(clauses[c]) = 1 => Watches(c) = {}
      /\ Len(clauses[c]) # 1 => /\ Len(clauses[c]) >= 2
                                /\ Watches(c) = {clauses[c][1], clauses[c][2]}
                                /\ clauses[c][1] \in Lit /\ clauses[c][2] \in Lit
  BY <1>1, WatchesAre
<1>6. \A l \in Watches(c) : l \in Lit /\ Has(wps[l], c)
  <2> SUFFICES ASSUME NEW l \in Watches(c) PROVE l \in Lit /\ Has(wps[l], c)
    OBVIOUS
  <2>1. l \in Lit /\ c \in ToSet(wps[l])
    BY <1>5 DEF IsWatched
  <2>2. PICK k \in DOMAIN wps[l] : wps[l][k] = c
    BY <2>1 DEF ToSet
  <2>3. k \in 1..Len(wps[l])
    BY <1>3, <2>1
  <2> QED
    BY <2>1, <2>2, <2>3 DEF Has
<1>8. wps' = [l \in Lit |-> IF l \in Watches(c)
                            THEN RemoveWatch(wps[l], PlaceOf(wps[l], c)) ELSE wps[l]]
  BY DEF Detach
<1>9. ASSUME NEW l \in Lit
      PROVE  /\ wps'[l] \in Seq(Nat) /\ OnceEach(wps'[l])
             /\ \A d : Has(wps'[l], d) <=> Has(wps[l], d) /\ d # c
  <2>1. CASE l \in Watches(c)
    <3>1. PlaceOf(wps[l], c) \in 1..Len(wps[l]) /\ wps[l][PlaceOf(wps[l], c)] = c
      BY <1>6, <2>1 DEF Has, PlaceOf
    <3>2. wps'[l] = RemoveWatch(wps[l], PlaceOf(wps[l], c))
      BY <1>8, <2>1
    <3> PICK k \in 1..Len(wps[l]) : k = PlaceOf(wps[l], c) /\ wps[l][k] = c
      BY <3>1
    <3>3. wps'[l] = RemoveWatch(wps[l], k)
      BY <3>2
    <3> QED
      BY <1>3, <3>3, Removed
  <2>2. CASE l \notin Watches(c)
    <3>1. ~Has(wps[l], c)
      <4>1. SUFFICES ASSUME Has(wps[l], c) PROVE FALSE
        OBVIOUS
      <4>2. Len(clauses[c]) >= 2 /\ (l = clauses[c][1] \/ l = clauses[c][2])
        BY <1>1, <1>3, <4>1
      <4>3. ASSUME Len(clauses[c]) = 1 PROVE FALSE
        BY ONLY <4>2, <4>3
      <4> QED
        BY <1>5, <2>2, <4>2, <4>3
    <3> QED
      BY <1>3, <1>8, <2>2, <3>1
  <2> QED
    BY <2>1, <2>2
<1>10. wps' \in [Lit -> Seq(Nat)]
  BY <1>8, <1>9
<1>11. WatchesHold(live \ {c}, bare)'
  <2>1. \A l \in Lit : OnceEach(wps'[l])
    BY <1>9
  <2>2. \A l \in Lit : \A d \in Nat : Has(wps'[l], d) =>
          d \in live \ {c} /\ Len(clauses'[d]) >= 2 /\ (l = clauses'[d][1] \/ l = clauses'[d][2])
    BY <1>3, <1>9
  <2>3. ASSUME NEW d \in live \ {c}, Len(clauses'[d]) >= 2, d \notin bare
        PROVE  Has(wps'[clauses'[d][1]], d) /\ Has(wps'[clauses'[d][2]], d)
    <3>1. d \in live /\ d # c /\ Proper(clauses[d]) /\ Len(clauses[d]) >= 2
      BY <1>1, <2>3, ClauseTypes
    <3>2. clauses[d][1] \in Lit /\ clauses[d][2] \in Lit
      BY <3>1, ProperFacts
    <3> QED
      BY <1>3, <1>9, <2>3, <3>1, <3>2
  <2> QED
    BY <2>1, <2>2, <2>3 DEF WatchesHold
<1> QED
  BY <1>10, <1>11

(* A clause that is no reason by the index of its first variable is none.    *)
LEMMA Unneeded ==
  ASSUME NEW live, NEW bare, NEW C, TrailInv(live, bare, C), up_state = "GLOBAL_UP", NEW c,
         ~(IsVarSetDueToUp(VarOf(clauses[c][1])) /\ ReasonOf(VarOf(clauses[c][1])) = c)
  PROVE  \A n \in 1..Len(units) : units[n].clause # 0 /\ units[n].clause # c
<1>1. /\ TrailExact /\ ReasonsHold(live) /\ assumed = {} /\ Len(units) \in Nat
      /\ \A n \in 1..Len(units) : units[n].clause # 0
  BY UnitTypes DEF TrailInv, Levels
<1> SUFFICES ASSUME NEW n \in 1..Len(units), units[n].clause = c PROVE FALSE
  BY <1>1
<1>2. clauses[c][1] = units[n].lit
  BY <1>1 DEF ReasonsHold, Reason
<1>3. vars_unit_indexes[VarOf(clauses[c][1])] = n
  BY <1>1, <1>2 DEF TrailExact
<1>4. n > 0
  BY <1>1
<1> QED
  BY <1>1, <1>3, <1>4 DEF IsVarSetDueToUp, ReasonOf

(* A clause that is no reason goes.                                         *)
LEMMA DetachKeeps ==
  ASSUME NEW live, NEW bare, NEW C, TrailInv(live, bare, C), up_state = "GLOBAL_UP",
         NEW c \in 1..Len(clauses), clauses[c] # << >>, IsWatched(c), Detach(c),
         \A n \in 1..Len(units) : units[n].clause # c, NEW C2,
         UNCHANGED <<clauses, alphaVars, levelVars, markVars>>
  PROVE  TrailInv(live \ {c}, bare, C2)'
<1>1. wps' \in [Lit -> Seq(Nat)] /\ WatchesHold(live \ {c}, bare)'
  BY Detached
<1> PICK live2 : live2 = live \ {c}
  OBVIOUS
<1>2. TrailExact' /\ ReasonsHold(live2)' /\ Levels(C)'
  <2>1. \A n \in 1..Len(units) :
          units[n].clause # 0 => /\ clauses'[units[n].clause] = clauses[units[n].clause]
                                 /\ units[n].clause \in live2
    BY DEF TrailInv, ReasonsHold, Reason
  <2>2. UNCHANGED <<alphaVars, levelVars, markVars>>
    OBVIOUS
  <2> QED
    BY <2>1, <2>2, Unmoved
<1>3. Levels(C2)'
  BY <1>2 DEF Levels, levelVars
<1>4. TrailTypes' /\ ClausesProper' /\ (live2 \subseteq 1..Len(clauses))'
  BY <1>1 DEF TrailInv, TrailTypes, ClausesProper, alphaVars, levelVars, markVars
<1> QED
  BY <1>1, <1>2, <1>3, <1>4 DEF TrailInv

(* Unit propagation is repeated from a unit that is there.                   *)
LEMMA Restarted ==
  ASSUME NEW live, NEW bare, NEW C0, TrailInv(live, bare, C0),
         \A n \in 1..Len(units) : units[n].clause # 0, NEW f \in 1..Len(units)
  PROVE  RestartAt(f) \in Nat \ {0}
<1> PICK C : C = clauses[units[f].clause]
  OBVIOUS
<1> DEFINE rest == {vars_unit_indexes[VarOf(C[k])] : k \in 2..Len(C)}
           before == IF f > 2 THEN {f - 1} \cup rest ELSE {1}
<1>1. /\ TrailTypes /\ TrailExact /\ ClausesProper /\ Reason(f, live)
      /\ Len(units) \in Nat /\ f \in Nat /\ f >= 1
  BY UnitTypes DEF TrailInv, ReasonsHold
<1>2. C \in Seq(Lit) /\ Len(C) \in Nat
  BY <1>1, ClauseTypes DEF Reason
<1>3. ASSUME NEW k \in 2..Len(C)
      PROVE  vars_unit_indexes[VarOf(C[k])] \in Nat \ {0}
  <2>1. C[k] \in Lit
    BY <1>2
  <2>2. PICK m \in 1..f - 1 : units[m].lit = -C[k]
    BY <1>1 DEF Reason
  <2>3. m \in 1..Len(units) /\ m \in Nat \ {0}
    BY <1>1
  <2>4. vars_unit_indexes[VarOf(units[m].lit)] = m
    BY <1>1, <2>3 DEF TrailExact
  <2>5. VarOf(units[m].lit) = VarOf(C[k])
    BY <2>1, <2>2, LitFacts
  <2> QED
    BY <2>3, <2>4, <2>5
<1>4. rest \subseteq Nat \ {0}
  BY <1>3
<1> HIDE DEF rest
<1>5. before \subseteq Nat \ {0} /\ before # {}
  <2>1. CASE f > 2
    BY <1>1, <1>4, <2>1
  <2>2. CASE ~(f > 2)
    BY <2>2
  <2> QED
    BY <2>1, <2>2
<1>6. RestartAt(f) = CHOOSE k \in before : \A m \in before : k <= m
  BY DEF RestartAt, rest
<1> HIDE DEF before
<1>7. before \subseteq Nat
  BY <1>5
<1> QED
  BY <1>5, <1>6, <1>7, FirstPlace

(* The units that are kept, in their order, and each literal's place.        *)
LEMMA UnitsKept ==
  ASSUME TrailTypes, TrailExact, \A n \in 1..Len(units) : units[n].clause # 0,
         NEW K \in SUBSET (1..Len(units)), NEW kept, kept = AtPlaces(units, K),
         units' = kept, alpha' = {u.lit : u \in ToSet(kept)},
         vars_unit_indexes' = [v \in Var |-> SelectInSeq(kept, LAMBDA u : VarOf(u.lit) = v)]
  PROVE  /\ units' \in Seq(Unit) /\ alpha' \subseteq Lit /\ vars_unit_indexes' \in [Var -> Nat]
         /\ \A n \in 1..Len(units') : \E p \in K : UpTo(K, p) = n /\ units'[n] = units[p]
         /\ \A p \in K : UpTo(K, p) \in 1..Len(units') /\ units'[UpTo(K, p)] = units[p]
         /\ TrailExact'
<1>1. /\ units \in Seq(Unit) /\ Len(units) \in Nat
      /\ \A n \in 1..Len(units) : units[n].lit \in Lit /\ VarOf(units[n].lit) \in Var
      /\ \A m, n \in 1..Len(units) : VarOf(units[m].lit) = VarOf(units[n].lit) => m = n
  BY UnitTypes, LitFacts DEF TrailTypes, TrailExact
<1>2. /\ kept \in Seq(Unit) /\ Len(kept) \in Nat
      /\ \A n \in 1..Len(kept) : \E p \in K : UpTo(K, p) = n /\ kept[n] = units[p]
      /\ \A p \in K : UpTo(K, p) \in 1..Len(kept) /\ kept[UpTo(K, p)] = units[p]
  BY <1>1, AtPlacesSeq
<1>3. /\ \A n \in 1..Len(kept) : /\ kept[n].lit \in Lit /\ VarOf(kept[n].lit) \in Var
                                 /\ kept[n].clause # 0
      /\ \A m, n \in 1..Len(kept) : VarOf(kept[m].lit) = VarOf(kept[n].lit) => m = n
  <2>1. ASSUME NEW n \in 1..Len(kept)
        PROVE  /\ kept[n].lit \in Lit /\ VarOf(kept[n].lit) \in Var /\ kept[n].clause # 0
    <3>1. PICK p \in K : kept[n] = units[p]
      BY <1>2
    <3> QED
      BY <1>1, <3>1
  <2>2. ASSUME NEW m \in 1..Len(kept), NEW n \in 1..Len(kept),
               VarOf(kept[m].lit) = VarOf(kept[n].lit)
        PROVE  m = n
    <3>1. PICK p \in K : UpTo(K, p) = m /\ kept[m] = units[p]
      BY <1>2
    <3>2. PICK q \in K : UpTo(K, q) = n /\ kept[n] = units[q]
      BY <1>2
    <3>3. p = q
      BY <1>1, <2>2, <3>1, <3>2
    <3> QED
      BY <3>1, <3>2, <3>3
  <2> QED
    BY <2>1, <2>2
<1>4. alpha' = {kept[n].lit : n \in 1..Len(kept)}
  BY <1>2 DEF ToSet
<1>5. ASSUME NEW v \in Var
      PROVE  /\ vars_unit_indexes'[v] \in Nat
             /\ \A n \in 1..Len(kept) : VarOf(kept[n].lit) = v => vars_unit_indexes'[v] = n
             /\ vars_unit_indexes'[v] # 0 => /\ vars_unit_indexes'[v] \in 1..Len(kept)
                                             /\ VarOf(kept[vars_unit_indexes'[v]].lit) = v
  <2> DEFINE I == {k \in 1..Len(kept) : VarOf(kept[k].lit) = v}
  <2> PICK x : x = vars_unit_indexes'[v]
    OBVIOUS
  <2>1. x = IF I # {} THEN Min(I) ELSE 0
    BY DEF SelectInSeq
  <2>2. /\ x \in Nat
        /\ \A n \in 1..Len(kept) : VarOf(kept[n].lit) = v => x = n
        /\ x # 0 => x \in 1..Len(kept) /\ VarOf(kept[x].lit) = v
    <3>1. CASE I = {}
      <4>1. x = 0
        BY <2>1, <3>1
      <4>2. \A n \in 1..Len(kept) : VarOf(kept[n].lit) # v
        BY ONLY <3>1
      <4> QED
        BY ONLY <4>1, <4>2
    <3>2. CASE I # {}
      <4>1. I \in SUBSET Nat
        BY ONLY TRUE
      <4> HIDE DEF I
      <4>2. PICK m \in I : m = Min(I)
        BY <3>2, <4>1, MinExists
      <4>3. m \in 1..Len(kept) /\ VarOf(kept[m].lit) = v
        BY ONLY m \in I DEF I
      <4>4. x = m
        BY <2>1, <3>2, <4>2
      <4> QED
        BY ONLY <1>2, <1>3, <4>3, <4>4
    <3> QED
      BY <3>1, <3>2
  <2> QED
    BY <2>2
<1>6. TrailExact'
  <2>1. \A n \in 1..Len(kept) :
          /\ kept[n].lit \in alpha'
          /\ vars_unit_indexes'[VarOf(kept[n].lit)] = IF kept[n].clause = 0 THEN 0 ELSE n
    BY <1>3, <1>4, <1>5
  <2>2. \A l \in alpha' : \E n \in 1..Len(kept) : kept[n].lit = l
    BY <1>4
  <2>3. \A m, n \in 1..Len(kept) : VarOf(kept[m].lit) = VarOf(kept[n].lit) => m = n
    BY <1>3
  <2>4. \A v \in Var : vars_unit_indexes'[v] # 0 =>
          /\ vars_unit_indexes'[v] \in 1..Len(kept)
          /\ VarOf(kept[vars_unit_indexes'[v]].lit) = v
    BY <1>5
  <2>5. units' = kept
    OBVIOUS
  <2> QED
    BY ONLY <2>1, <2>2, <2>3, <2>4, <2>5 DEF TrailExact
<1>7. vars_unit_indexes' \in [Var -> Nat]
  <2>1. \A v \in Var : vars_unit_indexes'[v] \in Nat
    BY <1>5
  <2> DEFINE index(v) == SelectInSeq(kept, LAMBDA u : VarOf(u.lit) = v)
  <2>2. vars_unit_indexes' = [v \in Var |-> index(v)]
    OBVIOUS
  <2> HIDE DEF index
  <2> QED
    BY <2>1, <2>2
<1>8. alpha' \subseteq Lit
  <2> SUFFICES ASSUME NEW l \in alpha' PROVE l \in Lit
    OBVIOUS
  <2>1. PICK n \in 1..Len(kept) : kept[n].lit = l
    BY ONLY <1>4, l \in alpha'
  <2> QED
    BY ONLY <1>3, <2>1
<1>9. units' = kept
  OBVIOUS
<1> QED
  BY ONLY <1>2, <1>6, <1>7, <1>8, <1>9

(* The unit at index f goes, and all later ones but those of unit clauses.    *)
LEMMA UnassignKeeps ==
  ASSUME NEW live, NEW bare, NEW C, TrailInv(live, bare, C), up_state = "GLOBAL_UP",
         NEW f \in 1..Len(units), UnassignFrom(f), NEW live2,
         \A n \in 1..Len(units) : n # f => units[n].clause \in live2, NEW C2,
         UNCHANGED <<clauses, levelVars, markVars>>
  PROVE  /\ units' \in Seq(Unit) /\ alpha' \subseteq Lit /\ vars_unit_indexes' \in [Var -> Nat]
         /\ TrailExact' /\ ReasonsHold(live2)' /\ Levels(C2)'
         /\ global_up \in Nat \ {0} => global_up' \in Nat \ {0}
<1>5. \A n \in 1..Len(units) : units[n].clause # 0
  BY DEF TrailInv, Levels
<1>6. /\ TrailTypes /\ TrailExact /\ ReasonsHold(live) /\ Levels(C)
      /\ Len(units) \in Nat /\ units \in Seq(Unit)
  BY UnitTypes DEF TrailInv, TrailTypes
<1> PICK K : K = KeptUnits(f)
  OBVIOUS
<1>9. K = {n \in 1..Len(units) \ {f} : n < f \/ Len(clauses[units[n].clause]) = 1}
  BY <1>6 DEF KeptUnits
<1>10. K \in SUBSET (1..Len(units))
  BY <1>9
<1>11. PICK kept :
         /\ kept = AtPlaces(units, K) /\ units' = kept
         /\ alpha' = {u.lit : u \in ToSet(kept)}
         /\ vars_unit_indexes' = [v \in Var |-> SelectInSeq(kept, LAMBDA u : VarOf(u.lit) = v)]
  BY DEF UnassignFrom
<1>12. global_up \in Nat \ {0} => global_up' \in Nat \ {0}
  <2>1. RestartAt(f) \in Nat \ {0}
    BY <1>5, Restarted
  <2>2. global_up' = IF RestartAt(f) < global_up THEN RestartAt(f) ELSE global_up
    BY DEF UnassignFrom
  <2> QED
    BY ONLY <2>1, <2>2
<1>13. /\ units' \in Seq(Unit) /\ alpha' \subseteq Lit /\ vars_unit_indexes' \in [Var -> Nat]
       /\ \A n \in 1..Len(units') : \E p \in K : UpTo(K, p) = n /\ units'[n] = units[p]
       /\ \A p \in K : UpTo(K, p) \in 1..Len(units') /\ units'[UpTo(K, p)] = units[p]
       /\ TrailExact'
  BY <1>5, <1>6, <1>10, <1>11, UnitsKept
<1>14. \A p \in 0..f - 1 : UpTo(K, p) = p
  <2>1. K \in SUBSET Nat /\ IsFiniteSet(K) /\ f \in Nat
    BY <1>6, <1>10, AtPlacesSeq
  <2> SUFFICES ASSUME NEW p \in 0..f - 1 PROVE UpTo(K, p) = p
    OBVIOUS
  <2>2. p \in Nat /\ 0 \in Nat /\ 0 <= p
    OBVIOUS
  <2>3. 0 + 1..p \subseteq K
    <3>1. ASSUME NEW q \in 0 + 1..p PROVE q \in 1..Len(units) \ {f} /\ q < f
      BY <1>6, <2>1
    <3> QED
      BY <1>9, <3>1
  <2>4. UpTo(K, p) = UpTo(K, 0) + (p - 0)
    BY <2>1, <2>2, <2>3, UpToInterval
  <2>5. UpTo(K, 0) = 0
    <3>1. {q \in K : q <= 0} = {}
      BY <1>10
    <3> QED
      BY <3>1, FS_EmptySet DEF UpTo
  <2> QED
    BY <2>2, <2>4, <2>5
<1>15. ASSUME NEW n \in 1..Len(units')
       PROVE  /\ units'[n].clause # 0 /\ Reason(n, live2)'
  <2>1. PICK p \in K : UpTo(K, p) = n /\ units'[n] = units[p]
    BY <1>13
  <2>2. /\ p \in 1..Len(units) /\ p # f /\ p \in Nat /\ f \in Nat
        /\ p < f \/ Len(clauses[units[p].clause]) = 1
    BY <1>6, <1>9
  <2>3. /\ units[p].clause # 0 /\ Reason(p, live)
        /\ units[p].clause \in live2
    BY <1>5, <1>6, <2>2 DEF ReasonsHold, Reason
  <2>4. CASE p < f
    <3>1. p \in 0..f - 1 /\ n = p
      BY <1>14, <2>1, <2>2, <2>4
    <3>2. ASSUME NEW m \in 1..p PROVE units'[m] = units[m]
      <4>1. m \in 1..Len(units) \ {f} /\ m < f /\ m \in 0..f - 1
        BY <1>6, <2>2, <2>4
      <4>2. m \in K /\ UpTo(K, m) = m
        BY <1>9, <1>14, <4>1
      <4> QED
        BY <1>13, <4>2
    <3> QED
      BY <2>1, <2>2, <2>3, <3>1, <3>2, ReasonsLast
  <2>5. CASE Len(clauses[units[p].clause]) = 1
    <3>1. 2..1 = {}
      OBVIOUS
    <3>2. clauses[units[p].clause][1] = units[p].lit
      BY <2>3 DEF Reason
    <3> QED
      BY <2>1, <2>3, <2>5, <3>1, <3>2 DEF Reason
  <2> QED
    BY <2>2, <2>4, <2>5
<1>16. ReasonsHold(live2)'
  BY <1>15 DEF ReasonsHold
<1>17. Levels(C2)'
  BY <1>6, <1>15 DEF Levels, levelVars, markVars
<1> QED
  BY <1>12, <1>13, <1>16, <1>17
-----------------------------------------------------------------------------
(***************************************************************************)
(* Clauses come back at the ends of watch lists.                            *)
(***************************************************************************)

(* The elements at some places of a sequence without repetitions.            *)
LEMMA PlacesOnce ==
  ASSUME NEW R \in Seq(Nat), OnceEach(R), NEW K \in SUBSET (1..Len(R))
  PROVE  /\ AtPlaces(R, K) \in Seq(Nat) /\ OnceEach(AtPlaces(R, K))
         /\ \A d : Has(AtPlaces(R, K), d) <=> \E k \in K : R[k] = d
<1> PICK t : t = AtPlaces(R, K)
  OBVIOUS
<1> PICK L : L = Cardinality(K)
  OBVIOUS
<1>1. /\ L \in Nat /\ t \in Seq(Nat) /\ Len(t) = L
      /\ \A p \in K : UpTo(K, p) \in 1..L /\ t[UpTo(K, p)] = R[p]
      /\ \A n \in 1..L : \E p \in K : UpTo(K, p) = n /\ t[n] = R[p]
  <2> PICK S : S = Nat
    OBVIOUS
  <2>1. R \in Seq(S)
    OBVIOUS
  <2>2. /\ L \in Nat /\ t \in Seq(S) /\ Len(t) = L
        /\ \A p \in K : UpTo(K, p) \in 1..L /\ t[UpTo(K, p)] = R[p]
        /\ \A n \in 1..L : \E p \in K : UpTo(K, p) = n /\ t[n] = R[p]
    <3>1. /\ Cardinality(K) \in Nat
          /\ AtPlaces(R, K) \in Seq(S) /\ Len(AtPlaces(R, K)) = Cardinality(K)
          /\ \A p \in K : /\ UpTo(K, p) \in 1..Cardinality(K)
                          /\ AtPlaces(R, K)[UpTo(K, p)] = R[p]
          /\ \A n \in 1..Cardinality(K) :
               \E p \in K : UpTo(K, p) = n /\ AtPlaces(R, K)[n] = R[p]
      BY ONLY <2>1, K \in SUBSET (1..Len(R)), AtPlacesSeq
    <3> QED
      BY <3>1
  <2> QED
    BY <2>2
<1>2. OnceEach(t)
  <2> SUFFICES ASSUME NEW m \in 1..L, NEW n \in 1..L, t[m] = t[n] PROVE m = n
    BY <1>1 DEF OnceEach
  <2>1. PICK p \in K : UpTo(K, p) = m /\ t[m] = R[p]
    BY <1>1
  <2>2. PICK q \in K : UpTo(K, q) = n /\ t[n] = R[q]
    BY <1>1
  <2>3. p = q
    BY <2>1, <2>2 DEF OnceEach
  <2> QED
    BY <2>1, <2>2, <2>3
<1>3. ASSUME NEW d PROVE Has(t, d) <=> \E k \in K : R[k] = d
  <2>1. ASSUME Has(t, d) PROVE \E k \in K : R[k] = d
    <3>1. PICK n \in 1..L : t[n] = d
      BY <1>1, <2>1 DEF Has
    <3> QED
      BY <1>1, <3>1
  <2>2. ASSUME NEW k \in K, R[k] = d PROVE Has(t, d)
    <3>1. UpTo(K, k) \in 1..Len(t) /\ t[UpTo(K, k)] = d
      BY <1>1, <2>2
    <3> QED
      BY <3>1 DEF Has
  <2> QED
    BY <2>1, <2>2
<1> QED
  BY <1>1, <1>2, <1>3

LEMMA ListsJoined ==
  ASSUME NEW s \in Seq(Nat), OnceEach(s), NEW t \in Seq(Nat), OnceEach(t),
         \A d : ~(Has(s, d) /\ Has(t, d))
  PROVE  /\ s \o t \in Seq(Nat) /\ OnceEach(s \o t)
         /\ \A d : Has(s \o t, d) <=> Has(s, d) \/ Has(t, d)
<1> PICK a \in Nat : a = Len(s)
  OBVIOUS
<1> PICK b \in Nat : b = Len(t)
  OBVIOUS
<1> PICK u : u = s \o t
  OBVIOUS
<1>1. /\ u \in Seq(Nat) /\ Len(u) = a + b
      /\ \A n \in 1..a + b : u[n] = IF n <= a THEN s[n] ELSE t[n - a]
  BY ConcatProperties
<1>2. /\ \A n \in 1..a : n \in 1..a + b /\ n <= a
      /\ \A n \in 1..b : a + n \in 1..a + b /\ ~(a + n <= a) /\ (a + n) - a = n
      /\ \A n \in 1..a + b : n \in 1..a \/ (~(n <= a) /\ n - a \in 1..b)
  OBVIOUS
<1>3. \A n \in 1..a : u[n] = s[n]
  BY <1>1, <1>2
<1>4. \A n \in 1..b : u[a + n] = t[n]
  BY <1>1, <1>2
<1>5. \A n \in 1..a + b : n \in 1..a \/ \E m \in 1..b : n = a + m
  <2> SUFFICES ASSUME NEW n \in 1..a + b, ~(n <= a) PROVE \E m \in 1..b : n = a + m
    OBVIOUS
  <2>1. n - a \in 1..b /\ n = a + (n - a)
    OBVIOUS
  <2> QED
    BY <2>1
<1>6. ASSUME NEW d PROVE Has(u, d) <=> Has(s, d) \/ Has(t, d)
  <2>1. ASSUME Has(u, d) PROVE Has(s, d) \/ Has(t, d)
    <3>1. PICK n \in 1..a + b : u[n] = d
      BY <1>1, <2>1 DEF Has
    <3> QED
      BY <1>3, <1>4, <1>5, <3>1 DEF Has
  <2>2. ASSUME Has(s, d) PROVE Has(u, d)
    <3>1. PICK n \in 1..a : s[n] = d
      BY <2>2 DEF Has
    <3> QED
      BY <1>1, <1>2, <1>3, <3>1 DEF Has
  <2>3. ASSUME Has(t, d) PROVE Has(u, d)
    <3>1. PICK n \in 1..b : t[n] = d
      BY <2>3 DEF Has
    <3> QED
      BY <1>1, <1>2, <1>4, <3>1 DEF Has
  <2> QED
    BY <2>1, <2>2, <2>3
<1>7. OnceEach(u)
  <2> SUFFICES ASSUME NEW m \in 1..a + b, NEW n \in 1..a + b, u[m] = u[n] PROVE m = n
    BY <1>1 DEF OnceEach
  <2>1. CASE m \in 1..a /\ n \in 1..a
    BY <1>3, <2>1 DEF OnceEach
  <2>2. CASE m \in 1..a /\ n \notin 1..a
    <3>1. PICK q \in 1..b : n = a + q
      BY <1>5, <2>2
    <3>2. u[m] = s[m] /\ u[n] = t[q]
      BY <1>3, <1>4, <2>2, <3>1
    <3>3. Has(s, s[m]) /\ Has(t, s[m])
      BY <2>2, <3>2 DEF Has
    <3> QED
      BY <3>3
  <2>3. CASE m \notin 1..a /\ n \in 1..a
    <3>1. PICK q \in 1..b : m = a + q
      BY <1>5, <2>3
    <3>2. u[n] = s[n] /\ u[m] = t[q]
      BY <1>3, <1>4, <2>3, <3>1
    <3>3. Has(s, s[n]) /\ Has(t, s[n])
      BY <2>3, <3>2 DEF Has
    <3> QED
      BY <3>3
  <2>4. CASE m \notin 1..a /\ n \notin 1..a
    <3>1. PICK p \in 1..b : m = a + p
      BY <1>5, <2>4
    <3>2. PICK q \in 1..b : n = a + q
      BY <1>5, <2>4
    <3>3. t[p] = t[q]
      BY <1>4, <3>1, <3>2
    <3>4. p = q
      BY <3>3 DEF OnceEach
    <3> QED
      BY <3>1, <3>2, <3>4
  <2> QED
    BY <2>1, <2>2, <2>3, <2>4
<1> QED
  BY <1>1, <1>6, <1>7

LEMMA RestoreKeeps ==
  ASSUME NEW live, NEW bare, NEW C, TrailInv(live, bare, C), up_state = "GLOBAL_UP",
         NEW R \in Seq(Nat), OnceEach(R),
         \A k \in 1..Len(R) :
           R[k] \in 1..Len(clauses) /\ R[k] \notin live /\ clauses[R[k]] # << >>,
         wps' = [l \in Lit |->
                   wps[l] \o AtPlaces(R, {k \in 1..Len(R) : l \in Watches(R[k])})],
         NEW C2, UNCHANGED <<clauses, alphaVars, levelVars, markVars>>
  PROVE  TrailInv(live \cup ToSet(R), bare, C2)'
<1> DEFINE K(l) == {k \in 1..Len(R) : l \in Watches(R[k])}
<1>1. /\ TrailTypes /\ ClausesProper /\ WatchesHold(live, bare)
      /\ live \subseteq 1..Len(clauses) /\ wps \in [Lit -> Seq(Nat)]
  BY DEF TrailInv, TrailTypes
<1>2. /\ \A l \in Lit : OnceEach(wps[l]) /\ wps[l] \in Seq(Nat)
      /\ \A l \in Lit : \A c \in Nat : Has(wps[l], c) =>
           c \in live /\ Len(clauses[c]) >= 2 /\ (l = clauses[c][1] \/ l = clauses[c][2])
      /\ \A c \in live : Len(clauses[c]) >= 2 /\ c \notin bare =>
           Has(wps[clauses[c][1]], c) /\ Has(wps[clauses[c][2]], c)
  BY <1>1 DEF WatchesHold
<1>3. ASSUME NEW l \in Lit
      PROVE  /\ wps'[l] \in Seq(Nat) /\ OnceEach(wps'[l])
             /\ \A d : Has(wps'[l], d) <=> Has(wps[l], d) \/ \E k \in K(l) : R[k] = d
  <2> PICK t : t = AtPlaces(R, K(l))
    OBVIOUS
  <2>1. K(l) \in SUBSET (1..Len(R))
    OBVIOUS
  <2>2. wps'[l] = wps[l] \o t
    OBVIOUS
  <2> HIDE DEF K
  <2>3. /\ t \in Seq(Nat) /\ OnceEach(t)
        /\ \A d : Has(t, d) <=> \E k \in K(l) : R[k] = d
    BY <2>1, PlacesOnce
  <2>4. ASSUME NEW d, Has(wps[l], d), Has(t, d) PROVE FALSE
    <3>1. PICK k \in 1..Len(R) : R[k] = d
      BY <2>1, <2>3, <2>4
    <3>2. d \in Nat /\ d \notin live
      BY <3>1
    <3> QED
      BY <1>2, <2>4, <3>2
  <2> PICK s \in Seq(Nat) : s = wps[l] /\ OnceEach(s)
    BY <1>2
  <2>5. \A d : ~(Has(s, d) /\ Has(t, d))
    BY <2>4
  <2>6. /\ s \o t \in Seq(Nat) /\ OnceEach(s \o t)
        /\ \A d : Has(s \o t, d) <=> Has(s, d) \/ Has(t, d)
    BY <2>3, <2>5, ListsJoined
  <2> QED
    BY <2>2, <2>3, <2>6
<1>4. ToSet(R) = {R[k] : k \in 1..Len(R)}
  BY DEF ToSet
<1>5. ASSUME NEW k \in 1..Len(R)
      PROVE  /\ clauses[R[k]] \in Seq(Lit)
             /\ Len(clauses[R[k]]) = 1 => Watches(R[k]) = {}
             /\ Len(clauses[R[k]]) # 1 => /\ Len(clauses[R[k]]) >= 2
                                          /\ Watches(R[k]) = {clauses[R[k]][1], clauses[R[k]][2]}
                                          /\ clauses[R[k]][1] \in Lit /\ clauses[R[k]][2] \in Lit
  <2>1. clauses[R[k]] \in Seq(Lit)
    BY ClauseTypes
  <2> QED
    BY <2>1, WatchesAre
<1> PICK live2 : live2 = live \cup ToSet(R)
  OBVIOUS
<1>6. WatchesHold(live2, bare)'
  <2>1. \A l \in Lit : OnceEach(wps'[l])
    BY <1>3
  <2>2. ASSUME NEW l \in Lit, NEW c \in Nat, Has(wps'[l], c)
        PROVE  c \in live2 /\ Len(clauses[c]) >= 2 /\ (l = clauses[c][1] \/ l = clauses[c][2])
    <3>1. CASE Has(wps[l], c)
      BY <1>2, <3>1
    <3>2. CASE \E k \in K(l) : R[k] = c
      <4>1. PICK k \in 1..Len(R) : R[k] = c /\ l \in Watches(c)
        BY <3>2
      <4>2. Len(clauses[c]) # 1
        BY <1>5, <4>1
      <4> QED
        BY <1>4, <1>5, <4>1, <4>2
    <3> QED
      BY <1>3, <2>2, <3>1, <3>2
  <2>3. ASSUME NEW c \in live2, Len(clauses[c]) >= 2, c \notin bare
        PROVE  Has(wps'[clauses[c][1]], c) /\ Has(wps'[clauses[c][2]], c)
    <3>1. CASE c \in live
      <4>1. clauses[c][1] \in Lit /\ clauses[c][2] \in Lit
        BY <2>3, <3>1, ClauseTypes, ProperFacts
      <4> QED
        BY <1>2, <1>3, <2>3, <3>1, <4>1
    <3>2. CASE c \in ToSet(R)
      <4>1. PICK k \in 1..Len(R) : R[k] = c
        BY <1>4, <3>2
      <4>2. Len(clauses[c]) # 1
        <5>1. SUFFICES ASSUME Len(clauses[c]) = 1 PROVE FALSE
          OBVIOUS
        <5> QED
          BY ONLY <2>3, <5>1
      <4>3. /\ clauses[c][1] \in Lit /\ clauses[c][2] \in Lit
            /\ k \in K(clauses[c][1]) /\ k \in K(clauses[c][2])
        BY <1>5, <4>1, <4>2
      <4> QED
        BY <1>3, <4>1, <4>3
    <3> QED
      BY <2>3, <3>1, <3>2
  <2> QED
    BY <2>1, <2>2, <2>3 DEF WatchesHold
<1> HIDE DEF K
<1>7. TrailExact' /\ ReasonsHold(live2)' /\ Levels(C)'
  <2>1. \A n \in 1..Len(units) :
          units[n].clause # 0 => /\ clauses'[units[n].clause] = clauses[units[n].clause]
                                 /\ units[n].clause \in live2
    BY DEF TrailInv, ReasonsHold, Reason
  <2>2. UNCHANGED <<alphaVars, levelVars, markVars>>
    OBVIOUS
  <2> QED
    BY <2>1, <2>2, Unmoved
<1>8. Levels(C2)'
  BY <1>7 DEF Levels, levelVars
<1>9. wps' \in [Lit -> Seq(Nat)]
  <2> DEFINE list(l) == wps[l] \o AtPlaces(R, {k \in 1..Len(R) : l \in Watches(R[k])})
  <2>1. wps' = [l \in Lit |-> list(l)]
    OBVIOUS
  <2>2. \A l \in Lit : list(l) \in Seq(Nat)
    BY <1>3
  <2> HIDE DEF list
  <2> QED
    BY <2>1, <2>2
<1>10. TrailTypes' /\ ClausesProper' /\ (live2 \subseteq 1..Len(clauses))'
  BY <1>1, <1>4, <1>9 DEF TrailTypes, ClausesProper, alphaVars, levelVars, markVars
<1> QED
  BY <1>6, <1>7, <1>8, <1>10 DEF TrailInv

-----------------------------------------------------------------------------
(***************************************************************************)
(* What the invariant says of reasons and watches.                          *)
(***************************************************************************)

LEMMA ReasonsAre ==
  ASSUME NEW live, NEW bare, NEW C, TrailInv(live, bare, C)
  PROVE  ReasonsIn(live)
<1> SUFFICES ASSUME NEW n \in 1..Len(units)
             PROVE  /\ units[n].lit \in alpha
                    /\ IF units[n].clause = 0 THEN vars_unit_indexes[VarOf(units[n].lit)] = 0
                       ELSE /\ units[n].clause \in live
                            /\ vars_unit_indexes[VarOf(units[n].lit)] = n
                            /\ clauses[units[n].clause][1] = units[n].lit
                            /\ \A k \in 2..Len(clauses[units[n].clause]) :
                                 \E m \in 1..n - 1 :
                                   units[m].lit = -clauses[units[n].clause][k]
  BY DEF ReasonsIn
<1>1. /\ units[n].lit \in alpha
      /\ vars_unit_indexes[VarOf(units[n].lit)] = IF units[n].clause = 0 THEN 0 ELSE n
      /\ units[n].clause # 0 => Reason(n, live)
  BY DEF TrailInv, TrailExact, ReasonsHold
<1> QED
  BY <1>1 DEF Reason

LEMMA WatchedExactly ==
  ASSUME NEW live, NEW bare, NEW C, TrailInv(live, bare, C),
         NEW c \in 1..Len(clauses), c \notin bare, clauses[c] # << >>
  PROVE  WatchedOnce(c, live)
<1> SUFFICES ASSUME NEW l \in Lit
             PROVE  Cardinality({n \in 1..Len(wps[l]) : wps[l][n] = c})
                      = IF c \in live /\ l \in Watches(c) THEN 1 ELSE 0
  BY DEF WatchedOnce
<1>1. WatchesHold(live, bare)
  BY DEF TrailInv
<1>2. /\ clauses[c] \in Seq(Lit) /\ c \in Nat
      /\ Len(clauses[c]) = 1 => Watches(c) = {}
      /\ Len(clauses[c]) # 1 => /\ Len(clauses[c]) >= 2
                                /\ Watches(c) = {clauses[c][1], clauses[c][2]}
  BY ClauseTypes, WatchesAre
<1>3. Has(wps[l], c) <=> c \in live /\ l \in Watches(c)
  <2>1. ASSUME Has(wps[l], c) PROVE c \in live /\ l \in Watches(c)
    <3>1. /\ c \in live /\ Len(clauses[c]) >= 2
          /\ l = clauses[c][1] \/ l = clauses[c][2]
      BY <1>1, <1>2, <2>1 DEF WatchesHold
    <3>2. ASSUME Len(clauses[c]) = 1 PROVE FALSE
      BY ONLY <3>1, <3>2
    <3> QED
      BY <1>2, <3>1, <3>2
  <2>2. ASSUME c \in live, l \in Watches(c) PROVE Has(wps[l], c)
    <3>1. Len(clauses[c]) >= 2 /\ (l = clauses[c][1] \/ l = clauses[c][2])
      BY <1>2, <2>2
    <3> QED
      BY <1>1, <2>2, <3>1 DEF WatchesHold
  <2> QED
    BY <2>1, <2>2
<1>4. CASE Has(wps[l], c)
  <2>1. PICK k \in 1..Len(wps[l]) : wps[l][k] = c
    BY <1>4 DEF Has
  <2>2. {n \in 1..Len(wps[l]) : wps[l][n] = c} = {k}
    BY <1>1, <2>1 DEF WatchesHold, OnceEach
  <2> QED
    BY <1>3, <1>4, <2>2, FS_Singleton
<1>5. CASE ~Has(wps[l], c)
  <2>1. {n \in 1..Len(wps[l]) : wps[l][n] = c} = {}
    BY <1>5 DEF Has
  <2> QED
    BY <1>3, <1>5, <2>1, FS_EmptySet
<1> QED
  BY <1>4, <1>5

-----------------------------------------------------------------------------
(***************************************************************************)
(* The backward scan that marks the units a conflict depends on, and the     *)
(* list of the clauses of the marked units.                                  *)
(***************************************************************************)
(* The scan from index from down: the function that MarkDependencies defines.  *)
IsScan(g, M, a) ==
  g = [n \in a..Len(units) + 1 |->
         IF n > Len(units) THEN M ELSE MarkUnit(g[n + 1], n)]

LEMMA ScanExists ==
  ASSUME NEW M, Len(units) \in Nat, NEW a \in Nat, a <= Len(units) + 1
  PROVE  \E g : IsScan(g, M, a)
<1> PICK N \in Nat : N = Len(units)
  OBVIOUS
<1> DEFINE Bad == {k \in Nat : k <= N + 1 /\ ~\E g : IsScan(g, M, N + 1 - k)}
<1> SUFFICES ASSUME Bad # {} PROVE FALSE
  <2>1. N + 1 - a \in Nat /\ N + 1 - a <= N + 1 /\ N + 1 - (N + 1 - a) = a
    OBVIOUS
  <2>2. N + 1 - a \notin Bad
    OBVIOUS
  <2> HIDE DEF Bad
  <2> QED
    BY <2>1, <2>2 DEF Bad
<1> PICK k \in Bad : \A m \in Bad : k <= m
  <2>1. Bad \in SUBSET Nat
    OBVIOUS
  <2> HIDE DEF Bad
  <2> QED
    BY <2>1, MinExists
<1>1. k # 0
  <2> SUFFICES ASSUME k = 0 PROVE FALSE
    OBVIOUS
  <2>1. IsScan([n \in N + 1..N + 1 |-> M], M, N + 1)
    <3>1. \A n \in N + 1..N + 1 : n > N
      OBVIOUS
    <3> QED
      BY <3>1 DEF IsScan
  <2> QED
    BY <2>1
<1> PICK b \in Nat : b = N + 1 - k /\ b <= N /\ b + 1 = N + 1 - (k - 1)
  <2>1. k \in Nat /\ k <= N + 1
    OBVIOUS
  <2>2. N + 1 - k \in Nat /\ N + 1 - k <= N /\ N + 1 - k + 1 = N + 1 - (k - 1)
    BY ONLY <1>1, <2>1, N \in Nat
  <2> QED
    BY <2>2
<1>2. k - 1 \in Nat /\ k - 1 \notin Bad
  BY <1>1
<1> PICK h : IsScan(h, M, b + 1)
  BY <1>2
<1> DEFINE g == [n \in b..N + 1 |->
                   IF n = b THEN MarkUnit(h[n + 1], n) ELSE h[n]]
<1>3. IsScan(g, M, b)
  <2>1. ASSUME NEW n \in b..N + 1
        PROVE  g[n] = IF n > N THEN M ELSE MarkUnit(g[n + 1], n)
    <3>1. CASE n = b
      <4>1. n + 1 \in b..N + 1 /\ n + 1 # b
        BY <3>1
      <4> QED
        BY <3>1, <4>1
    <3>2. CASE n # b
      <4>1. n \in b + 1..N + 1 /\ (~(n > N) => n + 1 \in b..N + 1 /\ n + 1 # b)
        BY <3>2
      <4>2. h[n] = IF n > N THEN M ELSE MarkUnit(h[n + 1], n)
        BY <4>1 DEF IsScan
      <4>3. g[n] = h[n]
        BY <3>2
      <4>4. ~(n > N) => g[n + 1] = h[n + 1]
        BY <4>1
      <4> HIDE DEF g
      <4> QED
        BY <4>2, <4>3, <4>4
    <3> QED
      BY <3>1, <3>2
  <2> QED
    BY <2>1 DEF IsScan
<1> HIDE DEF g
<1> QED
  BY <1>3

Scan(M, a) == CHOOSE g : IsScan(g, M, a)

LEMMA Scans ==
  ASSUME NEW M, Len(units) \in Nat, NEW a \in Nat, a <= Len(units) + 1
  PROVE  /\ Scan(M, a)[Len(units) + 1] = M
         /\ \A n \in a..Len(units) : Scan(M, a)[n] = MarkUnit(Scan(M, a)[n + 1], n)
         /\ MarkDependencies(M, a) = Scan(M, a)[a]
<1> DEFINE g == Scan(M, a)
<1>1. IsScan(g, M, a)
  BY ScanExists DEF Scan
<1>2. MarkDependencies(M, a) = g[a]
  BY DEF MarkDependencies, IsScan, Scan
<1> HIDE DEF g
<1>3. \A n \in a..Len(units) + 1 :
        g[n] = IF n > Len(units) THEN M ELSE MarkUnit(g[n + 1], n)
  BY <1>1 DEF IsScan
<1> PICK N \in Nat : N = Len(units)
  OBVIOUS
<1>4. N + 1 \in a..N + 1 /\ N + 1 > N /\ \A n \in a..N : n \in a..N + 1 /\ ~(n > N)
  OBVIOUS
<1>5. g[N + 1] = M
  BY <1>3, <1>4
<1>6. \A n \in a..N : g[n] = MarkUnit(g[n + 1], n)
  BY <1>3, <1>4
<1> QED
  BY <1>2, <1>5, <1>6 DEF g

(***************************************************************************)
(* The list of reasons, likewise.                                           *)
(***************************************************************************)
IsList(g, M, a, b) ==
  g = [n \in a - 1..b |->
         IF n < a THEN << >>
         ELSE IF VarOf(units[n].lit) \in M THEN Append(g[n - 1], units[n].clause)
         ELSE g[n - 1]]

LEMMA ListExists ==
  ASSUME NEW M, NEW a \in Nat \ {0}, NEW b \in Nat, a - 1 <= b
  PROVE  \E g : IsList(g, M, a, b)
<1> DEFINE Bad == {k \in Nat : a - 1 <= k /\ ~\E g : IsList(g, M, a, k)}
<1> SUFFICES ASSUME Bad # {} PROVE FALSE
  <2>1. b \notin Bad
    OBVIOUS
  <2> HIDE DEF Bad
  <2> QED
    BY <2>1 DEF Bad
<1> PICK k \in Bad : \A m \in Bad : k <= m
  <2>1. Bad \in SUBSET Nat
    OBVIOUS
  <2> HIDE DEF Bad
  <2> QED
    BY <2>1, MinExists
<1>1. k # a - 1
  <2> SUFFICES ASSUME k = a - 1 PROVE FALSE
    OBVIOUS
  <2>1. IsList([n \in a - 1..a - 1 |-> << >>], M, a, a - 1)
    <3>1. \A n \in a - 1..a - 1 : n < a
      OBVIOUS
    <3> QED
      BY <3>1 DEF IsList
  <2> QED
    BY <2>1
<1>2. k \in Nat /\ k >= a /\ k - 1 \in Nat /\ a - 1 <= k - 1 /\ k - 1 \notin Bad
  <2>1. k \in Nat /\ a - 1 <= k
    OBVIOUS
  <2>2. k >= a /\ k - 1 \in Nat /\ a - 1 <= k - 1 /\ ~(k <= k - 1)
    BY ONLY <1>1, <2>1, a \in Nat \ {0}
  <2> HIDE DEF Bad
  <2> QED
    BY <2>1, <2>2
<1> PICK h : IsList(h, M, a, k - 1)
  BY <1>2
<1> DEFINE g == [n \in a - 1..k |->
                   IF n = k THEN IF VarOf(units[n].lit) \in M
                                 THEN Append(h[n - 1], units[n].clause) ELSE h[n - 1]
                   ELSE h[n]]
<1>3. IsList(g, M, a, k)
  <2>1. ASSUME NEW n \in a - 1..k
        PROVE  g[n] = IF n < a THEN << >>
                      ELSE IF VarOf(units[n].lit) \in M THEN Append(g[n - 1], units[n].clause)
                      ELSE g[n - 1]
    <3>1. CASE n = k
      <4>1. ~(n < a) /\ n - 1 \in a - 1..k /\ n - 1 # k
        BY <1>2, <3>1
      <4>2. g[n - 1] = h[n - 1]
        BY <4>1
      <4> QED
        BY <3>1, <4>1, <4>2
    <3>2. CASE n # k
      <4>1. n \in a - 1..k - 1 /\ (~(n < a) => n - 1 \in a - 1..k /\ n - 1 # k)
        BY <1>2, <3>2
      <4>2. h[n] = IF n < a THEN << >>
                   ELSE IF VarOf(units[n].lit) \in M THEN Append(h[n - 1], units[n].clause)
                   ELSE h[n - 1]
        BY <4>1 DEF IsList
      <4>3. g[n] = h[n]
        BY <3>2
      <4>4. ~(n < a) => g[n - 1] = h[n - 1]
        BY <4>1
      <4> HIDE DEF g
      <4> QED
        BY <4>2, <4>3, <4>4
    <3> QED
      BY <3>1, <3>2
  <2> QED
    BY <2>1 DEF IsList
<1> HIDE DEF g
<1> QED
  BY <1>2, <1>3

List(M, a) == CHOOSE g : IsList(g, M, a, Len(units))

LEMMA Lists ==
  ASSUME NEW M, Len(units) \in Nat, NEW a \in Nat \ {0}, a <= Len(units) + 1
  PROVE  /\ List(M, a)[a - 1] = << >>
         /\ \A n \in a..Len(units) :
              List(M, a)[n] = IF VarOf(units[n].lit) \in M
                              THEN Append(List(M, a)[n - 1], units[n].clause)
                              ELSE List(M, a)[n - 1]
         /\ MarkedReasons(M, a) = List(M, a)[Len(units)]
<1> DEFINE g == List(M, a)
<1>1. IsList(g, M, a, Len(units))
  <2>1. a - 1 <= Len(units)
    OBVIOUS
  <2> QED
    BY <2>1, ListExists DEF List
<1>2. MarkedReasons(M, a) = g[Len(units)]
  BY DEF MarkedReasons, IsList, List
<1> HIDE DEF g
<1>3. \A n \in a - 1..Len(units) :
        g[n] = IF n < a THEN << >>
               ELSE IF VarOf(units[n].lit) \in M THEN Append(g[n - 1], units[n].clause)
               ELSE g[n - 1]
  BY <1>1 DEF IsList
<1> PICK N \in Nat : N = Len(units)
  OBVIOUS
<1>4. a - 1 \in a - 1..N /\ a - 1 < a /\ \A n \in a..N : n \in a - 1..N /\ ~(n < a)
  OBVIOUS
<1>5. g[a - 1] = << >>
  BY <1>3, <1>4
<1>6. \A n \in a..N : g[n] = IF VarOf(units[n].lit) \in M THEN Append(g[n - 1], units[n].clause)
                             ELSE g[n - 1]
  BY <1>3, <1>4
<1> QED
  BY <1>2, <1>5, <1>6 DEF g

(* The scan marks v at the unit of index k.                                  *)
MarkedAt(v, g, a, b) ==
  \E k \in a..b : /\ VarOf(units[k].lit) \in g[k + 1] /\ v \in g[k]
                 /\ v \in SetByUnits(units[k].clause, 2, assumed)

(* The scan only adds marks, each for the clause of a unit marked before.     *)
LEMMA ScanGrows ==
  ASSUME NEW M, NEW N \in Nat, NEW a \in Nat, a <= N + 1, NEW g, g[N + 1] = M,
         \A n \in a..N : g[n] = MarkUnit(g[n + 1], n)
  PROVE  /\ \A m, n \in a..N + 1 : m <= n => g[n] \subseteq g[m]
         /\ \A v \in g[a] : v \in M \/ MarkedAt(v, g, a, N)
<1>1. \A n \in a..N : g[n + 1] \subseteq g[n]
  BY DEF MarkUnit
<1>2. ASSUME NEW m \in a..N + 1, NEW n \in a..N + 1, m <= n, NEW v \in g[n], v \notin g[m]
      PROVE  FALSE
  <2> DEFINE Bad == {k \in a..n : v \notin g[k]}
  <2>1. Bad \in SUBSET Nat /\ m \in Bad /\ n \in Nat /\ \A k \in Bad : k <= n
    BY <1>2
  <2> HIDE DEF Bad
  <2>9. Max(Bad) \in Bad /\ \A p \in Bad : p <= Max(Bad)
    BY <2>1, MaxExists
  <2> PICK k \in Bad : \A p \in Bad : p <= k
    BY <2>9
  <2>2. k \in a..n /\ v \notin g[k] /\ k + 1 \notin Bad
    <3>1. k \in a..n /\ v \notin g[k]
      BY DEF Bad
    <3>2. k \in Nat /\ ~(k + 1 <= k)
      BY <3>1
    <3> QED
      BY <3>1, <3>2
  <2>3. k # n
    BY <1>2, <2>2
  <2>4. k \in a..N /\ k + 1 \in a..n
    BY <2>2, <2>3
  <2>5. v \in g[k + 1]
    BY <2>2, <2>4 DEF Bad
  <2> QED
    BY <1>1, <2>2, <2>4, <2>5
<1>3. ASSUME NEW v \in g[a], v \notin M
      PROVE  MarkedAt(v, g, a, N)
  <2> DEFINE Good == {k \in a..N + 1 : v \in g[k]}
  <2>1. /\ Good \in SUBSET Nat /\ a \in Good /\ N + 1 \in Nat
        /\ \A k \in Good : k <= N + 1
    BY <1>3
  <2> HIDE DEF Good
  <2>9. Max(Good) \in Good /\ \A p \in Good : p <= Max(Good)
    BY <2>1, MaxExists
  <2> PICK k \in Good : \A p \in Good : p <= k
    BY <2>9
  <2>2. k \in a..N + 1 /\ v \in g[k] /\ k + 1 \notin Good
    <3>1. k \in a..N + 1 /\ v \in g[k]
      BY DEF Good
    <3>2. k \in Nat /\ ~(k + 1 <= k)
      BY <3>1
    <3> QED
      BY <3>1, <3>2
  <2>3. k # N + 1
    BY <1>3, <2>2
  <2>4. k \in a..N /\ k + 1 \in a..N + 1
    BY <2>2, <2>3
  <2>5. v \notin g[k + 1]
    BY <2>2, <2>4 DEF Good
  <2>6. v \in MarkUnit(g[k + 1], k)
    BY <2>2, <2>4
  <2>7. VarOf(units[k].lit) \in g[k + 1] /\ v \in SetByUnits(units[k].clause, 2, assumed)
    BY <2>5, <2>6 DEF MarkUnit
  <2> QED
    BY <2>2, <2>4, <2>7 DEF MarkedAt
<1> QED
  BY <1>2, <1>3

LEMMA ReasonLits ==
  ASSUME NEW live, NEW bare, NEW C, TrailInv(live, bare, C), NEW n, Reason(n, live)
  PROVE  /\ Proper(clauses[units[n].clause])
         /\ \A p \in 1..Len(clauses[units[n].clause]) : clauses[units[n].clause][p] \in Lit
         /\ \A p \in 2..Len(clauses[units[n].clause]) :
              p \in 1..Len(clauses[units[n].clause]) /\ clauses[units[n].clause][p] \in Lit
<1>1. units[n].clause \in live
  BY DEF Reason
<1>2. Proper(clauses[units[n].clause])
  BY <1>1, ClauseTypes
<1> QED
  BY <1>2, ProperFacts

(* One scan closes the marks: the others of the clause of a marked unit are    *)
(* marked, unless they are assumed or were set by no clause.                  *)
LEMMA Closed ==
  ASSUME NEW live, NEW bare, NEW C, TrailInv(live, bare, C), NEW M,
         NEW a \in Nat \ {0}, a <= Len(units) + 1,
         \A n \in a..Len(units) : VarOf(units[n].lit) \in M => units[n].clause # 0
  PROVE  /\ M \subseteq MarkDependencies(M, a)
         /\ \A v \in MarkDependencies(M, a) :
              v \in M \/ (v \in Var /\ vars_unit_indexes[v] > 0 /\ v \notin assumed)
         /\ \A n \in a..Len(units) : VarOf(units[n].lit) \in MarkDependencies(M, a) =>
              /\ units[n].clause # 0
              /\ SetByUnits(units[n].clause, 2, assumed) \subseteq MarkDependencies(M, a)
<1>8. TrailTypes /\ TrailExact /\ ReasonsHold(live)
  BY DEF TrailInv
<1> PICK N \in Nat : N = Len(units)
  BY <1>8, UnitTypes
<1> PICK g : g = Scan(M, a)
  OBVIOUS
<1>9. /\ g[N + 1] = M
      /\ \A n \in a..N : g[n] = MarkUnit(g[n + 1], n)
      /\ MarkDependencies(M, a) = g[a]
  <2>1. Len(units) \in Nat /\ a \in Nat /\ a <= Len(units) + 1
    OBVIOUS
  <2> QED
    BY <2>1, Scans
<1>1. /\ \A m, n \in a..N + 1 : m <= n => g[n] \subseteq g[m]
      /\ \A v \in g[a] : v \in M \/ MarkedAt(v, g, a, N)
  <2>1. a \in Nat /\ a <= N + 1 /\ N \in Nat
    OBVIOUS
  <2>2. g[N + 1] = M
    BY <1>9
  <2>3. \A n \in a..N : g[n] = MarkUnit(g[n + 1], n)
    BY <1>9
  <2> QED
    BY ONLY <2>1, <2>2, <2>3, ScanGrows, ZenonT(40)
<1>2. a \in a..N + 1 /\ \A n \in a..N : n \in a..N + 1 /\ n + 1 \in a..N + 1 /\ a <= n /\ n \in 1..N
  OBVIOUS
<1>3. M \subseteq g[a]
  BY <1>1, <1>2, <1>9
<1>4. ASSUME NEW n \in a..N, VarOf(units[n].lit) \in g[a]
      PROVE  units[n].clause # 0
  <2>1. CASE VarOf(units[n].lit) \in M
    BY <2>1
  <2>2. CASE VarOf(units[n].lit) \notin M
    <3>1. vars_unit_indexes[VarOf(units[n].lit)] > 0
      BY <1>1, <1>4, <1>9, <2>2 DEF MarkedAt, SetByUnits
    <3> QED
      BY <1>8, <1>2, <3>1 DEF TrailExact
  <2> QED
    BY <2>1, <2>2
<1>5. ASSUME NEW n \in a..N, NEW k \in a..N, VarOf(units[k].lit) \in g[k + 1],
             VarOf(units[n].lit) \in SetByUnits(units[k].clause, 2, assumed)
      PROVE  n < k
  <2>1. VarOf(units[k].lit) \in g[a]
    BY <1>1, <1>2, <1>5
  <2>2. Reason(k, live)
    BY <1>8, <1>2, <1>4, <2>1 DEF ReasonsHold
  <2>3. PICK p \in 2..Len(clauses[units[k].clause]) :
          VarOf(units[n].lit) = VarOf(clauses[units[k].clause][p])
    BY <1>5 DEF SetByUnits, Vars
  <2>4. PICK m \in 1..k - 1 : units[m].lit = -clauses[units[k].clause][p]
    BY <2>2 DEF Reason
  <2>5. m \in 1..N /\ n \in 1..N /\ m < k /\ units[m].lit \in Lit
    BY <1>8, <1>2, <2>4, UnitTypes
  <2>6. VarOf(units[m].lit) = VarOf(units[n].lit)
    <3>1. clauses[units[k].clause][p] \in Lit
      BY <2>2, ReasonLits
    <3> QED
      BY <2>3, <2>4, <3>1, LitFacts
  <2>7. m = n
    BY <1>8, <2>5, <2>6 DEF TrailExact
  <2> QED
    BY <2>5, <2>7
<1>6. ASSUME NEW n \in a..N, VarOf(units[n].lit) \in g[a]
      PROVE  SetByUnits(units[n].clause, 2, assumed) \subseteq g[a]
  <2>1. VarOf(units[n].lit) \in g[n + 1]
    <3>1. CASE VarOf(units[n].lit) \in M
      <4>1. n + 1 <= N + 1 /\ N + 1 \in a..N + 1
        BY <1>2
      <4> QED
        BY <1>1, <1>2, <1>9, <3>1, <4>1
    <3>2. CASE VarOf(units[n].lit) \notin M
      <4>1. PICK k \in a..N : /\ VarOf(units[k].lit) \in g[k + 1] /\ VarOf(units[n].lit) \in g[k]
                             /\ VarOf(units[n].lit) \in SetByUnits(units[k].clause, 2, assumed)
        BY <1>1, <1>6, <3>2 DEF MarkedAt
      <4>2. n < k
        BY <1>5, <4>1
      <4>3. n + 1 <= k
        BY <4>2
      <4> QED
        BY <1>1, <1>2, <4>1, <4>3
    <3> QED
      BY <3>1, <3>2
  <2>2. SetByUnits(units[n].clause, 2, assumed) \subseteq g[n]
    BY <1>9, <2>1 DEF MarkUnit
  <2> QED
    BY <1>1, <1>2, <2>2
<1>7. ASSUME NEW v \in g[a], v \notin M
      PROVE  v \in Var /\ vars_unit_indexes[v] > 0 /\ v \notin assumed
  <2>1. PICK k \in a..N : /\ VarOf(units[k].lit) \in g[k + 1]
                         /\ v \in SetByUnits(units[k].clause, 2, assumed)
    BY <1>1, <1>7 DEF MarkedAt
  <2>2. VarOf(units[k].lit) \in g[a]
    BY <1>1, <1>2, <2>1
  <2>3. Reason(k, live)
    BY <1>8, <1>2, <1>4, <2>2 DEF ReasonsHold
  <2>4. PICK p \in 2..Len(clauses[units[k].clause]) : v = VarOf(clauses[units[k].clause][p])
    BY <2>1 DEF SetByUnits, Vars
  <2>5. clauses[units[k].clause][p] \in Lit
    BY <2>3, ReasonLits
  <2>6. v \in Var
    BY <2>4, <2>5, LitFacts
  <2> QED
    BY <2>1, <2>6 DEF SetByUnits
<1> QED
  BY <1>3, <1>4, <1>6, <1>7, <1>9
=============================================================================
