------------------------ MODULE BenchmarkRoutingProofs ------------------------
(* The proof that Benchmark implements Routing.                              *)
EXTENDS BenchmarkRouting, BenchmarkProofs, FiniteSetTheorems

-----------------------------------------------------------------------------
(* Two more things that stay: the bound on sets, and that a run has models.  *)
Bounds ==
  /\ Len(sets) <= MaxSets
  /\ \A p \in Procs : op[p] # Idle => op[p].run.rows # {}

LEMMA BoundsInit == Init => Bounds
BY NumbersAssumption DEF Init, Bounds

LEMMA BoundsStep ==
  ASSUME Inv, Bounds, [Next]_vars
  PROVE  Bounds'
<1>1. CASE UNCHANGED vars
  BY <1>1 DEF vars, Bounds
<1>2. ASSUME NEW p \in Procs, NEW n \in Names, Create(p, n) PROVE Bounds'
  <2>1. Len(sets') = Len(sets) + 1 /\ Len(sets) \in Nat /\ Len(sets) < MaxSets
    BY <1>2 DEF Create, Inv, TypeOK
  <2>2. op' = op
    BY <1>2 DEF Create
  <2> QED
    BY <2>1, <2>2, NumbersAssumption DEF Bounds
<1>3. ASSUME NEW p \in Procs, NEW n \in Names, AddTask(p, n) PROVE Bounds'
  BY <1>3 DEF AddTask, Bounds
<1>4. ASSUME NEW p \in Procs, NEW n \in Names, NEW wanted, Start(p, n, wanted) PROVE Bounds'
  <2>1. op'[p].run.rows # {}
    <3>1. op'[p] = [run |-> [id |-> started + 1, set |-> Newest(n), rows |-> Selected(wanted),
                             total |-> tasks[Newest(n)]],
                    left |-> Selected(wanted), asked |-> 0, passed |-> 0]
      BY <1>4 DEF Start, Inv, TypeOK
    <3> QED
      BY <1>4, <3>1 DEF Start
  <2>2. \A q \in Procs \ {p} : op'[q] = op[q]
    BY <1>4, StartTypes
  <2> QED
    BY <1>4, <2>1, <2>2 DEF Start, Bounds
<1>5. ASSUME NEW p \in Procs, Grade(p) \/ Score(p) \/ Finish(p) \/ Fail(p) PROVE Bounds'
  <2>1. \A q \in Procs \ {p} : op'[q] = op[q]
    BY <1>5, StepTypes DEF InRun, Grade, Score, Finish, Fail
  <2>2. op[p] # Idle /\ op[p] \in Running
    BY <1>5, RunTypes DEF Grade, Score, Finish, Fail
  <2>3. op'[p] = Idle \/ op'[p].run = op[p].run
    BY <1>5, <2>2 DEF Grade, Score, Finish, Fail, NextModel, Inv, TypeOK, Running
  <2>4. sets' = sets
    BY <1>5 DEF Grade, Score, Finish, Fail
  <2> QED
    BY <2>1, <2>2, <2>3, <2>4 DEF Bounds
<1>6. ASSUME NEW m \in Catalogue, Connect(m) \/ Disconnect(m) PROVE Bounds'
  BY <1>6 DEF Connect, Disconnect, Bounds
<1> QED
  BY <1>1, <1>2, <1>3, <1>4, <1>5, <1>6 DEF Next

-----------------------------------------------------------------------------
LEMMA PassRateType ==
  ASSUME NEW c \in Card, c.passed <= c.total
  PROVE  PassRate(c) \in 0..Grain
<1>1. c.passed \in Nat /\ c.total \in Nat
  BY NumbersAssumption DEF Card
<1>2. CASE c.total # 0
  <2>1. c.passed * Grain <= c.total * Grain
    BY <1>1, GrainAssumption
  <2> QED
    BY <1>1, <1>2, <2>1, GrainAssumption DEF PassRate
<1>3. CASE c.total = 0
  BY <1>3, GrainAssumption DEF PassRate
<1> QED
  BY <1>2, <1>3

LEMMA CatalogueSize == Cardinality(Catalogue) \in Nat
BY CatalogueAssumption, FS_CardinalityType

(* There is always room for the scorecards of a run in progress.             *)
LEMMA Room ==
  ASSUME Inv, NEW p \in Procs, op[p] # Idle
  PROVE  Cardinality({Seen(c) : c \in cards}) + Cardinality(op[p].run.rows)
           <= MaxRuns * Cardinality(Catalogue)
<1> DEFINE run == op[p].run
           ids == (1..MaxRuns) \ {run.id}
           seen == {Seen(c) : c \in cards}
<1>1. run \in RunRow /\ run.id \in 1..MaxRuns /\ run.rows \subseteq Catalogue
  BY RunTypes DEF RunRow
<1>2. IsFiniteSet(1..MaxRuns) /\ Cardinality(1..MaxRuns) = MaxRuns
  BY NumbersAssumption, FS_Interval
<1>3. IsFiniteSet(ids) /\ Cardinality(ids) = MaxRuns - 1
  BY <1>1, <1>2, FS_RemoveElement
<1>4. /\ IsFiniteSet(ids \X Catalogue)
      /\ Cardinality(ids \X Catalogue) = (MaxRuns - 1) * Cardinality(Catalogue)
  BY <1>3, CatalogueAssumption, FS_Product
<1>5. IsFiniteSet(cards) /\ Cardinality(cards) <= Cardinality(ids \X Catalogue)
  <2> DEFINE place == [c \in cards |-> <<c.run, c.row>>]
  <2>1. \A c \in cards : c.run \in ids /\ c.row \in Catalogue
    BY DEF Inv, Written, DistinctIds, TypeOK, Card
  <2>2. \A c, d \in cards : c.run = d.run /\ c.row = d.row => c = d
    <3> SUFFICES ASSUME NEW c \in cards, NEW d \in cards, c.run = d.run, c.row = d.row
                 PROVE  c = d
      OBVIOUS
    <3>1. PICK r \in runs : c.run = r.id
      BY DEF Inv, Written
    <3>2. c \in CardsOf(r) /\ d \in CardsOf(r)
      BY <3>1 DEF CardsOf
    <3> QED
      BY <3>2 DEF Inv, Written, Scored
  <2>3. place \in Injection(cards, ids \X Catalogue)
    BY <2>1, <2>2 DEF Injection, IsInjective
  <2> QED
    BY <1>4, <2>3, FS_Injection
<1>6. IsFiniteSet(seen) /\ Cardinality(seen) <= Cardinality(cards)
  <2> DEFINE see == [c \in cards |-> Seen(c)]
  <2>1. see \in Surjection(cards, seen)
    BY DEF Surjection
  <2> QED
    BY <1>5, <2>1, FS_Surjection
<1>7. IsFiniteSet(run.rows) /\ Cardinality(run.rows) <= Cardinality(Catalogue)
  BY <1>1, CatalogueAssumption, FS_Subset
<1>8. /\ Cardinality(seen) \in Nat /\ Cardinality(cards) \in Nat
      /\ Cardinality(run.rows) \in Nat /\ Cardinality(Catalogue) \in Nat
  BY <1>5, <1>6, <1>7, CatalogueSize, FS_CardinalityType
<1>9. (MaxRuns - 1) * Cardinality(Catalogue) + Cardinality(Catalogue) = MaxRuns * Cardinality(Catalogue)
  BY <1>8, NumbersAssumption
<1>10. (MaxRuns - 1) * Cardinality(Catalogue) \in Int /\ MaxRuns * Cardinality(Catalogue) \in Int
  BY <1>8, NumbersAssumption
<1> HIDE DEF run, ids, seen
<1>11. Cardinality(seen) + Cardinality(run.rows) <= MaxRuns * Cardinality(Catalogue)
  BY <1>4, <1>5, <1>6, <1>7, <1>8, <1>9, <1>10
<1> QED
  BY <1>11 DEF run, seen

-----------------------------------------------------------------------------
(* Each step is one of Routing's, or changes nothing it sees.                *)
LEMMA InitRefines == Init => R!Init
BY DEF Init, R!Init

(* The module FiniteSets that Routing extends is the one of Benchmark.        *)
LEMMA SameSize == \A S : R!Cardinality(S) = Cardinality(S)
BY DEF R!Cardinality, Cardinality

LEMMA StillRefines ==
  ASSUME UNCHANGED <<models, cards>>
  PROVE  UNCHANGED R!vars
BY DEF R!vars

LEMMA ConnectRefines ==
  ASSUME Inv, NEW m \in Catalogue, Connect(m)
  PROVE  R!Refresh(m)
<1>1. models' = {n \in models : n.listed # m.listed} \cup {m}
  BY CatalogueAssumption DEF Connect, Inv, TypeOK
<1>2. models' \subseteq Catalogue
  BY <1>1 DEF Inv, TypeOK
<1>3. Cardinality(models') <= Cardinality(Catalogue)
  BY <1>2, CatalogueAssumption, FS_Subset
<1>4. cards' = cards
  BY DEF Connect
<1> QED
  BY <1>1, <1>3, <1>4, SameSize DEF R!Refresh

LEMMA DisconnectRefines ==
  ASSUME NEW m \in Catalogue, Disconnect(m)
  PROVE  R!Withdraw(m)
BY DEF Disconnect, R!Withdraw

LEMMA FinishRefines ==
  ASSUME Inv, Bounds, NEW p \in Procs, Finish(p)
  PROVE  R!RunBenchmark(op[p].run.set, op[p].run.rows)
<1> DEFINE run == op[p].run
           rows == run.rows
           new == added[p].cards
           cardOf(m) == CHOOSE c \in new : c.row = m
           score == [m \in rows |-> PassRate(cardOf(m))]
<1>1. op[p] # Idle /\ op[p].left = {} /\ Pending(p)
  BY DEF Finish, Inv
<1>2. Scored(run, rows, new)
  <2>1. rows \ op[p].left = rows
    BY <1>1
  <2> QED
    BY <1>1, <2>1 DEF Pending
<1>3. \A m \in rows : cardOf(m) \in new /\ cardOf(m).row = m
  BY <1>2 DEF Scored
<1>4. \A c \in new : c.row \in rows /\ cardOf(c.row) = c
  BY <1>2, <1>3 DEF Scored
<1>5. new \subseteq Card
  BY DEF Inv, TypeOK
<1>6. score \in [rows -> 0..Grain]
  <2>1. \A c \in new : PassRate(c) \in 0..Grain
    BY <1>2, <1>5, PassRateType DEF Scored
  <2> HIDE DEF new, rows
  <2> QED
    BY <1>3, <2>1
<1>7. {Seen(c) : c \in new} = {[set |-> run.set, name |-> m.name, score |-> score[m]] : m \in rows}
  <2>1. \A c \in new : Seen(c) = [set |-> run.set, name |-> c.row.name, score |-> score[c.row]]
    BY <1>2, <1>4 DEF Scored, Seen
  <2>2. \A m \in rows : [set |-> run.set, name |-> m.name, score |-> score[m]] = Seen(cardOf(m))
    BY <1>3, <2>1
  <2> HIDE DEF new, rows, score, run, cardOf
  <2> QED
    BY <1>3, <1>4, <2>1, <2>2
<1>8. cards' = cards \cup new /\ models' = models
  BY DEF Finish, Commit
<1>9. {Seen(c) : c \in cards'} = {Seen(c) : c \in cards} \cup {Seen(c) : c \in new}
  BY <1>8
<1>10. Cardinality({Seen(c) : c \in cards}) + Cardinality(rows) <= MaxRuns * Cardinality(Catalogue)
  BY <1>1, Room
<1> HIDE DEF score, new
<1> QED
  BY <1>6, <1>7, <1>8, <1>9, <1>10, SameSize DEF R!RunBenchmark

LEMMA StepRefines ==
  ASSUME Inv, Bounds, [Next]_vars
  PROVE  [R!Next]_(R!vars)
<1>1. CASE UNCHANGED vars
  BY <1>1, StillRefines DEF vars
<1>2. ASSUME NEW p \in Procs, NEW n \in Names, Create(p, n) \/ AddTask(p, n)
      PROVE  UNCHANGED R!vars
  BY <1>2, CommandTypes, StillRefines DEF Create, AddTask
<1>3. ASSUME NEW p \in Procs, NEW n \in Names, NEW wanted, Start(p, n, wanted)
      PROVE  UNCHANGED R!vars
  BY <1>3, StillRefines DEF Start
<1>4. ASSUME NEW p \in Procs, Grade(p) \/ Score(p) \/ Fail(p) PROVE UNCHANGED R!vars
  BY <1>4, StillRefines DEF Grade, Score, Fail
<1>5. ASSUME NEW p \in Procs, Finish(p) PROVE R!Next
  <2>1. op[p] # Idle
    BY <1>5 DEF Finish
  <2>2. op[p].run \in RunRow /\ op[p].run.rows # {}
    BY <2>1, RunTypes DEF Bounds
  <2>3. op[p].run.set \in 1..MaxSets /\ op[p].run.rows \in SUBSET Catalogue
    BY <2>2, NumbersAssumption DEF RunRow, SetIds, Bounds, Inv, TypeOK
  <2> QED
    BY <1>5, <2>2, <2>3, FinishRefines DEF R!Next
<1>6. ASSUME NEW m \in Catalogue, Connect(m) \/ Disconnect(m) PROVE R!Next
  BY <1>6, ConnectRefines, DisconnectRefines DEF R!Next
<1> QED
  BY <1>1, <1>2, <1>3, <1>4, <1>5, <1>6 DEF Next

(* Benchmark implements Routing: a run of many calls, interleaved with others *)
(* and with changes of the registry, is to a route one step that adds a score *)
(* for each model the run began with; failed runs are none at all.           *)
THEOREM Refines == Spec => ImplementsRouting
<1>1. Init => Inv /\ Bounds
  BY InvInit, BoundsInit
<1>2. Inv /\ Bounds /\ [Next]_vars => Inv' /\ Bounds'
  BY InvStep, BoundsStep
<1>3. Inv /\ Bounds /\ [Next]_vars => [R!Next]_(R!vars)
  BY StepRefines
<1> QED
  BY <1>1, <1>2, <1>3, InitRefines, PTL DEF Spec, ImplementsRouting, R!Spec
=============================================================================
