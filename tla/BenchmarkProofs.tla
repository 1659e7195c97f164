---------------------------- MODULE BenchmarkProofs ----------------------------
(* Proofs about Benchmark, for every number of processes, models, task sets,  *)
(* tasks and runs.                                                           *)
EXTENDS Benchmark, TLAPS, SequenceTheorems, WellFoundedInduction

-----------------------------------------------------------------------------
(* What CHOOSE chooses: a set of numbers has a least one, *)
LEMMA Least ==
  ASSUME NEW S \in SUBSET Nat, S # {}
  PROVE  \E x \in S : \A y \in S : x <= y
<1> DEFINE Less == {s \in Nat \X Nat : s[1] < s[2]}
<1>1. IsWellFoundedOn(Less, Nat)
  BY NatLessThanWellFounded DEF OpToRel
<1>2. PICK x \in S : \A y \in S : <<y, x>> \notin Less
  <2> HIDE DEF Less
  <2> QED BY <1>1, WFMin
<1>3. \A y \in S : ~ (y < x)
  BY <1>2
<1> QED
  BY <1>3

(* so there is a newest set of a name *)
LEMMA NewestNamed ==
  ASSUME sets \in Seq(Names), NEW n, Named(n) # {}
  PROVE  Newest(n) \in SetIds
<1> DEFINE later == {Len(sets) - t : t \in Named(n)}
<1>1. \A t \in Named(n) : t \in 1..Len(sets)
  BY DEF Named, SetIds
<1>2. Len(sets) \in Nat
  OBVIOUS
<1>3. later \in SUBSET Nat /\ later # {}
  BY <1>1, <1>2
<1>4. PICK x \in later : \A y \in later : x <= y
  <2> HIDE DEF later
  <2> QED BY <1>3, Least
<1>5. PICK s \in Named(n) : x = Len(sets) - s
  BY <1>4
<1>6. \A t \in Named(n) : x <= Len(sets) - t
  BY <1>4
<1>7. \A t \in Named(n) : t <= s
  BY <1>1, <1>2, <1>5, <1>6
<1>8. Newest(n) \in Named(n)
  BY <1>7 DEF Newest
<1> QED
  BY <1>8 DEF Named

(* and a model that a run comes to next. *)
LEMMA CurrentLeft ==
  ASSUME NEW p \in Procs, op[p].left \subseteq Catalogue, op[p].left # {}
  PROVE  Current(p) \in op[p].left
<1> DEFINE places == {m.listed : m \in op[p].left}
<1>1. places \in SUBSET Nat /\ places # {}
  BY CatalogueAssumption
<1>2. PICK x \in places : \A y \in places : x <= y
  <2> HIDE DEF places
  <2> QED BY <1>1, Least
<1>3. \E m \in op[p].left : \A n \in op[p].left : m.listed <= n.listed
  BY <1>2
<1> QED
  BY <1>3 DEF Current

LEMMA RunningNotIdle == \A o \in Running : o # Idle
BY DEF Running, Idle

-----------------------------------------------------------------------------
(* The invariant. Scored: the cards cs are those of run r for these rows.    *)
Scored(r, rows, cs) ==
  /\ {c.row : c \in cs} = rows
  /\ \A c, d \in cs : c.row = d.row => c = d
  /\ \A c \in cs : c.run = r.id /\ c.set = r.set /\ c.total = r.total /\ c.passed <= c.total

(* What a session holds: nothing between two commands; in a run its row, and *)
(* a scorecard for each model it is through with.                            *)
Pending(p) ==
  IF op[p] = Idle THEN added[p] = Nothing
  ELSE /\ op[p].passed <= op[p].asked /\ op[p].asked <= op[p].run.total
       /\ op[p].left \subseteq op[p].run.rows
       /\ added[p].runs = {op[p].run}
       /\ Scored(op[p].run, op[p].run.rows \ op[p].left, added[p].cards)

(* No two runs, begun or written, have one id.                               *)
DistinctIds ==
  /\ \A r \in runs : r.id <= started
  /\ \A q, r \in runs : q.id = r.id => q = r
  /\ \A p \in Procs : op[p] # Idle =>
       /\ op[p].run.id <= started
       /\ \A r \in runs : r.id # op[p].run.id
       /\ \A q \in Procs \ {p} : op[q] # Idle => op[q].run.id # op[p].run.id

(* And what is written is whole. *)
Written ==
  /\ \A c \in cards : \E r \in runs : c.run = r.id
  /\ \A r \in runs : Scored(r, r.rows, CardsOf(r))

Inv == TypeOK /\ (\A p \in Procs : Pending(p)) /\ DistinctIds /\ Written

LEMMA InvInit == Init => Inv
<1> SUFFICES ASSUME Init PROVE Inv
  OBVIOUS
<1>1. TypeOK
  <2>1. sets \in Seq(Names) /\ tasks \in Seq(0..MaxTasks) /\ Len(tasks) = Len(sets)
    BY DEF Init
  <2> QED
    BY <2>1, NumbersAssumption DEF Init, TypeOK, Nothing
<1>2. \A p \in Procs : Pending(p)
  BY DEF Init, Pending
<1>3. DistinctIds /\ Written
  BY DEF Init, DistinctIds, Written
<1> QED
  BY <1>1, <1>2, <1>3 DEF Inv

(* Between two commands a commit writes nothing.                             *)
LEMMA IdleCommit ==
  ASSUME Inv, NEW p \in Procs, op[p] = Idle, Commit(p)
  PROVE  UNCHANGED <<runs, cards, added>>
<1>1. added[p] = Nothing
  BY DEF Inv, Pending
<1>2. runs' = runs /\ cards' = cards
  BY <1>1 DEF Commit, Nothing
<1>3. added' = added
  BY <1>1 DEF Commit, Inv, TypeOK
<1> QED
  BY <1>2, <1>3

(* A longer list of sets has room for all that was about the shorter one.    *)
LEMMA TypesGrow ==
  ASSUME TypeOK, NEW n \in Names, sets' = Append(sets, n)
  PROVE  /\ sets' \in Seq(Names) /\ SetIds' = SetIds \cup {Len(sets) + 1}
         /\ RunRow \subseteq RunRow' /\ Card \subseteq Card' /\ Running \subseteq Running'
<1>1. sets' \in Seq(Names) /\ Len(sets') = Len(sets) + 1 /\ Len(sets) \in Nat
  BY DEF TypeOK
<1>2. SetIds' = SetIds \cup {Len(sets) + 1}
  BY <1>1 DEF SetIds
<1>3. RunRow \subseteq RunRow' /\ Card \subseteq Card'
  BY <1>2 DEF RunRow, Card
<1>4. Running \subseteq Running'
  BY <1>3 DEF Running
<1> QED
  BY <1>1, <1>2, <1>3, <1>4

-----------------------------------------------------------------------------
(* Each step keeps the types.                                                *)
LEMMA CommandTypes ==
  ASSUME Inv, NEW p \in Procs, NEW n \in Names, Create(p, n) \/ AddTask(p, n)
  PROVE  TypeOK' /\ UNCHANGED <<runs, cards, added, op, started>>
<1>1. UNCHANGED <<runs, cards, added>> /\ UNCHANGED <<models, op, started>>
  BY IdleCommit DEF Create, AddTask
<1>2. CASE Create(p, n)
  <2>1. sets' = Append(sets, n) /\ tasks' = Append(tasks, 0)
    BY <1>2 DEF Create
  <2>2. /\ sets' \in Seq(Names) /\ SetIds' = SetIds \cup {Len(sets) + 1}
        /\ RunRow \subseteq RunRow' /\ Card \subseteq Card' /\ Running \subseteq Running'
    BY <2>1, TypesGrow DEF Inv
  <2>3. tasks' \in Seq(0..MaxTasks) /\ Len(tasks') = Len(sets')
    BY <2>1, NumbersAssumption DEF Inv, TypeOK
  <2>4. added' \in [Procs -> [runs : SUBSET RunRow', cards : SUBSET Card']]
    BY <1>1, <2>2 DEF Inv, TypeOK
  <2> QED
    BY <1>1, <2>2, <2>3, <2>4 DEF Inv, TypeOK
<1>3. CASE AddTask(p, n)
  <2>1. sets' = sets /\ SetIds' = SetIds /\ RunRow' = RunRow /\ Card' = Card /\ Running' = Running
    BY <1>3 DEF AddTask, SetIds, RunRow, Card, Running
  <2>2. tasks[Newest(n)] < MaxTasks /\ tasks' = [tasks EXCEPT ![Newest(n)] = @ + 1]
    BY <1>3 DEF AddTask
  <2>3. Newest(n) \in SetIds
    BY <1>3, NewestNamed DEF AddTask, Inv, TypeOK
  <2>4. tasks[Newest(n)] + 1 \in 0..MaxTasks
    BY <2>2, <2>3, NumbersAssumption DEF Inv, TypeOK, SetIds
  <2>5. tasks' \in Seq(0..MaxTasks) /\ Len(tasks') = Len(sets)
    BY <2>2, <2>3, <2>4, ExceptSeq DEF Inv, TypeOK, SetIds
  <2> QED
    BY <1>1, <2>1, <2>5 DEF Inv, TypeOK
<1> QED
  BY <1>1, <1>2, <1>3

(* A step of a run leaves the sets and their tasks alone.                    *)
InRun(p) == op[p] # Idle /\ (Grade(p) \/ Score(p) \/ Finish(p) \/ Fail(p))
LEMMA SetsStay ==
  ASSUME UNCHANGED sets
  PROVE  SetIds' = SetIds /\ RunRow' = RunRow /\ Card' = Card /\ Running' = Running
BY DEF SetIds, RunRow, Card, Running

LEMMA RunTypes ==
  ASSUME Inv, NEW p \in Procs, op[p] # Idle
  PROVE  op[p] \in Running /\ op[p].run \in RunRow /\ op[p].left \subseteq Catalogue
BY DEF Inv, TypeOK, Running

LEMMA StartTypes ==
  ASSUME Inv, NEW p \in Procs, NEW n \in Names, NEW wanted, Start(p, n, wanted)
  PROVE  /\ TypeOK'
         /\ op[p] = Idle /\ op'[p] # Idle
         /\ op'[p].run.id = started + 1 /\ op'[p].run \in RunRow
         /\ op'[p].left = op'[p].run.rows /\ op'[p].asked = 0 /\ op'[p].passed = 0
         /\ added'[p].runs = {op'[p].run} /\ added'[p].cards = {}
         /\ \A q \in Procs \ {p} : op'[q] = op[q] /\ added'[q] = added[q]
         /\ UNCHANGED <<runs, cards>> /\ started' = started + 1
<1> DEFINE run == [id |-> started + 1, set |-> Newest(n), rows |-> Selected(wanted),
                   total |-> tasks[Newest(n)]]
           begun == [run |-> run, left |-> run.rows, asked |-> 0, passed |-> 0]
<1>1. op[p] = Idle /\ started < MaxRuns /\ UNCHANGED <<models, sets, tasks, runs, cards>>
  BY DEF Start
<1>2. op' = [op EXCEPT ![p] = begun] /\ started' = started + 1
  BY DEF Start
<1>3. added[p] = Nothing
  BY <1>1 DEF Inv, Pending
<1>4. added' = [added EXCEPT ![p].runs = @ \cup {run}, ![p].cards = @ \cup {}]
  BY DEF Start, Add
<1>5. run \in RunRow
  <2>1. Newest(n) \in SetIds
    BY NewestNamed DEF Start, Inv, TypeOK
  <2>2. tasks[Newest(n)] \in 0..MaxTasks
    <3>1. tasks \in Seq(0..MaxTasks) /\ Newest(n) \in 1..Len(tasks)
      BY <2>1 DEF Inv, TypeOK, SetIds
    <3> QED
      BY <3>1, LenProperties
  <2>3. started + 1 \in 1..MaxRuns
    BY <1>1, NumbersAssumption DEF Inv, TypeOK
  <2>4. Selected(wanted) \in SUBSET Catalogue
    BY DEF Selected, Inv, TypeOK
  <2> QED
    BY <2>1, <2>2, <2>3, <2>4 DEF RunRow
<1>6. begun \in Running
  <2>1. run.rows \in SUBSET Catalogue /\ 0 \in 0..MaxTasks
    BY <1>5, NumbersAssumption DEF RunRow
  <2> HIDE DEF run
  <2> QED
    BY <1>5, <2>1 DEF Running
<1>7. begun # Idle
  BY <1>6, RunningNotIdle
<1>8. op'[p] = begun /\ \A q \in Procs \ {p} : op'[q] = op[q] /\ added'[q] = added[q]
  BY <1>2, <1>4 DEF Inv, TypeOK
<1>9. added'[p].runs = {run} /\ added'[p].cards = {}
  <2> HIDE DEF run
  <2> QED
    BY <1>3, <1>4 DEF Inv, TypeOK, Nothing
<1>10. TypeOK'
  <2>1. SetIds' = SetIds /\ RunRow' = RunRow /\ Card' = Card /\ Running' = Running
    BY <1>1, SetsStay
  <2>2. op' \in [Procs -> Running \cup {Idle}]
    BY <1>2, <1>6 DEF Inv, TypeOK
  <2>3. added' \in [Procs -> [runs : SUBSET RunRow, cards : SUBSET Card]]
    BY <1>4, <1>5 DEF Inv, TypeOK
  <2>4. started' \in 0..MaxRuns
    BY <1>1, <1>2, NumbersAssumption DEF Inv, TypeOK
  <2> QED
    BY <1>1, <2>1, <2>2, <2>3, <2>4 DEF Inv, TypeOK
<1> QED
  BY <1>1, <1>2, <1>5, <1>7, <1>8, <1>9, <1>10

LEMMA StepTypes ==
  ASSUME Inv, NEW p \in Procs, InRun(p)
  PROVE  TypeOK' /\ \A q \in Procs \ {p} : op'[q] = op[q] /\ added'[q] = added[q]
<1>1. op[p] \in Running /\ op[p].run \in RunRow /\ op[p].left \subseteq Catalogue
  BY RunTypes DEF InRun
<1>2. UNCHANGED <<models, sets, tasks, started>>
  BY DEF InRun, Grade, Score, Finish, Fail
<1>3. SetIds' = SetIds /\ RunRow' = RunRow /\ Card' = Card /\ Running' = Running
  BY <1>2, SetsStay
<1>4. Pending(p) /\ op[p] # Idle
  BY DEF Inv, InRun
<1>5. CASE Grade(p)
  <2>1. PICK pass \in {0, 1} : op' = [op EXCEPT ![p].asked = @ + 1, ![p].passed = @ + pass]
    BY <1>5 DEF Grade
  <2>2. op[p].asked + 1 \in 0..MaxTasks /\ op[p].passed + pass \in 0..MaxTasks
    BY <1>1, <1>4, <1>5, NumbersAssumption DEF Grade, Pending, Running, RunRow
  <2>3. [op[p] EXCEPT !.asked = @ + 1, !.passed = @ + pass] \in Running
    BY <1>1, <2>2 DEF Running
  <2>4. op' = [op EXCEPT ![p] = [op[p] EXCEPT !.asked = @ + 1, !.passed = @ + pass]]
    BY <2>1 DEF Inv, TypeOK
  <2>5. UNCHANGED <<runs, cards, added>>
    BY <1>5 DEF Grade
  <2> QED
    BY <1>2, <1>3, <2>3, <2>4, <2>5 DEF Inv, TypeOK
<1>6. CASE Score(p)
  <2>1. Current(p) \in Catalogue
    BY <1>1, <1>6, CurrentLeft DEF Score
  <2>2. CardOf(p) \in Card
    BY <1>1, <2>1 DEF CardOf, Card, Running, RunRow
  <2>3. added' = [added EXCEPT ![p] = [added[p] EXCEPT !.runs = @ \cup {}, !.cards = @ \cup {CardOf(p)}]]
    BY <1>6 DEF Score, Add, Inv, TypeOK
  <2>4. op' = [op EXCEPT ![p] = [op[p] EXCEPT !.left = @ \ {Current(p)}, !.asked = 0, !.passed = 0]]
    BY <1>6 DEF Score, NextModel, Inv, TypeOK
  <2>5. [op[p] EXCEPT !.left = @ \ {Current(p)}, !.asked = 0, !.passed = 0] \in Running
    <3>1. op[p].left \ {Current(p)} \in SUBSET Catalogue /\ 0 \in 0..MaxTasks
      BY <1>1, NumbersAssumption
    <3> QED
      BY <1>1, <3>1 DEF Running
  <2>6. [added[p] EXCEPT !.runs = @ \cup {}, !.cards = @ \cup {CardOf(p)}] \in [runs : SUBSET RunRow, cards : SUBSET Card]
    BY <2>2 DEF Inv, TypeOK
  <2>7. UNCHANGED <<runs, cards>>
    BY <1>6 DEF Score
  <2> QED
    BY <1>2, <1>3, <2>3, <2>4, <2>5, <2>6, <2>7 DEF Inv, TypeOK
<1>7. CASE Finish(p) \/ Fail(p)
  <2>1. op' = [op EXCEPT ![p] = Idle] /\ added' = [added EXCEPT ![p] = Nothing]
    BY <1>7 DEF Finish, Fail, Commit
  <2>2. /\ runs' = runs \/ runs' = runs \cup added[p].runs
        /\ cards' = cards \/ cards' = cards \cup added[p].cards
    BY <1>7 DEF Finish, Fail, Commit
  <2>3. Nothing \in [runs : SUBSET RunRow, cards : SUBSET Card]
    BY DEF Nothing
  <2>4. runs' \subseteq RunRow /\ cards' \subseteq Card
    BY <2>2 DEF Inv, TypeOK
  <2> QED
    BY <1>2, <1>3, <2>1, <2>3, <2>4 DEF Inv, TypeOK
<1> QED
  BY <1>5, <1>6, <1>7 DEF InRun

-----------------------------------------------------------------------------
(* Each step keeps the rest.                                                 *)
Rest == (\A p \in Procs : Pending(p)) /\ DistinctIds /\ Written

LEMMA StillKeeps ==
  ASSUME Inv, UNCHANGED <<runs, cards, added, op, started>>
  PROVE  Rest'
BY DEF Inv, Rest, Pending, DistinctIds, Written, Scored, CardsOf

LEMMA StartKeeps ==
  ASSUME Inv, NEW p \in Procs, NEW n \in Names, NEW wanted, Start(p, n, wanted)
  PROVE  Rest'
<1>1. /\ op[p] = Idle /\ op'[p] # Idle
      /\ op'[p].run.id = started + 1 /\ op'[p].run \in RunRow
      /\ op'[p].left = op'[p].run.rows /\ op'[p].asked = 0 /\ op'[p].passed = 0
      /\ added'[p].runs = {op'[p].run} /\ added'[p].cards = {}
      /\ \A q \in Procs \ {p} : op'[q] = op[q] /\ added'[q] = added[q]
      /\ UNCHANGED <<runs, cards>> /\ started' = started + 1
  BY StartTypes
<1>2. ASSUME NEW q \in Procs PROVE Pending(q)'
  <2>1. CASE q = p
    <3>1. op'[p].run.total \in Nat
      BY <1>1, NumbersAssumption DEF RunRow
    <3>2. Scored(op'[p].run, op'[p].run.rows \ op'[p].left, added'[p].cards)
      BY <1>1 DEF Scored
    <3> QED
      BY <1>1, <2>1, <3>1, <3>2 DEF Pending, Scored
  <2>2. CASE q # p
    BY <1>1, <2>2 DEF Inv, Pending, Scored
  <2> QED
    BY <2>1, <2>2
<1>3. DistinctIds'
  <2>1. started \in Nat /\ \A r \in runs : r.id \in Nat
    BY NumbersAssumption DEF Inv, TypeOK, RunRow
  <2>2. \A q \in Procs : op[q] # Idle => op[q].run.id \in Nat
    BY RunTypes DEF RunRow
  <2>3. \A q \in Procs \ {p} : op'[q] # Idle => op'[q].run.id <= started
    BY <1>1 DEF Inv, DistinctIds
  <2>4. \A q \in Procs \ {p} : op'[q] # Idle => op'[q].run.id # op'[p].run.id /\ op'[q].run.id <= started'
    BY <1>1, <2>1, <2>2, <2>3
  <2>5. \A r \in runs : r.id # op'[p].run.id /\ r.id <= started'
    BY <1>1, <2>1 DEF Inv, DistinctIds
  <2> QED
    BY <1>1, <2>1, <2>4, <2>5 DEF Inv, DistinctIds
<1>4. Written'
  BY <1>1 DEF Inv, Written, Scored, CardsOf
<1> QED
  BY <1>2, <1>3, <1>4 DEF Rest

(* A run goes on: nothing is written, and its session stays in order.        *)
LEMMA GoesOn ==
  ASSUME Inv, NEW p \in Procs, op[p] # Idle, Pending(p)',
         op'[p] = Idle \/ op'[p].run = op[p].run,
         \A q \in Procs \ {p} : op'[q] = op[q] /\ added'[q] = added[q],
         UNCHANGED <<runs, cards, started>>
  PROVE  Rest'
<1>1. \A q \in Procs : Pending(q)'
  BY DEF Inv, Pending, Scored
<1>2. DistinctIds'
  BY DEF Inv, DistinctIds
<1>3. Written'
  BY DEF Inv, Written, Scored, CardsOf
<1> QED
  BY <1>1, <1>2, <1>3 DEF Rest

LEMMA GradeKeeps ==
  ASSUME Inv, NEW p \in Procs, Grade(p)
  PROVE  Rest'
<1>1. op[p] # Idle /\ op[p].asked < op[p].run.total /\ UNCHANGED <<added, runs, cards, started>>
  BY DEF Grade
<1>2. op[p] \in Running
  BY <1>1, RunTypes
<1>3. PICK pass \in {0, 1} : op' = [op EXCEPT ![p].asked = @ + 1, ![p].passed = @ + pass]
  BY DEF Grade
<1>4. /\ op'[p].asked = op[p].asked + 1 /\ op'[p].passed = op[p].passed + pass
      /\ op'[p].run = op[p].run /\ op'[p].left = op[p].left
      /\ \A q \in Procs \ {p} : op'[q] = op[q]
  BY <1>2, <1>3 DEF Inv, TypeOK, Running
<1>5. Pending(p) /\ op'[p] # Idle
  <2>1. op'[p] = [op[p] EXCEPT !.asked = @ + 1, !.passed = @ + pass]
    BY <1>3 DEF Inv, TypeOK
  <2>2. Pending(p)
    BY DEF Inv
  <2>3. op[p].asked + 1 \in 0..MaxTasks /\ op[p].passed + pass \in 0..MaxTasks
    BY <1>1, <1>2, <2>2, NumbersAssumption DEF Pending, Running, RunRow
  <2>4. op'[p] \in Running
    BY <1>2, <2>1, <2>3 DEF Running
  <2> QED
    BY <2>2, <2>4, RunningNotIdle
<1>6. Pending(p)'
  <2>1. op[p].asked \in Nat /\ op[p].passed \in Nat /\ op[p].run.total \in Nat
    BY <1>2, NumbersAssumption DEF Running, RunRow
  <2> QED
    BY <1>1, <1>4, <1>5, <2>1 DEF Pending, Scored
<1> QED
  BY <1>1, <1>4, <1>6, GoesOn

LEMMA ScoreKeeps ==
  ASSUME Inv, NEW p \in Procs, Score(p)
  PROVE  Rest'
<1> DEFINE run == op[p].run
           before == run.rows \ op[p].left
<1>1. op[p] # Idle /\ op[p].left # {} /\ op[p].asked = run.total /\ UNCHANGED <<runs, cards, started>>
  BY DEF Score
<1>2. op[p] \in Running /\ run \in RunRow /\ op[p].left \subseteq Catalogue /\ Pending(p)
  BY <1>1, RunTypes DEF Inv
<1>3. Current(p) \in op[p].left /\ op[p].left \subseteq run.rows /\ op[p].passed <= op[p].asked
  BY <1>1, <1>2, CurrentLeft DEF Pending
<1>4. op'[p] = [op[p] EXCEPT !.left = @ \ {Current(p)}, !.asked = 0, !.passed = 0]
  BY DEF Score, NextModel, Inv, TypeOK
<1>5. /\ added'[p].runs = added[p].runs
      /\ added'[p].cards = added[p].cards \cup {CardOf(p)}
  BY DEF Score, Add, Inv, TypeOK
<1>6. \A q \in Procs \ {p} : op'[q] = op[q] /\ added'[q] = added[q]
  BY DEF Score, NextModel, Add, Inv, TypeOK
<1>7. op'[p] # Idle
  <2>1. op[p].left \ {Current(p)} \in SUBSET Catalogue /\ 0 \in 0..MaxTasks
    BY <1>2, NumbersAssumption
  <2>2. op'[p] \in Running
    BY <1>2, <1>4, <2>1 DEF Running
  <2> QED
    BY <2>2, RunningNotIdle
<1>8. /\ op'[p].run = run /\ op'[p].left = op[p].left \ {Current(p)}
      /\ op'[p].asked = 0 /\ op'[p].passed = 0
  BY <1>2, <1>4 DEF Running
<1>9. Scored(run, run.rows \ op'[p].left, added'[p].cards)
  <2>1. Scored(run, before, added[p].cards)
    BY <1>1, <1>2 DEF Pending
  <2>2. /\ CardOf(p).row = Current(p) /\ CardOf(p).run = run.id /\ CardOf(p).set = run.set
        /\ CardOf(p).total = run.total /\ CardOf(p).passed <= CardOf(p).total
    BY <1>1, <1>3 DEF CardOf
  <2>3. run.rows \ op'[p].left = before \cup {Current(p)} /\ Current(p) \notin before
    BY <1>3, <1>8
  <2> HIDE DEF run, before
  <2> QED
    BY <1>5, <2>1, <2>2, <2>3 DEF Scored
<1>10. Pending(p)'
  <2>1. run.total \in Nat
    BY <1>2, NumbersAssumption DEF RunRow
  <2> QED
    BY <1>1, <1>2, <1>3, <1>5, <1>7, <1>8, <1>9, <2>1 DEF Pending, Scored
<1> QED
  BY <1>1, <1>6, <1>8, <1>10, GoesOn

LEMMA FailKeeps ==
  ASSUME Inv, NEW p \in Procs, Fail(p)
  PROVE  Rest'
<1>1. op' = [op EXCEPT ![p] = Idle] /\ added' = [added EXCEPT ![p] = Nothing]
  BY DEF Fail
<1>2. /\ op'[p] = Idle /\ added'[p] = Nothing
      /\ \A q \in Procs \ {p} : op'[q] = op[q] /\ added'[q] = added[q]
  BY <1>1 DEF Inv, TypeOK
<1>3. Pending(p)'
  BY <1>2 DEF Pending
<1>4. op[p] # Idle /\ UNCHANGED <<runs, cards, started>>
  BY DEF Fail
<1> QED
  BY <1>2, <1>3, <1>4, GoesOn

LEMMA FinishKeeps ==
  ASSUME Inv, NEW p \in Procs, Finish(p)
  PROVE  Rest'
<1> DEFINE run == op[p].run
           new == added[p].cards
<1>1. op[p] # Idle /\ op[p].left = {} /\ Pending(p)
  BY DEF Finish, Inv
<1>2. /\ op'[p] = Idle /\ added'[p] = Nothing
      /\ \A q \in Procs \ {p} : op'[q] = op[q] /\ added'[q] = added[q]
  BY DEF Finish, Commit, Inv, TypeOK
<1>3. runs' = runs \cup {run} /\ cards' = cards \cup new /\ started' = started
  BY <1>1 DEF Finish, Commit, Pending
<1>4. Scored(run, run.rows, new)
  <2>1. run.rows \ op[p].left = run.rows
    BY <1>1
  <2> QED
    BY <1>1, <2>1 DEF Pending
<1>5. run.id <= started /\ \A r \in runs : r.id # run.id
  BY <1>1 DEF Inv, DistinctIds
<1>6. \A q \in Procs : Pending(q)'
  BY <1>2 DEF Inv, Pending, Scored
<1>7. DistinctIds'
  <2>1. \A q \in Procs : op'[q] # Idle =>
          /\ q # p /\ op[q] # Idle /\ op'[q] = op[q] /\ op[q].run.id # run.id
    BY <1>1, <1>2 DEF Inv, DistinctIds
  <2> HIDE DEF run
  <2> QED
    BY <1>3, <1>5, <2>1 DEF Inv, DistinctIds
<1>8. Written'
  <2>1. \A c \in new : c.run = run.id
    BY <1>4 DEF Scored
  <2>2. \A c \in cards : c.run # run.id
    BY <1>5 DEF Inv, Written
  <2>3. \A r \in runs : {c \in cards' : c.run = r.id} = CardsOf(r)
    BY <1>3, <1>5, <2>1 DEF CardsOf
  <2>4. {c \in cards' : c.run = run.id} = new
    BY <1>3, <2>1, <2>2
  <2>5. \A r \in runs' : Scored(r, r.rows, {c \in cards' : c.run = r.id})
    BY <1>3, <1>4, <2>3, <2>4 DEF Inv, Written
  <2>6. \A c \in cards' : \E r \in runs' : c.run = r.id
    BY <1>3, <2>1 DEF Inv, Written
  <2> QED
    BY <2>5, <2>6 DEF Written, Scored, CardsOf
<1> QED
  BY <1>6, <1>7, <1>8 DEF Rest

-----------------------------------------------------------------------------
LEMMA InvStep ==
  ASSUME Inv, [Next]_vars
  PROVE  Inv'
<1>1. CASE UNCHANGED vars
  <2>1. TypeOK'
    BY <1>1, SetsStay DEF Inv, TypeOK, vars
  <2> QED
    BY <1>1, <2>1, StillKeeps DEF Inv, Rest, vars
<1>2. ASSUME NEW p \in Procs, NEW n \in Names, Create(p, n) \/ AddTask(p, n) PROVE Inv'
  BY <1>2, CommandTypes, StillKeeps DEF Inv, Rest
<1>3. ASSUME NEW p \in Procs, NEW n \in Names,
             NEW wanted \in SUBSET {m.name : m \in Catalogue}, Start(p, n, wanted)
      PROVE  Inv'
  BY <1>3, StartTypes, StartKeeps DEF Inv, Rest
<1>4. ASSUME NEW p \in Procs, Grade(p) \/ Score(p) \/ Finish(p) \/ Fail(p) PROVE Inv'
  <2>1. InRun(p)
    BY <1>4 DEF InRun, Grade, Score, Finish, Fail
  <2>2. Rest'
    BY <1>4, GradeKeeps, ScoreKeeps, FinishKeeps, FailKeeps
  <2> QED
    BY <2>1, <2>2, StepTypes DEF Inv, Rest
<1>5. ASSUME NEW m \in Catalogue, Connect(m) \/ Disconnect(m) PROVE Inv'
  <2>1. UNCHANGED <<sets, tasks, runs, cards, added, op, started>> /\ models' \subseteq Catalogue
    BY <1>5 DEF Connect, Disconnect, Inv, TypeOK
  <2>2. TypeOK'
    BY <2>1, SetsStay DEF Inv, TypeOK
  <2> QED
    BY <2>1, <2>2, StillKeeps DEF Inv, Rest
<1> QED
  BY <1>1, <1>2, <1>3, <1>4, <1>5 DEF Next

(* Type correctness: in particular a model's passed tasks never exceed the    *)
(* tasks, and a run is of an existing set.                                   *)
THEOREM TypeCorrect == Spec => []TypeOK
<1>1. Inv => TypeOK
  BY DEF Inv
<1> QED
  BY <1>1, InvInit, InvStep, PTL DEF Spec

(* run_benchmark persists a run only when it has completed, with a scorecard  *)
(* for every model it selected, whatever fails and whatever else the sessions *)
(* of any number of processes commit.                                        *)
THEOREM WholeRuns == Spec => []RunsAreWhole
<1>1. Inv => RunsAreWhole
  BY DEF Inv, DistinctIds, Written, Scored, RunsAreWhole, CardsOf
<1> QED
  BY <1>1, InvInit, InvStep, PTL DEF Spec
=============================================================================
