------------------------------- MODULE Benchmark -------------------------------
(***************************************************************************)
(* Task sets and benchmark runs: services/benchmark_service.py, with the    *)
(* commands of cli/commands/benchmark.py and of the TUI's dispatcher.       *)
(*                                                                          *)
(* A run asks every selected model every task, which takes long, and adds   *)
(* its rows to the session on the way. Sessions do not autoflush: the rows  *)
(* are written by the next commit of the session, or lost by a rollback. A  *)
(* CLI command has a session of its own, a shell one for all its commands.  *)
(*                                                                          *)
(* What a command reads before it asks a model is one step with the asking: *)
(* it reads rows that no other process changes or deletes, or that may as   *)
(* well change right after. Nothing here fails a commit but a locked or     *)
(* full disk, which only Fail of a run stands for.                          *)
(***************************************************************************)
EXTENDS Naturals, Sequences, FiniteSets

CONSTANTS
  Procs,      \* processes
  Shells,     \* those that are shells
  Names,      \* names of task sets; two sets may share one
  Catalogue,  \* registry rows: [listed, name], listed in list_enabled's order
  MaxSets,    \* bound: task sets
  MaxTasks,   \* bound: tasks of a set
  MaxRuns     \* bound: runs that are started

ASSUME ShellsAssumption == Shells \subseteq Procs
ASSUME CatalogueAssumption ==
  /\ IsFiniteSet(Catalogue)
  /\ \A m \in Catalogue : m.listed \in Nat
  /\ \A m, n \in Catalogue : m.listed = n.listed => m = n
ASSUME NumbersAssumption == MaxSets \in Nat /\ MaxTasks \in Nat /\ MaxRuns \in Nat

VARIABLES
  models,   \* the enabled models
  sets,     \* the task_sets table: the names, in the order of created_at
  tasks,    \* tasks[s]: how many benchmark_tasks set s has
  runs,     \* the benchmark_runs table, with what each run was to score
  cards,    \* the scorecards table
  added,    \* added[p]: rows p's session has not written yet
  op,       \* op[p]: the run p is in
  started   \* how many runs were started: the next id

vars == <<models, sets, tasks, runs, cards, added, op, started>>

SetIds == 1..Len(sets)
RunRow == [id : 1..MaxRuns, set : SetIds, rows : SUBSET Catalogue, total : 0..MaxTasks]
Card == [run : 1..MaxRuns, set : SetIds, row : Catalogue, passed : 0..MaxTasks, total : 0..MaxTasks]
Nothing == [runs |-> {}, cards |-> {}]

(* A run in progress: its row, the models left, and of the first of them    *)
(* how many tasks were asked and passed.                                    *)
Running == [run : RunRow, left : SUBSET Catalogue, asked : 0..MaxTasks, passed : 0..MaxTasks]
Idle == [left |-> {}]

TypeOK ==
  /\ models \subseteq Catalogue
  /\ sets \in Seq(Names)
  /\ tasks \in Seq(0..MaxTasks) /\ Len(tasks) = Len(sets)
  /\ runs \subseteq RunRow
  /\ cards \subseteq Card
  /\ added \in [Procs -> [runs : SUBSET RunRow, cards : SUBSET Card]]
  /\ op \in [Procs -> Running \cup {Idle}]
  /\ started \in 0..MaxRuns

-----------------------------------------------------------------------------
(* get_task_set_by_name: the newest of the name. *)
Named(n) == {s \in SetIds : sets[s] = n}
Newest(n) == CHOOSE s \in Named(n) : \A t \in Named(n) : t <= s

(* Mutant: a run takes the place of the earlier ones of its set.            *)
CommitReplacing(p) ==
  LET redone == {r.set : r \in added[p].runs}
  IN /\ runs' = {r \in runs : r.set \notin redone} \cup added[p].runs
     /\ cards' = {c \in cards : c.set \notin redone} \cup added[p].cards
     /\ added' = [added EXCEPT ![p] = Nothing]
(* session.commit: whatever the session holds is written.                   *)
Commit(p) ==
  /\ runs' = runs \cup added[p].runs
  /\ cards' = cards \cup added[p].cards
  /\ added' = [added EXCEPT ![p] = Nothing]
Add(p, run, card) ==
  added' = [added EXCEPT ![p].runs = @ \cup run, ![p].cards = @ \cup card]

(* create_task_set *)
Create(p, n) ==
  /\ op[p] = Idle
  /\ Len(sets) < MaxSets
  /\ sets' = Append(sets, n)
  /\ tasks' = Append(tasks, 0)
  /\ Commit(p)
  /\ UNCHANGED <<models, op, started>>

(* add_task, to the set of that name *)
AddTask(p, n) ==
  /\ op[p] = Idle
  /\ Named(n) # {}
  /\ tasks[Newest(n)] < MaxTasks
  /\ tasks' = [tasks EXCEPT ![Newest(n)] = @ + 1]
  /\ Commit(p)
  /\ UNCHANGED <<models, sets, op, started>>

-----------------------------------------------------------------------------
(* `benchmark run`, up to the first call: the set of the name, the enabled  *)
(* models of the wanted names (all if none is named), the row of the run,   *)
(* and the tasks, which are read once for all models. A shell refuses a set *)
(* without tasks, the CLI does not.                                         *)
Selected(wanted) == {m \in models : wanted # {} => m.name \in wanted}
Start(p, n, wanted) ==
  /\ op[p] = Idle
  /\ started < MaxRuns
  /\ Named(n) # {}
  /\ p \in Shells => tasks[Newest(n)] > 0
  /\ Selected(wanted) # {}
  /\ LET run == [id |-> started + 1, set |-> Newest(n), rows |-> Selected(wanted),
                 total |-> tasks[Newest(n)]]
     IN /\ Add(p, {run}, {})
        /\ op' = [op EXCEPT ![p] = [run |-> run, left |-> run.rows, asked |-> 0, passed |-> 0]]
  /\ started' = started + 1
  /\ UNCHANGED <<models, sets, tasks, runs, cards>>

Current(p) == CHOOSE m \in op[p].left : \A n \in op[p].left : m.listed <= n.listed

(* One task: a call of the current model, and grade. *)
Grade(p) ==
  /\ op[p] # Idle /\ op[p].left # {}
  /\ op[p].asked < op[p].run.total
  /\ \E pass \in {0, 1} : op' = [op EXCEPT ![p].asked = @ + 1, ![p].passed = @ + pass]
  /\ UNCHANGED <<models, sets, tasks, runs, cards, added, started>>

CardOf(p) ==
  [run |-> op[p].run.id, set |-> op[p].run.set, row |-> Current(p),
   passed |-> op[p].passed, total |-> op[p].run.total]
(* Mutant: what the last model passed is carried over. *)
CarryPassed(p) ==
  op' = [op EXCEPT ![p].left = @ \ {Current(p)}, ![p].asked = 0]
NextModel(p) ==
  op' = [op EXCEPT ![p].left = @ \ {Current(p)}, ![p].asked = 0, ![p].passed = 0]
(* All tasks asked: the scorecard, and on to the next model.                *)
Score(p) ==
  /\ op[p] # Idle /\ op[p].left # {}
  /\ op[p].asked = op[p].run.total
  /\ Add(p, {}, {CardOf(p)})
  /\ NextModel(p)
  /\ UNCHANGED <<models, sets, tasks, runs, cards, started>>

Finish(p) ==
  /\ op[p] # Idle /\ op[p].left = {}
  /\ Commit(p)
  /\ op' = [op EXCEPT ![p] = Idle]
  /\ UNCHANGED <<models, sets, tasks, started>>

(* Mutant: no rollback. The CLI closes its session all the same.            *)
FailPending(p) ==
  /\ op[p] # Idle
  /\ added' = [added EXCEPT ![p] = IF p \in Shells THEN @ ELSE Nothing]
  /\ op' = [op EXCEPT ![p] = Idle]
  /\ UNCHANGED <<models, sets, tasks, runs, cards, started>>
(* A call, the grader or the commit raises: run_benchmark rolls back. So    *)
(* does the end of the process.                                             *)
Fail(p) ==
  /\ op[p] # Idle
  /\ added' = [added EXCEPT ![p] = Nothing]
  /\ op' = [op EXCEPT ![p] = Idle]
  /\ UNCHANGED <<models, sets, tasks, runs, cards, started>>

-----------------------------------------------------------------------------
(* The registry, changed by other processes (module ModelRegistry).         *)
Connect(m) ==
  /\ models' = models \cup {m}
  /\ UNCHANGED <<sets, tasks, runs, cards, added, op, started>>
Disconnect(m) ==
  /\ m \in models
  /\ models' = models \ {m}
  /\ UNCHANGED <<sets, tasks, runs, cards, added, op, started>>

Init ==
  /\ models = {}
  /\ sets = <<>> /\ tasks = <<>>
  /\ runs = {} /\ cards = {}
  /\ added = [p \in Procs |-> Nothing]
  /\ op = [p \in Procs |-> Idle]
  /\ started = 0

Next ==
  \/ \E p \in Procs :
       \/ \E n \in Names : Create(p, n) \/ AddTask(p, n)
       \/ \E n \in Names, wanted \in SUBSET {m.name : m \in Catalogue} : Start(p, n, wanted)
       \/ Grade(p) \/ Score(p) \/ Finish(p) \/ Fail(p)
  \/ \E m \in Catalogue : Connect(m) \/ Disconnect(m)

Spec == Init /\ [][Next]_vars

-----------------------------------------------------------------------------
(* "A run is persisted only when it actually completed": each run in the     *)
(* table has one scorecard for every model it selected, also for those that  *)
(* have been disconnected since, all of them about the tasks the set had     *)
(* when the run began; and there is no scorecard without its run. So no run  *)
(* that failed has left anything in the session of a shell for one of its    *)
(* later commands to commit.                                                 *)
CardsOf(r) == {c \in cards : c.run = r.id}
RunsAreWhole ==
  /\ \A c \in cards : \E r \in runs : c \in CardsOf(r)
  /\ \A q, r \in runs : q.id = r.id => q = r
  /\ \A r \in runs :
       /\ {c.row : c \in CardsOf(r)} = r.rows
       /\ \A c, d \in CardsOf(r) : c.row = d.row => c = d
       /\ \A c \in CardsOf(r) : c.set = r.set /\ c.total = r.total /\ c.passed <= c.total
=============================================================================
