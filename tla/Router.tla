--------------------------------- MODULE Router ---------------------------------
(***************************************************************************)
(* route and the exact cache: core/router.py, core/cache.py. Several        *)
(* processes route at once on one SQLite file: CLI commands, each with a    *)
(* session of its own, and shells (the TUI), which keep one session for all *)
(* their commands. A route is a sequence of reads and commits; between two  *)
(* of them others commit, models are connected and disconnected, and the    *)
(* clock moves on.                                                          *)
(*                                                                          *)
(* A commit expires what its session has read: the attributes the code uses *)
(* afterwards are read again, and a row that is gone by then raises. So     *)
(* does an UPDATE that finds no row, or an INSERT that finds one.           *)
(*                                                                          *)
(* With cache.mode = "off", a route under the default policy goes the way   *)
(* of one under an explicit policy, which bypasses the cache.               *)
(***************************************************************************)
EXTENDS Naturals

CONSTANTS
  Procs,      \* processes
  Shells,     \* those that are shells
  Routes,     \* bound: the routes that are made
  Questions,  \* cache keys: normalised prompt, task type and quality
  TaskTypes,  \* for each task type, its questions
  Models,
  Suits,      \* Suits[k]: the models that satisfy the constraints of k
  Ttl,        \* cache.ttl_seconds; 0 for none
  MaxAge,     \* `cache clear --older-than`
  MaxClock,   \* bound: the last instant
  None

ASSUME ShellsAssumption == Shells \subseteq Procs
ASSUME TaskTypesAssumption == TaskTypes \subseteq SUBSET Questions
ASSUME SuitsAssumption == Suits \in [Questions -> SUBSET Models]
ASSUME NumbersAssumption == Ttl \in Nat /\ MaxAge \in Nat /\ MaxClock \in Nat
ASSUME NoneAssumption == None \notin Routes \cup Models

VARIABLES
  cache,    \* the exact_cache table, by key
  runs,     \* what each route was asked, did and left behind
  models,   \* models in the registry, with their accounts
  op,       \* op[p]: the operation p is in
  broken,   \* shells whose session refuses to work
  clock

vars == <<cache, runs, models, op, broken, clock>>

(* An entry: the route whose answer it holds and its created_at.            *)
Entry == [answer : Routes, at : Nat]

(* A route: its question, whether under the default policy, a dry run;      *)
(* whether the provider answered (and charged) and the answer is valid;     *)
(* the traces it wrote; how it ended and with which route's answer.         *)
Ends == {"unused", "running", "answered", "estimated", "failed"}
Statuses == {"hit", "ok", "error", "invalid"}
Run == [key : Questions \cup {None}, default : BOOLEAN, dry : BOOLEAN,
        paid : BOOLEAN, valid : BOOLEAN, traces : [Statuses -> Nat],
        end : Ends, answer : Routes \cup {None}]
Untraced == [s \in Statuses |-> 0]
Unused == [key |-> None, default |-> TRUE, dry |-> FALSE, paid |-> FALSE,
           valid |-> FALSE, traces |-> Untraced, end |-> "unused", answer |-> None]

(* A running operation: its route; the model selected, whether store found  *)
(* an entry, the time it took; the keys a clear is about to delete.         *)
RouteOp == [pc : {"hit", "serve", "select", "account", "generate", "store", "commit",
                  "trace", "return"},
            run : Routes, model : Models \cup {None}, found : BOOLEAN, at : Nat]
ClearOp == [pc : {"clear"}, keys : SUBSET Questions]
Idle == [pc |-> "idle"]

TypeOK ==
  /\ DOMAIN cache \subseteq Questions
  /\ cache \in [DOMAIN cache -> Entry]
  /\ runs \in [Routes -> Run]
  /\ models \subseteq Models
  /\ op \in [Procs -> RouteOp \cup ClearOp \cup {Idle}]
  /\ broken \subseteq Shells
  /\ clock \in Nat

-----------------------------------------------------------------------------
At(p, pc) == op[p].pc = pc
Goto(p, pc) == op' = [op EXCEPT ![p].pc = pc]
Key(p) == runs[op[p].run].key
Cached(k) == k \in DOMAIN cache

(* Mutant: an entry never expires. *)
NeverExpired(at) == FALSE
(* _is_expired *)
Expired(at) == Ttl # 0 /\ at + Ttl < clock

(* _write_trace, for the route of p. *)
Traced(r, status) == [runs[r].traces EXCEPT ![status] = @ + 1]

(* The route of p ends: with an answer, *)
Answer(p, r, answer) ==
  /\ runs' = [runs EXCEPT ![r].end = "answered", ![r].answer = answer]
  /\ op' = [op EXCEPT ![p] = Idle]
(* or with an exception, after a trace of the given status or without one.  *)
Raise(p, r) ==
  /\ runs' = [runs EXCEPT ![r].end = "failed"]
  /\ op' = [op EXCEPT ![p] = Idle]
RaiseTraced(p, r, status) ==
  /\ runs' = [runs EXCEPT ![r].end = "failed", ![r].traces = Traced(r, status)]
  /\ op' = [op EXCEPT ![p] = Idle]

(* Mutant: a CLI process cannot use its session again, either. *)
BreakAny(p) == broken' = broken \cup {p}
(* A commit that fails in its flush leaves the session in need of a         *)
(* rollback nobody issues. A command's session is closed with it; a shell   *)
(* reports the error, refreshes its status bar by the same session, and     *)
(* that raises again, outside any try.                                      *)
Break(p) == broken' = broken \cup ({p} \cap Shells)

Starts(p) == op[p] = Idle /\ p \notin broken

-----------------------------------------------------------------------------
(* Mutant: explicit policies look the question up as well. *)
ConsultsAlways(default) == TRUE
(* Only the default policy uses the cache: the key does not tell policies   *)
(* apart.                                                                   *)
Consults(default) == default

(* Steps 1 to 4 of route: classification, policy, ExactCache.lookup up to   *)
(* its commit. A stale entry is a miss and stays.                           *)
Lookup(p) ==
  /\ Starts(p)
  /\ \E r \in Routes, k \in Questions, default, dry \in BOOLEAN :
       /\ runs[r] = Unused
       /\ runs' = [runs EXCEPT ![r] = [Unused EXCEPT !.key = k, !.default = default,
                                                     !.dry = dry, !.end = "running"]]
       /\ op' = [op EXCEPT ![p] =
            [pc |-> IF Consults(default) /\ Cached(k) /\ ~Expired(cache[k].at)
                    THEN "hit" ELSE "select",
             run |-> r, model |-> None, found |-> FALSE, at |-> clock]]
  /\ UNCHANGED <<cache, models, broken, clock>>

(* lookup, the commit of hit_count and last_hit_at: an UPDATE of the entry. *)
HitCommit(p) ==
  /\ At(p, "hit")
  /\ \/ /\ Cached(Key(p))
        /\ Goto(p, "serve")
        /\ UNCHANGED <<runs, broken>>
     \/ /\ ~Cached(Key(p))
        /\ Raise(p, op[p].run)
        /\ Break(p)
  /\ UNCHANGED <<cache, models, clock>>

(* Mutant: the hit is traced, and route goes on. *)
ServeOn(p) ==
  /\ At(p, "serve")
  /\ runs' = [runs EXCEPT ![op[p].run].traces = Traced(op[p].run, "hit")]
  /\ Goto(p, "select")
  /\ UNCHANGED <<cache, models, broken, clock>>
(* Mutant: it waits for a vanished entry. *)
ServeOrWait(p) ==
  /\ At(p, "serve")
  /\ Cached(Key(p))
  /\ runs' = [runs EXCEPT ![op[p].run].end = "answered",
                          ![op[p].run].answer = cache[Key(p)].answer,
                          ![op[p].run].traces = Traced(op[p].run, "hit")]
  /\ op' = [op EXCEPT ![p] = Idle]
  /\ UNCHANGED <<cache, models, broken, clock>>
(* lookup, the rest, and the trace of the hit: the entry is read again,     *)
(* whatever it now holds.                                                   *)
HitServe(p) ==
  /\ At(p, "serve")
  /\ LET r == op[p].run
     IN \/ /\ Cached(Key(p))
           /\ runs' = [runs EXCEPT ![r].end = "answered", ![r].answer = cache[Key(p)].answer,
                                   ![r].traces = Traced(r, "hit")]
           /\ op' = [op EXCEPT ![p] = Idle]
        \/ /\ ~Cached(Key(p))
           /\ Raise(p, r)
  /\ UNCHANGED <<cache, models, broken, clock>>

(* Steps 5 and 6: list_enabled and decide. An explicit policy may rule out  *)
(* what suits the task, or name a task set that does not exist. Only the    *)
(* refusal for want of a suitable model is traced.                          *)
Select(p) ==
  /\ At(p, "select")
  /\ LET r == op[p].run
         pool == models \cap Suits[Key(p)]
     IN \/ (models = {} \/ ~runs[r].default) /\ Raise(p, r)
        \/ models # {} /\ (pool = {} \/ ~runs[r].default) /\ RaiseTraced(p, r, "error")
        \/ /\ pool # {} /\ runs[r].dry
           /\ runs' = [runs EXCEPT ![r].end = "estimated"]
           /\ op' = [op EXCEPT ![p] = Idle]
        \/ /\ ~runs[r].dry
           /\ \E m \in pool : op' = [op EXCEPT ![p].pc = "account", ![p].model = m]
           /\ UNCHANGED runs
  /\ UNCHANGED <<cache, models, broken, clock>>

(* Step 7: the account of the selected model, and its key, which may be     *)
(* unreadable.                                                              *)
ReadAccount(p) ==
  /\ At(p, "account")
  /\ \/ op[p].model \in models /\ Goto(p, "generate") /\ UNCHANGED runs
     \/ Raise(p, op[p].run)
  /\ UNCHANGED <<cache, models, broken, clock>>

GenerateFails(p) ==
  /\ At(p, "generate")
  /\ RaiseTraced(p, op[p].run, "error")
  /\ UNCHANGED <<cache, models, broken, clock>>

(* Mutants: the exception leaves before the trace; validation after store.  *)
RejectUntraced(p) ==
  /\ At(p, "generate")
  /\ runs' = [runs EXCEPT ![op[p].run].end = "failed", ![op[p].run].paid = TRUE]
  /\ op' = [op EXCEPT ![p] = Idle]
  /\ UNCHANGED <<cache, models, broken, clock>>
StoreUnchecked(p) ==
  /\ At(p, "generate")
  /\ runs' = [runs EXCEPT ![op[p].run].paid = TRUE]
  /\ Goto(p, IF runs[op[p].run].default THEN "store" ELSE "trace")
  /\ UNCHANGED <<cache, models, broken, clock>>
(* Step 8: the answer is paid for, and validate rejects it. *)
GenerateInvalid(p) ==
  /\ At(p, "generate")
  /\ LET r == op[p].run
     IN runs' = [runs EXCEPT ![r].end = "failed", ![r].paid = TRUE,
                             ![r].traces = Traced(r, "invalid")]
  /\ op' = [op EXCEPT ![p] = Idle]
  /\ UNCHANGED <<cache, models, broken, clock>>

GenerateOk(p) ==
  /\ At(p, "generate")
  /\ runs' = [runs EXCEPT ![op[p].run].paid = TRUE, ![op[p].run].valid = TRUE]
  /\ Goto(p, IF runs[op[p].run].default THEN "store" ELSE "trace")
  /\ UNCHANGED <<cache, models, broken, clock>>

(* ExactCache.store, up to its commit. *)
StoreRead(p) ==
  /\ At(p, "store")
  /\ op' = [op EXCEPT ![p].pc = "commit", ![p].found = Cached(Key(p)), ![p].at = clock]
  /\ UNCHANGED <<cache, runs, models, broken, clock>>

(* ExactCache.store, the commit: the INSERT or UPDATE it has decided on.    *)
StoreCommit(p) ==
  /\ At(p, "commit")
  /\ \/ /\ Cached(Key(p)) = op[p].found
        /\ cache' = [k \in DOMAIN cache \cup {Key(p)} |->
                       IF k = Key(p) THEN [answer |-> op[p].run, at |-> op[p].at] ELSE cache[k]]
        /\ Goto(p, "trace")
        /\ UNCHANGED <<runs, broken>>
     \/ /\ Cached(Key(p)) # op[p].found
        /\ Raise(p, op[p].run)
        /\ Break(p)
        /\ UNCHANGED cache
  /\ UNCHANGED <<models, clock>>

(* Step 10: the trace. After the commit of store the row of the selected    *)
(* model is read again for it.                                              *)
Trace(p) ==
  /\ At(p, "trace")
  /\ LET r == op[p].run
     IN \/ /\ runs[r].default => op[p].model \in models
           /\ runs' = [runs EXCEPT ![r].traces = Traced(r, "ok")]
           /\ Goto(p, "return")
        \/ /\ runs[r].default /\ op[p].model \notin models
           /\ Raise(p, r)
  /\ UNCHANGED <<cache, models, broken, clock>>

(* The result, for which it is read once more. *)
Return(p) ==
  /\ At(p, "return")
  /\ \/ op[p].model \in models /\ Answer(p, op[p].run, op[p].run)
     \/ op[p].model \notin models /\ Raise(p, op[p].run)
  /\ UNCHANGED <<cache, models, broken, clock>>

-----------------------------------------------------------------------------
(* ExactCache.clear reads the entries to delete, all or those of one task   *)
(* type, or only those of them older than MaxAge, and deletes them by key.  *)
ClearRead(p) ==
  /\ Starts(p)
  /\ \E before \in {clock + 1} \cup {t \in {clock - MaxAge} : clock >= MaxAge},
        filter \in {Questions} \cup TaskTypes :
       op' = [op EXCEPT ![p] =
         [pc |-> "clear", keys |-> {k \in DOMAIN cache \cap filter : cache[k].at < before}]]
  /\ UNCHANGED <<cache, runs, models, broken, clock>>

ClearCommit(p) ==
  /\ At(p, "clear")
  /\ cache' = [k \in DOMAIN cache \ op[p].keys |-> cache[k]]
  /\ op' = [op EXCEPT ![p] = Idle]
  /\ UNCHANGED <<runs, models, broken, clock>>

(* The registry, changed by other processes (module ModelRegistry).         *)
Connect(m) ==
  /\ models' = models \cup {m}
  /\ UNCHANGED <<cache, runs, op, broken, clock>>
Disconnect(m) ==
  /\ models' = models \ {m}
  /\ UNCHANGED <<cache, runs, op, broken, clock>>

Tick ==
  /\ clock < MaxClock
  /\ clock' = clock + 1
  /\ UNCHANGED <<cache, runs, models, op, broken>>

Init ==
  /\ cache = <<>>
  /\ runs = [r \in Routes |-> Unused]
  /\ models = {}
  /\ op = [p \in Procs |-> Idle]
  /\ broken = {}
  /\ clock = 0

Advance(p) ==
  \/ HitCommit(p) \/ HitServe(p) \/ Select(p) \/ ReadAccount(p)
  \/ GenerateFails(p) \/ GenerateInvalid(p) \/ GenerateOk(p)
  \/ StoreRead(p) \/ StoreCommit(p) \/ Trace(p) \/ Return(p)
  \/ ClearCommit(p)

Next ==
  \/ \E p \in Procs : Lookup(p) \/ ClearRead(p) \/ Advance(p)
  \/ \E m \in Models : Connect(m) \/ Disconnect(m)
  \/ Tick

Spec == Init /\ [][Next]_vars

(* Operations that run at the same time are about different cache entries,  *)
(* and no model is disconnected while a route that selected it is under way. *)
Entries(p) ==
  IF op[p] = Idle THEN {}
  ELSE IF At(p, "clear") THEN op[p].keys
  ELSE {k \in {Key(p)} : runs[op[p].run].default}
Apart ==
  /\ \A p, q \in Procs : p # q => Entries(p) \cap Entries(q) = {}
  /\ \A p \in Procs : op[p] # Idle /\ ~At(p, "clear") => op[p].model \in models \cup {None}
ApartSpec == Init /\ [][Next /\ Apart']_vars

(* No step of an operation waits for another process, and every provider    *)
(* call ends: the sources set a timeout.                                    *)
FairSpec == Spec /\ \A p \in Procs : WF_vars(Advance(p))

-----------------------------------------------------------------------------
(* Properties of any number of processes.                                   *)

(* "A cache must never serve a different question's answer", and "a cache    *)
(* hit is policy-blind", so that an explicit policy neither takes an answer  *)
(* from the cache nor leaves one: whoever is answered gets a validated       *)
(* answer to the same question, made under the default policy if it was not  *)
(* made for this very route.                                                 *)
AnsweredRight ==
  \A r \in Routes : runs[r].end = "answered" =>
    LET a == runs[r].answer
    IN /\ a # None
       /\ runs[a].key = runs[r].key
       /\ runs[a].valid
       /\ a # r => runs[r].default /\ runs[a].default

(* The cache holds nothing but answers the default policy paid for and       *)
(* validate accepted, each under the question it answers.                    *)
CacheHoldsAnswers ==
  \A k \in DOMAIN cache :
    LET a == runs[cache[k].answer]
    IN a.key = k /\ a.paid /\ a.valid /\ a.default

(* A route leaves at most one trace, and the trace tells what happened: "ok" *)
(* and "invalid" if the provider was paid, "hit" if it was not.              *)
TracesTell ==
  \A r \in Routes : \A s \in Statuses :
    /\ runs[r].traces[s] <= 1
    /\ runs[r].traces[s] = 1 =>
         /\ \A t \in Statuses \ {s} : runs[r].traces[t] = 0
         /\ runs[r].paid = (s \in {"ok", "invalid"})

(* Properties of operations that are apart.                                  *)

(* "TTL is enforced on read": the answer of a hit was stored no longer than  *)
(* the TTL before. (The entry is read again after the hit is committed. If   *)
(* another route of the question has stored its answer since, it may be one  *)
(* whose store took its time earlier.)                                       *)
HitsAreFresh ==
  [][\A p \in Procs : HitServe(p) /\ Cached(Key(p)) /\ Ttl # 0 =>
       cache[Key(p)].at + Ttl >= op[p].at]_vars

(* Nothing paid for is lost: once a route is over, a call that was paid has  *)
(* its trace, and a valid answer has reached the user.                       *)
WasTraced(r) == \E s \in Statuses : runs[r].traces[s] > 0
NothingPaidIsLost ==
  \A r \in Routes : runs[r].end \in {"answered", "failed"} =>
    /\ runs[r].paid => WasTraced(r)
    /\ runs[r].valid => runs[r].end = "answered"

(* Every operation comes to its end.                                         *)
OperationsEnd == \A p \in Procs : (op[p] # Idle) ~> (op[p] = Idle)

=============================================================================
