------------------------------ MODULE RouterProofs ------------------------------
(* Proofs about Router, for every number of processes, routes, questions and  *)
(* models.                                                                   *)
EXTENDS Router, TLAPS

USE DEF At, Goto, Key, Cached

-----------------------------------------------------------------------------
(* Types.                                                                    *)

(* Of the operations, those with a program counter of route are routes.      *)
LEMMA RouteOps ==
  ASSUME TypeOK, NEW p \in Procs, op[p].pc # "idle", op[p].pc # "clear"
  PROVE  op[p] \in RouteOp
BY DEF TypeOK, ClearOp, Idle

LEMMA ClearOps ==
  ASSUME TypeOK, NEW p \in Procs, op[p].pc = "clear"
  PROVE  op[p] \in ClearOp
BY DEF TypeOK, RouteOp, Idle

(* A trace leaves a route a route. *)
LEMMA TracedType ==
  ASSUME TypeOK, NEW r \in Routes, NEW s \in Statuses
  PROVE  Traced(r, s) \in [Statuses -> Nat]
BY DEF TypeOK, Run, Traced

(* The operations that are routes, and that each of these has its question.   *)
InRoute(o) == o.pc \notin {"idle", "clear"}
Asked == \A p \in Procs : InRoute(op[p]) => runs[op[p].run].key \in Questions
TypeInv == TypeOK /\ Asked

LEMMA RouteInRoute == \A o \in RouteOp : InRoute(o)
BY DEF RouteOp, InRoute

(* A step of a route concerns this operation and its run, of which it keeps  *)
(* the question and the policy; after it the operation is idle or the same   *)
(* route.                                                                    *)
Concerns(p, r) ==
  /\ \A q \in Procs \ {p} : op'[q] = op[q]
  /\ \A s \in Routes \ {r} : runs'[s] = runs[s]
  /\ runs'[r].key = runs[r].key /\ runs'[r].default = runs[r].default
  /\ op'[p] = Idle \/ (InRoute(op'[p]) /\ op'[p].run = r)

(* What a selection does to its run and its operation.                       *)
LEMMA Selections ==
  ASSUME NEW p, Select(p), NEW r, r = op[p].run
  PROVE  \/ Raise(p, r)
         \/ RaiseTraced(p, r, "error")
         \/ /\ runs' = [runs EXCEPT ![r].end = "estimated"]
            /\ op' = [op EXCEPT ![p] = Idle]
         \/ /\ runs' = runs
            /\ \E m \in models : op' = [op EXCEPT ![p].pc = "account", ![p].model = m]
BY DEF Select

LEMMA Frame ==
  ASSUME TypeOK, NEW p \in Procs, Advance(p), ~ClearCommit(p)
  PROVE  op[p] \in RouteOp /\ Concerns(p, op[p].run)
<1>1. op[p] \in RouteOp
  BY RouteOps DEF Advance, HitCommit, HitServe, Select, ReadAccount, GenerateFails,
     GenerateInvalid, GenerateOk, StoreRead, StoreCommit, Trace, Return
<1> DEFINE r == op[p].run
<1>2. r \in Routes /\ runs[r] \in Run
  BY <1>1 DEF RouteOp, TypeOK
<1> USE DEF Concerns, InRoute, TypeOK, RouteOp, Run, Raise
<1>3. CASE HitCommit(p)
  BY <1>1, <1>2, <1>3 DEF HitCommit
<1>4. CASE HitServe(p)
  BY <1>1, <1>2, <1>4 DEF HitServe
<1>5. CASE Select(p)
  <2>1. CASE Raise(p, r)
    BY <1>1, <1>2, <2>1
  <2>2. CASE RaiseTraced(p, r, "error")
    BY <1>1, <1>2, <2>2 DEF RaiseTraced
  <2>3. CASE runs' = [runs EXCEPT ![r].end = "estimated"] /\ op' = [op EXCEPT ![p] = Idle]
    BY <1>1, <1>2, <2>3
  <2>4. ASSUME runs' = runs, NEW m \in models,
               op' = [op EXCEPT ![p].pc = "account", ![p].model = m]
        PROVE  Concerns(p, r)
    BY <1>1, <1>2, <2>4
  <2> HIDE DEF Concerns, InRoute, TypeOK, RouteOp, Run, Raise
  <2> QED
    BY <1>1, <1>5, Selections, <2>1, <2>2, <2>3, <2>4
<1>6. CASE ReadAccount(p)
  BY <1>1, <1>2, <1>6 DEF ReadAccount
<1>7. CASE GenerateFails(p)
  BY <1>1, <1>2, <1>7 DEF GenerateFails, RaiseTraced
<1>8. CASE GenerateInvalid(p)
  BY <1>1, <1>2, <1>8 DEF GenerateInvalid
<1>9. CASE GenerateOk(p)
  BY <1>1, <1>2, <1>9 DEF GenerateOk
<1>10. CASE StoreRead(p)
  BY <1>1, <1>2, <1>10 DEF StoreRead
<1>11. CASE StoreCommit(p)
  BY <1>1, <1>2, <1>11 DEF StoreCommit
<1>12. CASE Trace(p)
  BY <1>1, <1>2, <1>12 DEF Trace
<1>13. CASE Return(p)
  BY <1>1, <1>2, <1>13 DEF Return, Answer
<1> QED
  BY <1>1, <1>3, <1>4, <1>5, <1>6, <1>7, <1>8, <1>9, <1>10, <1>11, <1>12, <1>13
     DEF Advance

LEMMA TypeInit == Init => TypeInv
<1> SUFFICES ASSUME Init PROVE TypeInv
  OBVIOUS
<1>1. DOMAIN cache = {} /\ cache \in [DOMAIN cache -> Entry]
  BY DEF Init
<1>2. Unused \in Run
  BY DEF Unused, Run, Untraced, Ends, Statuses
<1> QED
  BY <1>1, <1>2 DEF Init, TypeInv, TypeOK, Asked, InRoute, Idle

LEMMA TypeStep ==
  ASSUME TypeInv, [Next]_vars
  PROVE  TypeOK'
<1> USE DEF TypeInv
<1>1. CASE UNCHANGED vars
  BY <1>1 DEF vars, TypeOK
<1>2. ASSUME NEW p \in Procs, Lookup(p) PROVE TypeOK'
  <2>1. PICK r \in Routes, k \in Questions, default \in BOOLEAN, dry \in BOOLEAN, pc \in {"hit", "select"} :
          /\ runs' = [runs EXCEPT ![r] = [Unused EXCEPT !.key = k, !.default = default,
                                                        !.dry = dry, !.end = "running"]]
          /\ op' = [op EXCEPT ![p] = [pc |-> pc, run |-> r, model |-> None,
                                      found |-> FALSE, at |-> clock]]
    BY <1>2, Zenon DEF Lookup
  <2>2. [Unused EXCEPT !.key = k, !.default = default, !.dry = dry, !.end = "running"] \in Run
    BY DEF Unused, Untraced, Run, Ends, Statuses
  <2>3. runs' \in [Routes -> Run]
    BY <2>1, <2>2 DEF TypeOK
  <2>4. [pc |-> pc, run |-> r, model |-> None, found |-> FALSE, at |-> clock] \in RouteOp
    BY DEF RouteOp, TypeOK
  <2>5. op' \in [Procs -> RouteOp \cup ClearOp \cup {Idle}]
    BY <2>1, <2>4 DEF TypeOK
  <2> QED
    BY <1>2, <2>3, <2>5 DEF Lookup, TypeOK
<1>3. ASSUME NEW p \in Procs, ClearRead(p) PROVE TypeOK'
  <2>1. PICK before \in {clock + 1} \cup {t \in {clock - MaxAge} : clock >= MaxAge},
             filter \in {Questions} \cup TaskTypes :
          op' = [op EXCEPT ![p] =
            [pc |-> "clear", keys |-> {k \in DOMAIN cache \cap filter : cache[k].at < before}]]
    BY <1>3 DEF ClearRead
  <2>2. before \in Nat
    BY NumbersAssumption DEF TypeOK
  <2>3. [pc |-> "clear", keys |-> {k \in DOMAIN cache \cap filter : cache[k].at < before}]
          \in ClearOp
    BY <2>2 DEF ClearOp, TypeOK
  <2> QED
    BY <1>3, <2>1, <2>3 DEF ClearRead, TypeOK
<1>4. ASSUME NEW p \in Procs, ClearCommit(p) PROVE TypeOK'
  <2>1. DOMAIN cache' \subseteq Questions /\ cache' \in [DOMAIN cache' -> Entry]
    BY <1>4 DEF ClearCommit, TypeOK
  <2> QED
    BY <1>4, <2>1 DEF ClearCommit, TypeOK
<1>5. CASE \E m \in Models : Connect(m) \/ Disconnect(m)
  BY <1>5 DEF Connect, Disconnect, TypeOK
<1>6. CASE Tick
  BY <1>6 DEF Tick, TypeOK
<1>7. ASSUME NEW p \in Procs, Advance(p), ~ClearCommit(p) PROVE TypeOK'
  <2>1. op[p] \in RouteOp
    BY <1>7, RouteOps DEF Advance, HitCommit, HitServe, Select, ReadAccount, GenerateFails,
       GenerateInvalid, GenerateOk, StoreRead, StoreCommit, Trace, Return
  <2> DEFINE r == op[p].run
  <2>2. r \in Routes /\ runs[r] \in Run
    BY <2>1 DEF RouteOp, TypeOK
  <2>3. \A s \in Statuses : Traced(r, s) \in [Statuses -> Nat]
    BY <2>2, TracedType
  <2>4. CASE HitCommit(p)
    BY <2>1, <2>2, <2>4 DEF HitCommit, Raise, Break, TypeOK, RouteOp, Run, Ends
  <2>5. CASE HitServe(p)
    <3>1. Traced(r, "hit") \in [Statuses -> Nat]
      BY <2>3 DEF Statuses
    <3>2. CASE Key(p) \in DOMAIN cache
      <4>1. cache[Key(p)].answer \in Routes
        BY <3>2 DEF TypeOK, Entry
      <4>2. [runs[r] EXCEPT !.end = "answered", !.answer = cache[Key(p)].answer,
                           !.traces = Traced(r, "hit")] \in Run
        BY <2>2, <3>1, <4>1 DEF Run, Ends
      <4>3. runs' = [runs EXCEPT ![r] = [runs[r] EXCEPT !.end = "answered",
                       !.answer = cache[Key(p)].answer, !.traces = Traced(r, "hit")]]
        BY <2>2, <2>5, <3>2 DEF HitServe, TypeOK
      <4>4. op' = [op EXCEPT ![p] = Idle]
        BY <2>5, <3>2 DEF HitServe
      <4> QED
        BY <2>2, <2>5, <4>2, <4>3, <4>4 DEF HitServe, TypeOK
    <3>3. CASE Key(p) \notin DOMAIN cache
      BY <2>1, <2>2, <2>5, <3>3 DEF HitServe, Raise, TypeOK, RouteOp, Run, Ends
    <3> QED
      BY <3>2, <3>3
  <2>6. CASE Select(p)
    <3>1. UNCHANGED <<cache, models, broken, clock>>
      BY <2>6 DEF Select
    <3>2. CASE Raise(p, r)
      BY <2>2, <3>1, <3>2 DEF Raise, TypeOK, Run, Ends
    <3>3. CASE RaiseTraced(p, r, "error")
      BY <2>2, <2>3, <3>1, <3>3 DEF RaiseTraced, TypeOK, Run, Ends, Statuses
    <3>4. CASE runs' = [runs EXCEPT ![r].end = "estimated"] /\ op' = [op EXCEPT ![p] = Idle]
      BY <2>2, <3>1, <3>4 DEF TypeOK, Run, Ends
    <3>5. ASSUME runs' = runs, NEW m \in models,
                 op' = [op EXCEPT ![p].pc = "account", ![p].model = m]
          PROVE  TypeOK'
      BY <2>1, <3>1, <3>5 DEF TypeOK, RouteOp
    <3> QED
      BY <2>6, Selections, <3>2, <3>3, <3>4, <3>5
  <2>7. CASE ReadAccount(p)
    BY <2>1, <2>2, <2>7 DEF ReadAccount, Raise, TypeOK, RouteOp, Run, Ends
  <2>8. CASE GenerateFails(p)
    BY <2>1, <2>2, <2>3, <2>8 DEF GenerateFails, RaiseTraced, TypeOK, RouteOp, Run, Ends, Statuses
  <2>9. CASE GenerateInvalid(p)
    BY <2>1, <2>2, <2>3, <2>9 DEF GenerateInvalid, TypeOK, RouteOp, Run, Ends, Statuses
  <2>10. CASE GenerateOk(p)
    BY <2>1, <2>2, <2>10 DEF GenerateOk, TypeOK, RouteOp, Run, Ends
  <2>11. CASE StoreRead(p)
    <3>1. (Key(p) \in DOMAIN cache) \in BOOLEAN
      OBVIOUS
    <3>2. PICK found \in BOOLEAN : op' = [op EXCEPT ![p].pc = "commit", ![p].found = found, ![p].at = clock]
      BY <2>11, <3>1 DEF StoreRead
    <3>3. clock \in Nat
      BY DEF TypeOK
    <3>4. [op[p] EXCEPT !.pc = "commit", !.found = found, !.at = clock] \in RouteOp
      BY <2>1, <3>3 DEF RouteOp
    <3>5. op' = [op EXCEPT ![p] = [op[p] EXCEPT !.pc = "commit", !.found = found, !.at = clock]]
      BY <3>2 DEF TypeOK
    <3>6. UNCHANGED <<cache, runs, models, broken, clock>>
      BY <2>11 DEF StoreRead
    <3> QED
      BY <3>4, <3>5, <3>6 DEF TypeOK
  <2>12. CASE StoreCommit(p)
    <3>1. CASE /\ cache' = [k \in DOMAIN cache \cup {Key(p)} |->
                            IF k = Key(p) THEN [answer |-> r, at |-> op[p].at] ELSE cache[k]]
               /\ op' = [op EXCEPT ![p].pc = "trace"]
               /\ UNCHANGED <<runs, broken>>
      <4>0. InRoute(op[p])
        BY <2>1, RouteInRoute
      <4>1. Key(p) \in Questions
        BY <4>0 DEF Asked
      <4>2. [answer |-> r, at |-> op[p].at] \in Entry
        BY <2>1, <2>2 DEF RouteOp, Entry
      <4>3. DOMAIN cache' \subseteq Questions /\ cache' \in [DOMAIN cache' -> Entry]
        BY <3>1, <4>1, <4>2 DEF TypeOK
      <4>4. op' \in [Procs -> RouteOp \cup ClearOp \cup {Idle}]
        BY <2>1, <3>1 DEF TypeOK, RouteOp
      <4> QED
        BY <2>12, <3>1, <4>3, <4>4 DEF StoreCommit, TypeOK
    <3>2. CASE Raise(p, r) /\ Break(p) /\ UNCHANGED cache
      BY <2>2, <2>12, <3>2 DEF StoreCommit, Raise, Break, TypeOK, Run, Ends
    <3> QED
      BY <2>12, <3>1, <3>2, Zenon DEF StoreCommit, Goto
  <2>13. CASE Trace(p)
    BY <2>1, <2>2, <2>3, <2>13 DEF Trace, Raise, TypeOK, RouteOp, Run, Ends, Statuses
  <2>14. CASE Return(p)
    BY <2>1, <2>2, <2>14 DEF Return, Answer, Raise, TypeOK, RouteOp, Run, Ends
  <2> QED
    BY <1>7, <2>4, <2>5, <2>6, <2>7, <2>8, <2>9, <2>10, <2>11, <2>12, <2>13, <2>14 DEF Advance
<1> QED
  BY <1>1, <1>2, <1>3, <1>4, <1>5, <1>6, <1>7 DEF Next

LEMMA AskedStep ==
  ASSUME TypeInv, [Next]_vars
  PROVE  Asked'
<1> USE DEF TypeInv
<1>1. CASE UNCHANGED <<runs, op>>
  BY <1>1 DEF Asked
<1>2. ASSUME NEW p \in Procs, Lookup(p) PROVE Asked'
  <2>1. PICK r \in Routes, k \in Questions :
          /\ \E x : runs' = [runs EXCEPT ![r] = x] /\ x.key = k
          /\ \E pc : op' = [op EXCEPT ![p] = [pc |-> pc, run |-> r, model |-> None,
                                              found |-> FALSE, at |-> clock]]
    <3>1. PICK r \in Routes, k \in Questions, default \in BOOLEAN, dry \in BOOLEAN :
            /\ runs' = [runs EXCEPT ![r] = [Unused EXCEPT !.key = k, !.default = default,
                                                          !.dry = dry, !.end = "running"]]
            /\ \E pc : op' = [op EXCEPT ![p] = [pc |-> pc, run |-> r, model |-> None,
                                                found |-> FALSE, at |-> clock]]
      BY <1>2, Zenon DEF Lookup
    <3>2. [Unused EXCEPT !.key = k, !.default = default, !.dry = dry, !.end = "running"].key = k
      BY DEF Unused
    <3> QED
      BY <3>1, <3>2
  <2>2. runs'[r].key = k /\ \A s \in Routes \ {r} : runs'[s] = runs[s]
    BY <2>1 DEF TypeOK
  <2>3. op'[p].run = r /\ \A q \in Procs \ {p} : op'[q] = op[q]
    BY <2>1 DEF TypeOK
  <2>4. ASSUME NEW q \in Procs, InRoute(op'[q]), q # p PROVE runs'[op'[q].run].key \in Questions
    <3>1. op[q] \in RouteOp
      BY <2>3, <2>4, RouteOps DEF InRoute
    <3> QED
      BY <2>2, <2>3, <2>4, <3>1 DEF Asked, RouteOp
  <2> QED
    BY <2>2, <2>3, <2>4 DEF Asked
<1>3. ASSUME NEW p \in Procs, ClearRead(p) \/ ClearCommit(p) PROVE Asked'
  <2>1. /\ \A q \in Procs \ {p} : op'[q] = op[q]
        /\ ~ InRoute(op'[p])
        /\ runs' = runs
    BY <1>3 DEF ClearRead, ClearCommit, TypeOK, Idle, InRoute
  <2> QED
    BY <2>1 DEF Asked
<1>4. ASSUME NEW p \in Procs, Advance(p), ~ClearCommit(p) PROVE Asked'
  <2>1. op[p] \in RouteOp /\ Concerns(p, op[p].run)
    BY <1>4, Frame
  <2>2. \A q \in Procs : InRoute(op'[q]) => op[q] \in RouteOp /\ op'[q].run = op[q].run
    BY <2>1, RouteOps DEF Concerns, InRoute, Idle
  <2>3. \A s \in Routes : runs'[s].key = runs[s].key
    BY <2>1 DEF Concerns
  <2> QED
    BY <2>2, <2>3 DEF Asked, InRoute, RouteOp
<1> QED
  BY <1>1, <1>2, <1>3, <1>4 DEF Next, vars, Connect, Disconnect, Tick

(* The types of what the tables, the routes and the operations hold.         *)
THEOREM TypeCorrect == Spec => []TypeOK
<1>1. TypeInv /\ [Next]_vars => TypeInv'
  BY TypeStep, AskedStep DEF TypeInv
<1>2. TypeInv => TypeOK
  BY DEF TypeInv
<1> QED
  BY TypeInit, <1>1, <1>2, PTL DEF Spec

-----------------------------------------------------------------------------
(* Safety.                                                                   *)

(* Where a route is tells what it has been paid, what it has written, and,   *)
(* as only the default policy takes the cache's way, its policy.             *)
Fits(o, x) ==
  /\ x.end = "running"
  /\ o.pc \in {"hit", "serve", "store", "commit"} => x.default
  /\ o.pc \in {"hit", "serve", "select", "account", "generate"} =>
       ~x.paid /\ ~x.valid /\ x.traces = Untraced
  /\ o.pc \in {"store", "commit", "trace"} => x.paid /\ x.valid /\ x.traces = Untraced
  /\ o.pc = "return" => x.paid /\ x.valid /\ x.traces = [Untraced EXCEPT !["ok"] = 1]
Progress == \A p \in Procs : InRoute(op[p]) => Fits(op[p], runs[op[p].run])
(* No two processes are at the same route. *)
OwnRuns == \A p, q \in Procs : InRoute(op[p]) /\ InRoute(op[q]) /\ op[p].run = op[q].run => p = q

(* The traces of one run. *)
Tells(x) ==
  \A s \in Statuses :
    /\ x.traces[s] <= 1
    /\ x.traces[s] = 1 =>
         /\ \A t \in Statuses \ {s} : x.traces[t] = 0
         /\ x.paid = (s \in {"ok", "invalid"})

Safe == /\ Progress /\ OwnRuns
        /\ CacheHoldsAnswers /\ AnsweredRight /\ TracesTell
Inv == TypeInv /\ Safe

(* What a step of the route r of process p may do: it takes back neither     *)
(* payment nor validity; its operation ends or fits the run again; its       *)
(* traces still tell; what is new in the cache is its own answer, paid,      *)
(* valid and under the default policy; and if it is answered, then by itself *)
(* or out of the cache.                                                      *)
Moves(p, r) ==
  /\ runs[r].paid => runs'[r].paid
  /\ runs[r].valid => runs'[r].valid
  /\ InRoute(op'[p]) => Fits(op'[p], runs'[r])
  /\ Tells(runs'[r])
  /\ \A k \in DOMAIN cache' :
       \/ k \in DOMAIN cache /\ cache'[k] = cache[k]
       \/ /\ k = runs[r].key /\ cache'[k].answer = r
          /\ runs[r].paid /\ runs[r].valid /\ runs[r].default
  /\ runs'[r].end = "answered" =>
       \/ runs'[r].answer = r /\ runs'[r].valid
       \/ /\ runs[r].key \in DOMAIN cache /\ runs[r].default
          /\ runs'[r].answer = cache[runs[r].key].answer

LEMMA UntracedTells ==
  ASSUME NEW x, x.traces = Untraced
  PROVE  Tells(x)
BY DEF Tells, Untraced

(* The only trace of a run tells, if it tells of its payment. *)
LEMMA OneTraceTells ==
  ASSUME NEW s \in Statuses, NEW x, x.traces = [Untraced EXCEPT ![s] = 1],
         x.paid = (s \in {"ok", "invalid"})
  PROVE  Tells(x)
<1>1. \A t \in Statuses : x.traces[t] = IF t = s THEN 1 ELSE 0
  BY DEF Untraced
<1> QED
  BY <1>1 DEF Tells

LEMMA FirstTrace ==
  ASSUME NEW r \in Routes, NEW s \in Statuses, runs[r].traces = Untraced
  PROVE  Traced(r, s) = [Untraced EXCEPT ![s] = 1]
BY DEF Traced, Untraced

LEMMA MovesStep ==
  ASSUME Inv, NEW p \in Procs, Advance(p), ~ClearCommit(p)
  PROVE  Moves(p, op[p].run)
<1>1. op[p] \in RouteOp /\ Concerns(p, op[p].run)
  BY Frame DEF Inv, TypeInv
<1> DEFINE r == op[p].run
<1>2. r \in Routes /\ runs \in [Routes -> Run] /\ op \in [Procs -> RouteOp \cup ClearOp \cup {Idle}]
  BY <1>1 DEF RouteOp, Inv, TypeInv, TypeOK
<1>3. runs[r] \in Run
  BY <1>2
<1>4. Fits(op[p], runs[r])
  BY <1>1, RouteInRoute DEF Inv, Safe, Progress
<1>5. ~InRoute(Idle)
  BY DEF InRoute, Idle
<1>6. Tells(runs[r])
  BY <1>2 DEF Inv, Safe, TracesTell, Tells
<1>7. \A s \in Statuses : runs[r].traces = Untraced => Traced(r, s) = [Untraced EXCEPT ![s] = 1]
  BY <1>2, FirstTrace
(* A step that ends the run in failure, traced or not. *)
<1>8. ASSUME NEW x \in Run, runs' = [runs EXCEPT ![r] = x], op' = [op EXCEPT ![p] = Idle],
             cache' = cache, x.end # "answered", Tells(x),
             runs[r].paid => x.paid, runs[r].valid => x.valid
      PROVE  Moves(p, r)
  <2>1. runs'[r] = x /\ op'[p] = Idle
    BY <1>2, <1>8
  <2> QED
    BY <1>5, <1>8, <2>1 DEF Moves
<1>9. ASSUME Raise(p, r), cache' = cache PROVE Moves(p, r)
  <2> DEFINE x == [runs[r] EXCEPT !.end = "failed"]
  <2>1. x \in Run /\ x.end # "answered" /\ x.paid = runs[r].paid /\ x.valid = runs[r].valid
    BY <1>3 DEF Run, Ends
  <2>2. x.traces = runs[r].traces
    BY <1>3 DEF Run
  <2>3. Tells(x)
    BY <1>6, <2>1, <2>2 DEF Tells
  <2>4. runs' = [runs EXCEPT ![r] = x] /\ op' = [op EXCEPT ![p] = Idle]
    BY <1>2, <1>9 DEF Raise
  <2> QED
    BY <1>8, <1>9, <2>1, <2>3, <2>4
<1>10. ASSUME RaiseTraced(p, r, "error"), cache' = cache, ~runs[r].paid, runs[r].traces = Untraced
       PROVE  Moves(p, r)
  <2> DEFINE x == [runs[r] EXCEPT !.end = "failed", !.traces = Traced(r, "error")]
  <2>1. Traced(r, "error") = [Untraced EXCEPT !["error"] = 1]
    BY <1>7, <1>10 DEF Statuses
  <2>2. Traced(r, "error") \in [Statuses -> Nat]
    BY <1>2, TracedType DEF Inv, TypeInv, Statuses
  <2>3. /\ x \in Run /\ x.end # "answered" /\ x.paid = runs[r].paid /\ x.valid = runs[r].valid
        /\ x.traces = [Untraced EXCEPT !["error"] = 1]
    BY <1>3, <2>1, <2>2 DEF Run, Ends
  <2>4. Tells(x)
    <3>1. "error" \in Statuses /\ x.paid = ("error" \in {"ok", "invalid"})
      BY <1>3, <1>10, <2>3 DEF Statuses, Run
    <3> QED
      BY <2>3, <3>1, OneTraceTells
  <2>5. runs' = [runs EXCEPT ![r] = x] /\ op' = [op EXCEPT ![p] = Idle]
    BY <1>2, <1>10 DEF RaiseTraced
  <2> QED
    BY <1>8, <1>10, <2>3, <2>4, <2>5
(* A step to another line of route. *)
<1>11. ASSUME NEW x \in Run, runs'[r] = x, cache' = cache, Fits(op'[p], x), Tells(x),
              runs[r].paid => x.paid, runs[r].valid => x.valid
       PROVE  Moves(p, r)
  BY <1>11 DEF Moves, Fits
<1>12. CASE HitCommit(p)
  <2>1. CASE op' = [op EXCEPT ![p].pc = "serve"] /\ runs' = runs
    <3>1. op'[p].pc = "serve" /\ op[p].pc = "hit"
      BY <1>2, <1>12, <2>1 DEF HitCommit
    <3>2. Fits(op'[p], runs'[r])
      BY <1>4, <2>1, <3>1 DEF Fits
    <3> QED
      BY <1>3, <1>6, <1>12, <2>1, <3>2, <1>11 DEF HitCommit
  <2> QED
    BY <1>9, <1>12, <2>1 DEF HitCommit
<1>13. CASE HitServe(p)
  <2>1. CASE /\ Key(p) \in DOMAIN cache
             /\ runs' = [runs EXCEPT ![r].end = "answered", ![r].answer = cache[Key(p)].answer,
                                     ![r].traces = Traced(r, "hit")]
             /\ op' = [op EXCEPT ![p] = Idle]
    <3> DEFINE x == [runs[r] EXCEPT !.end = "answered", !.answer = cache[Key(p)].answer,
                                    !.traces = Traced(r, "hit")]
    <3>1. runs'[r] = x
      BY <1>2, <2>1
    <3>2. runs[r].default /\ ~runs[r].paid /\ ~runs[r].valid /\ runs[r].traces = Untraced
      BY <1>4, <1>13 DEF Fits, HitServe
    <3>3. Traced(r, "hit") = [Untraced EXCEPT !["hit"] = 1]
      BY <1>7, <3>2 DEF Statuses
    <3>4. /\ x.paid = runs[r].paid /\ x.valid = runs[r].valid
          /\ x.answer = cache[runs[r].key].answer
          /\ x.traces = [Untraced EXCEPT !["hit"] = 1]
      BY <1>3, <3>3 DEF Run
    <3>5. Tells(x)
      <4>1. "hit" \in Statuses /\ x.paid = ("hit" \in {"ok", "invalid"})
        BY <1>3, <3>2, <3>4 DEF Statuses, Run
      <4> QED
        BY <3>4, <4>1, OneTraceTells
    <3>6. op'[p] = Idle /\ cache' = cache
      BY <1>2, <1>13, <2>1 DEF HitServe
    <3> HIDE DEF x
    <3> QED
      BY <1>5, <2>1, <3>1, <3>2, <3>4, <3>5, <3>6 DEF Moves
  <2> QED
    BY <1>9, <1>13, <2>1 DEF HitServe
<1>14. CASE Select(p)
  <2>1. ~runs[r].paid /\ runs[r].traces = Untraced /\ cache' = cache /\ op[p].pc = "select"
    BY <1>4, <1>14 DEF Fits, Select
  <2>2. CASE /\ runs' = [runs EXCEPT ![r].end = "estimated"]
             /\ op' = [op EXCEPT ![p] = Idle]
    <3> DEFINE x == [runs[r] EXCEPT !.end = "estimated"]
    <3>1. /\ x \in Run /\ x.end # "answered" /\ x.paid = runs[r].paid /\ x.valid = runs[r].valid
          /\ x.traces = Untraced
      BY <1>3, <2>1 DEF Run, Ends
    <3>2. Tells(x)
      BY <3>1, UntracedTells
    <3>3. runs' = [runs EXCEPT ![r] = x]
      BY <1>2, <2>2
    <3> QED
      BY <1>8, <2>1, <2>2, <3>1, <3>2, <3>3
  <2>3. CASE /\ \E m \in Models : op' = [op EXCEPT ![p].pc = "account", ![p].model = m]
             /\ runs' = runs
    <3>1. op'[p].pc = "account"
      BY <1>2, <2>3
    <3>2. Fits(op'[p], runs'[r])
      BY <1>4, <2>1, <2>3, <3>1 DEF Fits
    <3> QED
      BY <1>3, <1>6, <1>11, <2>1, <2>3, <3>2
  <2> QED
    BY <1>9, <1>10, <1>14, <2>1, <2>2, <2>3 DEF Select, Inv, TypeInv, TypeOK
<1>15. CASE ReadAccount(p)
  <2>1. CASE op' = [op EXCEPT ![p].pc = "generate"] /\ runs' = runs
    <3>1. op'[p].pc = "generate" /\ op[p].pc = "account" /\ cache' = cache
      BY <1>2, <1>15, <2>1 DEF ReadAccount
    <3>2. Fits(op'[p], runs'[r])
      BY <1>4, <2>1, <3>1 DEF Fits
    <3> QED
      BY <1>3, <1>6, <1>11, <2>1, <3>1, <3>2
  <2> QED
    BY <1>9, <1>15, <2>1 DEF ReadAccount
<1>16. CASE GenerateFails(p)
  BY <1>4, <1>10, <1>16 DEF GenerateFails, Fits
<1>17. CASE GenerateInvalid(p)
  <2> DEFINE x == [runs[r] EXCEPT !.end = "failed", !.paid = TRUE, !.traces = Traced(r, "invalid")]
  <2>1. runs[r].traces = Untraced /\ ~runs[r].valid /\ cache' = cache
    BY <1>4, <1>17 DEF Fits, GenerateInvalid
  <2>2. /\ Traced(r, "invalid") = [Untraced EXCEPT !["invalid"] = 1]
        /\ Traced(r, "invalid") \in [Statuses -> Nat]
    BY <1>2, <1>7, <2>1, TracedType DEF Inv, TypeInv, Statuses
  <2>3. /\ x \in Run /\ x.end # "answered" /\ x.paid /\ x.traces = [Untraced EXCEPT !["invalid"] = 1]
    BY <1>3, <2>2 DEF Run, Ends
  <2>4. Tells(x)
    <3>1. "invalid" \in Statuses /\ x.paid = ("invalid" \in {"ok", "invalid"})
      BY <2>3 DEF Statuses, Run
    <3> QED
      BY <2>3, <3>1, OneTraceTells
  <2>5. runs' = [runs EXCEPT ![r] = x] /\ op' = [op EXCEPT ![p] = Idle]
    BY <1>2, <1>17 DEF GenerateInvalid
  <2> QED
    BY <1>8, <2>1, <2>3, <2>4, <2>5
<1>18. CASE GenerateOk(p)
  <2> DEFINE x == [runs[r] EXCEPT !.paid = TRUE, !.valid = TRUE]
  <2>1. x \in Run /\ x.paid /\ x.valid /\ x.traces = Untraced /\ x.end = "running"
        /\ x.default = runs[r].default
    BY <1>3, <1>4, <1>18 DEF Run, Fits, GenerateOk
  <2>2. runs'[r] = x /\ cache' = cache
    BY <1>2, <1>18 DEF GenerateOk
  <2>3. op'[p].pc = IF runs[r].default THEN "store" ELSE "trace"
    BY <1>2, <1>18 DEF GenerateOk
  <2>4. Fits(op'[p], x)
    BY <2>1, <2>3 DEF Fits
  <2>5. Tells(x)
    BY <2>1, UntracedTells
  <2> QED
    BY <1>11, <2>1, <2>2, <2>4, <2>5
<1>19. CASE StoreRead(p)
  <2>1. op'[p].pc = "commit" /\ op[p].pc = "store" /\ runs' = runs /\ cache' = cache
    BY <1>2, <1>19 DEF StoreRead
  <2>2. Fits(op'[p], runs'[r])
    BY <1>4, <2>1 DEF Fits
  <2> QED
    BY <1>3, <1>6, <1>11, <2>1, <2>2
<1>20. CASE StoreCommit(p)
  <2>1. CASE /\ cache' = [k \in DOMAIN cache \cup {Key(p)} |->
                            IF k = Key(p) THEN [answer |-> r, at |-> op[p].at] ELSE cache[k]]
             /\ op' = [op EXCEPT ![p].pc = "trace"]
             /\ runs' = runs
    <3>1. op'[p].pc = "trace" /\ op[p].pc = "commit"
      BY <1>2, <1>20, <2>1 DEF StoreCommit
    <3>2. Fits(op'[p], runs'[r])
      BY <1>4, <2>1, <3>1 DEF Fits
    <3>3. runs[r].paid /\ runs[r].valid /\ runs[r].default /\ runs[r].end = "running"
      BY <1>4, <3>1 DEF Fits
    <3> QED
      BY <1>6, <2>1, <3>2, <3>3 DEF Moves
  <2> QED
    BY <1>9, <1>20, <2>1, Zenon DEF StoreCommit, Goto
<1>21. CASE Trace(p)
  <2>1. runs[r].traces = Untraced /\ runs[r].paid /\ runs[r].valid /\ runs[r].end = "running"
        /\ op[p].pc = "trace" /\ cache' = cache
    BY <1>4, <1>21 DEF Fits, Trace
  <2>2. CASE /\ runs' = [runs EXCEPT ![r].traces = Traced(r, "ok")]
             /\ op' = [op EXCEPT ![p].pc = "return"]
    <3> DEFINE x == [runs[r] EXCEPT !.traces = Traced(r, "ok")]
    <3>1. /\ Traced(r, "ok") = [Untraced EXCEPT !["ok"] = 1]
          /\ Traced(r, "ok") \in [Statuses -> Nat]
      BY <1>2, <1>7, <2>1, TracedType DEF Inv, TypeInv, Statuses
    <3>2. /\ x \in Run /\ x.end = "running" /\ x.paid /\ x.valid
          /\ x.traces = [Untraced EXCEPT !["ok"] = 1]
      BY <1>3, <2>1, <3>1 DEF Run
    <3>3. Tells(x)
      <4>1. "ok" \in Statuses /\ x.paid = ("ok" \in {"ok", "invalid"})
        BY <3>2 DEF Statuses, Run
      <4> QED
        BY <3>2, <4>1, OneTraceTells
    <3>4. op'[p].pc = "return" /\ runs'[r] = x
      BY <1>2, <2>2
    <3>5. Fits(op'[p], x)
      BY <3>2, <3>4 DEF Fits
    <3> QED
      BY <1>11, <2>1, <3>2, <3>3, <3>4, <3>5
  <2> QED
    BY <1>9, <1>21, <2>1, <2>2 DEF Trace
<1>22. CASE Return(p)
  <2>1. CASE Answer(p, r, r)
    <3> DEFINE x == [runs[r] EXCEPT !.end = "answered", !.answer = r]
    <3>1. runs'[r] = x /\ op'[p] = Idle /\ cache' = cache
      BY <1>2, <1>22, <2>1 DEF Return, Answer
    <3>2. x.paid = runs[r].paid /\ x.valid = runs[r].valid /\ x.traces = runs[r].traces
          /\ x.answer = r
      BY <1>3 DEF Run
    <3>3. Tells(x)
      BY <1>6, <3>2 DEF Tells
    <3>4. x.valid
      BY <1>4, <1>22, <3>2 DEF Return, Fits
    <3> HIDE DEF x
    <3> QED
      BY <1>5, <3>1, <3>2, <3>3, <3>4 DEF Moves
  <2> QED
    BY <1>9, <1>22, <2>1 DEF Return
<1> QED
  BY <1>12, <1>13, <1>14, <1>15, <1>16, <1>17, <1>18, <1>19, <1>20, <1>21, <1>22 DEF Advance

(* A route that moves so leaves all routes safe. *)
LEMMA MovesKeep ==
  ASSUME Inv, NEW p \in Procs, Advance(p), ~ClearCommit(p)
  PROVE  Safe'
<1>1. op[p] \in RouteOp /\ Concerns(p, op[p].run)
  BY Frame DEF Inv, TypeInv
<1> DEFINE r == op[p].run
<1>2. Moves(p, r)
  BY MovesStep
<1>3. r \in Routes /\ InRoute(op[p]) /\ Fits(op[p], runs[r])
  BY <1>1, RouteInRoute DEF RouteOp, Inv, Safe, Progress
<1>4. \A q \in Procs : InRoute(op'[q]) => InRoute(op[q]) /\ op'[q].run = op[q].run
  BY <1>1, <1>3 DEF Concerns, InRoute, Idle
<1>5. /\ \A s \in Routes : /\ runs'[s].key = runs[s].key
                           /\ runs'[s].default = runs[s].default
                           /\ runs[s].paid => runs'[s].paid
                           /\ runs[s].valid => runs'[s].valid
      /\ \A s \in Routes \ {r} : runs'[s] = runs[s]
  BY <1>1, <1>2 DEF Concerns, Moves
<1>6. Progress'
  <2>1. ASSUME NEW q \in Procs, q # p, InRoute(op'[q]) PROVE Fits(op'[q], runs'[op'[q].run])
    <3>1. op'[q] = op[q] /\ op[q].run # r
      BY <1>1, <1>3, <1>4, <2>1 DEF Concerns, Inv, Safe, OwnRuns
    <3>2. op[q].run \in Routes
      BY <2>1, <3>1, RouteOps DEF InRoute, RouteOp, Inv, TypeInv
    <3> QED
      BY <1>5, <2>1, <3>1, <3>2 DEF Inv, Safe, Progress
  <2> QED
    BY <1>2, <1>4, <2>1 DEF Moves, Progress
<1>7. OwnRuns'
  BY <1>4 DEF OwnRuns, Inv, Safe
<1>8. CacheHoldsAnswers'
  <2>1. \A k \in DOMAIN cache : cache[k].answer \in Routes
    BY DEF Inv, TypeInv, TypeOK, Entry
  <2>2. ASSUME NEW k \in DOMAIN cache, cache'[k] = cache[k]
        PROVE  LET a == runs'[cache'[k].answer]
               IN a.key = k /\ a.paid /\ a.valid /\ a.default
    BY <1>5, <2>1, <2>2 DEF Inv, Safe, CacheHoldsAnswers
  <2>3. ASSUME NEW k, k = runs[r].key, cache'[k].answer = r,
               runs[r].paid, runs[r].valid, runs[r].default
        PROVE  LET a == runs'[cache'[k].answer]
               IN a.key = k /\ a.paid /\ a.valid /\ a.default
    BY <1>3, <1>5, <2>3
  <2> QED
    BY <1>2, <2>2, <2>3 DEF CacheHoldsAnswers, Moves
<1>9. AnsweredRight'
  <2>1. ASSUME NEW s \in Routes, s # r, runs'[s].end = "answered"
        PROVE  LET a == runs'[s].answer
               IN /\ a # None /\ runs'[a].key = runs'[s].key /\ runs'[a].valid
                  /\ a # s => runs'[s].default /\ runs'[a].default
    <3>1. runs'[s] = runs[s] /\ runs[s].answer # None
      BY <1>5, <2>1 DEF Inv, Safe, AnsweredRight
    <3>2. runs[s].answer \in Routes
      BY <3>1 DEF Inv, TypeInv, TypeOK, Run
    <3> QED
      BY <1>5, <2>1, <3>1, <3>2 DEF Inv, Safe, AnsweredRight
  <2>2. ASSUME runs'[r].end = "answered"
        PROVE  LET a == runs'[r].answer
               IN /\ a # None /\ runs'[a].key = runs'[r].key /\ runs'[a].valid
                  /\ a # r => runs'[r].default /\ runs'[a].default
    <3>1. CASE runs'[r].answer = r /\ runs'[r].valid
      BY <1>3, <3>1, NoneAssumption
    <3>2. CASE /\ runs[r].key \in DOMAIN cache /\ runs[r].default
               /\ runs'[r].answer = cache[runs[r].key].answer
      <4> DEFINE a == cache[runs[r].key].answer
      <4>1. a \in Routes
        BY <3>2 DEF Inv, TypeInv, TypeOK, Entry
      <4>2. runs[a].key = runs[r].key /\ runs[a].valid /\ runs[a].default
        BY <3>2 DEF Inv, Safe, CacheHoldsAnswers
      <4> HIDE DEF a
      <4>3. runs'[r].answer = a
        BY <3>2 DEF a
      <4> QED
        BY <1>3, <1>5, <3>2, <4>1, <4>2, <4>3, NoneAssumption
    <3> QED
      BY <1>2, <2>2, <3>1, <3>2 DEF Moves
  <2> QED
    BY <2>1, <2>2 DEF AnsweredRight
<1>10. TracesTell'
  <2>1. \A s \in Routes : Tells(runs'[s])
    BY <1>2, <1>5 DEF Inv, Safe, TracesTell, Tells, Moves
  <2> QED
    BY <2>1 DEF TracesTell, Tells
<1> QED
  BY <1>6, <1>7, <1>8, <1>9, <1>10 DEF Safe

(* A new route takes an unused run, which nobody is answered from.           *)
LEMMA LookupKeeps ==
  ASSUME Inv, NEW p \in Procs, Lookup(p)
  PROVE  Safe'
<1>1. PICK r \in Routes, k \in Questions, default \in BOOLEAN, dry \in BOOLEAN :
        /\ runs[r] = Unused
        /\ runs' = [runs EXCEPT ![r] = [Unused EXCEPT !.key = k, !.default = default,
                                                      !.dry = dry, !.end = "running"]]
        /\ \E pc \in {"hit", "select"} :
             /\ op' = [op EXCEPT ![p] = [pc |-> pc, run |-> r, model |-> None,
                                         found |-> FALSE, at |-> clock]]
             /\ pc = "hit" => default
  BY Zenon DEF Lookup, Consults
<1>2. PICK pc \in {"hit", "select"} :
        /\ op' = [op EXCEPT ![p] = [pc |-> pc, run |-> r, model |-> None,
                                    found |-> FALSE, at |-> clock]]
        /\ pc = "hit" => default
  BY <1>1
<1> DEFINE x == [Unused EXCEPT !.key = k, !.default = default, !.dry = dry, !.end = "running"]
<1>3. x.end = "running" /\ ~x.paid /\ ~x.valid /\ x.traces = Untraced /\ x.default = default
  BY DEF Unused
<1>4. /\ runs'[r] = x /\ op'[p].pc = pc /\ op'[p].run = r
      /\ \A s \in Routes \ {r} : runs'[s] = runs[s]
      /\ \A q \in Procs \ {p} : op'[q] = op[q]
      /\ cache' = cache
  BY <1>1, <1>2 DEF Inv, TypeInv, TypeOK, Lookup
<1>5. runs[r].end = "unused" /\ ~runs[r].valid
  BY <1>1 DEF Unused
<1>6. Fits(op'[p], x)
  BY <1>2, <1>3, <1>4 DEF Fits
<1>7. \A q \in Procs : InRoute(op[q]) => op[q].run \in Routes /\ op[q].run # r
  <2>1. \A q \in Procs : InRoute(op[q]) => runs[op[q].run].end = "running"
    BY DEF Inv, Safe, Progress, Fits
  <2> QED
    BY <1>5, <2>1, RouteOps DEF InRoute, RouteOp, Inv, TypeInv
<1> HIDE DEF x
<1>8. Progress'
  BY <1>4, <1>6, <1>7 DEF Progress, Inv, Safe
<1>9. OwnRuns'
  BY <1>4, <1>7 DEF OwnRuns, Inv, Safe
<1>10. CacheHoldsAnswers'
  BY <1>4, <1>5 DEF CacheHoldsAnswers, Inv, Safe, TypeInv, TypeOK, Entry
<1>11. AnsweredRight'
  <2>1. ASSUME NEW s \in Routes, runs'[s].end = "answered"
        PROVE  /\ runs'[s] = runs[s] /\ runs[s].answer \in Routes /\ runs[s].answer # r
    <3>1. s # r
      BY <1>3, <1>4, <2>1
    <3>2. runs[s].answer # None /\ runs[runs[s].answer].valid
      BY <1>4, <2>1, <3>1 DEF Inv, Safe, AnsweredRight
    <3> QED
      BY <1>4, <1>5, <3>1, <3>2 DEF Inv, TypeInv, TypeOK, Run
  <2> QED
    BY <1>4, <2>1 DEF AnsweredRight, Inv, Safe
<1>12. TracesTell'
  <2>1. Tells(x)
    BY <1>3, UntracedTells
  <2> QED
    BY <1>4, <2>1 DEF TracesTell, Tells, Inv, Safe
<1> QED
  BY <1>8, <1>9, <1>10, <1>11, <1>12 DEF Safe

LEMMA SafeStep ==
  ASSUME Inv, [Next]_vars
  PROVE  Safe'
<1>1. CASE UNCHANGED <<runs, op, cache>>
  BY <1>1 DEF Inv, Safe, Progress, OwnRuns, CacheHoldsAnswers, AnsweredRight, TracesTell
<1>2. ASSUME NEW p \in Procs, ClearRead(p) \/ ClearCommit(p) PROVE Safe'
  <2>1. /\ \A q \in Procs \ {p} : op'[q] = op[q]
        /\ ~InRoute(op'[p])
        /\ runs' = runs
        /\ \A k \in DOMAIN cache' : k \in DOMAIN cache /\ cache'[k] = cache[k]
    BY <1>2 DEF ClearRead, ClearCommit, Inv, TypeInv, TypeOK, Idle, InRoute
  <2> QED
    BY <2>1 DEF Inv, Safe, Progress, OwnRuns, CacheHoldsAnswers, AnsweredRight, TracesTell
<1> QED
  BY <1>1, <1>2, LookupKeeps, MovesKeep DEF Next, vars, Connect, Disconnect, Tick

LEMMA SafeInit == Init => Inv
<1> SUFFICES ASSUME Init PROVE Safe
  BY TypeInit DEF Inv
<1>1. \A p \in Procs : ~InRoute(op[p])
  BY DEF Init, InRoute, Idle
<1>2. \A r \in Routes : runs[r].end = "unused" /\ Tells(runs[r])
  BY UntracedTells DEF Init, Unused
<1>3. DOMAIN cache = {}
  BY DEF Init
<1> QED
  BY <1>1, <1>2, <1>3 DEF Safe, Progress, OwnRuns, CacheHoldsAnswers, AnsweredRight, TracesTell, Tells

LEMMA SafeAlways == Spec => []Inv
<1>1. Inv /\ [Next]_vars => Inv'
  BY TypeStep, AskedStep, SafeStep DEF Inv, TypeInv
<1> QED
  BY SafeInit, <1>1, PTL DEF Spec

(* Nobody is answered out of the cache of another question, of another       *)
(* policy or of an answer validate rejected.                                 *)
THEOREM RightAnswers == Spec => []AnsweredRight
<1>1. Inv => AnsweredRight
  BY DEF Inv, Safe
<1> QED
  BY <1>1, SafeAlways, PTL

(* Only what the default policy paid for and validate accepted is cached.    *)
THEOREM CacheCorrect == Spec => []CacheHoldsAnswers
<1>1. Inv => CacheHoldsAnswers
  BY DEF Inv, Safe
<1> QED
  BY <1>1, SafeAlways, PTL

(* A route leaves at most one trace, and that trace tells whether it was     *)
(* paid.                                                                     *)
THEOREM OneTrueTrace == Spec => []TracesTell
<1>1. Inv => TracesTell
  BY DEF Inv, Safe
<1> QED
  BY <1>1, SafeAlways, PTL
-----------------------------------------------------------------------------
(* Operations that are apart. What a running one has read is still so: the   *)
(* entry it hit is there and fresh, the entry it is about to store is there  *)
(* or not as it found, and the model it selected is enabled.                 *)
HitStands(p) ==
  op[p].pc \in {"hit", "serve"} =>
    /\ Key(p) \in Questions /\ Cached(Key(p))
    /\ Ttl # 0 => cache[Key(p)].at + Ttl >= op[p].at
StoreStands(p) == op[p].pc = "commit" => Cached(Key(p)) = op[p].found
ModelStands(p) ==
  op[p].pc \in {"generate", "store", "commit", "trace", "return"} => op[p].model \in models
Undisturbed == \A p \in Procs : HitStands(p) /\ StoreStands(p) /\ ModelStands(p)
ApartInv == Inv /\ Apart /\ Undisturbed /\ NothingPaidIsLost

(* An operation that may commit to the cache, or has read from it what it    *)
(* relies on, counts the entry among its own.                                *)
LEMMA OwnEntry ==
  ASSUME Inv, NEW p \in Procs, op[p].pc \in {"hit", "serve", "store", "commit"}
  PROVE  InRoute(op[p]) /\ Key(p) \in Entries(p)
<1>1. InRoute(op[p]) /\ op[p] # Idle
  BY DEF InRoute, Idle
<1>2. runs[op[p].run].default
  BY <1>1 DEF Inv, Safe, Progress, Fits
<1> QED
  BY <1>1, <1>2 DEF Entries

(* An operation leaves all entries alone that are not its own.               *)
LEMMA OtherEntries ==
  ASSUME Inv, NEW p \in Procs, Advance(p), NEW k, k \notin Entries(p)
  PROVE  /\ k \in DOMAIN cache' <=> k \in DOMAIN cache
         /\ k \in DOMAIN cache => cache'[k] = cache[k]
<1>1. CASE StoreCommit(p)
  <2>1. k # Key(p)
    BY <1>1, OwnEntry DEF StoreCommit
  <2> QED
    BY <1>1, <2>1 DEF StoreCommit
<1>2. CASE ClearCommit(p)
  <2>1. k \notin op[p].keys
    BY <1>2 DEF ClearCommit, Entries, Idle
  <2> QED
    BY <1>2, <2>1 DEF ClearCommit
<1> QED
  BY <1>1, <1>2 DEF Advance, HitCommit, HitServe, Select, ReadAccount, GenerateFails,
     GenerateInvalid, GenerateOk, StoreRead, Trace, Return

(* What stands for an operation goes on standing when others take a step     *)
(* that leaves its entry, its run and its model.                             *)
LEMMA StandsStill ==
  ASSUME ApartInv, NEW q \in Procs, op'[q] = op[q],
         InRoute(op[q]) => runs'[op[q].run] = runs[op[q].run],
         \A k \in Entries(q) : /\ k \in DOMAIN cache' <=> k \in DOMAIN cache
                               /\ k \in DOMAIN cache => cache'[k] = cache[k],
         op[q].model \in models => op[q].model \in models'
  PROVE  HitStands(q)' /\ StoreStands(q)' /\ ModelStands(q)'
<1>1. HitStands(q) /\ StoreStands(q) /\ ModelStands(q) /\ Inv
  BY DEF ApartInv, Undisturbed
<1>2. ModelStands(q)'
  BY <1>1 DEF ModelStands
<1>3. ASSUME op[q].pc \in {"hit", "serve", "store", "commit"}
      PROVE  HitStands(q)' /\ StoreStands(q)'
  <2>1. InRoute(op[q]) /\ Key(q) \in Entries(q)
    BY <1>1, <1>3, OwnEntry
  <2>2. Key(q)' = Key(q)
    BY <2>1
  <2>3. /\ Key(q) \in DOMAIN cache' <=> Key(q) \in DOMAIN cache
        /\ Key(q) \in DOMAIN cache => cache'[Key(q)] = cache[Key(q)]
    BY <2>1
  <2> QED
    BY <1>1, <2>2, <2>3 DEF HitStands, StoreStands
<1> QED
  BY <1>2, <1>3 DEF HitStands, StoreStands

(* A model that is connected for a route under way stays so while it is.     *)
LEMMA ModelsStay ==
  ASSUME ApartInv, Apart', NEW q \in Procs, op'[q] = op[q], InRoute(op[q])
  PROVE  op[q].model \in models => op[q].model \in models'
<1>1. op'[q] # Idle /\ op'[q].pc # "clear"
  BY DEF InRoute, Idle
<1>2. models \subseteq Models
  BY DEF ApartInv, Inv, TypeInv, TypeOK
<1> QED
  BY <1>1, <1>2, NoneAssumption DEF Apart

(* A step of p, whose entries are its own, disturbs nobody else.             *)
LEMMA OthersStand ==
  ASSUME ApartInv, Apart', NEW p \in Procs, Advance(p), NEW q \in Procs, q # p
  PROVE  op'[q] = op[q] /\ HitStands(q)' /\ StoreStands(q)' /\ ModelStands(q)'
<1>1. op'[q] = op[q]
  <2>1. CASE ClearCommit(p)
    BY <2>1 DEF ClearCommit, ApartInv, Inv, TypeInv, TypeOK
  <2> QED
    BY <2>1, Frame DEF Concerns, ApartInv, Inv, TypeInv
<1>2. ASSUME InRoute(op[q]) PROVE runs'[op[q].run] = runs[op[q].run]
  <2>1. CASE ClearCommit(p)
    BY <2>1 DEF ClearCommit
  <2>2. CASE ~ClearCommit(p)
    <3>1. op[p] \in RouteOp /\ Concerns(p, op[p].run)
      BY <2>2, Frame DEF ApartInv, Inv, TypeInv
    <3>2. op[q].run \in Routes
      BY <1>2, RouteOps DEF InRoute, RouteOp, ApartInv, Inv, TypeInv
    <3>3. op[q].run # op[p].run
      BY <1>2, <3>1, RouteInRoute DEF ApartInv, Inv, Safe, OwnRuns
    <3> QED
      BY <3>1, <3>2, <3>3 DEF Concerns
  <2> QED
    BY <2>1, <2>2
<1>3. \A k \in Entries(q) : k \notin Entries(p)
  BY DEF ApartInv, Apart
<1>4. \A k \in Entries(q) : /\ k \in DOMAIN cache' <=> k \in DOMAIN cache
                            /\ k \in DOMAIN cache => cache'[k] = cache[k]
  BY <1>3, OtherEntries DEF ApartInv
<1>5. CASE InRoute(op[q])
  BY <1>1, <1>2, <1>4, <1>5, ModelsStay, StandsStill
<1>6. CASE ~InRoute(op[q])
  BY <1>1, <1>6 DEF InRoute, HitStands, StoreStands, ModelStands
<1> QED
  BY <1>1, <1>5, <1>6

(* The next steps of a route read what the last one has left.                *)
LEMMA RouteStands ==
  ASSUME ApartInv, NEW p \in Procs, Advance(p), ~ClearCommit(p)
  PROVE  HitStands(p)' /\ StoreStands(p)' /\ ModelStands(p)'
<1>1. op[p] \in RouteOp /\ Concerns(p, op[p].run)
  BY Frame DEF ApartInv, Inv, TypeInv
<1> DEFINE r == op[p].run
<1>2. /\ r \in Routes /\ runs'[r].key = runs[r].key
      /\ op \in [Procs -> RouteOp \cup ClearOp \cup {Idle}]
      /\ runs[r].key \in Questions
  BY <1>1, RouteInRoute DEF Concerns, RouteOp, ApartInv, Inv, TypeInv, TypeOK, Asked
<1>3. HitStands(p) /\ StoreStands(p) /\ ModelStands(p)
  BY DEF ApartInv, Undisturbed
<1>4. ASSUME op'[p] = Idle PROVE HitStands(p)' /\ StoreStands(p)' /\ ModelStands(p)'
  BY <1>4 DEF Idle, HitStands, StoreStands, ModelStands
<1>5. \A o : op' = [op EXCEPT ![p] = o] => op'[p] = o
  BY <1>2
<1> USE DEF HitStands, StoreStands, ModelStands
<1>6. CASE HitCommit(p)
  <2>1. CASE Goto(p, "serve")
    <3>1. op'[p] = [op[p] EXCEPT !.pc = "serve"]
      BY <1>2, <2>1
    <3>2. op'[p].pc = "serve" /\ op'[p].run = r /\ op'[p].at = op[p].at
      BY <1>1, <3>1 DEF RouteOp
    <3> QED
      BY <1>2, <1>3, <1>6, <3>2 DEF HitCommit
  <2> QED
    BY <1>4, <1>5, <1>6, <2>1 DEF HitCommit, Raise
<1>7. CASE HitServe(p)
  BY <1>4, <1>5, <1>7 DEF HitServe, Raise
<1>8. CASE Select(p)
  <2>1. ASSUME NEW m, op' = [op EXCEPT ![p].pc = "account", ![p].model = m]
        PROVE  op'[p].pc = "account"
    BY <1>1, <1>2, <2>1 DEF RouteOp
  <2> QED
    BY <1>4, <1>5, <1>8, <2>1 DEF Select, Raise, RaiseTraced
<1>9. CASE ReadAccount(p)
  <2>1. CASE op[p].model \in models /\ Goto(p, "generate")
    <3>1. op'[p] = [op[p] EXCEPT !.pc = "generate"]
      BY <1>2, <2>1
    <3>2. op'[p].pc = "generate" /\ op'[p].model = op[p].model
      BY <1>1, <3>1 DEF RouteOp
    <3> QED
      BY <1>9, <2>1, <3>2 DEF ReadAccount
  <2> QED
    BY <1>4, <1>5, <1>9, <2>1 DEF ReadAccount, Raise
<1>10. CASE GenerateFails(p) \/ GenerateInvalid(p)
  BY <1>4, <1>5, <1>10 DEF GenerateFails, GenerateInvalid, RaiseTraced
<1>11. CASE GenerateOk(p)
  <2>1. PICK pc \in {"store", "trace"} : Goto(p, pc)
    BY <1>11 DEF GenerateOk
  <2>2. op'[p] = [op[p] EXCEPT !.pc = pc]
    BY <1>2, <2>1
  <2>3. op'[p].pc = pc /\ op'[p].model = op[p].model
    BY <1>1, <2>2 DEF RouteOp
  <2> QED
    BY <1>3, <1>11, <2>3 DEF GenerateOk
<1>12. CASE StoreRead(p)
  <2>1. op'[p] = [op[p] EXCEPT !.pc = "commit", !.found = Cached(Key(p)), !.at = clock]
    BY <1>2, <1>12 DEF StoreRead
  <2>2. /\ op'[p].pc = "commit" /\ op'[p].found = Cached(Key(p))
        /\ op'[p].run = r /\ op'[p].model = op[p].model
    BY <1>1, <2>1 DEF RouteOp
  <2>3. UNCHANGED <<cache, runs, models>>
    BY <1>12 DEF StoreRead
  <2>4. op[p].model \in models
    BY <1>3, <1>12 DEF StoreRead
  <2>5. Key(p)' = Key(p)
    BY <2>2, <2>3
  <2>6. StoreStands(p)'
    BY <2>2, <2>3, <2>5
  <2>7. HitStands(p)' /\ ModelStands(p)'
    BY <2>2, <2>3, <2>4
  <2> QED
    BY <2>6, <2>7
<1>13. CASE StoreCommit(p)
  <2>1. CASE Goto(p, "trace")
    <3>1. op'[p] = [op[p] EXCEPT !.pc = "trace"]
      BY <1>2, <2>1
    <3>2. op'[p].pc = "trace" /\ op'[p].model = op[p].model
      BY <1>1, <3>1 DEF RouteOp
    <3> QED
      BY <1>3, <1>13, <3>2 DEF StoreCommit
  <2> QED
    BY <1>4, <1>5, <1>13, <2>1 DEF StoreCommit, Raise
<1>14. CASE Trace(p)
  <2>1. CASE Goto(p, "return")
    <3>1. op'[p] = [op[p] EXCEPT !.pc = "return"]
      BY <1>2, <2>1
    <3>2. op'[p].pc = "return" /\ op'[p].model = op[p].model
      BY <1>1, <3>1 DEF RouteOp
    <3> QED
      BY <1>3, <1>14, <3>2 DEF Trace
  <2> QED
    BY <1>4, <1>5, <1>14, <2>1 DEF Trace, Raise
<1>15. CASE Return(p)
  BY <1>4, <1>5, <1>15 DEF Return, Answer, Raise
<1> QED
  BY <1>6, <1>7, <1>8, <1>9, <1>10, <1>11, <1>12, <1>13, <1>14, <1>15 DEF Advance

(* A route under way is no route over; and if it ends, it has lost nothing.  *)
KeptOf(x) ==
  x.end \in {"answered", "failed"} =>
    /\ x.paid => \E s \in Statuses : x.traces[s] > 0
    /\ x.valid => x.end = "answered"

LEMMA RouteLosesNothing ==
  ASSUME ApartInv, NEW p \in Procs, Advance(p), ~ClearCommit(p)
  PROVE  KeptOf(runs'[op[p].run])
<1>1. op[p] \in RouteOp
  BY Frame DEF ApartInv, Inv, TypeInv
<1> DEFINE r == op[p].run
<1>2. r \in Routes /\ runs \in [Routes -> Run] /\ runs[r] \in Run
  BY <1>1 DEF RouteOp, ApartInv, Inv, TypeInv, TypeOK
<1>3. Fits(op[p], runs[r])
  BY <1>1, RouteInRoute DEF ApartInv, Inv, Safe, Progress
<1>4. HitStands(p) /\ StoreStands(p) /\ ModelStands(p)
  BY DEF ApartInv, Undisturbed
<1>5. runs[r].end = "running" /\ "running" \notin {"answered", "failed"}
  BY <1>3 DEF Fits
<1>6. ASSUME runs'[r].end = runs[r].end PROVE KeptOf(runs'[r])
  BY <1>5, <1>6 DEF KeptOf
<1>7. ASSUME ~runs'[r].paid, ~runs'[r].valid PROVE KeptOf(runs'[r])
  BY <1>7 DEF KeptOf
<1>8. \A s \in Statuses : runs[r].traces = Untraced => Traced(r, s)[s] = 1
  BY <1>2, FirstTrace DEF Untraced
<1>9. CASE op[p].pc \in {"hit", "serve", "select", "account"} \/ GenerateFails(p)
  <2>1. ~runs[r].paid /\ ~runs[r].valid
    BY <1>3, <1>9 DEF Fits, GenerateFails
  <2>2. runs'[r].paid = runs[r].paid /\ runs'[r].valid = runs[r].valid
    <3>1. CASE HitCommit(p)
      BY <1>2, <3>1 DEF HitCommit, Raise, Run
    <3>2. CASE HitServe(p)
      <4>1. CASE Raise(p, r)
        BY <1>2, <4>1 DEF Raise, Run
      <4>2. CASE runs' = [runs EXCEPT ![r].end = "answered", ![r].answer = cache[Key(p)].answer,
                                      ![r].traces = Traced(r, "hit")]
        BY <1>2, <4>2 DEF Run
      <4> QED
        BY <3>2, <4>1, <4>2 DEF HitServe
    <3>3. CASE Select(p)
      <4>1. CASE Raise(p, r) \/ RaiseTraced(p, r, "error")
        BY <1>2, <4>1 DEF Raise, RaiseTraced, Run
      <4>2. CASE runs' = [runs EXCEPT ![r].end = "estimated"]
        BY <1>2, <4>2 DEF Run
      <4>3. CASE runs' = runs
        BY <4>3
      <4> QED
        BY <3>3, Selections, <4>1, <4>2, <4>3
    <3>4. CASE ReadAccount(p) \/ GenerateFails(p)
      BY <1>2, <3>4 DEF ReadAccount, GenerateFails, Raise, RaiseTraced, Run
    <3> QED
      BY <1>9, <3>1, <3>2, <3>3, <3>4
         DEF Advance, GenerateInvalid, GenerateOk, StoreRead, StoreCommit, Trace, Return
  <2> QED
    BY <1>7, <2>1, <2>2
<1>10. CASE GenerateInvalid(p)
  <2>1. /\ runs'[r].traces = Traced(r, "invalid") /\ runs'[r].valid = runs[r].valid
    BY <1>2, <1>10 DEF GenerateInvalid, Run
  <2>2. ~runs[r].valid /\ runs[r].traces = Untraced
    BY <1>3, <1>10 DEF GenerateInvalid, Fits
  <2>3. runs'[r].traces["invalid"] > 0 /\ "invalid" \in Statuses
    BY <1>8, <2>1, <2>2 DEF Statuses
  <2> QED
    BY <2>1, <2>2, <2>3 DEF KeptOf
<1>11. CASE GenerateOk(p)
  BY <1>2, <1>6, <1>11 DEF GenerateOk, Run
<1>12. CASE StoreRead(p) \/ StoreCommit(p)
  BY <1>2, <1>4, <1>6, <1>12 DEF StoreRead, StoreCommit, StoreStands
<1>13. CASE Trace(p)
  BY <1>2, <1>4, <1>6, <1>13 DEF Trace, ModelStands, Run
<1>14. CASE Return(p)
  <2>1. Answer(p, r, r)
    BY <1>4, <1>14 DEF Return, ModelStands
  <2>2. runs'[r].end = "answered" /\ runs'[r].traces = runs[r].traces
    BY <1>2, <2>1 DEF Answer, Run
  <2>3. runs[r].traces["ok"] = 1 /\ "ok" \in Statuses
    BY <1>3, <1>14 DEF Return, Fits, Untraced, Statuses
  <2> QED
    BY <2>2, <2>3 DEF KeptOf
<1> QED
  BY <1>9, <1>10, <1>11, <1>12, <1>13, <1>14
     DEF Advance, HitCommit, HitServe, Select, ReadAccount

LEMMA ApartStep ==
  ASSUME ApartInv, Apart', [Next]_vars
  PROVE  ApartInv'
<1>1. Inv'
  BY TypeStep, AskedStep, SafeStep DEF ApartInv, Inv, TypeInv
<1>2. NothingPaidIsLost <=> \A r \in Routes : KeptOf(runs[r])
  BY DEF NothingPaidIsLost, KeptOf, WasTraced
<1>3. NothingPaidIsLost' <=> \A r \in Routes : KeptOf(runs'[r])
  BY DEF NothingPaidIsLost, KeptOf, WasTraced
<1>4. Inv /\ TypeInv /\ TypeOK /\ Undisturbed /\ NothingPaidIsLost
  BY DEF ApartInv, Inv, TypeInv
<1>5. ASSUME UNCHANGED <<op, runs, cache>> PROVE ApartInv'
  <2>1. ASSUME NEW q \in Procs PROVE HitStands(q)' /\ StoreStands(q)' /\ ModelStands(q)'
    <3>1. CASE InRoute(op[q])
      BY <1>5, <3>1, ModelsStay, StandsStill
    <3>2. CASE ~InRoute(op[q])
      BY <1>5, <3>2 DEF InRoute, HitStands, StoreStands, ModelStands
    <3> QED
      BY <3>1, <3>2
  <2> QED
    BY <1>1, <1>2, <1>3, <1>4, <1>5, <2>1 DEF ApartInv, Undisturbed
<1>6. ASSUME NEW p \in Procs, Advance(p), ~ClearCommit(p) PROVE ApartInv'
  <2>1. Undisturbed'
    BY <1>6, OthersStand, RouteStands DEF Undisturbed
  <2>2. \A s \in Routes \ {op[p].run} : runs'[s] = runs[s]
    BY <1>4, <1>6, Frame DEF Concerns
  <2> QED
    BY <1>1, <1>2, <1>3, <1>4, <1>6, <2>1, <2>2, RouteLosesNothing DEF ApartInv
<1>7. ASSUME NEW p \in Procs, ClearCommit(p) PROVE ApartInv'
  <2>1. Advance(p) /\ runs' = runs /\ op'[p] = Idle
    BY <1>4, <1>7 DEF ClearCommit, Advance, TypeOK
  <2>2. Undisturbed'
    BY <2>1, OthersStand DEF Undisturbed, HitStands, StoreStands, ModelStands, Idle
  <2> QED
    BY <1>1, <1>2, <1>3, <1>4, <2>1, <2>2 DEF ApartInv
<1>8. ASSUME NEW p \in Procs, ClearRead(p) PROVE ApartInv'
  <2>1. /\ UNCHANGED <<runs, cache, models>> /\ \A q \in Procs \ {p} : op'[q] = op[q]
        /\ op'[p].pc = "clear"
    BY <1>4, <1>8 DEF ClearRead, TypeOK
  <2>2. Undisturbed'
    BY <1>4, <2>1 DEF Undisturbed, HitStands, StoreStands, ModelStands
  <2> QED
    BY <1>1, <1>2, <1>3, <1>4, <2>1, <2>2 DEF ApartInv
<1>9. ASSUME NEW p \in Procs, Lookup(p) PROVE ApartInv'
  <2>1. PICK r \in Routes, k \in Questions, default, dry \in BOOLEAN :
          /\ runs[r] = Unused
          /\ runs' = [runs EXCEPT ![r] = [Unused EXCEPT !.key = k, !.default = default,
                                                        !.dry = dry, !.end = "running"]]
          /\ op' = [op EXCEPT ![p] =
               [pc |-> IF Consults(default) /\ Cached(k) /\ ~Expired(cache[k].at)
                       THEN "hit" ELSE "select",
                run |-> r, model |-> None, found |-> FALSE, at |-> clock]]
    BY <1>9, Zenon DEF Lookup
  <2>2. /\ runs'[r].key = k /\ runs'[r].end = "running"
        /\ \A s \in Routes \ {r} : runs'[s] = runs[s]
    BY <1>4, <2>1 DEF Unused, TypeOK
  <2>3. UNCHANGED <<cache, models>> /\ \A q \in Procs \ {p} : op'[q] = op[q]
    BY <1>4, <1>9, <2>1 DEF Lookup, TypeOK
  <2>4. /\ op'[p].pc \in {"hit", "select"} /\ op'[p].run = r /\ op'[p].at = clock
        /\ op'[p].pc = "hit" => Cached(k) /\ ~Expired(cache[k].at)
    BY <1>4, <2>1 DEF TypeOK
  <2>5. HitStands(p)'
    <3>1. \A e \in DOMAIN cache : cache[e].at \in Nat
      BY <1>4 DEF TypeOK, Entry
    <3>2. clock \in Nat
      BY <1>4 DEF TypeOK
    <3> QED
      BY <2>2, <2>3, <2>4, <3>1, <3>2, NumbersAssumption DEF HitStands, Expired
  <2>6. StoreStands(p)' /\ ModelStands(p)'
    BY <2>4 DEF StoreStands, ModelStands
  <2>7. ASSUME NEW q \in Procs, q # p PROVE HitStands(q)' /\ StoreStands(q)' /\ ModelStands(q)'
    <3>1. CASE InRoute(op[q])
      <4>1. op[q].run \in Routes
        BY <1>4, <3>1, RouteOps DEF InRoute, RouteOp
      <4>2. op[q].run # r
        BY <1>4, <2>1, <3>1 DEF Inv, Safe, Progress, Fits, Unused
      <4> QED
        BY <2>2, <2>3, <2>7, <4>1, <4>2, StandsStill
    <3>2. CASE ~InRoute(op[q])
      BY <2>3, <2>7, <3>2 DEF InRoute, HitStands, StoreStands, ModelStands
    <3> QED
      BY <3>1, <3>2
  <2>8. Undisturbed'
    BY <2>5, <2>6, <2>7 DEF Undisturbed
  <2>9. KeptOf(runs'[r])
    BY <2>2 DEF KeptOf
  <2> QED
    BY <1>1, <1>2, <1>3, <1>4, <2>2, <2>8, <2>9 DEF ApartInv
<1>10. CASE UNCHANGED vars
  BY <1>5, <1>10 DEF vars
<1>11. ASSUME NEW m \in Models, Connect(m) \/ Disconnect(m) PROVE ApartInv'
  BY <1>5, <1>11 DEF Connect, Disconnect
<1>12. CASE Tick
  BY <1>5, <1>12 DEF Tick
<1> QED
  BY <1>6, <1>7, <1>8, <1>9, <1>10, <1>11, <1>12 DEF Next

LEMMA ApartInit == Init => ApartInv
<1> SUFFICES ASSUME Init PROVE Apart /\ Undisturbed /\ NothingPaidIsLost
  BY SafeInit DEF ApartInv
<1>1. \A p \in Procs : op[p] = Idle
  BY DEF Init
<1>2. \A r \in Routes : runs[r].end = "unused"
  BY DEF Init, Unused
<1> QED
  BY <1>1, <1>2 DEF Apart, Entries, Undisturbed, HitStands, StoreStands, ModelStands, Idle,
     NothingPaidIsLost

LEMMA ApartAlways == ApartSpec => []ApartInv
<1>1. Apart /\ UNCHANGED vars => Apart'
  BY DEF Apart, Entries, vars
<1>2. ApartInv /\ [Next /\ Apart']_vars => ApartInv'
  BY <1>1, ApartStep DEF ApartInv
<1> QED
  BY ApartInit, <1>2, PTL DEF ApartSpec

(* When operations that overlap are about different cache entries, and no    *)
(* selected model is disconnected, a paid call leaves its trace and a valid  *)
(* answer reaches the user.                                                  *)
THEOREM PaidIsKept == ApartSpec => []NothingPaidIsLost
<1>1. ApartInv => NothingPaidIsLost
  BY DEF ApartInv
<1> QED
  BY ApartAlways, <1>1, PTL

(* Nor is a hit ever older than the TTL.                                     *)
THEOREM FreshHits == ApartSpec => HitsAreFresh
<1>1. ApartInv =>
        [\A p \in Procs : HitServe(p) /\ Cached(Key(p)) /\ Ttl # 0 =>
           cache[Key(p)].at + Ttl >= op[p].at]_vars
  BY DEF ApartInv, Undisturbed, HitStands, HitServe
<1> QED
  BY ApartAlways, <1>1, PTL DEF ApartSpec, HitsAreFresh

(* Nor does a commit ever fail: no shell's session is left broken.           *)
THEOREM SessionsWork == ApartSpec => [](broken = {})
<1>1. ApartInv /\ broken = {} /\ [Next /\ Apart']_vars => (broken = {})'
  <2> SUFFICES ASSUME ApartInv, broken = {}, Next PROVE broken' = {}
    BY DEF vars
  <2>1. \A p \in Procs : HitStands(p) /\ StoreStands(p)
    BY DEF ApartInv, Undisturbed
  <2>2. ASSUME NEW p \in Procs, HitCommit(p) PROVE broken' = {}
    BY <2>1, <2>2 DEF HitCommit, HitStands
  <2>3. ASSUME NEW p \in Procs, StoreCommit(p) PROVE broken' = {}
    BY <2>1, <2>3 DEF StoreCommit, StoreStands
  <2>4. ASSUME NEW p \in Procs, Lookup(p) \/ ClearRead(p) PROVE broken' = {}
    BY <2>4 DEF Lookup, ClearRead
  <2>5. ASSUME NEW p \in Procs, HitServe(p) \/ Select(p) \/ ReadAccount(p) PROVE broken' = {}
    BY <2>5 DEF HitServe, Select, ReadAccount
  <2>6. ASSUME NEW p \in Procs, GenerateFails(p) \/ GenerateInvalid(p) \/ GenerateOk(p)
        PROVE broken' = {}
    BY <2>6 DEF GenerateFails, GenerateInvalid, GenerateOk
  <2>7. ASSUME NEW p \in Procs, StoreRead(p) \/ Trace(p) \/ Return(p) \/ ClearCommit(p)
        PROVE broken' = {}
    BY <2>7 DEF StoreRead, Trace, Return, ClearCommit
  <2>8. ASSUME NEW m \in Models, Connect(m) \/ Disconnect(m) PROVE broken' = {}
    BY <2>8 DEF Connect, Disconnect
  <2>9. ASSUME Tick PROVE broken' = {}
    BY <2>9 DEF Tick
  <2> QED
    BY <2>2, <2>3, <2>4, <2>5, <2>6, <2>7, <2>8, <2>9 DEF Next, Advance
<1>2. Init => broken = {}
  BY DEF Init
<1> QED
  BY ApartAlways, <1>1, <1>2, PTL DEF ApartSpec
=============================================================================
