-------------------------------- MODULE Routing --------------------------------
(***************************************************************************)
(* What changes between two routes: the enabled models (list_enabled) and   *)
(* the scorecards of the user's benchmark runs. What a route would decide   *)
(* is a function of both (RoutingPolicy); the properties below hold of      *)
(* every request at every moment, or compare its answers before and after a *)
(* change.                                                                  *)
(***************************************************************************)
EXTENDS RoutingPolicy

CONSTANTS
  Catalogue,   \* the models the user's sources may list
  TaskSets,    \* ids of task sets
  Requests,    \* [task, quality, tokens, policy, scope]: scope is --task-set
  None,
  MaxModels,   \* bound: enabled models
  MaxCards     \* bound: scorecards

(* What sources list has one of three tiers.                                 *)
ASSUME CatalogueAssumption ==
  \A m \in Catalogue : /\ m.listed \in Nat /\ m.price \in Nat /\ m.window \in Nat
                       /\ m.tier \in {"small", "balanced", "large"}
Request == [task : STRING, quality : STRING, tokens : Nat,
            policy : Policy, scope : TaskSets \cup {None}]
ASSUME RequestsAssumption == Requests \subseteq Request
(* Policies that read no scorecards are asked for by name.                   *)
ASSUME PoliciesAssumption == \A q \in Requests : q.policy.scorecard = 0 => q.policy \in POLICIES
ASSUME MaxModelsAssumption == MaxModels \in Nat

VARIABLES
  models,   \* the enabled models
  cards     \* the scorecards table: [set, name, score]

vars == <<models, cards>>

Card == [set : TaskSets, name : {m.name : m \in Catalogue}, score : 0..Grain]

TypeOK ==
  /\ models \subseteq Catalogue
  /\ \A m, n \in models : m.listed = n.listed => m = n
  /\ cards \subseteq Card

-----------------------------------------------------------------------------
Scoped(scope) == {c \in cards : scope # None => c.set = scope}

(* Mutant: the worst score of a model. *)
WorstByModel(scope) ==
  [n \in {c.name : c \in Scoped(scope)} |-> Min({c.score : c \in {d \in Scoped(scope) : d.name = n}})]
(* scores_by_model: the best score per external_model_id, of one task set   *)
(* or of all.                                                               *)
ScoresByModel(scope) ==
  [n \in {c.name : c \in Scoped(scope)} |-> Max({c.score : c \in {d \in Scoped(scope) : d.name = n}})]

(* The part of route that chooses: only scorecard-aware policies load the   *)
(* scores.                                                                  *)
Evidence(q) == IF q.policy.scorecard = 0 THEN <<>> ELSE ScoresByModel(q.scope)
Selected(q) == Choice(models, q, Evidence(q))
Alternatives(q) == {x.model : x \in Fallback(models, q, Evidence(q))}

(* Mutant: the row m already has stays as well. *)
AddRow(m) ==
  /\ models' = models \cup {m}
  /\ Cardinality(models') <= MaxModels
  /\ UNCHANGED cards
(* A source lists m: a new row, or the refresh of the row it has.           *)
Refresh(m) ==
  /\ models' = {n \in models : n.listed # m.listed} \cup {m}
  /\ Cardinality(models') <= MaxModels
  /\ UNCHANGED cards

(* The account of m is disconnected. *)
Withdraw(m) ==
  /\ m \in models
  /\ models' = models \ {m}
  /\ UNCHANGED cards

(* A benchmark run has ended: one card for each of its models, which were   *)
(* enabled when it began. Module BenchmarkRouting shows that nothing else    *)
(* happens to scores.                                                       *)
RunBenchmark(set, rows) ==
  /\ Cardinality(cards) + Cardinality(rows) <= MaxCards
  /\ \E score \in [rows -> 0..Grain] :
       cards' = cards \cup
         {[set |-> set, name |-> m.name, score |-> score[m]] : m \in rows}
  /\ UNCHANGED models

Init == models = {} /\ cards = {}

Next ==
  \/ \E m \in Catalogue : Refresh(m) \/ Withdraw(m)
  \/ \E set \in TaskSets, rows \in SUBSET Catalogue :
       rows # {} /\ RunBenchmark(set, rows)

Spec == Init /\ [][Next]_vars

-----------------------------------------------------------------------------
(* "The candidate pool comes from model_selector.candidates, and the winner  *)
(* is its cheapest member": the default route answers with a model that      *)
(* meets the task's capabilities, leaves 20% of its window free and lies in  *)
(* the quality's tier range, no such model is cheaper, and it refuses only   *)
(* when there is none.                                                       *)
InRange(m, quality) ==
  CASE quality = "cheap" -> m.tier = "small"
    [] quality = "balanced" -> m.tier \in {"small", "balanced"}
    [] quality = "best" -> m.tier = "large"
    [] OTHER -> TRUE
Eligible(q) ==
  {m \in models : /\ q.task = "json_extract" => "json" \in m.caps
                  /\ q.task = "tools" => "tools" \in m.caps
                  /\ q.task = "vision" => "vision" \in m.caps
                  /\ m.window = 0 \/ 10 * m.window >= 12 * q.tokens
                  /\ InRange(m, q.quality)}
DefaultIsCheapest ==
  \A q \in Requests : IsDefault(q.policy) =>
    /\ Selected(q) \subseteq Eligible(q)
    /\ Selected(q) = {} <=> Eligible(q) = {}
    /\ \A m \in Selected(q), n \in Eligible(q) : m.price <= n.price

(* "A local-only policy never falls back to cloud": neither the winner nor   *)
(* an entry of the fallback chain is a model of another machine, also when   *)
(* an Auto floor is out of reach of the local models.                        *)
StaysLocal ==
  \A q \in Requests : "local" \in q.policy.require =>
    \A m \in Selected(q) \cup Alternatives(q) : m.provider \in LocalProviders

(* Auto answers with a model below the task's floor only if no capable model *)
(* reaches it, and refuses only if no model is capable at all; `--quality    *)
(* best` asks for a large one, and nothing asks for less than the task does. *)
AutoKeepsFloor ==
  \A q \in Requests : q.policy = AUTO_POLICY =>
    LET capable == Eligible([q EXCEPT !.quality = "any"])
        floor == IF q.quality = "best" THEN {"large"}
                 ELSE IF q.task \in {"json_extract", "reasoning", "vision", "tools"}
                 THEN {"balanced", "large"}
                 ELSE {"small", "balanced", "large"}
    IN /\ Selected(q) = {} <=> capable = {}
       /\ \A m \in Selected(q) : m.tier \in floor \/ \A n \in capable : n.tier \notin floor

(* "A high score on the user's own task sets dominates": whatever the prices *)
(* and the rest of the pool, `benchmarked` chooses no model if another's     *)
(* score is more than a sixth better, nor Auto if it is more than half.      *)
EvidenceDominates ==
  \A q \in Requests :
    LET Of(m) == Lookup(Evidence(q), m.name, 0)
        margin == CASE q.policy = BENCHMARKED_POLICY -> 6
                    [] q.policy = AUTO_POLICY -> 2
                    [] OTHER -> 0
    IN \A m \in Selected(q), n \in Pool(models, q) : margin * (Of(n) - Of(m)) <= Grain

(* Evidence only speaks for the models it is about: after a benchmark run a  *)
(* route that reads scorecards answers as before, or with a model of a name  *)
(* that was run. A run that goes worse than an earlier one takes nothing     *)
(* away.                                                                     *)
BenchmarkMovesOnlyItsModels ==
  [][models' = models =>
       \A q \in {r \in Requests : r.policy.scorecard > 0} :
         \/ Selected(q)' = Selected(q)
         \/ \A m \in Selected(q)' : \E c \in cards' \ cards : c.name = m.name]_vars

(* A model that was not going to be chosen may leave unnoticed: although     *)
(* prices are weighed against the dearest of the pool, no policy that looks  *)
(* at tier and price alone answers differently without it.                   *)
LosersDoNotMatter ==
  [][\A m \in Catalogue : Withdraw(m) =>
       \A q \in Requests : q.policy.scorecard = 0 /\ m \notin Selected(q)
                             => Selected(q)' = Selected(q)]_vars

=============================================================================
