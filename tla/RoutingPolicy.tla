----------------------------- MODULE RoutingPolicy -----------------------------
(***************************************************************************)
(* What a route decides: core/model_selector.py and core/policy.py. Both    *)
(* are pure; a list of models is a set whose members carry their place in   *)
(* list_enabled, and a sort is the order it sorts by. All sorts of the code *)
(* are stable, so that every order below is total.                          *)
(*                                                                          *)
(* A model is [listed, provider, name, tier, price, caps, window]: price is *)
(* cost_per_1m_input + cost_per_1m_output in some integer unit (None is 0), *)
(* caps the supports_* flags that are set, window the context window (0     *)
(* when unknown). Scores are integers out of Grain. list_enabled hands over *)
(* enabled models only.                                                     *)
(***************************************************************************)
EXTENDS Integers, FiniteSetsExt

CONSTANTS
  LocalProviders,   \* _LOCAL_PROVIDERS: {"ollama"}
  Grain             \* a score of Grain is 1.0

ASSUME GrainAssumption == Grain \in Nat \ {0}

(* dict.get *)
Lookup(d, k, default) == IF k \in DOMAIN d THEN d[k] ELSE default

TIER_ORDER == [small |-> 0, balanced |-> 1, large |-> 2]
QUALITY_MIN_TIER == [cheap |-> "small", balanced |-> "small", best |-> "large"]
QUALITY_MAX_TIER == [cheap |-> "small", balanced |-> "balanced", best |-> "large"]
TASK_CAPABILITIES == [json_extract |-> {"json"}, vision |-> {"vision"}, tools |-> {"tools"}]
TASK_QUALITY_FLOOR == [simple |-> "small", json_extract |-> "balanced",
  reasoning |-> "balanced", vision |-> "balanced", tools |-> "balanced"]

Tier(m, default) == Lookup(TIER_ORDER, m.tier, default)

(* Weights are doubled. *)
Policy == [name : STRING, require : SUBSET {"local", "json", "tools"}, cost : Nat, quality : Nat,
           context : Nat, scorecard : Nat, floor : BOOLEAN]
DEFAULT_POLICY == [name |-> "default", require |-> {}, cost |-> 2, quality |-> 0,
                   context |-> 0, scorecard |-> 0, floor |-> FALSE]
AUTO_POLICY == [DEFAULT_POLICY EXCEPT !.name = "auto", !.scorecard = 4, !.floor = TRUE]
PRIVACY_POLICY == [DEFAULT_POLICY EXCEPT !.name = "privacy-first", !.require = {"local"}]
(* Mutant: the two weights swapped. *)
SwappedWeights == [DEFAULT_POLICY EXCEPT !.name = "quality-first", !.quality = 1, !.cost = 4]
QUALITY_POLICY == [DEFAULT_POLICY EXCEPT !.name = "quality-first", !.quality = 4, !.cost = 1]
(* Mutant: price first, evidence second. *)
PriceFirst == [DEFAULT_POLICY EXCEPT !.name = "benchmarked", !.scorecard = 1, !.cost = 6]
BENCHMARKED_POLICY == [DEFAULT_POLICY EXCEPT !.name = "benchmarked", !.scorecard = 6, !.cost = 1]

(* get_policy: presets by name; an unknown name routes by the default. *)
GetPolicy(name) ==
  CASE name \in {"auto", "fast"} -> AUTO_POLICY
    [] name \in {"privacy-first", "private", "local"} -> PRIVACY_POLICY
    [] name \in {"quality-first", "best", "deep"} -> QUALITY_POLICY
    [] name = "benchmarked" -> BENCHMARKED_POLICY
    [] OTHER -> DEFAULT_POLICY
(* Its values: what a route can be asked under. *)
POLICIES == {DEFAULT_POLICY, AUTO_POLICY, PRIVACY_POLICY, QUALITY_POLICY, BENCHMARKED_POLICY}

IsDefault(P) ==
  P.require = {} /\ P.quality = 0 /\ P.context = 0 /\ P.scorecard = 0 /\ ~P.floor

-----------------------------------------------------------------------------
(* model_selector. A request q is [task, quality, tokens, policy].          *)

AutoFloorTier(q) ==
  Max({TIER_ORDER[Lookup(TASK_QUALITY_FLOOR, q.task, "small")],
       TIER_ORDER[Lookup(QUALITY_MIN_TIER, q.quality, "small")]})

(* The order capable_models sorts in. *)
Cheaper(m, n) ==
  \/ m.price < n.price
  \/ m.price = n.price /\ m.listed < n.listed

(* 20% of the window are kept free for the answer. *)
CapableModels(models, q) ==
  {m \in models : /\ Lookup(TASK_CAPABILITIES, q.task, {}) \subseteq m.caps
                  /\ m.window # 0 => 5 * m.window >= 6 * q.tokens}

(* Mutant: the upper end of the tier range is not looked at. *)
UncappedCandidates(models, q) ==
  {m \in CapableModels(models, q) :
     TIER_ORDER[Lookup(QUALITY_MIN_TIER, q.quality, "small")] <= Tier(m, 99)}
Candidates(models, q) ==
  {m \in CapableModels(models, q) :
     /\ TIER_ORDER[Lookup(QUALITY_MIN_TIER, q.quality, "small")] <= Tier(m, 99)
     /\ Tier(m, 99) <= TIER_ORDER[Lookup(QUALITY_MAX_TIER, q.quality, "large")]}

-----------------------------------------------------------------------------
(* policy *)

PassesHardFilters(m, P) ==
  /\ "local" \in P.require => m.provider \in LocalProviders
  /\ "json" \in P.require => "json" \in m.caps
  /\ "tools" \in P.require => "tools" \in m.caps

(* Mutants: the hard filters are not applied again when the floor is out of *)
(* reach; the floor is an upper bound.                                      *)
UnfilteredAutoPool(models, q) ==
  LET capable == CapableModels(models, q)
      clearing == {m \in capable : /\ Tier(m, 0) >= AutoFloorTier(q)
                                   /\ PassesHardFilters(m, q.policy)}
  IN IF clearing # {} THEN clearing ELSE capable
CeilingAutoPool(models, q) ==
  {m \in CapableModels(models, q) : /\ Tier(m, 0) <= AutoFloorTier(q)
                                    /\ PassesHardFilters(m, q.policy)}
(* _auto_pool: the capable models that clear the task's floor, or all the   *)
(* capable ones when none does.                                             *)
AutoPool(models, q) ==
  LET capable == {m \in CapableModels(models, q) : PassesHardFilters(m, q.policy)}
      clearing == {m \in capable : Tier(m, 0) >= AutoFloorTier(q)}
  IN IF clearing # {} THEN clearing ELSE capable

Pool(models, q) ==
  IF q.policy.floor THEN AutoPool(models, q)
  ELSE {m \in Candidates(models, q) : PassesHardFilters(m, q.policy)}

(* _score, times 4 * dearest * widest * Grain. *)
Score(m, P, pool, scores) ==
  LET dearest == Max({x.price : x \in pool} \cup {0})
      widest == Max({x.window : x \in pool} \cup {0})
      C == IF dearest = 0 THEN 1 ELSE dearest
      X == IF widest = 0 THEN 1 ELSE widest
  IN 2 * P.cost * (C - m.price) * X * Grain
       + P.quality * Tier(m, 0) * C * X * Grain
       + 2 * P.context * m.window * C * Grain
       + 2 * P.scorecard * Lookup(scores, m.name, 0) * C * X

(* The pool with its scores, and the order decide ranks it in: by price      *)
(* under the default policy, by score and then price under an explicit one. *)
Scored(P, pool, scores) == {[model |-> m, score |-> Score(m, P, pool, scores)] : m \in pool}
Preferred(x, y, P) ==
  IF IsDefault(P) \/ x.score = y.score THEN Cheaper(x.model, y.model) ELSE x.score > y.score

Best(ranked, P) == {x.model : x \in {y \in ranked : \A z \in ranked \ {y} : Preferred(y, z, P)}}

(* decide: the winner, as a set of at most one model (the pool is bound in a *)
(* set for TLC to evaluate it once),                                        *)
Choice(models, q, scores) ==
  UNION {Best(Scored(q.policy, pool, scores), q.policy) : pool \in {Pool(models, q)}}

(* and the fallback: the ranking, in its order, without the models that have *)
(* the winner's external_model_id.                                           *)
Fallback(models, q, scores) ==
  LET taken == {m.name : m \in Choice(models, q, scores)}
  IN {x \in Scored(q.policy, Pool(models, q), scores) : x.model.name \notin taken}
=============================================================================
