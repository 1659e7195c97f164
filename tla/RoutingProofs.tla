----------------------------- MODULE RoutingProofs -----------------------------
(* Proofs about Routing, for any catalogue and any requests.                 *)
EXTENDS Routing, TLAPS, FiniteSetTheorems, WellFoundedInduction

LEMMA Least ==
  ASSUME NEW T, T \subseteq Nat, T # {}
  PROVE  \E x \in T : \A y \in T : x <= y
<1> DEFINE Less == {s \in Nat \X Nat : s[1] < s[2]}
<1>1. IsWellFoundedOn(Less, Nat)
    BY NatLessThanWellFounded DEF OpToRel
<1>2. PICK x \in T : \A y \in T : <<y, x>> \notin Less
  <2> HIDE DEF Less
  <2> QED
      BY <1>1, WFMin
<1>3. \A y \in T : ~ (y < x)
    BY <1>2
<1> QED
    BY <1>3

(* A finite set of integers has a greatest.                                  *)
LEMMA Greatest ==
  ASSUME NEW S, S \subseteq Int, IsFiniteSet(S), S # {}
  PROVE  \E x \in S : \A y \in S : x >= y
<1> DEFINE Has(U) == \E x \in U : \A y \in U : x >= y
           bad == {n \in Nat : \E U \in SUBSET Int :
                     IsFiniteSet(U) /\ U # {} /\ Cardinality(U) = n /\ ~Has(U)}
<1>1. SUFFICES ASSUME ~Has(S) PROVE FALSE
    OBVIOUS
<1>2. Cardinality(S) \in bad
    BY <1>1, FS_CardinalityType
<1>3. PICK n \in bad : \A k \in bad : n <= k
  <2> HIDE DEF bad
  <2>1. bad \subseteq Nat
      BY DEF bad
  <2> QED
      BY <1>2, <2>1, Least
<1>4. PICK U \in SUBSET Int : IsFiniteSet(U) /\ U # {} /\ Cardinality(U) = n /\ ~Has(U)
    OBVIOUS
<1>5. PICK x \in U : TRUE
    BY <1>4
<1> DEFINE V == U \ {x}
<1>6. IsFiniteSet(V) /\ Cardinality(V) = n - 1 /\ V \in SUBSET Int
    BY <1>4, <1>5, FS_RemoveElement
<1>7. Has(V) \/ V = {}
  <2>1. Cardinality(V) \in Nat /\ ~(n <= Cardinality(V))
      BY <1>6, FS_CardinalityType
  <2>2. Cardinality(V) \notin bad
      BY <1>3, <2>1
  <2> QED
      BY <1>6, <2>1, <2>2
<1>8. CASE V = {}
  <2>1. U = {x}
      BY <1>5, <1>8
  <2> QED
      BY <1>4, <2>1
<1>9. CASE Has(V)
  <2>1. PICK y \in V : \A k \in V : y >= k
      BY <1>9
  <2>2. CASE y >= x
      BY <1>4, <2>1, <2>2
  <2>3. CASE ~(y >= x)
      BY <1>4, <2>1, <2>3
  <2> QED
      BY <2>2, <2>3
<1> QED
    BY <1>7, <1>8, <1>9

-----------------------------------------------------------------------------
(* Types, and that only finitely many models are enabled at a time.          *)
Inv == TypeOK /\ IsFiniteSet(models)

LEMMA InvInit == Init => Inv
BY FS_EmptySet DEF Init, Inv, TypeOK

LEMMA InvStep == Inv /\ [Next]_vars => Inv'
<1> SUFFICES ASSUME Inv, [Next]_vars PROVE Inv'
    OBVIOUS
<1>1. CASE UNCHANGED vars
    BY <1>1 DEF Inv, TypeOK, vars, Card
<1>2. ASSUME NEW m \in Catalogue, Refresh(m) PROVE Inv'
  <2> DEFINE rest == {n \in models : n.listed # m.listed}
  <2>1. models' = rest \cup {m} /\ cards' = cards
      BY <1>2 DEF Refresh
  <2>2. IsFiniteSet(rest) /\ rest \subseteq models
      BY FS_Subset DEF Inv
  <2>3. IsFiniteSet(models')
      BY <2>1, <2>2, FS_AddElement
  <2> QED
      BY <2>1, <2>3 DEF Inv, TypeOK
<1>3. ASSUME NEW m \in Catalogue, Withdraw(m) PROVE Inv'
  <2>1. models' = models \ {m} /\ cards' = cards
      BY <1>3 DEF Withdraw
  <2>2. IsFiniteSet(models')
      BY <2>1, FS_RemoveElement DEF Inv
  <2> QED
      BY <2>1, <2>2 DEF Inv, TypeOK
<1>4. ASSUME NEW set \in TaskSets, NEW rows \in SUBSET Catalogue, RunBenchmark(set, rows) PROVE Inv'
  <2>1. PICK score \in [rows -> 0..Grain] :
          cards' = cards \cup {[set |-> set, name |-> m.name, score |-> score[m]] : m \in rows}
      BY <1>4 DEF RunBenchmark
  <2>2. \A m \in rows : [set |-> set, name |-> m.name, score |-> score[m]] \in Card
      BY DEF Card
  <2>3. cards' \subseteq Card
      BY <2>1, <2>2 DEF Inv, TypeOK
  <2>4. models' = models
      BY <1>4 DEF RunBenchmark
  <2> QED
      BY <2>3, <2>4 DEF Inv, TypeOK, Card
<1> QED
    BY <1>1, <1>2, <1>3, <1>4 DEF Next

(* Every state is of its type: in particular no two enabled models share a   *)
(* place in the list.                                                        *)
THEOREM TypeCorrect == Spec => []TypeOK
<1>1. Inv => TypeOK
    BY DEF Inv
<1> QED
    BY <1>1, InvInit, InvStep, PTL DEF Spec

-----------------------------------------------------------------------------
(* The cheapest of any models is one of them.                                *)
Listed(S) == S \subseteq Catalogue /\ \A m, n \in S : m.listed = n.listed => m = n

LEMMA Cheapest ==
  ASSUME NEW S, Listed(S), S # {}
  PROVE  \E m \in S : \A n \in S \ {m} : Cheaper(m, n)
<1>1. \A m \in S : m.price \in Nat /\ m.listed \in Nat
    BY CatalogueAssumption DEF Listed
<1>2. PICK m1 \in S : \A n \in S : m1.price <= n.price
  <2> DEFINE prices == {m.price : m \in S}
  <2>1. PICK p \in prices : \A x \in prices : p <= x
    <3>1. prices \subseteq Nat /\ prices # {}
        BY <1>1
    <3> HIDE DEF prices
    <3> QED
        BY <3>1, Least
  <2> QED
      BY <2>1
<1> DEFINE low == {n \in S : n.price = m1.price}
<1>3. PICK m \in low : \A n \in low : m.listed <= n.listed
  <2> DEFINE places == {n.listed : n \in low}
  <2>1. PICK p \in places : \A x \in places : p <= x
    <3>1. places \subseteq Nat /\ places # {}
        BY <1>1
    <3> HIDE DEF places
    <3> QED
        BY <3>1, Least
  <2> QED
      BY <2>1
<1>4. ASSUME NEW n \in S \ {m} PROVE Cheaper(m, n)
  <2>1. m \in S /\ m.price = m1.price /\ m1.price <= n.price
      BY <1>2
  <2>2. m.listed # n.listed
      BY <2>1 DEF Listed
  <2>3. CASE n.price = m1.price
    <3>1. m.listed <= n.listed
        BY <1>3, <2>3
    <3> QED
        BY <1>1, <2>1, <2>2, <2>3, <3>1 DEF Cheaper
  <2>4. CASE n.price # m1.price
      BY <1>1, <2>1, <2>4 DEF Cheaper
  <2> QED
      BY <2>3, <2>4
<1> QED
    BY <1>4

(* What is chosen is in the pool, and is preferred to all else in it.        *)
LEMMA ChosenFacts ==
  ASSUME NEW q, NEW scores
  PROVE  Choice(models, q, scores) =
           {m \in Pool(models, q) :
              \A n \in Pool(models, q) \ {m} :
                IF IsDefault(q.policy)
                   \/ Score(m, q.policy, Pool(models, q), scores) = Score(n, q.policy, Pool(models, q), scores)
                THEN Cheaper(m, n)
                ELSE Score(m, q.policy, Pool(models, q), scores) > Score(n, q.policy, Pool(models, q), scores)}
<1> DEFINE pool == Pool(models, q)
           s(m) == Score(m, q.policy, pool, scores)
           ranked == {[model |-> m, score |-> s(m)] : m \in pool}
           beats(m, n) == IF IsDefault(q.policy) \/ s(m) = s(n) THEN Cheaper(m, n) ELSE s(m) > s(n)
<1>1. Choice(models, q, scores) = Best(Scored(q.policy, pool, scores), q.policy)
    BY DEF Choice
<1>2. Scored(q.policy, pool, scores) = ranked
    BY DEF Scored
<1>3. Best(ranked, q.policy) = {x.model : x \in {y \in ranked : \A z \in ranked \ {y} : Preferred(y, z, q.policy)}}
    BY DEF Best
<1>4. \A m, n \in pool : Preferred([model |-> m, score |-> s(m)], [model |-> n, score |-> s(n)], q.policy) <=> beats(m, n)
    BY DEF Preferred
<1> HIDE DEF beats
<1>5. ASSUME NEW m \in pool
      PROVE  (\A z \in ranked \ {[model |-> m, score |-> s(m)]} :
                Preferred([model |-> m, score |-> s(m)], z, q.policy))
             <=> \A n \in pool \ {m} : beats(m, n)
  <2> HIDE DEF s, pool
  <2>1. ASSUME \A n \in pool \ {m} : beats(m, n),
               NEW z \in ranked \ {[model |-> m, score |-> s(m)]}
        PROVE  Preferred([model |-> m, score |-> s(m)], z, q.policy)
    <3>1. PICK n \in pool : z = [model |-> n, score |-> s(n)]
        OBVIOUS
    <3>2. n # m
        BY <3>1
    <3> QED
        BY <1>4, <2>1, <3>1, <3>2
  <2>2. ASSUME \A z \in ranked \ {[model |-> m, score |-> s(m)]} :
                 Preferred([model |-> m, score |-> s(m)], z, q.policy),
               NEW n \in pool \ {m}
        PROVE  beats(m, n)
    <3>1. [model |-> n, score |-> s(n)] \in ranked
        OBVIOUS
    <3>2. [model |-> n, score |-> s(n)] # [model |-> m, score |-> s(m)]
        OBVIOUS
    <3> QED
        BY <1>4, <2>2, <3>1, <3>2
  <2> QED
      BY <2>1, <2>2
<1>6. Best(ranked, q.policy) = {m \in pool : \A n \in pool \ {m} : beats(m, n)}
  <2> HIDE DEF s, pool
  <2>1. ASSUME NEW m \in Best(ranked, q.policy)
        PROVE  m \in pool /\ \A n \in pool \ {m} : beats(m, n)
    <3>1. PICK y \in ranked : m = y.model /\ \A z \in ranked \ {y} : Preferred(y, z, q.policy)
        BY <1>3
    <3>2. PICK k \in pool : y = [model |-> k, score |-> s(k)]
        OBVIOUS
    <3>3. m = k
        BY <3>1, <3>2
    <3> QED
        BY <1>5, <3>1, <3>2, <3>3
  <2>2. ASSUME NEW m \in pool, \A n \in pool \ {m} : beats(m, n)
        PROVE  m \in Best(ranked, q.policy)
    <3>1. [model |-> m, score |-> s(m)] \in ranked
        OBVIOUS
    <3>2. \A z \in ranked \ {[model |-> m, score |-> s(m)]} : Preferred([model |-> m, score |-> s(m)], z, q.policy)
        BY <1>5, <2>2
    <3> QED
        BY <1>3, <3>1, <3>2
  <2> QED
      BY <2>1, <2>2
<1> QED
    BY <1>1, <1>2, <1>6 DEF beats

LEMMA ModelFacts ==
  ASSUME Inv, NEW m \in models
  PROVE  /\ m.listed \in Nat /\ m.price \in Nat /\ m.window \in Nat
         /\ m.tier \in {"small", "balanced", "large"}
         /\ Tier(m, 99) = TIER_ORDER[m.tier] /\ Tier(m, 0) = TIER_ORDER[m.tier]
         /\ Tier(m, 0) \in 0..2
<1>1. /\ m.listed \in Nat /\ m.price \in Nat /\ m.window \in Nat
      /\ m.tier \in {"small", "balanced", "large"}
    BY CatalogueAssumption DEF Inv, TypeOK
<1>2. DOMAIN TIER_ORDER = {"small", "balanced", "large"}
    BY DEF TIER_ORDER
<1> QED
    BY <1>1, <1>2 DEF Tier, Lookup, TIER_ORDER

-----------------------------------------------------------------------------
(* The default policy. Its pool is what the definition of Eligible spells    *)
(* out.                                                                      *)
LEMMA CapableFacts ==
  ASSUME Inv, NEW q \in Requests, NEW m \in models
  PROVE  m \in CapableModels(models, q) <=>
           /\ q.task = "json_extract" => "json" \in m.caps
           /\ q.task = "tools" => "tools" \in m.caps
           /\ q.task = "vision" => "vision" \in m.caps
           /\ m.window = 0 \/ 10 * m.window >= 12 * q.tokens
<1>1. q.tokens \in Nat /\ m.window \in Nat
    BY RequestsAssumption, ModelFacts DEF Request
<1>2. (m.window # 0 => 5 * m.window >= 6 * q.tokens) <=> (m.window = 0 \/ 10 * m.window >= 12 * q.tokens)
    BY <1>1
<1>3. Lookup(TASK_CAPABILITIES, q.task, {}) \subseteq m.caps <=>
        /\ q.task = "json_extract" => "json" \in m.caps
        /\ q.task = "tools" => "tools" \in m.caps
        /\ q.task = "vision" => "vision" \in m.caps
  <2>1. DOMAIN TASK_CAPABILITIES = {"json_extract", "vision", "tools"}
      BY DEF TASK_CAPABILITIES
  <2>2. CASE q.task = "json_extract"
      BY <2>1, <2>2 DEF Lookup, TASK_CAPABILITIES
  <2>3. CASE q.task = "vision"
      BY <2>1, <2>3 DEF Lookup, TASK_CAPABILITIES
  <2>4. CASE q.task = "tools"
      BY <2>1, <2>4 DEF Lookup, TASK_CAPABILITIES
  <2>5. CASE q.task \notin {"json_extract", "vision", "tools"}
      BY <2>1, <2>5 DEF Lookup
  <2> QED
      BY <2>2, <2>3, <2>4, <2>5
<1> QED
    BY <1>2, <1>3 DEF CapableModels

LEMMA RangeFacts ==
  ASSUME Inv, NEW m \in models, NEW quality
  PROVE  InRange(m, quality) <=>
           /\ TIER_ORDER[Lookup(QUALITY_MIN_TIER, quality, "small")] <= Tier(m, 99)
           /\ Tier(m, 99) <= TIER_ORDER[Lookup(QUALITY_MAX_TIER, quality, "large")]
<1>1. m.tier \in {"small", "balanced", "large"} /\ Tier(m, 99) = TIER_ORDER[m.tier]
    BY ModelFacts
<1>2. /\ TIER_ORDER["small"] = 0 /\ TIER_ORDER["balanced"] = 1 /\ TIER_ORDER["large"] = 2
      /\ DOMAIN QUALITY_MIN_TIER = {"cheap", "balanced", "best"}
      /\ DOMAIN QUALITY_MAX_TIER = {"cheap", "balanced", "best"}
    BY DEF TIER_ORDER, QUALITY_MIN_TIER, QUALITY_MAX_TIER
<1>3. CASE quality = "cheap"
    BY <1>1, <1>2, <1>3 DEF InRange, Lookup, QUALITY_MIN_TIER, QUALITY_MAX_TIER
<1>4. CASE quality = "balanced"
    BY <1>1, <1>2, <1>4 DEF InRange, Lookup, QUALITY_MIN_TIER, QUALITY_MAX_TIER
<1>5. CASE quality = "best"
    BY <1>1, <1>2, <1>5 DEF InRange, Lookup, QUALITY_MIN_TIER, QUALITY_MAX_TIER
<1>6. CASE quality \notin {"cheap", "balanced", "best"}
    BY <1>1, <1>2, <1>6 DEF InRange, Lookup
<1> QED
    BY <1>3, <1>4, <1>5, <1>6

LEMMA DefaultPool ==
  ASSUME Inv, NEW q \in Requests, IsDefault(q.policy)
  PROVE  Pool(models, q) = Eligible(q)
<1>1. \A m \in models : PassesHardFilters(m, q.policy)
    BY DEF IsDefault, PassesHardFilters
<1>2. Pool(models, q) = {m \in Candidates(models, q) : PassesHardFilters(m, q.policy)}
    BY DEF IsDefault, Pool
<1>3. ASSUME NEW m \in models PROVE m \in Candidates(models, q) <=> m \in Eligible(q)
  <2>1. m \in Candidates(models, q) <=> m \in CapableModels(models, q) /\ InRange(m, q.quality)
      BY RangeFacts DEF Candidates
  <2> QED
      BY <2>1, CapableFacts DEF Eligible
<1> QED
    BY <1>1, <1>2, <1>3 DEF Candidates, CapableModels, Eligible

(* The default route answers with a cheapest eligible model, and refuses     *)
(* only when there is none.                                                  *)
THEOREM DefaultChoosesCheapest == Spec => []DefaultIsCheapest
<1>1. Inv => DefaultIsCheapest
  <2> SUFFICES ASSUME Inv, NEW q \in Requests, IsDefault(q.policy)
               PROVE  /\ Selected(q) \subseteq Eligible(q)
                      /\ Selected(q) = {} <=> Eligible(q) = {}
                      /\ \A m \in Selected(q), n \in Eligible(q) : m.price <= n.price
      BY DEF DefaultIsCheapest
  <2>1. Selected(q) = {m \in Eligible(q) : \A n \in Eligible(q) \ {m} : Cheaper(m, n)}
      BY DefaultPool, ChosenFacts DEF Selected
  <2>2. Eligible(q) \subseteq models /\ Listed(Eligible(q))
      BY DEF Eligible, Listed, Inv, TypeOK
  <2>3. \A m \in Eligible(q) : m.price \in Nat
      BY <2>2, ModelFacts
  <2>4. Eligible(q) # {} => Selected(q) # {}
      BY <2>1, <2>2, Cheapest
  <2>5. \A m \in Selected(q), n \in Eligible(q) : m.price <= n.price
      BY <2>1, <2>3 DEF Cheaper
  <2> QED
      BY <2>1, <2>4, <2>5
<1> QED
    BY <1>1, InvInit, InvStep, PTL DEF Spec

-----------------------------------------------------------------------------
(* The other policies rank by score.                                         *)
LEMMA MaxFacts ==
  ASSUME NEW S, S \subseteq Int, IsFiniteSet(S), S # {}
  PROVE  Max(S) \in S /\ \A x \in S : Max(S) >= x
BY Greatest DEF Max

LEMMA FiniteImage ==
  ASSUME NEW S, IsFiniteSet(S), NEW f, DOMAIN f = S
  PROVE  IsFiniteSet({f[x] : x \in S})
<1> DEFINE T == {f[x] : x \in S}
           g == [x \in S |-> f[x]]
<1>1. g \in Surjection(S, T)
    BY DEF Surjection
<1> HIDE DEF g, T
<1>2. IsFiniteSet(T)
    BY <1>1, FS_Surjection
<1> QED
    BY <1>2 DEF T

(* What a table of scorecards says of a model, and that a larger table says  *)
(* the same or more.                                                         *)
EvidenceOf(cs, q) ==
  LET scoped == {c \in cs : q.scope # None => c.set = q.scope}
  IN IF q.policy.scorecard = 0 THEN <<>>
     ELSE [n \in {c.name : c \in scoped} |->
             Max({c.score : c \in {d \in scoped : d.name = n}})]

LEMMA EvidenceGrows ==
  ASSUME NEW q \in Requests, NEW cs, NEW ds, cs \subseteq ds, ds \subseteq Card, NEW name
  PROVE  /\ Lookup(EvidenceOf(cs, q), name, 0) \in Nat
         /\ Lookup(EvidenceOf(ds, q), name, 0) \in Nat
         /\ Lookup(EvidenceOf(cs, q), name, 0) <= Lookup(EvidenceOf(ds, q), name, 0)
         /\ (\A c \in ds \ cs : c.name # name)
              => Lookup(EvidenceOf(cs, q), name, 0) = Lookup(EvidenceOf(ds, q), name, 0)
<1> DEFINE of(es) == {c.score : c \in {d \in {c \in es : q.scope # None => c.set = q.scope} : d.name = name}}
           says(es) == Lookup(EvidenceOf(es, q), name, 0)
<1>1. CASE q.policy.scorecard = 0
  <2>1. says(cs) = 0 /\ says(ds) = 0
      BY <1>1 DEF EvidenceOf, Lookup
  <2> QED
      BY <2>1
<1>2. CASE q.policy.scorecard # 0
  <2>1. ASSUME NEW es, es \subseteq Card
        PROVE  /\ says(es) = IF of(es) = {} THEN 0 ELSE Max(of(es))
               /\ of(es) \subseteq Nat
               /\ of(es) # {} => Max(of(es)) \in of(es) /\ \A x \in of(es) : Max(of(es)) >= x
    <3> DEFINE E == EvidenceOf(es, q)
               names == {c.name : c \in {c \in es : q.scope # None => c.set = q.scope}}
    <3>1. DOMAIN E = names /\ (name \in names => E[name] = Max(of(es)))
        BY <1>2 DEF EvidenceOf
    <3>2. name \in names <=> of(es) # {}
        OBVIOUS
    <3>3. of(es) \subseteq 0..Grain
        BY <2>1 DEF Card
    <3> HIDE DEF of, names, E
    <3>4. says(es) = IF of(es) = {} THEN 0 ELSE Max(of(es))
        BY <3>1, <3>2 DEF Lookup, E
    <3>5. IsFiniteSet(0..Grain) /\ 0..Grain \subseteq Nat
      <4>1. 0 \in Int /\ Grain \in Int
          BY GrainAssumption
      <4> QED
          BY <4>1, FS_Interval
    <3>6. IsFiniteSet(of(es)) /\ of(es) \subseteq Nat
        BY <3>3, <3>5, FS_Subset
    <3>7. of(es) \subseteq Int
        BY <3>6
    <3> HIDE DEF says
    <3> QED
        BY <3>4, <3>6, <3>7, MaxFacts
  <2>2. of(cs) \subseteq of(ds)
      OBVIOUS
  <2>3. (\A c \in ds \ cs : c.name # name) => of(cs) = of(ds)
      OBVIOUS
  <2>4. cs \subseteq Card
      OBVIOUS
  <2> HIDE DEF of, says
  <2>5. says(cs) \in Nat /\ says(ds) \in Nat /\ says(cs) <= says(ds)
      BY <2>1, <2>2, <2>4
  <2>6. of(cs) = of(ds) => says(cs) = says(ds)
      BY <2>1, <2>4
  <2> QED
      BY <2>3, <2>5, <2>6 DEF says
<1> QED
    BY <1>1, <1>2

LEMMA EvidenceFacts ==
  ASSUME Inv, NEW q \in Requests, NEW name
  PROVE  Lookup(Evidence(q), name, 0) \in Nat
<1>1. Evidence(q) = EvidenceOf(cards, q)
    BY DEF Evidence, EvidenceOf, ScoresByModel, Scoped
<1>2. cards \subseteq Card
    BY DEF Inv, TypeOK
<1> QED
    BY <1>1, <1>2, EvidenceGrows

(* What prices and windows are divided by: at least 1, and no less than any  *)
(* of the pool.                                                              *)
Divisor(S) == IF Max(S \cup {0}) = 0 THEN 1 ELSE Max(S \cup {0})

LEMMA DivisorFacts ==
  ASSUME NEW S, S \subseteq Nat, IsFiniteSet(S)
  PROVE  Divisor(S) \in Nat /\ Divisor(S) >= 1 /\ \A x \in S : x <= Divisor(S)
<1> DEFINE T == S \cup {0}
<1>1. T \subseteq Int /\ IsFiniteSet(T) /\ T # {}
    BY FS_AddElement
<1>2. Max(T) \in T /\ \A x \in T : Max(T) >= x
  <2> HIDE DEF T
  <2> QED
      BY <1>1, MaxFacts
<1>3. Max(T) \in Nat
  <2>1. T \subseteq Nat
      OBVIOUS
  <2> HIDE DEF T
  <2> QED
      BY <1>2, <2>1
<1> DEFINE max == Max(T)
<1>4. Divisor(S) = IF max = 0 THEN 1 ELSE max
    BY DEF Divisor
<1>5. max \in Nat /\ \A x \in S : max >= x
    BY <1>2, <1>3
<1> HIDE DEF max, T
<1>6. CASE max = 0
  <2>1. \A x \in S : x = 0
      BY <1>5, <1>6
  <2> QED
      BY <1>4, <1>6, <2>1
<1>7. CASE max # 0
    BY <1>4, <1>5, <1>7
<1> QED
    BY <1>6, <1>7

(* Score, with what the code divides prices and windows by named.            *)
Weighed(m, P, e, C, X) ==
  2 * P.cost * (C - m.price) * X * Grain
  + P.quality * Tier(m, 0) * C * X * Grain
  + 2 * P.context * m.window * C * Grain
  + 2 * P.scorecard * Lookup(e, m.name, 0) * C * X

LEMMA ScoreFacts ==
  ASSUME Inv, NEW q \in Requests, NEW pool, pool \subseteq models
  PROVE  \E C, X \in Nat :
           /\ C >= 1 /\ X >= 1
           /\ \A m \in pool : m.price <= C
           /\ \A m \in pool : \A e : Lookup(e, m.name, 0) \in Nat =>
                /\ Score(m, q.policy, pool, e) \in Int
                /\ Score(m, q.policy, pool, e) = Weighed(m, q.policy, e, C, X)
<1> DEFINE prices == {x.price : x \in pool}
           windows == {x.window : x \in pool}
           C == Divisor(prices)
           X == Divisor(windows)
<1>1. IsFiniteSet(pool)
    BY FS_Subset DEF Inv
<1>2. IsFiniteSet(prices) /\ prices \subseteq Nat
  <2> DEFINE f == [x \in pool |-> x.price]
  <2>1. prices = {f[x] : x \in pool} /\ DOMAIN f = pool
      OBVIOUS
  <2>2. prices \subseteq Nat
      BY ModelFacts
  <2> HIDE DEF f, prices
  <2> QED
      BY <1>1, <2>1, <2>2, FiniteImage
<1>3. IsFiniteSet(windows) /\ windows \subseteq Nat
  <2> DEFINE f == [x \in pool |-> x.window]
  <2>1. windows = {f[x] : x \in pool} /\ DOMAIN f = pool
      OBVIOUS
  <2>2. windows \subseteq Nat
      BY ModelFacts
  <2> HIDE DEF f, windows
  <2> QED
      BY <1>1, <2>1, <2>2, FiniteImage
<1>4. C \in Nat /\ C >= 1 /\ \A x \in prices : x <= C
  <2> HIDE DEF prices
  <2> QED
      BY <1>2, DivisorFacts
<1>5. X \in Nat /\ X >= 1
  <2> HIDE DEF windows
  <2> QED
      BY <1>3, DivisorFacts
<1>6. ASSUME NEW m \in pool, NEW e, Lookup(e, m.name, 0) \in Nat
      PROVE  /\ Score(m, q.policy, pool, e) \in Int
             /\ Score(m, q.policy, pool, e) = Weighed(m, q.policy, e, C, X)
  <2>1. Lookup(e, m.name, 0) \in Int
      BY <1>6
  <2>2. Score(m, q.policy, pool, e) = Weighed(m, q.policy, e, C, X)
      BY DEF Score, Divisor, Weighed
  <2>3. m.price \in Int /\ m.window \in Int /\ Tier(m, 0) \in Int /\ Grain \in Int
      BY ModelFacts, GrainAssumption
  <2>4. /\ q.policy.cost \in Int /\ q.policy.quality \in Int
        /\ q.policy.context \in Int /\ q.policy.scorecard \in Int
      BY RequestsAssumption DEF Request, Policy
  <2> HIDE DEF C, X
  <2>5. Score(m, q.policy, pool, e) \in Int
      BY <1>4, <1>5, <2>1, <2>2, <2>3, <2>4 DEF Weighed
  <2> QED
      BY <2>2, <2>5
<1>7. \A m \in pool : m.price <= C
    BY <1>4
<1> HIDE DEF C, X
<1> QED
    BY <1>4, <1>5, <1>6, <1>7

(* A route refuses only when its pool is empty.                              *)
LEMMA Winner ==
  ASSUME Inv, NEW q \in Requests, Pool(models, q) # {}
  PROVE  Selected(q) # {}
<1> DEFINE pool == Pool(models, q)
           s(m) == Score(m, q.policy, pool, Evidence(q))
           values == {s(m) : m \in pool}
<1>1. pool \subseteq models /\ Listed(pool)
    BY DEF Pool, AutoPool, Candidates, CapableModels, Listed, Inv, TypeOK
<1>2. Selected(q) = {m \in pool : \A n \in pool \ {m} :
                       IF IsDefault(q.policy) \/ s(m) = s(n) THEN Cheaper(m, n) ELSE s(m) > s(n)}
    BY ChosenFacts DEF Selected
<1>3. CASE IsDefault(q.policy)
    BY <1>1, <1>2, <1>3, Cheapest
<1>4. CASE ~IsDefault(q.policy)
  <2>1. \A m \in pool : s(m) \in Int
      BY <1>1, EvidenceFacts, ScoreFacts
  <2>2. IsFiniteSet(values) /\ values \subseteq Int /\ values # {}
    <3>1. IsFiniteSet(pool)
        BY <1>1, FS_Subset DEF Inv
    <3> DEFINE f == [m \in pool |-> s(m)]
    <3>2. values = {f[m] : m \in pool} /\ DOMAIN f = pool
      <4> HIDE DEF s, pool
      <4> QED
          OBVIOUS
    <3>3. values \subseteq Int /\ values # {}
      <4>1. pool # {}
          OBVIOUS
      <4> HIDE DEF s, pool
      <4> QED
          BY <2>1, <4>1
    <3> HIDE DEF f, values, pool
    <3> QED
        BY <3>1, <3>2, <3>3, FiniteImage
  <2>3. PICK top \in values : \A v \in values : top >= v
    <3> HIDE DEF values
    <3> QED
        BY <2>2, Greatest
  <2> DEFINE firsts == {m \in pool : s(m) = top}
  <2>4. firsts # {} /\ Listed(firsts)
      BY <1>1, <2>3 DEF Listed
  <2>5. PICK m \in firsts : \A n \in firsts \ {m} : Cheaper(m, n)
    <3> HIDE DEF firsts
    <3> QED
        BY <2>4, Cheapest
  <2> HIDE DEF s
  <2>6. ASSUME NEW n \in pool \ {m} PROVE IF s(m) = s(n) THEN Cheaper(m, n) ELSE s(m) > s(n)
      BY <2>1, <2>3, <2>5
  <2>7. m \in Selected(q)
      BY <1>2, <1>4, <2>5, <2>6 DEF s
  <2> QED
      BY <2>7
<1> QED
    BY <1>3, <1>4

(* Auto chooses among what a default route of any quality would take, above  *)
(* its floor if it can.                                                      *)
LEMMA AutoPoolFacts ==
  ASSUME Inv, NEW q \in Requests, q.policy = AUTO_POLICY
  PROVE  LET capable == Eligible([q EXCEPT !.quality = "any"])
             clearing == {m \in capable : Tier(m, 0) >= AutoFloorTier(q)}
         IN Pool(models, q) = IF clearing # {} THEN clearing ELSE capable
<1> DEFINE r == [q EXCEPT !.quality = "any"]
<1>1. q.policy.floor /\ q.policy.require = {}
    BY DEF AUTO_POLICY, DEFAULT_POLICY
<1>2. \A m \in models : PassesHardFilters(m, q.policy)
    BY <1>1 DEF PassesHardFilters
<1>3. r.task = q.task /\ r.tokens = q.tokens /\ r.quality = "any"
    BY RequestsAssumption DEF Request
<1>4. \A m \in models : InRange(m, r.quality)
    BY <1>3 DEF InRange
<1>5. Eligible(r) = CapableModels(models, q)
  <2>1. \A m \in models : m \in Eligible(r) <=> m \in CapableModels(models, q)
    <3> HIDE DEF r
    <3> QED
        BY <1>3, <1>4, CapableFacts DEF Eligible
  <2> QED
      BY <2>1 DEF Eligible, CapableModels
<1>6. {m \in CapableModels(models, q) : PassesHardFilters(m, q.policy)} = CapableModels(models, q)
    BY <1>2 DEF CapableModels
<1>7. Pool(models, q) = AutoPool(models, q)
    BY <1>1 DEF Pool
<1> HIDE DEF r
<1>8. Pool(models, q) =
        LET clearing == {m \in Eligible(r) : Tier(m, 0) >= AutoFloorTier(q)}
        IN IF clearing # {} THEN clearing ELSE Eligible(r)
    BY <1>5, <1>6, <1>7 DEF AutoPool
<1> QED
    BY <1>8 DEF r

(* The floor as a number is the floor as a set of tiers.                     *)
LEMMA FloorFacts ==
  ASSUME Inv, NEW q \in Requests, NEW m \in models
  PROVE  Tier(m, 0) >= AutoFloorTier(q) <=>
           m.tier \in IF q.quality = "best" THEN {"large"}
                      ELSE IF q.task \in {"json_extract", "reasoning", "vision", "tools"}
                      THEN {"balanced", "large"}
                      ELSE {"small", "balanced", "large"}
<1> DEFINE a == TIER_ORDER[Lookup(TASK_QUALITY_FLOOR, q.task, "small")]
           b == TIER_ORDER[Lookup(QUALITY_MIN_TIER, q.quality, "small")]
<1>1. /\ TIER_ORDER["small"] = 0 /\ TIER_ORDER["balanced"] = 1 /\ TIER_ORDER["large"] = 2
      /\ DOMAIN QUALITY_MIN_TIER = {"cheap", "balanced", "best"}
      /\ DOMAIN TASK_QUALITY_FLOOR = {"simple", "json_extract", "reasoning", "vision", "tools"}
    BY DEF TIER_ORDER, QUALITY_MIN_TIER, TASK_QUALITY_FLOOR
<1>2. a = IF q.task \in {"json_extract", "reasoning", "vision", "tools"} THEN 1 ELSE 0
    BY <1>1 DEF Lookup, TASK_QUALITY_FLOOR
<1>3. b = IF q.quality = "best" THEN 2 ELSE 0
    BY <1>1 DEF Lookup, QUALITY_MIN_TIER
<1>4. AutoFloorTier(q) = Max({a, b})
    BY DEF AutoFloorTier
<1> HIDE DEF a, b
<1>5. Max({a, b}) \in {a, b} /\ Max({a, b}) >= a /\ Max({a, b}) >= b
  <2>1. a \in Int /\ b \in Int
      BY <1>2, <1>3
  <2>2. {a, b} \subseteq Int /\ {a, b} # {}
      BY <2>1
  <2>3. IsFiniteSet({a, b})
    <3>1. IsFiniteSet({a})
        BY FS_Singleton
    <3>2. IsFiniteSet({a} \cup {b})
        BY <3>1, FS_AddElement
    <3>3. {a, b} = {a} \cup {b}
        OBVIOUS
    <3> QED
        BY <3>2, <3>3
  <2> QED
      BY <2>2, <2>3, MaxFacts
<1>6. m.tier \in {"small", "balanced", "large"} /\ Tier(m, 0) = TIER_ORDER[m.tier]
    BY ModelFacts
<1>7. CASE q.quality = "best"
  <2>1. AutoFloorTier(q) = 2
      BY <1>2, <1>3, <1>4, <1>5, <1>7
  <2> QED
      BY <1>1, <1>6, <1>7, <2>1
<1>8. CASE q.quality # "best"
  <2>1. AutoFloorTier(q) = a
      BY <1>2, <1>3, <1>4, <1>5, <1>8
  <2> QED
      BY <1>1, <1>2, <1>6, <1>8, <2>1
<1> QED
    BY <1>7, <1>8

(* Auto goes below the task's floor only when nothing capable reaches it,    *)
(* and refuses only when nothing is capable at all.                          *)
THEOREM AutoRespectsFloors == Spec => []AutoKeepsFloor
<1>1. Inv => AutoKeepsFloor
  <2> SUFFICES ASSUME Inv, NEW q \in Requests, q.policy = AUTO_POLICY
               PROVE
                 LET capable == Eligible([q EXCEPT !.quality = "any"])
                     floor == IF q.quality = "best" THEN {"large"}
                              ELSE IF q.task \in {"json_extract", "reasoning", "vision", "tools"}
                              THEN {"balanced", "large"}
                              ELSE {"small", "balanced", "large"}
                 IN /\ Selected(q) = {} <=> capable = {}
                    /\ \A m \in Selected(q) : m.tier \in floor \/ \A n \in capable : n.tier \notin floor
      BY DEF AutoKeepsFloor
  <2> DEFINE capable == Eligible([q EXCEPT !.quality = "any"])
             floor == IF q.quality = "best" THEN {"large"}
                      ELSE IF q.task \in {"json_extract", "reasoning", "vision", "tools"}
                      THEN {"balanced", "large"}
                      ELSE {"small", "balanced", "large"}
             clearing == {m \in capable : Tier(m, 0) >= AutoFloorTier(q)}
  <2>1. capable \subseteq models
      BY DEF Eligible
  <2>2. Pool(models, q) = IF clearing # {} THEN clearing ELSE capable
      BY AutoPoolFacts
  <2>3. Selected(q) \subseteq Pool(models, q)
      BY ChosenFacts DEF Selected
  <2>4. Pool(models, q) # {} => Selected(q) # {}
      BY Winner
  <2>5. \A m \in models : Tier(m, 0) >= AutoFloorTier(q) <=> m.tier \in floor
      BY FloorFacts
  <2> HIDE DEF capable, floor
  <2>6. Selected(q) = {} <=> capable = {}
      BY <2>2, <2>3, <2>4
  <2>7. \A m \in Selected(q) : m.tier \in floor \/ \A n \in capable : n.tier \notin floor
      BY <2>1, <2>2, <2>3, <2>5
  <2> QED
      BY <2>6, <2>7 DEF capable, floor
<1> QED
    BY <1>1, InvInit, InvStep, PTL DEF Spec

-----------------------------------------------------------------------------
(* A sixth of the scale for benchmarked, half of it for Auto: no price makes *)
(* up for more.                                                              *)
THEOREM EvidenceIsDecisive == Spec => []EvidenceDominates
<1>1. Inv => EvidenceDominates
  <2> SUFFICES ASSUME Inv, NEW q \in Requests,
                      NEW m \in Selected(q), NEW n \in Pool(models, q)
               PROVE  LET Of(x) == Lookup(Evidence(q), x.name, 0)
                          margin == CASE q.policy = BENCHMARKED_POLICY -> 6
                                      [] q.policy = AUTO_POLICY -> 2
                                      [] OTHER -> 0
                      IN margin * (Of(n) - Of(m)) <= Grain
      BY DEF EvidenceDominates
  <2> DEFINE pool == Pool(models, q)
             s(x) == Score(x, q.policy, pool, Evidence(q))
             em == Lookup(Evidence(q), m.name, 0)
             en == Lookup(Evidence(q), n.name, 0)
             margin == CASE q.policy = BENCHMARKED_POLICY -> 6
                         [] q.policy = AUTO_POLICY -> 2
                         [] OTHER -> 0
  <2>1. pool \subseteq models
      BY DEF Pool, AutoPool, Candidates, CapableModels
  <2>2. em \in Nat /\ en \in Nat /\ Grain \in Nat
      BY EvidenceFacts, GrainAssumption
  <2>3. m \in pool /\ (n # m => IF IsDefault(q.policy) \/ s(m) = s(n)
                                THEN Cheaper(m, n) ELSE s(m) > s(n))
      BY ChosenFacts DEF Selected
  <2>4. /\ m.price \in Nat /\ m.window \in Nat /\ Tier(m, 0) \in Nat
        /\ n.price \in Nat /\ n.window \in Nat /\ Tier(n, 0) \in Nat
      BY <2>1, <2>3, ModelFacts
  <2>5. PICK C \in Nat, X \in Nat :
           /\ C >= 1 /\ X >= 1
           /\ \A x \in pool : x.price <= C
           /\ \A x \in pool : \A e : Lookup(e, x.name, 0) \in Nat =>
                /\ Score(x, q.policy, pool, e) \in Int
                /\ Score(x, q.policy, pool, e) = Weighed(x, q.policy, e, C, X)
    <3> HIDE DEF pool
    <3> QED
        BY <2>1, ScoreFacts
  <2>6. /\ s(m) = Weighed(m, q.policy, Evidence(q), C, X)
        /\ s(n) = Weighed(n, q.policy, Evidence(q), C, X)
        /\ s(m) \in Int /\ s(n) \in Int /\ m.price <= C /\ n.price <= C
      BY <2>2, <2>3, <2>5
  <2>7. ~IsDefault(q.policy) => s(m) >= s(n)
    <3> HIDE DEF s
    <3> QED
        BY <2>3, <2>6
  <2>8. ASSUME NEW k \in Nat, NEW c \in Nat, c >= 1, ~IsDefault(q.policy),
               q.policy.cost = c, q.policy.quality = 0,
               q.policy.context = 0, q.policy.scorecard = k * c
        PROVE  k * (en - em) <= Grain
    <3> DEFINE p1 == m.price
               p2 == n.price
               w == c * X
               l == 2 * ((C - p1) * Grain + k * em * C)
               r == 2 * ((C - p2) * Grain + k * en * C)
    <3>1. s(m) >= s(n)
        BY <2>7, <2>8
    <3>2. p1 \in Nat /\ p2 \in Nat /\ p1 <= C /\ p2 <= C
        BY <2>4, <2>6
    <3>3. /\ s(m) = 2 * c * (C - p1) * X * Grain + 0 * Tier(m, 0) * C * X * Grain
                    + 2 * 0 * m.window * C * Grain + 2 * (k * c) * em * C * X
          /\ s(n) = 2 * c * (C - p2) * X * Grain + 0 * Tier(n, 0) * C * X * Grain
                    + 2 * 0 * n.window * C * Grain + 2 * (k * c) * en * C * X
      <4>1. /\ s(m) = Weighed(m, q.policy, Evidence(q), C, X)
            /\ s(n) = Weighed(n, q.policy, Evidence(q), C, X)
          BY <2>6
      <4> HIDE DEF s
      <4> QED
          BY <4>1, <2>8 DEF Weighed
    <3> HIDE DEF s, em, en, p1, p2
    <3>4. s(m) = 2 * c * (C - p1) * X * Grain + 2 * (k * c) * em * C * X
        BY <2>2, <2>4, <3>2, <3>3
    <3>5. s(n) = 2 * c * (C - p2) * X * Grain + 2 * (k * c) * en * C * X
        BY <2>2, <2>4, <3>2, <3>3
    <3>6. s(m) = w * l /\ s(n) = w * r
        BY <2>2, <3>2, <3>4, <3>5
    <3>7. w \in Nat /\ w >= 1
        BY <2>5, <2>8
    <3>8. l \in Int /\ r \in Int
        BY <2>2, <3>2
    <3>9. l >= r
      <4> HIDE DEF l, r, w
      <4> QED
          BY <3>1, <3>6, <3>7, <3>8
    <3>10. (k * (en - em)) * C <= (p2 - p1) * Grain
        BY <2>2, <3>2, <3>9
    <3>11. (p2 - p1) * Grain <= C * Grain
        BY <2>2, <3>2
    <3> DEFINE d == k * (en - em)
    <3>12. d \in Int /\ d * C <= Grain * C
        BY <2>2, <3>2, <3>10, <3>11
    <3> HIDE DEF d
    <3>13. d <= Grain
        BY <2>2, <2>5, <3>12
    <3> QED
        BY <3>13 DEF d
  <2>9. BENCHMARKED_POLICY # AUTO_POLICY
    <3>1. BENCHMARKED_POLICY.cost = 1 /\ AUTO_POLICY.cost = 2
        BY DEF BENCHMARKED_POLICY, AUTO_POLICY, DEFAULT_POLICY
    <3> QED
        BY <3>1
  <2>10. ASSUME q.policy = BENCHMARKED_POLICY PROVE margin * (en - em) <= Grain
    <3>1. /\ q.policy.cost = 1 /\ q.policy.quality = 0
          /\ q.policy.context = 0 /\ q.policy.scorecard = 6
          /\ ~IsDefault(q.policy)
        BY <2>10 DEF BENCHMARKED_POLICY, DEFAULT_POLICY, IsDefault
    <3>2. 6 * (en - em) <= Grain
      <4> HIDE DEF em, en
      <4>1. 6 \in Nat /\ 1 \in Nat /\ 1 >= 1 /\ 6 = 6 * 1
          OBVIOUS
      <4> QED
          BY <2>8, <3>1, <4>1
    <3>3. margin = 6
        BY <2>10, <2>9
    <3> HIDE DEF margin, em, en
    <3> QED
        BY <3>2, <3>3
  <2>11. ASSUME q.policy = AUTO_POLICY PROVE margin * (en - em) <= Grain
    <3>1. /\ q.policy.cost = 2 /\ q.policy.quality = 0
          /\ q.policy.context = 0 /\ q.policy.scorecard = 4
          /\ ~IsDefault(q.policy)
        BY <2>11 DEF AUTO_POLICY, DEFAULT_POLICY, IsDefault
    <3>2. 2 * (en - em) <= Grain
      <4> HIDE DEF em, en
      <4>1. 2 \in Nat /\ 2 \in Nat /\ 2 >= 1 /\ 4 = 2 * 2
          OBVIOUS
      <4> QED
          BY <2>8, <3>1, <4>1
    <3>3. margin = 2
        BY <2>11, <2>9
    <3> HIDE DEF margin, em, en
    <3> QED
        BY <3>2, <3>3
  <2>12. ASSUME q.policy # BENCHMARKED_POLICY, q.policy # AUTO_POLICY
         PROVE  margin * (en - em) <= Grain
    <3>1. margin = 0
        BY <2>12
    <3> QED
        BY <2>2, <3>1
  <2> QED
      BY <2>10, <2>11, <2>12
<1> QED
    BY <1>1, InvInit, InvStep, PTL DEF Spec

-----------------------------------------------------------------------------
(* A score that more evidence raises, and only that.                         *)
LEMMA ScoreGrows ==
  ASSUME Inv, NEW q \in Requests, NEW pool, pool \subseteq models, NEW m \in pool,
         NEW e, NEW f, Lookup(e, m.name, 0) \in Nat, Lookup(f, m.name, 0) \in Nat,
         Lookup(e, m.name, 0) <= Lookup(f, m.name, 0)
  PROVE  /\ Score(m, q.policy, pool, e) \in Int
         /\ Score(m, q.policy, pool, f) \in Int
         /\ Score(m, q.policy, pool, e) <= Score(m, q.policy, pool, f)
         /\ Lookup(e, m.name, 0) = Lookup(f, m.name, 0)
              => Score(m, q.policy, pool, e) = Score(m, q.policy, pool, f)
<1>1. PICK C \in Nat, X \in Nat :
         /\ Score(m, q.policy, pool, e) \in Int
         /\ Score(m, q.policy, pool, e) = Weighed(m, q.policy, e, C, X)
         /\ Score(m, q.policy, pool, f) \in Int
         /\ Score(m, q.policy, pool, f) = Weighed(m, q.policy, f, C, X)
    BY ScoreFacts
<1> DEFINE rest == 2 * q.policy.cost * (C - m.price) * X * Grain
                   + q.policy.quality * Tier(m, 0) * C * X * Grain
                   + 2 * q.policy.context * m.window * C * Grain
           le == Lookup(e, m.name, 0)
           lf == Lookup(f, m.name, 0)
           w == q.policy.scorecard
<1>2. rest \in Int /\ w \in Nat
  <2>1. m.price \in Int /\ m.window \in Int /\ Tier(m, 0) \in Int /\ Grain \in Int
      BY ModelFacts, GrainAssumption
  <2>2. q.policy.cost \in Int /\ q.policy.quality \in Int /\ q.policy.context \in Int /\ w \in Nat
      BY RequestsAssumption DEF Request, Policy
  <2> QED
      BY <2>1, <2>2
<1>3. /\ Score(m, q.policy, pool, e) = rest + 2 * w * le * C * X
      /\ Score(m, q.policy, pool, f) = rest + 2 * w * lf * C * X
      /\ Score(m, q.policy, pool, e) \in Int /\ Score(m, q.policy, pool, f) \in Int
    BY <1>1 DEF Weighed
<1> HIDE DEF rest, le, lf, w
<1>4. le \in Nat /\ lf \in Nat /\ le <= lf
    BY DEF le, lf
<1>5. 2 * w * le * C * X <= 2 * w * lf * C * X
  <2> DEFINE a == 2 * w * C * X
  <2>1. a \in Nat /\ 2 * w * le * C * X = a * le /\ 2 * w * lf * C * X = a * lf
      BY <1>2, <1>4
  <2> HIDE DEF a
  <2>2. a * le <= a * lf
      BY <1>4, <2>1
  <2> QED
      BY <2>1, <2>2
<1>6. 2 * w * le * C * X \in Int /\ 2 * w * lf * C * X \in Int
    BY <1>2, <1>4
<1>7. Score(m, q.policy, pool, e) <= Score(m, q.policy, pool, f)
    BY <1>2, <1>3, <1>5, <1>6
<1> QED
    BY <1>3, <1>7 DEF le, lf

LEMMA CardsStay == [Next]_vars => cards \subseteq cards'
BY DEF Next, Refresh, Withdraw, RunBenchmark, vars

(* A benchmark run moves routes only to the models it was about.             *)
THEOREM RunsMoveOnlyTheirModels == Spec => BenchmarkMovesOnlyItsModels
<1>1. ASSUME Inv, Inv', [Next]_vars, models' = models, NEW q \in Requests,
             NEW m \in Selected(q)', \A c \in cards' \ cards : c.name # m.name
      PROVE  Selected(q)' = Selected(q)
  <2> DEFINE pool == Pool(models, q)
             e == Evidence(q)
             f == Evidence(q)'
             Beats(x, y, g) ==
               IF IsDefault(q.policy) \/ Score(x, q.policy, pool, g) = Score(y, q.policy, pool, g)
               THEN Cheaper(x, y)
               ELSE Score(x, q.policy, pool, g) > Score(y, q.policy, pool, g)
  <2>1. e = EvidenceOf(cards, q) /\ f = EvidenceOf(cards', q)
      BY DEF Evidence, EvidenceOf, ScoresByModel, Scoped
  <2>2. cards \subseteq cards' /\ cards' \subseteq Card
      BY <1>1, CardsStay DEF Inv, TypeOK, Card
  <2>3. pool \subseteq models
      BY DEF Pool, AutoPool, Candidates, CapableModels
  <2>4. Selected(q) = {x \in pool : \A y \in pool \ {x} : Beats(x, y, e)}
      BY ChosenFacts DEF Selected
  <2>5. Selected(q)' = {x \in pool : \A y \in pool \ {x} : Beats(x, y, f)}
    <3>1. Selected(q)' = Choice(models, q, f)
        BY <1>1 DEF Selected
    <3> HIDE DEF f
    <3> QED
        BY <3>1, ChosenFacts
  <2> HIDE DEF e, f
  <2>6. \A x \in pool : /\ Score(x, q.policy, pool, e) \in Int
                        /\ Score(x, q.policy, pool, f) \in Int
                        /\ Score(x, q.policy, pool, e) <= Score(x, q.policy, pool, f)
    <3> SUFFICES ASSUME NEW x \in pool
                 PROVE  /\ Score(x, q.policy, pool, e) \in Int
                        /\ Score(x, q.policy, pool, f) \in Int
                        /\ Score(x, q.policy, pool, e) <= Score(x, q.policy, pool, f)
        OBVIOUS
    <3>1. /\ Lookup(e, x.name, 0) \in Nat /\ Lookup(f, x.name, 0) \in Nat
          /\ Lookup(e, x.name, 0) <= Lookup(f, x.name, 0)
        BY <2>1, <2>2, EvidenceGrows
    <3> HIDE DEF pool
    <3> QED
        BY <1>1, <2>3, <3>1, ScoreGrows
  <2>7. m \in pool /\ Score(m, q.policy, pool, e) = Score(m, q.policy, pool, f)
    <3>1. m \in pool
        BY <2>5
    <3>2. /\ Lookup(e, m.name, 0) \in Nat /\ Lookup(f, m.name, 0) \in Nat
          /\ Lookup(e, m.name, 0) = Lookup(f, m.name, 0)
        BY <1>1, <2>1, <2>2, EvidenceGrows
    <3>3. Lookup(e, m.name, 0) <= Lookup(f, m.name, 0)
        BY <3>2
    <3> HIDE DEF pool
    <3> QED
        BY <1>1, <2>3, <3>1, <3>2, <3>3, ScoreGrows
  <2>8. \A y \in pool \ {m} : Beats(m, y, e)
    <3> SUFFICES ASSUME NEW y \in pool \ {m} PROVE Beats(m, y, e)
        OBVIOUS
    <3>1. Beats(m, y, f)
        BY <2>5
    <3>2. /\ Score(y, q.policy, pool, e) \in Int /\ Score(y, q.policy, pool, f) \in Int
          /\ Score(m, q.policy, pool, e) \in Int
          /\ Score(y, q.policy, pool, e) <= Score(y, q.policy, pool, f)
        BY <2>6, <2>7
    <3> HIDE DEF pool
    <3> QED
        BY <2>7, <3>1, <3>2
  <2>9. m \in Selected(q)
      BY <2>4, <2>7, <2>8
  <2>10. ASSUME NEW x \in pool, NEW y \in pool, x # y, NEW g,
                Score(x, q.policy, pool, g) \in Int, Score(y, q.policy, pool, g) \in Int
         PROVE  ~(Beats(x, y, g) /\ Beats(y, x, g))
    <3>1. x.price \in Nat /\ x.listed \in Nat /\ y.price \in Nat /\ y.listed \in Nat
        BY <1>1, <2>3, ModelFacts
    <3> HIDE DEF pool
    <3> QED
        BY <2>10, <3>1 DEF Cheaper
  <2>11. Selected(q) = {m} /\ Selected(q)' = {m}
    <3> HIDE DEF pool, Beats
    <3> QED
        BY <2>4, <2>5, <2>6, <2>7, <2>9, <2>10
  <2> QED
      BY <2>11
<1>2. Inv /\ Inv' /\ [Next]_vars =>
        [models' = models =>
           \A q \in {r \in Requests : r.policy.scorecard > 0} :
             \/ Selected(q)' = Selected(q)
             \/ \A m \in Selected(q)' : \E c \in cards' \ cards : c.name = m.name]_vars
    BY <1>1
<1> QED
    BY <1>2, InvInit, InvStep, PTL DEF Spec, BenchmarkMovesOnlyItsModels

-----------------------------------------------------------------------------
(* Whichever pool a policy draws on - the tier range's, the one above an     *)
(* Auto floor, or the one left when the floor is out of reach - its hard     *)
(* filters have been applied.                                                *)
LEMMA PoolIsFiltered ==
  ASSUME NEW q, NEW m \in Pool(models, q)
  PROVE  PassesHardFilters(m, q.policy)
<1> DEFINE capable == {x \in CapableModels(models, q) : PassesHardFilters(x, q.policy)}
           clearing == {x \in capable : Tier(x, 0) >= AutoFloorTier(q)}
<1>1. CASE q.policy.floor
  <2>1. Pool(models, q) = IF clearing # {} THEN clearing ELSE capable
      BY <1>1 DEF Pool, AutoPool
  <2> QED
      BY <2>1
<1>2. CASE ~q.policy.floor
    BY <1>2 DEF Pool
<1> QED
    BY <1>1, <1>2

(* A policy that asks for local models neither answers with a model of       *)
(* another machine nor names one in its fallback chain.                      *)
THEOREM LocalPoliciesStayLocal == Spec => []StaysLocal
<1>1. StaysLocal
  <2> SUFFICES ASSUME NEW q \in Requests, "local" \in q.policy.require,
                      NEW m \in Selected(q) \cup Alternatives(q)
               PROVE  m.provider \in LocalProviders
      BY DEF StaysLocal
  <2>1. Selected(q) \subseteq Pool(models, q)
      BY ChosenFacts DEF Selected
  <2>2. ASSUME NEW x \in Fallback(models, q, Evidence(q)) PROVE x.model \in Pool(models, q)
      BY DEF Fallback, Scored
  <2>3. m \in Pool(models, q)
      BY <2>1, <2>2 DEF Alternatives
  <2> QED
      BY <2>3, PoolIsFiltered DEF PassesHardFilters
<1> QED
    BY <1>1, PTL

-----------------------------------------------------------------------------
(* The presets that read no scorecards: default, privacy-first and           *)
(* quality-first. A tier, where it counts at all, counts for more than the   *)
(* whole range of prices.                                                    *)
TierThenPrice(P) ==
  /\ P.scorecard = 0 /\ P.context = 0 /\ ~P.floor
  /\ P.quality = 0 \/ P.quality > 2 * P.cost
  /\ ~IsDefault(P) => P.cost > 0
Before(m, n, P) ==
  \/ P.quality # 0 /\ Tier(m, 0) > Tier(n, 0)
  \/ (P.quality # 0 => Tier(m, 0) = Tier(n, 0)) /\ Cheaper(m, n)

LEMMA PresetsWeighTierThenPrice ==
  ASSUME NEW P \in POLICIES, P.scorecard = 0
  PROVE  TierThenPrice(P)
<1>1. AUTO_POLICY.scorecard = 4 /\ BENCHMARKED_POLICY.scorecard = 6
    BY DEF AUTO_POLICY, BENCHMARKED_POLICY, DEFAULT_POLICY
<1>2. CASE P = DEFAULT_POLICY
    BY <1>2 DEF TierThenPrice, IsDefault, DEFAULT_POLICY
<1>3. CASE P = PRIVACY_POLICY
    BY <1>3 DEF TierThenPrice, PRIVACY_POLICY, DEFAULT_POLICY
<1>4. CASE P = QUALITY_POLICY
    BY <1>4 DEF TierThenPrice, QUALITY_POLICY, DEFAULT_POLICY
<1> QED
    BY <1>1, <1>2, <1>3, <1>4 DEF POLICIES

(* Under such a policy one model beats another by what the two are, however  *)
(* dear the dearest of the pool.                                             *)
Worth(c, Q, p, t, C, X) == (2 * c * (C - p) + Q * t * C) * (X * Grain)

Weighable(c, Q, p, r, t, u, C, X) ==
  /\ c \in Nat /\ c > 0 /\ Q \in Nat /\ (Q = 0 \/ Q > 2 * c)
  /\ C \in Nat /\ X \in Nat /\ C >= 1 /\ X >= 1
  /\ p \in Nat /\ p <= C /\ r \in Nat /\ r <= C /\ t \in 0..2 /\ u \in 0..2

LEMMA ScoresByTierThenPrice ==
  ASSUME NEW c, NEW Q, NEW p, NEW r, NEW t, NEW u, NEW C, NEW X,
         Weighable(c, Q, p, r, t, u, C, X)
  PROVE  LET s == Worth(c, Q, p, t, C, X)
             v == Worth(c, Q, r, u, C, X)
         IN /\ s = v <=> p = r /\ (Q # 0 => t = u)
            /\ s > v <=> \/ Q # 0 /\ t > u
                         \/ (Q # 0 => t = u) /\ p < r
<1> DEFINE s == Worth(c, Q, p, t, C, X)
           v == Worth(c, Q, r, u, C, X)
           a == 2 * c * (C - p) + Q * t * C
           b == 2 * c * (C - r) + Q * u * C
           g == X * Grain
<1> SUFFICES /\ s = v <=> p = r /\ (Q # 0 => t = u)
             /\ s > v <=> \/ Q # 0 /\ t > u
                          \/ (Q # 0 => t = u) /\ p < r
    OBVIOUS
<1>1. /\ c \in Nat /\ c >= 1 /\ Q \in Nat /\ (Q = 0 \/ Q >= 2 * c + 1)
      /\ C \in Nat /\ X \in Nat /\ C >= 1 /\ X >= 1
      /\ p \in Nat /\ p <= C /\ r \in Nat /\ r <= C /\ t \in 0..2 /\ u \in 0..2
    BY DEF Weighable
<1>2. g \in Nat /\ g >= 1 /\ s = a * g /\ v = b * g
    BY <1>1, GrainAssumption DEF Worth
<1> HIDE DEF g, s, v
<1>3. a \in Int /\ b \in Int
    BY <1>1
<1>4. (s = v <=> a = b) /\ (s > v <=> a > b)
  <2> HIDE DEF a, b
  <2>1. a > b => s > v
      BY <1>2, <1>3
  <2>2. b > a => v > s
      BY <1>2, <1>3
  <2> QED
      BY <1>2, <1>3, <2>1, <2>2
<1>5. a - b = 2 * c * (r - p) + Q * (t - u) * C
    BY <1>1
<1>6. (p < r => 2 * c * (r - p) > 0) /\ (r < p => 2 * c * (r - p) < 0) /\ (p = r => 2 * c * (r - p) = 0)
    BY <1>1
<1>7. 2 * c * (r - p) <= 2 * c * C /\ 2 * c * (r - p) >= 0 - 2 * c * C
    BY <1>1
<1>8. CASE Q = 0 \/ t = u
  <2>1. Q * (t - u) * C = 0
      BY <1>1, <1>8
  <2>2. a - b = 2 * c * (r - p)
      BY <1>1, <1>5, <2>1
  <2>3. 2 * c * (r - p) \in Int
      BY <1>1
  <2>4. (a = b <=> p = r) /\ (a > b <=> p < r)
    <3> DEFINE d == 2 * c * (r - p)
    <3>1. d \in Int /\ a - b = d /\ (p < r => d > 0) /\ (r < p => d < 0) /\ (p = r => d = 0)
        BY <1>1, <1>6, <2>2, <2>3
    <3> HIDE DEF d, a, b
    <3> QED
        BY <1>1, <1>3, <3>1
  <2> QED
      BY <1>1, <1>4, <1>8, <2>4
<1>9. CASE Q # 0 /\ t > u
  <2>1. Q * (t - u) * C >= Q * C
    <3>1. t - u >= 1 /\ Q * C \in Nat /\ Q * (t - u) * C = (t - u) * (Q * C)
        BY <1>1, <1>9
    <3> QED
        BY <1>1, <3>1
  <2>2. Q * C > 2 * c * C
    <3>1. Q >= 2 * c + 1
        BY <1>1, <1>9
    <3>2. Q * C >= (2 * c + 1) * C
        BY <1>1, <3>1
    <3> QED
        BY <1>1, <3>2
  <2>3. a > b
    <3> DEFINE d == 2 * c * (r - p)
               e == Q * (t - u) * C
    <3>1. d \in Int /\ e \in Int /\ a - b = d + e /\ d >= 0 - 2 * c * C /\ e >= Q * C
        BY <1>1, <1>5, <1>7, <2>1
    <3> HIDE DEF d, e, a, b
    <3> QED
        BY <1>1, <1>3, <2>2, <3>1
  <2> QED
      BY <1>1, <1>3, <1>4, <1>9, <2>3
<1>10. CASE Q # 0 /\ u > t
  <2>1. Q * (t - u) * C <= 0 - Q * C
    <3>1. u - t >= 1 /\ Q * C \in Nat /\ Q * (t - u) * C = 0 - (u - t) * (Q * C)
        BY <1>1, <1>10
    <3>2. (u - t) * (Q * C) >= Q * C
        BY <1>1, <3>1
    <3> QED
        BY <1>1, <3>1, <3>2
  <2>2. Q * C > 2 * c * C
    <3>1. Q >= 2 * c + 1
        BY <1>1, <1>10
    <3>2. Q * C >= (2 * c + 1) * C
        BY <1>1, <3>1
    <3> QED
        BY <1>1, <3>2
  <2>3. a < b
    <3> DEFINE d == 2 * c * (r - p)
               e == Q * (t - u) * C
    <3>1. d \in Int /\ e \in Int /\ a - b = d + e /\ d <= 2 * c * C /\ e <= 0 - Q * C
        BY <1>1, <1>5, <1>7, <2>1
    <3> HIDE DEF d, e, a, b
    <3> QED
        BY <1>1, <1>3, <2>2, <3>1
  <2> QED
      BY <1>1, <1>3, <1>4, <1>10, <2>3
<1> QED
    BY <1>1, <1>8, <1>9, <1>10

LEMMA ChosenByTierThenPrice ==
  Inv => \A q \in Requests : TierThenPrice(q.policy) =>
    /\ Pool(models, q) # {} => Selected(q) # {}
    /\ Selected(q) = {m \in Pool(models, q) :
                        \A n \in Pool(models, q) \ {m} : Before(m, n, q.policy)}
<1> SUFFICES ASSUME Inv, NEW q \in Requests, TierThenPrice(q.policy)
             PROVE  /\ Pool(models, q) # {} => Selected(q) # {}
                    /\ Selected(q) = {m \in Pool(models, q) :
                                        \A n \in Pool(models, q) \ {m} : Before(m, n, q.policy)}
    OBVIOUS
<1> DEFINE P == q.policy
           pool == Pool(models, q)
           s(m) == Score(m, P, pool, Evidence(q))
<1>1. Pool(models, q) # {} => Selected(q) # {}
    BY Winner
<1>2. Selected(q) = {m \in pool : \A n \in pool \ {m} :
                       IF IsDefault(P) \/ s(m) = s(n) THEN Cheaper(m, n) ELSE s(m) > s(n)}
    BY ChosenFacts DEF Selected
<1>3. pool \subseteq models
    BY DEF Pool, AutoPool, Candidates, CapableModels
<1>4. P.cost \in Nat /\ P.quality \in Nat /\ P.scorecard = 0 /\ P.context = 0
    BY RequestsAssumption DEF Request, Policy, TierThenPrice
<1>5. ASSUME NEW m \in pool, NEW n \in pool
      PROVE  (IF IsDefault(P) \/ s(m) = s(n) THEN Cheaper(m, n) ELSE s(m) > s(n)) <=> Before(m, n, P)
  <2>1. CASE IsDefault(P)
      BY <2>1 DEF IsDefault, Before
  <2>2. CASE ~IsDefault(P)
    <3>1. P.cost > 0 /\ (P.quality = 0 \/ P.quality > 2 * P.cost)
        BY <2>2 DEF TierThenPrice
    <3>2. \A x \in pool : Lookup(Evidence(q), x.name, 0) \in Nat
        BY EvidenceFacts
    <3>3. PICK C \in Nat, X \in Nat :
             /\ C >= 1 /\ X >= 1
             /\ \A x \in pool : x.price <= C
             /\ \A x \in pool : \A e : Lookup(e, x.name, 0) \in Nat =>
                  /\ Score(x, q.policy, pool, e) \in Int
                  /\ Score(x, q.policy, pool, e) = Weighed(x, q.policy, e, C, X)
      <4> HIDE DEF pool
      <4> QED
          BY <1>3, ScoreFacts
    <3>4. /\ s(m) \in Int /\ s(m) = Weighed(m, P, Evidence(q), C, X)
          /\ s(n) \in Int /\ s(n) = Weighed(n, P, Evidence(q), C, X)
        BY <3>2, <3>3
    <3>5. /\ m.price \in Nat /\ m.window \in Nat /\ Tier(m, 0) \in 0..2 /\ m.price <= C
          /\ n.price \in Nat /\ n.window \in Nat /\ Tier(n, 0) \in 0..2 /\ n.price <= C
        BY <1>3, <3>3, ModelFacts
    <3> HIDE DEF s, pool, P
    <3>6. ASSUME NEW x, x.price \in Nat, x.window \in Nat, Tier(x, 0) \in 0..2,
                 Lookup(Evidence(q), x.name, 0) \in Nat
          PROVE  Weighed(x, P, Evidence(q), C, X)
                   = (2 * P.cost * (C - x.price) + P.quality * Tier(x, 0) * C) * (X * Grain)
      <4> DEFINE c == P.cost
                 Q == P.quality
                 p == x.price
                 w == x.window
                 t == Tier(x, 0)
                 l == Lookup(Evidence(q), x.name, 0)
      <4>1. Weighed(x, P, Evidence(q), C, X) =
              2 * c * (C - p) * X * Grain + Q * t * C * X * Grain
              + 2 * 0 * w * C * Grain + 2 * 0 * l * C * X
          BY <1>4 DEF Weighed
      <4>2. c \in Int /\ Q \in Int /\ p \in Int /\ w \in Int /\ t \in Int /\ l \in Int /\ Grain \in Int
          BY <1>4, <3>6, GrainAssumption
      <4> HIDE DEF c, Q, p, w, t, l
      <4>3. 2 * 0 * w * C * Grain = 0 /\ 2 * 0 * l * C * X = 0
          BY <4>2
      <4>4. 2 * c * (C - p) * X * Grain + Q * t * C * X * Grain
              = (2 * c * (C - p) + Q * t * C) * (X * Grain)
          BY <4>2
      <4>5. 2 * c * (C - p) * X * Grain + Q * t * C * X * Grain \in Int
          BY <4>2
      <4>6. Weighed(x, P, Evidence(q), C, X) = (2 * c * (C - p) + Q * t * C) * (X * Grain)
          BY <4>1, <4>3, <4>4, <4>5
      <4> QED
          BY <4>6 DEF c, Q, p, t
    <3>7. /\ s(m) = (2 * P.cost * (C - m.price) + P.quality * Tier(m, 0) * C) * (X * Grain)
          /\ s(n) = (2 * P.cost * (C - n.price) + P.quality * Tier(n, 0) * C) * (X * Grain)
        BY <3>2, <3>4, <3>5, <3>6
    <3>8. /\ s(m) = s(n) <=> m.price = n.price /\ (P.quality # 0 => Tier(m, 0) = Tier(n, 0))
          /\ s(m) > s(n) <=> \/ P.quality # 0 /\ Tier(m, 0) > Tier(n, 0)
                             \/ (P.quality # 0 => Tier(m, 0) = Tier(n, 0)) /\ m.price < n.price
      <4> DEFINE c == P.cost
                 Q == P.quality
                 p == m.price
                 r == n.price
                 t == Tier(m, 0)
                 u == Tier(n, 0)
                 x == s(m)
                 y == s(n)
      <4>1. Weighable(c, Q, p, r, t, u, C, X)
          BY <1>4, <3>1, <3>3, <3>5 DEF Weighable
      <4>2. x = Worth(c, Q, p, t, C, X) /\ y = Worth(c, Q, r, u, C, X)
          BY <3>7 DEF Worth
      <4> HIDE DEF c, Q, p, r, t, u, x, y
      <4>3. LET k == Worth(c, Q, p, t, C, X)
                l == Worth(c, Q, r, u, C, X)
            IN /\ k = l <=> p = r /\ (Q # 0 => t = u)
               /\ k > l <=> \/ Q # 0 /\ t > u
                            \/ (Q # 0 => t = u) /\ p < r
          BY <4>1, ScoresByTierThenPrice
      <4>4. /\ x = y <=> p = r /\ (Q # 0 => t = u)
            /\ x > y <=> \/ Q # 0 /\ t > u
                         \/ (Q # 0 => t = u) /\ p < r
          BY <4>2, <4>3
      <4> QED
          BY <4>4 DEF c, Q, p, r, t, u, x, y
    <3>9. s(m) = s(n) => (Cheaper(m, n) <=> Before(m, n, P))
        BY <3>5, <3>8 DEF Before
    <3>10. s(m) # s(n) => (s(m) > s(n) <=> Before(m, n, P))
        BY <3>5, <3>8 DEF Before, Cheaper
    <3> QED
        BY <2>2, <3>9, <3>10
  <2> QED
      BY <2>1, <2>2
<1>6. Selected(q) = {m \in pool : \A n \in pool \ {m} : Before(m, n, P)}
  <2> HIDE DEF s, pool, P
  <2> QED
      BY <1>2, <1>5
<1> QED
    BY <1>1, <1>6

(* Taking a model away takes it out of the pools drawn by tier range.        *)
LEMMA PoolWithout ==
  ASSUME NEW q, ~q.policy.floor, NEW ms, NEW m
  PROVE  Pool(ms \ {m}, q) = Pool(ms, q) \ {m}
BY DEF Pool, Candidates, CapableModels

(* Under every policy that reads no scorecards, a model that was not going   *)
(* to be chosen can be withdrawn without any request being answered by       *)
(* another model: prices are weighed against the dearest of the pool, but    *)
(* whoever that is does not decide.                                          *)
THEOREM LosersLeaveUnnoticed == Spec => LosersDoNotMatter
<1> DEFINE Chosen(q) == {m \in Pool(models, q) :
                           \A n \in Pool(models, q) \ {m} : Before(m, n, q.policy)}
           ByPreset == \A q \in Requests : TierThenPrice(q.policy) =>
                         (Pool(models, q) # {} => Selected(q) # {}) /\ Selected(q) = Chosen(q)
           Unnoticed == \A m \in Catalogue : Withdraw(m) =>
                          \A q \in Requests : q.policy.scorecard = 0 /\ m \notin Selected(q)
                                                => Selected(q)' = Selected(q)
<1>1. Inv => ByPreset
    BY ChosenByTierThenPrice
<1>2. ASSUME Inv, ByPreset, ByPreset', NEW m \in Catalogue, Withdraw(m),
             NEW q \in Requests, q.policy.scorecard = 0, m \notin Selected(q)
      PROVE  Selected(q)' = Selected(q)
  <2> DEFINE pool == Pool(models, q)
             rest == pool \ {m}
  <2>1. TierThenPrice(q.policy) /\ ~q.policy.floor
      BY <1>2, PoliciesAssumption, PresetsWeighTierThenPrice DEF TierThenPrice
  <2>2. Pool(models, q)' = rest
    <3>1. models' = models \ {m}
        BY <1>2 DEF Withdraw
    <3>2. Pool(models', q) = rest
        BY <2>1, <3>1, PoolWithout
    <3> QED
        BY <3>2
  <2>3. Selected(q) = {x \in pool : \A y \in pool \ {x} : Before(x, y, q.policy)}
      BY <1>2, <2>1
  <2>4. Selected(q)' = {x \in rest : \A y \in rest \ {x} : Before(x, y, q.policy)}
      BY <1>2, <2>1, <2>2
  <2>5. pool # {} => Selected(q) # {}
      BY <1>2, <2>1
  <2>6. pool \subseteq models
      BY DEF Pool, AutoPool, Candidates, CapableModels
  <2>7. ASSUME NEW x \in pool, NEW y \in pool PROVE ~(Before(x, y, q.policy) /\ Before(y, x, q.policy))
    <3>1. /\ x.price \in Nat /\ x.listed \in Nat /\ Tier(x, 0) \in 0..2
          /\ y.price \in Nat /\ y.listed \in Nat /\ Tier(y, 0) \in 0..2
        BY <1>2, <2>6, ModelFacts
    <3> QED
        BY <3>1 DEF Before, Cheaper
  <2> HIDE DEF pool
  <2>8. ASSUME NEW x \in Selected(q) PROVE x \in Selected(q)'
      BY <1>2, <2>3, <2>4, <2>8
  <2>9. ASSUME NEW x \in Selected(q)' PROVE x \in Selected(q)
    <3>1. x \in rest
        BY <2>4, <2>9
    <3>2. PICK w \in Selected(q) : TRUE
        BY <2>5, <3>1
    <3>3. w \in rest
        BY <1>2, <2>3, <3>2
    <3>4. x # w => Before(x, w, q.policy) /\ Before(w, x, q.policy)
        BY <2>3, <2>4, <2>9, <3>1, <3>2, <3>3
    <3> QED
        BY <2>7, <3>1, <3>2, <3>3, <3>4
  <2> QED
      BY <2>8, <2>9
<1>3. Inv /\ ByPreset /\ ByPreset' => [Unnoticed]_vars
    BY <1>2
<1> HIDE DEF ByPreset, Unnoticed
<1>4. Spec => [][Unnoticed]_vars
    BY <1>1, <1>3, InvInit, InvStep, PTL DEF Spec
<1> QED
    BY <1>4 DEF Unnoticed, LosersDoNotMatter
=============================================================================
