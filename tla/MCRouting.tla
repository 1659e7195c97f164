------------------------------- MODULE MCRouting -------------------------------
(* Small instances of Routing. The prices make cost and score, or cost and   *)
(* tier, pull in opposite directions; two endpoints list a "llama".          *)
EXTENDS Routing

CONSTANTS ollama, openai, llama, mini, mid, wide, big, t1, t2

Model(listed, provider, name, tier, price, caps, window) ==
  [listed |-> listed, provider |-> provider, name |-> name, tier |-> tier,
   price |-> price, caps |-> caps, window |-> window]

MCCatalogue ==
  {Model(1, ollama, llama, "small", 0, {}, 0),
   Model(2, ollama, llama, "balanced", 0, {"json"}, 5),
   Model(3, openai, big, "large", 9, {"json", "tools"}, 20),
   Model(4, openai, mid, "balanced", 2, {"json", "tools"}, 20),
   Model(4, openai, mid, "balanced", 4, {"json", "tools"}, 20),
   Model(5, openai, mini, "small", 1, {"json"}, 10),
   Model(5, openai, mini, "small", 2, {"json"}, 10),
   Model(6, openai, wide, "balanced", 2, {"json", "vision"}, 40)}

ScoredCatalogue == {m \in MCCatalogue : m.listed \in 1..4 /\ m.price # 4}

Ask(tasks, qualities, tokens, policies, scopes) ==
  [task : tasks, quality : qualities, tokens : tokens, policy : policies, scope : scopes]

(* LocalAuto: a policy decide accepts and _explain_auto words, though no     *)
(* preset has it. No scorecard bears on the first two sets of requests.      *)
LocalAuto == [AUTO_POLICY EXCEPT !.require = {"local"}]
MCRequests ==
  Ask({"simple", "json_extract", "tools"}, {"cheap", "balanced", "best", "turbo"}, {5},
      {GetPolicy("cheapest")}, {None})
  \cup Ask({"simple", "json_extract"}, {"balanced", "turbo"}, {5},
           {GetPolicy("private"), GetPolicy("deep")}, {None})
  \cup Ask({"simple", "json_extract"}, {"best"}, {5}, {GetPolicy("fast"), LocalAuto}, {None})
  \cup Ask({"simple", "reasoning"}, {"balanced"}, {1},
           {GetPolicy("auto"), GetPolicy("benchmarked")}, {None, t1})

(* Bound: up to MaxModels models without scorecards, and with scorecards up  *)
(* to three, which the cards are about.                                      *)
MCNext ==
  Next /\ (cards' # {} => /\ models' \subseteq ScoredCatalogue
                          /\ Cardinality(models') <= 3
                          /\ \A c \in cards' : \E m \in ScoredCatalogue : m.name = c.name)
MCSpec == Init /\ [][MCNext]_vars
=============================================================================
