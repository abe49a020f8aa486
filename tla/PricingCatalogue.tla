-------------------------- MODULE PricingCatalogue --------------------------
(***************************************************************************)
(* Which price of a public catalogue is offered for a model in use.        *)
(*                                                                         *)
(* The catalogue lists one model under several providers and spellings,    *)
(* the model in use may carry a prefix of the proxy.  Every entry that     *)
(* reads as the model is a candidate; the best that has a usable price is  *)
(* offered.  The candidates come from a Go map, in no order: the choice    *)
(* rests on the comparison alone.                                          *)
(*                                                                         *)
(* Pure operators.  A name is a path of namespaces, a base and a style of  *)
(* writing it, which the normalised key leaves out.                        *)
(***************************************************************************)
EXTENDS Integers, Sequences, FiniteSets
LOCAL INSTANCE SequencesExt

NoPrice == -1

\* stripPricingModelPrefix, normalizePricingModelKey.
StripPrefix(name) == [name EXCEPT !.path = <<>>]
NormalKey(name) == [name EXCEPT !.style = "plain"]

\* buildPricingCatalogIndex: the keys an entry is found under.
IndexKeys(e) == {e.id, e.name, StripPrefix(e.id), StripPrefix(e.name)}
NormalKeys(e) == {NormalKey(k) : k \in IndexKeys(e)}

\* pricingModelIDMatchLength.
IDMatchLength(model, id) ==
    IF \/ model.base = id.base /\ model.style = id.style /\ IsSuffix(id.path, model.path)
       \/ NormalKey(StripPrefix(model)) = NormalKey(id)
    THEN Len(id.path) + 1 ELSE 0

\* matchPricingCatalogCandidates: with a prefix, the model without it first.
Scores(model, e) ==
    LET suffix == StripPrefix(model)
    IN IF suffix # model
       THEN (IF suffix \in IndexKeys(e) THEN {100} ELSE {})
              \cup (IF NormalKey(suffix) \in NormalKeys(e) THEN {96} ELSE {})
              \cup (IF model \in IndexKeys(e) THEN {92} ELSE {})
              \cup (IF NormalKey(model) \in NormalKeys(e) THEN {90} ELSE {})
       ELSE (IF model \in IndexKeys(e) THEN {100} ELSE {})
              \cup (IF NormalKey(model) \in NormalKeys(e) THEN {92} ELSE {})
Candidates(model, entries) ==
    UNION {{[entry |-> e, score |-> s, idLength |-> IDMatchLength(model, e.id)] : s \in Scores(model, e)} :
             e \in entries}

\* pricingModelFamily, for the start of the base name.
Family(base) ==
    CASE base \in {"gpt", "chatgpt", "o1", "o3", "o4"} -> "openai"
      [] base = "claude" -> "anthropic"
      [] base = "gemini" -> "google"
      [] base = "grok" -> "xai"
      [] base \in {"moonshot", "kimi"} -> "moonshot"
      [] base \in {"mistral", "devstral", "codestral", "magistral", "ministral", "mixtral", "pixtral",
                   "voxtral", "openmistral", "openmixtral", "opencodestral", "labsdevstral",
                   "labsleanstral"} -> "mistral"
      [] base = "command" -> "cohere"
      [] base \in {"deepseek", "glm", "qwen", "minimax", "doubao", "llama", "xiaomi"} -> base
      [] OTHER -> ""

\* officialPricingProvidersByFamily.
OfficialProviders(family) ==
    CASE family = "openai" -> <<"openai", "azure", "azure-cognitive-services">>
      [] family = "anthropic" -> <<"anthropic", "google-vertex-anthropic">>
      [] family = "deepseek" -> <<"deepseek", "siliconflow-cn", "siliconflow">>
      [] family = "glm" -> <<"zai", "zhipuai", "zai-coding-plan", "zhipuai-coding-plan">>
      [] family = "qwen" -> <<"alibaba-cn", "alibaba", "aliyun-bailian">>
      [] family = "google" -> <<"google", "google-vertex">>
      [] family = "minimax" -> <<"minimax-cn", "minimax", "minimax-cn-coding-plan", "minimax-coding-plan">>
      [] family = "moonshot" -> <<"moonshotai-cn", "moonshotai", "kimi-for-coding">>
      [] family = "xiaomi" -> <<"xiaomi-token-plan-cn", "xiaomi", "xiaomi-token-plan-sgp",
                                "xiaomi-token-plan-ams">>
      [] family \in {"xai", "doubao", "mistral", "cohere", "llama"} -> <<family>>
      [] OTHER -> <<>>

\* pricingProviderRank.
ProviderRank(p) ==
    CASE p = "openai" -> 0 [] p = "anthropic" -> 1 [] p = "deepseek" -> 2 [] p = "google" -> 3
      [] p \in {"alibaba-cn", "alibaba"} -> 4 [] p \in {"zai", "zhipuai"} -> 5 [] p = "xai" -> 6
      [] p \in {"minimax-cn", "minimax", "minimax-cn-coding-plan", "minimax-coding-plan"} -> 7
      [] p \in {"xiaomi-token-plan-cn", "xiaomi-token-plan-sgp", "xiaomi-token-plan-ams", "xiaomi"} -> 8
      [] p = "302ai" -> 9 [] p = "openrouter" -> 10 [] p = "vercel" -> 11 [] OTHER -> 100

\* pricingProviderRankForModel.
Rank(model, p) ==
    LET official == OfficialProviders(Family(model.base))
        places == {k \in DOMAIN official : official[k] = p}
    IN IF places # {} THEN (CHOOSE k \in places : TRUE) - 1 ELSE 100 + ProviderRank(p)

\* isPlanZeroPricingCandidate.
PlanZero(e) == e.plan /\ e.price = 0

\* The later keys of the comparison; ids and providers by their order number.
TieKeys(c) ==
    <<-c.idLength, Len(c.entry.id.path), IF c.entry.deprecated THEN 1 ELSE 0, -c.entry.updated,
      c.entry.order>>
FirstDifference(s, t) ==
    LET k == CHOOSE k \in DOMAIN s : s[k] # t[k] /\ \A j \in 1..(k - 1) : s[j] = t[j]
    IN s # t /\ s[k] < t[k]

\* Variant with a fault: the better written name comes before the official provider.
LessByScore(model, l, r) ==
    FirstDifference(<<IF PlanZero(l.entry) THEN 1 ELSE 0, -l.score, Rank(model, l.entry.provider)>> \o TieKeys(l),
                    <<IF PlanZero(r.entry) THEN 1 ELSE 0, -r.score, Rank(model, r.entry.provider)>> \o TieKeys(r))

\* pricingCandidateLess.
Less(model, l, r) ==
    LET zeroL == PlanZero(l.entry)
        zeroR == PlanZero(r.entry)
        rankL == Rank(model, l.entry.provider)
        rankR == Rank(model, r.entry.provider)
    IN IF zeroL # zeroR THEN ~zeroL
       ELSE IF rankL # rankR /\ (rankL < 100 \/ rankR < 100) THEN rankL < rankR
       ELSE IF l.score # r.score THEN l.score > r.score
       ELSE IF rankL # rankR THEN rankL < rankR
       ELSE FirstDifference(TieKeys(l), TieKeys(r))

\* sortedUniquePricingCandidates: per provider and id the best, in order.
Unique(model, C) ==
    {c \in C : \A d \in C : (d.entry.provider = c.entry.provider /\ d.entry.id = c.entry.id /\ d # c)
                              => Less(model, c, d)}
Ordered(model, C) == SetToSortSeq(Unique(model, C), LAMBDA l, r : Less(model, l, r))

\* buildPricingSyncMatch: an entry needs both prices, neither negative.
UsablePrice(e) == e.price # NoPrice

\* buildPricingSyncMatchFromCandidates: the first usable one; <<>> is unmatched.
Offered(model, entries) ==
    LET usable == SelectSeq(Ordered(model, Candidates(model, entries)), LAMBDA c : UsablePrice(c.entry))
    IN IF usable = <<>> THEN <<>> ELSE <<usable[1].entry>>
=============================================================================
