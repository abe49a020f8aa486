----------------------------- MODULE TokenRules -----------------------------
(***************************************************************************)
(* From a usage message to the token counts that are stored.               *)
(*                                                                         *)
(* CPA's executors report tokens in different shapes: with the cache in or *)
(* beside the input, with the reasoning in or beside the output, with a    *)
(* total that may be missing or wrong.  The executor that is named, else a *)
(* complete accounting, else the type of the credential selects a handler; *)
(* the handler folds the parts and says how far the total may be touched.  *)
(*                                                                         *)
(* Pure operators.  Counts are a record over Fields with `present`, which  *)
(* says that the message named cache_read_tokens.                          *)
(***************************************************************************)
EXTENDS Integers, FiniteSets
LOCAL INSTANCE FiniteSetsExt

CONSTANT MaxTokens      \* math.MaxInt64

ASSUME TokenAssumption == MaxTokens \in Nat \ {0}

Fields == {"input", "output", "reasoning", "cached", "read", "creation", "total"}
Overflow == -1

\* safeAddTokenCounts, for counts that are not negative.
SafeAdd(a, b) == IF a = Overflow \/ b = Overflow \/ a + b > MaxTokens THEN Overflow ELSE a + b

\* clampTokenValues.
ClampedFields(v) == {f \in Fields : v[f] < 0}
Clamp(v) == [f \in DOMAIN v |-> IF f \in ClampedFields(v) THEN 0 ELSE v[f]]

-----------------------------------------------------------------------------
(* Which handler.                                                          *)

\* executorDefinitions: aliases by handler.
ExecutorHandler(x) ==
    CASE x = "claudeexecutor" -> "claude"
      [] x \in {"geminiexecutor", "geminivertexexecutor", "geminicliexecutor",
                "aistudioexecutor", "antigravityexecutor"} -> "gemini"
      [] x \in {"codexexecutor", "codexwebsocketsexecutor", "codexautoexecutor", "xaiexecutor",
                "xaiwebsocketsexecutor", "xaiautoexecutor", "metaexecutor"} -> "responses"
      [] x \in {"kimiexecutor", "devinexecutor"} -> "strict"
      [] x = "openaicompatexecutor" -> "compat"
      [] OTHER -> "none"

\* identityAliasDefinitions and identityPrefixDefinitions.
IdentityHandler(t) ==
    CASE t \in {"claude", "anthropic"} -> "claude"
      [] t \in {"gemini", "vertex", "gemini-cli", "gemini-cli-code-assist", "gemini-interactions",
                "aistudio", "ai-studio", "antigravity"} -> "gemini"
      [] t \in {"codex", "xai", "meta"} -> "responses"
      [] t \in {"devin", "kimi", "kimi-ai", "kimi.ai", "kimi.com", "moonshot"} -> "strict"
      [] t \in {"openai", "openai-compatible", "openai_compatibility", "openai-compatibility",
                "openai-compatible-*"} -> "compat"
      [] OTHER -> "none"

\* decodeCompleteBreakdown: a version 2 accounting that is complete, not
\* negative and adds up.
BreakdownComplete(b) ==
    LET parts == {"uncached", "read", "write", "visible", "reasoning", "input", "output", "total",
                  "unclassified"}
    IN /\ b.version = 2 /\ b.schema = 2 /\ b.quality = "complete"
       /\ \A f \in parts : b[f] >= 0
       /\ b.unclassified = 0
       /\ SafeAdd(SafeAdd(b.uncached, b.read), b.write) = b.input
       /\ SafeAdd(b.visible, b.reasoning) = b.output
       /\ SafeAdd(b.input, b.output) = b.total
BreakdownTokens(b) ==
    [input |-> b.input, output |-> b.output, reasoning |-> b.reasoning, cached |-> b.read,
     read |-> b.read, creation |-> b.write, total |-> b.total, present |-> TRUE]

\* breakdownMatchesReportedValues.
BreakdownMatches(c, v) ==
    /\ ClampedFields(v) = {}
    /\ c.input >= v.input /\ c.output >= v.output
    /\ v.total > 0 => c.total = v.total
    /\ (v.present \/ v.read > 0) => c.read = v.read
    /\ v.creation # 0 => c.creation = v.creation
    /\ v.reasoning # 0 => c.reasoning = v.reasoning

\* ResolveExecutorWithBreakdown, then ResolveIdentity.  b = <<>> for no accounting.
Resolve(executor, type, v, b) ==
    IF ExecutorHandler(executor) # "none"
    THEN [handler |-> ExecutorHandler(executor), strength |-> "contract", executor |-> executor]
    ELSE IF b # <<>> /\ BreakdownComplete(b[1]) /\ BreakdownMatches(BreakdownTokens(b[1]), v)
    THEN [handler |-> "breakdown", strength |-> "accounting", executor |-> executor]
    ELSE IF IdentityHandler(type) # "none"
    THEN [handler |-> IdentityHandler(type), strength |-> "hint", executor |-> executor]
    ELSE [handler |-> "strict", strength |-> "unknown", executor |-> executor]

-----------------------------------------------------------------------------
(* The handlers.  Each returns the counts, what may become of the total,   *)
(* and whether it met an overflow or a conflict it cannot settle.          *)

Handled(v, authority, problems, changed) ==
    [tokens |-> v, authority |-> authority, problems |-> problems, changed |-> changed]

\* normalizeNonClaudeCacheRead.
CacheAlias(v, clamped, r) ==
    IF "read" \in clamped
    THEN Handled(v, "", IF v.cached > 0 THEN {"ambiguous"} ELSE {}, {})
    ELSE IF (v.present /\ r.strength = "contract") \/ v.read # 0 \/ v.cached <= 0
    THEN Handled(v, "", {}, {})
    ELSE Handled([v EXCEPT !.read = v.cached], "", {}, {"compatibility"})

\* claudeIdentityProvesLegacyMissingCache.
LegacyMissingCache(v, clamped, input) ==
    /\ clamped \cap {"input", "output", "read", "creation", "total"} = {}
    /\ SafeAdd(v.read, v.creation) > 0
    /\ SafeAdd(v.input, v.output) = v.total
    /\ SafeAdd(input, v.output) \notin {Overflow, v.total}

\* claudeHandler: the cache is beside the input.
ClaudeNormalize(v, clamped, r) ==
    LET input == SafeAdd(SafeAdd(v.input, v.read), v.creation)
        damaged == clamped \cap {"input", "read", "creation"} # {}
        folded == IF damaged \/ input = Overflow THEN v ELSE [v EXCEPT !.input = input]
        authority == IF damaged THEN "zeroOnly"
                     ELSE IF input = Overflow THEN "preserve"
                     ELSE IF r.strength = "contract" \/ LegacyMissingCache(v, clamped, input)
                     THEN "canonical" ELSE "zeroOnly"
        conflict == r.strength = "contract" /\ v.cached > 0 /\ v.read > 0 /\ v.cached # v.read
    IN Handled([folded EXCEPT !.cached = v.read], authority,
               (IF damaged \/ conflict THEN {"ambiguous"} ELSE {})
                 \cup (IF ~damaged /\ input = Overflow THEN {"overflow"} ELSE {}),
               IF folded # v \/ v.cached # v.read THEN {"normalized"} ELSE {})

\* Input + output is short of the total by exactly the reasoning.
Separated(v) ==
    /\ v.reasoning > 0
    /\ SafeAdd(v.input, v.output) \notin {Overflow, v.total}
    /\ SafeAdd(SafeAdd(v.input, v.output), v.reasoning) = v.total
SeparatedOverflows(v) ==
    /\ v.reasoning > 0
    /\ SafeAdd(v.input, v.output) # v.total
    /\ SafeAdd(SafeAdd(v.input, v.output), v.reasoning) = Overflow

\* Variant with a fault: a Gemini credential's reasoning is always beside the output.
GeminiIdentityFoldsAll(v) == v.reasoning > 0

\* shouldFoldGeminiIdentityReasoning, for fields that were not clamped.
GeminiIdentityFolds(v) == v.reasoning > 0 /\ (v.total = 0 \/ Separated(v))

Fold(h, authority) ==
    LET output == SafeAdd(h.tokens.output, h.tokens.reasoning)
    IN IF output = Overflow
       THEN Handled(h.tokens, "preserve", h.problems \cup {"overflow"}, h.changed)
       ELSE Handled([h.tokens EXCEPT !.output = output], authority, h.problems,
                    h.changed \cup {"normalized"})

\* geminiHandler: the reasoning is beside the output.
GeminiNormalize(v, clamped, r) ==
    LET h == CacheAlias(v, clamped, r)
        contract == r.strength = "contract"
        needs == IF contract THEN {"output", "reasoning"}
                 ELSE {"input", "output", "reasoning", "total"}
        damaged == clamped \cap (needs \cup {"output", "reasoning"}) # {}
        strong == /\ contract /\ h.problems = {}
                  /\ clamped \cap {"input", "output", "reasoning", "read", "creation"} = {}
        authority == IF strong THEN "canonical" ELSE "zeroOnly"
        folds == IF contract THEN v.reasoning > 0 ELSE GeminiIdentityFolds(v)
        found == h.problems \cup (IF damaged THEN {"ambiguous"} ELSE {})
                   \cup (IF ~damaged /\ ~contract /\ v.total # 0 /\ SeparatedOverflows(v)
                         THEN {"overflow"} ELSE {})
        kept == [h EXCEPT !.problems = found]
    IN IF ~damaged /\ folds THEN Fold(kept, authority) ELSE [kept EXCEPT !.authority = authority]

\* matchesResponsesTotalOnlyShape and matchesLegacyCodexCachedOnlyShape.
TotalOnly(v, clamped) == /\ clamped = {} /\ v.total > 0
                         /\ \A f \in Fields \ {"total"} : v[f] = 0
CachedOnly(v, clamped, r) ==
    /\ r.strength = "contract" /\ r.executor = "codexexecutor"
    /\ clamped = {} /\ v.cached > 0 /\ v.total = v.cached
    /\ \A f \in {"input", "output", "reasoning", "read", "creation"} : v[f] = 0

\* responsesInclusiveHandler: both parts are inside.
ResponsesNormalize(v, clamped, r) ==
    LET h == CacheAlias(v, clamped, r)
        strong == /\ h.problems = {} /\ r.strength = "contract"
                  /\ clamped \cap {"input", "output", "reasoning", "read", "creation"} = {}
    IN [h EXCEPT !.authority =
           IF TotalOnly(v, clamped) \/ CachedOnly(v, clamped, r) THEN "preserve"
           ELSE IF strong THEN "canonical" ELSE "zeroOnly"]

\* strictPassThroughHandler.
StrictNormalize(v, clamped, r) == [CacheAlias(v, clamped, r) EXCEPT !.authority = "zeroOnly"]

\* openAICompatibilityHandler with issue272SeparatedReasoningRule.
CompatNormalize(v, clamped, r) ==
    LET h == StrictNormalize(v, clamped, r)
        damaged == clamped \cap {"input", "output", "reasoning", "total"} # {}
    IN IF damaged THEN [h EXCEPT !.problems = @ \cup {"ambiguous"}]
       ELSE IF v.total > 0 /\ SeparatedOverflows(v) THEN [h EXCEPT !.problems = @ \cup {"overflow"}]
       ELSE IF v.total > 0 /\ Separated(v)
       THEN [Fold(h, "zeroOnly") EXCEPT !.changed = h.changed \cup {"compatibility"}]
       ELSE h

-----------------------------------------------------------------------------
(* The total.                                                              *)

\* reconcileZeroOnlyTotal.
ZeroOnlyTotal(v, clamped, r) ==
    LET sum == SafeAdd(v.input, v.output)
    IN CASE v.total # 0 ->
              Handled(v, "", IF r.handler = "strict" \/ sum = v.total THEN {}
                             ELSE IF sum = Overflow THEN {"overflow"} ELSE {"ambiguous"}, {})
         [] v.total = 0 /\ clamped \cap {"input", "output", "total"} # {} ->
              Handled(v, "", {"ambiguous"}, {})
         [] v.total = 0 /\ clamped \cap {"input", "output", "total"} = {} ->
              IF sum = Overflow THEN Handled(v, "", {"overflow"}, {})
              ELSE IF sum > 0 THEN Handled([v EXCEPT !.total = sum], "", {}, {"compatibility"})
              ELSE IF v.read > 0 THEN Handled([v EXCEPT !.total = v.read], "", {}, {"compatibility"})
              ELSE Handled(v, "", {}, {})

\* reconcileCanonicalTotal.
CanonicalTotal(v, clamped, r) ==
    LET sum == SafeAdd(v.input, v.output)
        cache == SafeAdd(v.read, v.creation)
        conflict == IF cache = Overflow THEN {"overflow"}
                    ELSE IF v.input < cache \/ v.output < v.reasoning THEN {"ambiguous"} ELSE {}
        fallback == ZeroOnlyTotal(v, clamped, r)
    IN IF clamped \ {"cached"} # {} THEN Handled(v, "", {"ambiguous"}, {})
       ELSE IF conflict # {} THEN
           IF v.total # 0 THEN Handled(v, "", conflict, {})
           ELSE [fallback EXCEPT !.problems = @ \cup conflict]
       ELSE IF sum = Overflow THEN Handled(v, "", {"overflow"}, {})
       ELSE IF sum = v.total THEN Handled(v, "", {}, {})
       ELSE Handled([v EXCEPT !.total = sum], "", {},
                    {IF v.total = 0 THEN "compatibility" ELSE "corrected"})

\* reconcileFinalTotal.
FinalTotal(h, clamped, r) ==
    CASE h.authority = "canonical" -> CanonicalTotal(h.tokens, clamped, r)
      [] h.authority = "zeroOnly" -> ZeroOnlyTotal(h.tokens, clamped, r)
      [] OTHER -> Handled(h.tokens, "", {}, {})

\* summarizeTokenOutcome.
Outcome(problems, changed) ==
    CASE "overflow" \in problems -> "overflow"
      [] problems = {"ambiguous"} -> "ambiguous"
      [] problems = {} /\ "corrected" \in changed -> "corrected"
      [] problems = {} /\ "corrected" \notin changed /\ "compatibility" \in changed -> "compatibility"
      [] OTHER -> IF changed = {} THEN "valid" ELSE "normalized"

\* tokenBreakdownHandler replaces the counts; the others normalise them.
Normalize(v, clamped, r, b) ==
    CASE r.handler = "claude" -> ClaudeNormalize(v, clamped, r)
      [] r.handler = "gemini" -> GeminiNormalize(v, clamped, r)
      [] r.handler = "responses" -> ResponsesNormalize(v, clamped, r)
      [] r.handler = "compat" -> CompatNormalize(v, clamped, r)
      [] r.handler = "breakdown" ->
            LET c == BreakdownTokens(b[1])
            IN Handled(c, "preserve", {}, IF \E f \in Fields : c[f] # v[f] THEN {"normalized"} ELSE {})
      [] OTHER -> StrictNormalize(v, clamped, r)

\* Process.
Process(v, r, b) ==
    LET clamped == ClampedFields(v)
        h == Normalize(Clamp(v), clamped, r, b)
        f == FinalTotal(h, clamped, r)
    IN [tokens |-> f.tokens, authority |-> h.authority,
        outcome |-> Outcome(h.problems \cup f.problems,
                            h.changed \cup f.changed
                              \cup (IF clamped = {} THEN {} ELSE {"corrected"}))]

-----------------------------------------------------------------------------
(* The three schema migrations that brought old token counts to today's form,*)
(* and the check that a legacy database is put through before its prices are*)
(* migrated.                                                                *)
(*                                                                          *)
(* A migration rewrites the stored events and corrects each rollup by the   *)
(* differences of the events that the rollup has counted; the others are    *)
(* counted later, in their new form.  The check computes the new counts of an*)
(* event again, in Go, from the database as it was before.                  *)
(*                                                                          *)
(* An event has auth ("oauth", "apikey", "api_key"), the index of its       *)
(* credential, a provider and counts; `types` gives the type of the identities*)
(* by <<auth type, index>>.  An index may be padded with spaces.  A rollup  *)
(* stands for one row of the hourly, daily or identity table and has the id *)
(* of the last event it has counted.                                        *)

LegacyFields == {"input", "output", "reasoning", "cached", "read", "creation", "total"}
ClaudeFamily == {"claude", "anthropic"}
GeminiFamily == {"gemini", "vertex", "gemini-cli", "gemini-cli-code-assist", "antigravity",
                 "aistudio", "ai-studio"}
Trimmed(index) == [index EXCEPT !.padded = FALSE]

-----------------------------------------------------------------------------
(* 20260601: Claude's input gets the cache that was left out of it.        *)

ClaudeCandidate(e, types) ==
    /\ e.read + e.creation > 0
    /\ \/ e.auth = "oauth" /\ e.provider \in ClaudeFamily
       \/ /\ e.auth \in {"apikey", "api_key"}
          /\ <<"apikey", Trimmed(e.index)>> \in DOMAIN types
          /\ types[<<"apikey", Trimmed(e.index)>>] \in ClaudeFamily

ClaudeTokens(e) ==
    LET input == CASE e.total = 0 -> e.input + e.read + e.creation
                   [] e.total # 0 /\ e.total > e.output + e.reasoning -> e.total - e.output - e.reasoning
                   [] OTHER -> e.input
        total == IF e.total = 0 THEN e.input + e.read + e.creation + e.output + e.reasoning ELSE e.total
    IN [e EXCEPT !.input = Max({e.input, input}), !.cached = e.read, !.total = Max({e.total, total})]

\* The events whose differences belong into a rollup.
Counted(r, events) == {i \in r.events \cap DOMAIN events : i <= r.cursor}

Difference(r, old, new, f) ==
    MapThenSumSet(LAMBDA i : new[i][f] - old[i][f], Counted(r, old))

ClaudeRollup(r, old, new) ==
    [r EXCEPT !.input = @ + Difference(r, old, new, "input"),
              !.cached = Max({0, @ + Difference(r, old, new, "cached")}),
              !.total = @ + Difference(r, old, new, "total")]

-----------------------------------------------------------------------------
(* 20260605: Gemini's output gets the reasoning that was beside it.        *)

GeminiCandidate(e, types) ==
    /\ e.reasoning > 0 /\ e.total > 0
    /\ e.input + e.output # e.total /\ e.input + e.output + e.reasoning = e.total
    /\ IF <<e.auth, e.index>> \in DOMAIN types
       THEN types[<<e.auth, e.index>>] \in GeminiFamily
       ELSE e.provider \in GeminiFamily

GeminiTokens(e) == [e EXCEPT !.output = @ + e.reasoning]

GeminiRollup(r, old, new) == [r EXCEPT !.output = @ + Difference(r, old, new, "output")]

-----------------------------------------------------------------------------
(* 20260710: the cache read takes over from the cached tokens.             *)

CacheReadTokens(e) == IF e.read > 0 THEN e ELSE [e EXCEPT !.read = e.cached]

\* From the cached tokens, which also hold what cleanup has deleted.
CacheReadRollup(r, old, new) ==
    LET changed == MapThenSumSet(LAMBDA i : new[i].read - old[i].cached, Counted(r, old))
    IN [r EXCEPT !.read = Max({0, r.cached + changed})]

-----------------------------------------------------------------------------
(* The migrations that are pending, in order.                              *)

Database(events, rollups) == [events |-> events, rollups |-> rollups]

ClaudeBackfill(d, types) ==
    LET new == [i \in DOMAIN d.events |->
                  IF ClaudeCandidate(d.events[i], types) THEN ClaudeTokens(d.events[i]) ELSE d.events[i]]
    IN Database(new, [k \in DOMAIN d.rollups |-> ClaudeRollup(d.rollups[k], d.events, new)])

GeminiBackfill(d, types) ==
    LET new == [i \in DOMAIN d.events |->
                  IF GeminiCandidate(d.events[i], types) THEN GeminiTokens(d.events[i]) ELSE d.events[i]]
    IN Database(new, [k \in DOMAIN d.rollups |-> GeminiRollup(d.rollups[k], d.events, new)])

CacheReadBackfill(d) ==
    LET new == [i \in DOMAIN d.events |-> CacheReadTokens(d.events[i])]
    IN Database(new, [k \in DOMAIN d.rollups |-> CacheReadRollup(d.rollups[k], d.events, new)])

Migrated(d, types, pending) ==
    LET first == IF "claude" \in pending THEN ClaudeBackfill(d, types) ELSE d
        second == IF "gemini" \in pending THEN GeminiBackfill(first, types) ELSE first
    IN IF "cacheRead" \in pending THEN CacheReadBackfill(second) ELSE second

-----------------------------------------------------------------------------
(* The check.                                                              *)

\* pricingM2ProviderMatch: the two families are told apart by their old rules.
ProviderMatch(e, types, family, claude) ==
    LET TypeOf(k) == IF k \in DOMAIN types THEN types[k] ELSE ""
    IN CASE claude /\ e.auth = "oauth" -> e.provider \in family
         [] claude /\ e.auth # "oauth" ->
              e.auth \in {"apikey", "api_key"} /\ TypeOf(<<"apikey", Trimmed(e.index)>>) \in family
         [] ~claude ->
              IF e.auth \in {"oauth", "apikey"} /\ <<e.auth, e.index>> \in DOMAIN types
              THEN types[<<e.auth, e.index>>] \in family ELSE e.provider \in family

\* pricingM2ExpectedTokens.
ExpectedTokens(e, types, pending) ==
    LET claude == "claude" \in pending /\ e.read + e.creation > 0 /\ ProviderMatch(e, types, ClaudeFamily, TRUE)
        candidate == IF e.total = 0 THEN e.input + e.read + e.creation
                     ELSE IF e.total > e.output + e.reasoning THEN e.total - e.output - e.reasoning
                     ELSE e.input
        input == IF claude THEN Max({e.input, candidate}) ELSE e.input
        cached == IF claude THEN e.read ELSE e.cached
        total == IF claude /\ e.total = 0 THEN input + e.output + e.reasoning ELSE e.total
        gemini == /\ "gemini" \in pending /\ e.reasoning > 0 /\ total > 0
                  /\ input + e.output # total /\ input + e.output + e.reasoning = total
                  /\ ProviderMatch(e, types, GeminiFamily, FALSE)
    IN [e EXCEPT !.input = input, !.cached = cached, !.total = total,
                 !.output = IF gemini THEN @ + e.reasoning ELSE @,
                 !.read = IF "cacheRead" \in pending /\ e.read <= 0 THEN cached ELSE @]

\* verifyPricingM2Event: an event with other counts stops the migration.
Accepted(old, now, types, pending) ==
    \A f \in LegacyFields : now[f] = ExpectedTokens(old, types, pending)[f]
=============================================================================
