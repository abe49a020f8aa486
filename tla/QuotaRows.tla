------------------------------ MODULE QuotaRows ------------------------------
(***************************************************************************)
(* From a provider's answer to quota rows, the window usage beside them    *)
(* and the verdict of the inspection.                                      *)
(*                                                                         *)
(* Pure operators.  A JSON object is a function from <<field, spelling>>,  *)
(* since most fields are read under two spellings; a raw value is tagged   *)
(* with what it holds.  Texts are kept where a rule depends on them.       *)
(***************************************************************************)
EXTENDS Integers, Sequences, FiniteSets
LOCAL INSTANCE SequencesExt
LOCAL INSTANCE FiniteSetsExt

CONSTANT NoValue        \* a missing value

Spellings == 1..3

-----------------------------------------------------------------------------
(* Reading a JSON object.                                                  *)

Named(o, f, tags) ==
    {s \in Spellings : <<f, s>> \in DOMAIN o /\ o[<<f, s>>].tag \in tags}
All == {"number", "numeral", "null", "junk", "object", "objectText", "array", "bool", "text", "fraction"}
FirstOf(o, f, S) == IF S = {} THEN NoValue ELSE o[<<f, Min(S)>>].val

\* floatValue: the first spelling with a number, as such or as text.
Number(o, f) == IF o = NoValue THEN NoValue ELSE FirstOf(o, f, Named(o, f, {"number", "numeral"}))
Number0(o, f) == IF Number(o, f) = NoValue THEN 0 ELSE Number(o, f)

\* objectField: the first spelling that is there, whatever it holds.
Object(o, f) ==
    IF o = NoValue \/ Named(o, f, All) = {} THEN NoValue
    ELSE LET raw == o[<<f, Min(Named(o, f, All))>>]
         IN IF raw.tag \in {"object", "objectText"} THEN raw.val ELSE NoValue

\* arrayField, then rawObject of each element: a null is an empty array.
Objects(o, f) ==
    LET found == IF o = NoValue THEN {} ELSE Named(o, f, {"array", "null"})
        first == o[<<f, Min(found)>>]
        IsObject(raw) == raw.tag \in {"object", "objectText"}
        kept == IF found = {} \/ first.tag = "null" THEN <<>> ELSE SelectSeq(first.val, IsObject)
    IN [k \in DOMAIN kept |-> kept[k].val]

\* stringField: a null reads as the empty text.
TextOf(o, f) ==
    LET found == IF o = NoValue THEN {} ELSE Named(o, f, {"text", "number", "null"})
    IN IF found = {} \/ o[<<f, Min(found)>>].tag = "null" THEN "" ELSE o[<<f, Min(found)>>].val

\* A name that rules look into, as the set of its words.
Words(o, f) == IF Named(o, f, {"text"}) = {} THEN {} ELSE FirstOf(o, f, Named(o, f, {"text"}))

\* boolPtrField.
Flag(o, f) == FirstOf(o, f, Named(o, f, {"bool"}))

\* quotaFractionPtrField: also "70%"; in percent.
Fraction(o, f) == FirstOf(o, f, Named(o, f, {"number", "numeral", "fraction"}))

\* parseResponseObject: NoValue is an error.
Answer(r) ==
    IF r.status \notin 200..299 THEN NoValue
    ELSE IF r.body.tag \in {"object", "objectText"} THEN r.body.val
    ELSE IF r.text.tag = "object" THEN r.text.val ELSE NoValue

\* The payload may be one level down, in "body".
Unwrapped(o, f) ==
    IF o = NoValue \/ <<f, 1>> \in DOMAIN o \/ Object(o, "body") = NoValue THEN o ELSE Object(o, "body")

-----------------------------------------------------------------------------
(* Rows.                                                                   *)

FiveHours == 18000
Week == 604800
ThirtyDays == 2592000
AverageMonth == 2628000

Row(key, scope) ==
    [key |-> key, scope |-> scope, used |-> NoValue, limit |-> NoValue, remaining |-> NoValue,
     fraction |-> NoValue, percent |-> NoValue, allowed |-> NoValue, reached |-> NoValue,
     seconds |-> NoValue, group |-> NoValue, after |-> NoValue, at |-> NoValue,
     tokens |-> NoValue, cost |-> NoValue]

Each(s, F(_)) == [k \in DOMAIN s |-> F(s[k])]
If(c, s) == IF c THEN s ELSE <<>>

\* parseClaudeUsageWindow and parseClaudeExtraUsage.
ClaudeUsage(w) == [percent |-> Number0(w, "utilization"), at |-> Number(w, "resets_at")]
ClaudeExtra(w) == [used |-> Number0(w, "used_credits"), limit |-> Number0(w, "monthly_limit"),
                   percent |-> Number(w, "utilization"), enabled |-> Flag(w, "is_enabled") = TRUE]

\* appendClaudeWindowQuotaRow.
ClaudeWindow(usage, f, scope, seconds) ==
    LET w == ClaudeUsage(Object(usage, f))
    IN If(Object(usage, f) # NoValue,
          <<[Row(f, scope) EXCEPT !.percent = w.percent, !.seconds = seconds, !.at = w.at]>>)

\* normalizeClaudeQuotaRows.
ClaudeRows(usage) ==
    LET extra == ClaudeExtra(Object(usage, "extra_usage"))
    IN ClaudeWindow(usage, "five_hour", "window", FiveHours)
         \o ClaudeWindow(usage, "seven_day", "window", Week)
         \o ClaudeWindow(usage, "seven_day_oauth_apps", "window", Week)
         \o ClaudeWindow(usage, "seven_day_opus", "model", Week)
         \o ClaudeWindow(usage, "seven_day_sonnet", "model", Week)
         \o ClaudeWindow(usage, "seven_day_cowork", "window", Week)
         \o ClaudeWindow(usage, "iguana_necktie", "window", NoValue)
         \o If(Object(usage, "extra_usage") # NoValue,
               <<[Row("extra_usage", "extra_usage") EXCEPT
                    !.used = extra.used, !.limit = extra.limit, !.percent = extra.percent,
                    !.allowed = extra.enabled]>>)

\* parseCodexUsageWindow: a zero counts as missing where a row is made of it.
CodexUsage(w) ==
    LET NonZero(g) == IF Number0(w, g) = 0 THEN NoValue ELSE Number(w, g)
    IN [percent |-> Number0(w, "used_percent"), seconds |-> NonZero("limit_window_seconds"),
        after |-> NonZero("reset_after_seconds"), at |-> NonZero("reset_at"),
        tokens |-> Number(w, "window_usage_tokens"), cost |-> Number(w, "window_usage_cost")]

\* appendCodexWindowQuotaRow with parseCodexRateLimitInfo's flags.
CodexWindow(info, f, prefix, scope) ==
    LET w == CodexUsage(Object(info, f))
    IN If(Object(info, f) # NoValue,
          <<[Row(<<prefix, f>>, scope) EXCEPT
               !.percent = w.percent, !.allowed = Flag(info, "allowed"),
               !.reached = Flag(info, "limit_reached"), !.seconds = w.seconds,
               !.after = w.after, !.at = w.at, !.tokens = w.tokens, !.cost = w.cost]>>)

\* appendCodexWindowQuotaRows.
CodexLimit(info, prefix, scope) ==
    IF info = NoValue THEN <<>>
    ELSE CodexWindow(info, "primary_window", prefix, scope)
           \o CodexWindow(info, "secondary_window", prefix, scope)

\* parseCodexUsagePayload: the limits beside the main one, each under its name.
CodexAdditional(usage) ==
    Each(Objects(usage, "additional_rate_limits"),
         LAMBDA l : [name |-> TextOf(l, "limit_name"), info |-> Object(l, "rate_limit")])

\* normalizeCodexQuotaRows.
CodexRows(usage) ==
    CodexLimit(Object(usage, "rate_limit"), "rate_limit", "window")
      \o CodexLimit(Object(usage, "code_review_rate_limit"), "code_review", "code_review")
      \o FlattenSeq(Each(CodexAdditional(usage), LAMBDA l : CodexLimit(l.info, l.name, "additional")))

\* parseGeminiCliQuotaPayload: a missing number reads as zero.
GeminiBucket(b) ==
    [Row(<<"bucket", TextOf(b, "modelId"), TextOf(b, "tokenType")>>, "model") EXCEPT
        !.remaining = Number0(b, "remainingAmount"), !.fraction = Number0(b, "remainingFraction")]

\* parseGeminiCliUserTier and appendGeminiCLICredits.
GeminiCredits(tier) ==
    Each(Objects(tier, "availableCredits"),
         LAMBDA c : [Row(<<"credits", TextOf(c, "creditType")>>, "credits") EXCEPT
                        !.remaining = Number0(c, "creditAmount")])

\* normalizeGeminiCLIQuotaRows.
GeminiRows(quota, assist) ==
    Each(Objects(quota, "buckets"), GeminiBucket)
      \o GeminiCredits(Object(assist, "currentTier")) \o GeminiCredits(Object(assist, "paidTier"))

\* antigravityQuotaGroupKey: a name is the set of its words.
GroupKey(words, k) ==
    LET known == words \cap {"gemini", "claude", "gpt"}
    IN IF known = {"gemini"} THEN "gemini"
       ELSE IF known = {"claude", "gpt"} THEN "claudeGPT"
       ELSE <<"group", IF words = {} THEN k ELSE words>>

\* normalizeAntigravityQuotaWindow and antigravityQuotaWindowOrder.
BucketSeconds(b) ==
    CASE TextOf(b, "window") \in {"5h", "five-hour", "five_hour"} -> FiveHours
      [] TextOf(b, "window") \in {"weekly", "week"} -> Week
      [] OTHER -> NoValue

\* normalizeAntigravityQuotaRows: within a group 5h, then weekly, then others.
AntigravityGroup(group, k) ==
    LET Usable(b) == Fraction(b, "remainingFraction") # NoValue
        buckets == SelectSeq(Objects(group, "buckets"), Usable)
        key == GroupKey(Words(group, "displayName"), k)
        Shown(b) == [Row(<<"bucket", key>>, "quota_group") EXCEPT
                       !.fraction = Fraction(b, "remainingFraction"), !.seconds = BucketSeconds(b),
                       !.group = key, !.at = Number(b, "resetTime")]
        Of(s) == SelectSeq(Each(buckets, Shown), LAMBDA r : r.seconds = s)
    IN Of(FiveHours) \o Of(Week) \o Of(NoValue)

\* parseAntigravityQuotaPayload: groups that are objects and have a usable
\* bucket; without "groups" it is an error.
AntigravityRows(o) ==
    LET payload == Unwrapped(o, "groups")
        Usable(group) == AntigravityGroup(group, 0) # <<>>
        groups == SelectSeq(Objects(payload, "groups"), Usable)
    IN IF payload = NoValue \/ Named(payload, "groups", {"array"}) = {} THEN NoValue
       ELSE FlattenSeq([k \in DOMAIN groups |-> AntigravityGroup(groups[k], k)])

\* parseKimiUsageDetail: used is made up of limit and remaining.
KimiDetail(o) ==
    IF o = NoValue THEN NoValue
    ELSE LET derived == Number(o, "used") = NoValue /\ Number(o, "limit") # NoValue
                          /\ Number(o, "remaining") # NoValue
         IN [used |-> IF derived THEN Number(o, "limit") - Number(o, "remaining") ELSE Number0(o, "used"),
             limit |-> Number0(o, "limit"), remaining |-> Number0(o, "remaining"),
             named |-> TextOf(o, "name") # "" \/ TextOf(o, "title") # "" \/ TextOf(o, "resetAt") # "",
             resetIn |-> Number0(o, "resetIn"), ttl |-> Number0(o, "ttl")]

\* hasKimiQuotaValues and isMeaningfulKimiDetail.
KimiValues(d) == d # NoValue /\ (d.used # 0 \/ d.limit # 0 \/ d.remaining # 0)
KimiMeaningful(d) == d # NoValue /\ (KimiValues(d) \/ d.named \/ d.resetIn # 0 \/ d.ttl # 0)

\* kimiWindow and quotaWindowFromDurationUnit.
UnitSeconds(u) ==
    CASE u = "second" -> 1 [] u = "minute" -> 60 [] u = "hour" -> 3600
      [] u = "day" -> 86400 [] u = "week" -> Week [] OTHER -> NoValue
DurationSeconds(o, unit, n) == IF UnitSeconds(unit) = NoValue THEN NoValue ELSE n * UnitSeconds(unit)
KimiSeconds(limit) ==
    LET w == IF Object(limit, "window") # NoValue THEN Object(limit, "window") ELSE limit
    IN DurationSeconds(w, TextOf(w, "timeUnit"), Number0(w, "duration"))

\* kimiDetailQuotaRow, for the values of a limit or of a detail.
KimiRow(key, scope, v) ==
    [Row(key, scope) EXCEPT
        !.used = v.used, !.limit = v.limit, !.remaining = v.remaining,
        !.percent = IF v.limit > 0 THEN (v.used * 100) \div v.limit ELSE NoValue,
        !.after = IF v.resetIn # 0 THEN v.resetIn ELSE NoValue]

\* A limit: its detail's values when it has any, else its own.
KimiLimit(limit) ==
    LET d == KimiDetail(Object(limit, "detail"))
        own == [used |-> Number0(limit, "used"), limit |-> Number0(limit, "limit"),
                remaining |-> Number0(limit, "remaining"), resetIn |-> Number0(limit, "resetIn")]
        v == IF KimiValues(d) THEN d ELSE own
        reset == IF own.resetIn # 0 \/ d = NoValue THEN own.resetIn ELSE d.resetIn
    IN [KimiRow(<<"limits", TextOf(limit, "name")>>, "limit", v) EXCEPT
            !.after = IF reset # 0 THEN reset ELSE NoValue, !.seconds = KimiSeconds(limit)]

\* parseKimiUsagePayload: the ratio of the month, in percent.
KimiMonth(usage) ==
    LET month == Object(Object(usage, "usages"), "limit_month_total")
        ratio == Number0(month, "used_ratio")
    IN If(Number(month, "used_ratio") # NoValue /\ ratio >= 0,
          <<[Row("month", "summary") EXCEPT
               !.used = ratio, !.limit = 100, !.remaining = 100 - ratio, !.percent = ratio]>>)

\* normalizeKimiQuotaRows.
KimiRows(usage) ==
    LET summary == KimiDetail(Object(usage, "usage"))
    IN Each(Objects(usage, "limits"), KimiLimit)
         \o If(KimiMeaningful(summary), <<KimiRow("usage", "summary", summary)>>)
         \o KimiMonth(usage)

\* parseXAIMoneyField: the first spelling that is not null, a number or {val}.
Money(o, f) ==
    LET found == Named(o, f, All \ {"null"})
        raw == o[<<f, Min(found)>>]
    IN IF found = {} THEN NoValue
       ELSE IF raw.tag \in {"object", "objectText"} THEN Number(raw.val, "val")
       ELSE IF raw.tag \in {"number", "numeral"} THEN raw.val ELSE NoValue

\* xaiProductUsageBreakdown: per product, by its name, the highest percent.
ProductUsage(config) ==
    LET items == Objects(config, "productUsage")
        names == {TextOf(items[k], "product") : k \in DOMAIN items} \ {""}
        Percents(n) == {Number(items[k], "usagePercent") : k \in {j \in DOMAIN items : TextOf(items[j], "product") = n}}
    IN [n \in names |-> IF Percents(n) = {NoValue} THEN NoValue ELSE Max(Percents(n) \ {NoValue})]

\* xaiWeeklyQuotaRow: a verdict of its own only when the percent is given.
XAIWeekly(config) ==
    LET percent == Number(config, "creditUsagePercent")
        reached == percent # NoValue /\ Number0(config, "creditUsagePercent") >= 100
    IN If(percent # NoValue \/ DOMAIN ProductUsage(config) # {},
          <<[Row("weekly", "billing") EXCEPT
               !.percent = percent, !.seconds = Week,
               !.at = IF Number(Object(config, "currentPeriod"), "end") # NoValue
                      THEN Number(Object(config, "currentPeriod"), "end")
                      ELSE Number(config, "billingPeriodEnd"),
               !.reached = IF percent = NoValue THEN NoValue ELSE reached,
               !.allowed = IF percent = NoValue THEN NoValue ELSE ~reached]>>)

\* Pay-as-you-go spending: as given, else what exceeds the included budget.
OnDemandUsed(config) ==
    LET limit == Money(config, "monthlyLimit")
        total == Money(config, "used")
    IN IF Money(config, "onDemandUsed") # NoValue THEN Money(config, "onDemandUsed")
       ELSE IF limit # NoValue /\ total # NoValue THEN Max({0, total - limit}) ELSE NoValue

\* The included budget: its spending never exceeds it, and it is no limit
\* while pay-as-you-go has some left.
XAIIncluded(config) ==
    LET limit == Money(config, "monthlyLimit")
        total == Money(config, "used")
        cap == Money(config, "onDemandCap")
        paid == OnDemandUsed(config)
        both == limit # NoValue /\ total # NoValue
        included == IF both THEN Min({total, Max({0, limit})}) ELSE total
        left == cap # NoValue /\ paid # NoValue /\ Max({0, cap}) > paid
        judged == both /\ limit > 0
        reached == judged /\ included >= limit /\ ~left
    IN If(limit # NoValue \/ total # NoValue,
          <<[Row("monthly", "billing") EXCEPT
               !.seconds = ThirtyDays, !.limit = limit, !.used = included,
               !.remaining = IF both THEN Max({0, limit - included}) ELSE NoValue,
               !.percent = IF judged THEN (included * 100) \div limit ELSE NoValue,
               !.reached = IF judged THEN reached ELSE NoValue,
               !.allowed = IF judged THEN ~reached ELSE NoValue]>>)

\* The pay-as-you-go budget.
XAIOnDemand(config) ==
    LET cap == Money(config, "onDemandCap")
        paid == OnDemandUsed(config)
        known == paid # NoValue
        reached == known /\ paid >= cap
    IN IF cap = NoValue THEN <<>>
       ELSE If(cap > 0,
               <<[Row("onDemand", "billing") EXCEPT
                    !.seconds = ThirtyDays, !.limit = cap, !.used = paid,
                    !.remaining = IF known THEN Max({0, cap - paid}) ELSE NoValue,
                    !.percent = IF known THEN (paid * 100) \div cap ELSE NoValue,
                    !.reached = IF known THEN reached ELSE NoValue,
                    !.allowed = IF known THEN ~reached ELSE NoValue]>>)

\* normalizeXAIQuotaRows with parseXAIBillingPayload.
XAIConfig(o) == Object(Unwrapped(o, "config"), "config")
XAIRows(weekly, monthly) ==
    (IF XAIConfig(weekly) = NoValue THEN <<>> ELSE XAIWeekly(XAIConfig(weekly)))
      \o (IF XAIConfig(monthly) = NoValue THEN <<>>
          ELSE XAIIncluded(XAIConfig(monthly)) \o XAIOnDemand(XAIConfig(monthly)))

-----------------------------------------------------------------------------
(* The verdict of the inspection.                                          *)

NoLessThan(v, n) == v # NoValue /\ v >= n
NoMoreThan(v, n) == v # NoValue /\ v <= n
UsedAtLimit(row) == row.used # NoValue /\ NoLessThan(row.limit, 1) /\ row.used >= row.limit

\* inspectionQuotaProvider: the task's type, else the identity's, if known.
KnownProviders == {"antigravity", "codex", "gemini-cli", "claude", "kimi", "xai"}
InspectedAs(taskType, identityType) ==
    IF taskType \in KnownProviders THEN taskType
    ELSE IF identityType \in KnownProviders THEN identityType ELSE ""

\* xaiInspectionLimitReached: an explicit flag decides for its row.
XAIRowReached(row) ==
    /\ row.scope # "product"
    /\ IF row.reached # NoValue THEN row.reached ELSE UsedAtLimit(row)

\* inspectionQuotaLimitReached.
LimitReached(provider, rows) ==
    \E k \in DOMAIN rows :
        LET row == rows[k]
        IN CASE provider = "codex" -> row.reached = TRUE \/ NoLessThan(row.percent, 100)
             [] provider = "claude" -> NoLessThan(row.percent, 100)
             [] provider \in {"gemini-cli", "antigravity"} -> NoMoreThan(row.fraction, 0) \/ NoMoreThan(row.remaining, 0)
             [] provider = "kimi" -> UsedAtLimit(row) \/ NoMoreThan(row.remaining, 0)
             [] provider = "xai" -> XAIRowReached(row)
             [] OTHER -> FALSE

\* inspectionResultForTask and inspectionFailedResultStatus.
Verdict(task, identityType) ==
    CASE task.status = "completed" /\ task.quota = NoValue -> NoValue
      [] task.status = "completed" /\ task.quota # NoValue ->
            IF LimitReached(InspectedAs(task.type, identityType), task.quota)
            THEN "limitReached" ELSE "normal"
      [] task.status = "failed" ->
            CASE task.http = 401 -> "unauthorized"
              [] task.http = 402 -> "paymentRequired"
              [] OTHER -> "otherFailed"
      [] OTHER -> NoValue
=============================================================================
