------------------------------ MODULE Guidance ------------------------------
(***************************************************************************)
(* What the reports are used for: the intervention a habit is given and the *)
(* words the coach finds for it, the redesign an adaptive analysis          *)
(* proposes, the overload report over all active habits and the review of a *)
(* week.                                                                    *)
(***************************************************************************)
EXTENDS BehaviorAnalytics

CONSTANTS
    MinActive,       \* MIN_ACTIVE_HABITS
    MinSamples,      \* MIN_COMPLETION_SAMPLES_30D
    CrutchCount,     \* EMERGENCY_COUNT_30D_MIN
    ApproachDays,    \* WEEKDAY_APPROACH_WINDOW_DAYS
    Listed,          \* contributors an overload report lists
    Tones            \* COACH_TONE_VALUES

ASSUME GuidanceAssumption == MinSamples \in Nat \ {0}

HighRisk(r) == r.level \in {"HIGH", "CRITICAL"}

-----------------------------------------------------------------------------
(* Interventions.                                                           *)

(* A figure of the reports that have it, its sum and its mean.              *)
Known(reports, figure) ==
    [i \in {j \in DOMAIN reports : reports[j][figure] # Unknown} |-> reports[i][figure]]
Total(figures) == MapThenSumSet(LAMBDA i : figures[i], DOMAIN figures)
Mean(figures) == Total(figures) \div Cardinality(DOMAIN figures)

(* The average miss rate of the other active habits, when it says anything. *)
AssessOverload(siblings) ==
    LET rated == Known(siblings, "miss30")
    IN  IF \/ Len(siblings) + 1 < MinActive
           \/ DOMAIN rated = {}
           \/ 2 * Cardinality(DOMAIN rated) < Len(siblings)
          THEN Unknown ELSE Mean(rated)

StackCandidate(siblings) == \E r \in Range(siblings) : r.rate30 >= Percent(80)

DaysUntilWeekday(today, w) == (w - today) % Week

(* A weak weekday matters when it is near.                                  *)
WeekdayNear(r, ctx) ==
    r.weakDay # Unknown /\ DaysUntilWeekday(ctx.today, r.weakDay) <= ApproachDays

WeekdayDraft(ctx) ==
    IF ctx.candidate /\ ~ ctx.stacked THEN "HABIT_STACK" ELSE "PREPARE_FOR_RISK"

BetterWindow(r) ==
    /\ r.times.best # Unknown /\ r.times.best # r.times.planned
    /\ 2 * r.times.bestCount >= 3 * r.times.worstCount

Rule(id, priority, type, applies) ==
    [id |-> id, priority |-> priority, type |-> type, applies |-> applies]

(* Mutant: the nudge of a habit at risk is for its unscheduled days.        *)
AtRiskTodayOffDays(r, ctx) ==
    /\ "AT_RISK" \in r.signals /\ r.level # "CRITICAL"
    /\ ~ r.completedToday /\ ~ ctx.scheduledToday

AtRiskToday(r, ctx) ==
    /\ "AT_RISK" \in r.signals /\ r.level # "CRITICAL"
    /\ ~ r.completedToday /\ ctx.scheduledToday

InterventionRules(r, ctx) == <<
    Rule("CRITICAL_RISK_RECOVERY", 100, "RECOVERY", r.level = "CRITICAL"),
    Rule("HIGH_RISK_TOO_HARD", 92, "REDUCE_DIFFICULTY",
         r.level = "HIGH" /\ "TOO_HARD" \in r.signals),
    Rule("HIGH_RISK_WEEKDAY", 88, WeekdayDraft(ctx),
         r.level = "HIGH" /\ WeekdayNear(r, ctx)),
    Rule("HIGH_RISK_TIME_WINDOW", 84, "CHANGE_TIME", r.level = "HIGH" /\ BetterWindow(r)),
    Rule("CROSS_HABIT_OVERLOAD", 82, "PREPARE_FOR_RISK", ctx.otherMisses >= Percent(40)),
    Rule("DECLINING_RECOVERY", 80, "RECOVERY", "DECLINING" \in r.signals),
    Rule("AT_RISK_TODAY", 78, "RECOVERY", AtRiskToday(r, ctx)),
    Rule("RECOVERING_PROTECT_MOMENTUM", 76, "PROTECT_MOMENTUM", "RECOVERING" \in r.signals),
    Rule("WEEKDAY_PREP", 74, WeekdayDraft(ctx), ~ HighRisk(r) /\ WeekdayNear(r, ctx)),
    Rule("STRONG_MOMENTUM_IDENTITY", 70, "REINFORCE_IDENTITY",
         r.momentumLevel = "STRONG" /\ ~ HighRisk(r)) >>

None == [id |-> "NONE", priority |-> 0, type |-> "NONE", action |-> "NONE",
         signals |-> {}]

(* What the user is asked to do: smaller is advice only while the day is    *)
(* open and the habit has a smaller version.                                *)
SuggestedAction(rule, h, r) ==
    CASE rule.type = "HABIT_STACK" -> "CONFIGURE_HABIT_STACK"
      [] rule.type = "CHANGE_TIME" -> "OPEN_HABIT_EDIT"
      [] rule.type = "REDUCE_DIFFICULTY" ->
            IF h.minimum THEN "USE_MINIMUM_VERSION" ELSE "OPEN_HABIT_EDIT"
      [] rule.id = "CROSS_HABIT_OVERLOAD" -> "REVIEW_ACTIVE_HABITS"
      [] rule.type \in {"PROTECT_MOMENTUM", "REINFORCE_IDENTITY"} -> "NONE"
      [] OTHER -> IF r.completedToday \/ ~ h.minimum THEN "NONE"
                  ELSE "USE_MINIMUM_VERSION"

(* The signal that a rule adds to those of the report.                      *)
SourceSignals(rule, r) ==
    r.signals \cup
      (CASE rule.id = "CRITICAL_RISK_RECOVERY" -> {"AT_RISK"}
         [] rule.id = "HIGH_RISK_TOO_HARD" -> {"TOO_HARD"}
         [] rule.id \in {"HIGH_RISK_WEEKDAY", "WEEKDAY_PREP"} -> {"WEEKDAY_RISK"}
         [] rule.id = "HIGH_RISK_TIME_WINDOW" -> {"BEST_TIME_WINDOW"}
         [] rule.id = "CROSS_HABIT_OVERLOAD" -> {"OVERLOADED"}
         [] OTHER -> {})

InterventionContext(h, siblings, today) ==
    [today |-> today, scheduledToday |-> ~ h.archived /\ IsScheduledOnDate(h, today),
     stacked |-> h.stacked, candidate |-> StackCandidate(siblings),
     otherMisses |-> AssessOverload(siblings)]

(* The first rule that applies; none for an archived or an empty habit.     *)
EvaluateIntervention(h, r, ctx) ==
    LET rules == InterventionRules(r, ctx)
        matches == {i \in DOMAIN rules : rules[i].applies}
        rule == rules[CHOOSE i \in matches : \A j \in matches : i <= j]
    IN  IF h.archived \/ ~ r.history \/ matches = {} THEN None
        ELSE [id |-> rule.id, priority |-> rule.priority, type |-> rule.type,
              action |-> SuggestedAction(rule, h, r), signals |-> SourceSignals(rule, r)]

(* Stable within a week, so that a client shows an intervention once; it    *)
(* names no habit.                                                          *)
InterventionFingerprint(i, today) ==
    [type |-> i.type, week |-> today \div Week, signals |-> i.signals]

(* What the coach of a user shows, by the frequency the user has chosen.    *)
PassesFrequency(intervention, frequency) ==
    \/ intervention.priority >= 100
    \/ CASE frequency = "MINIMAL" -> intervention.type = "RECOVERY"
         [] frequency = "STANDARD" -> intervention.type # "PROTECT_MOMENTUM"
         [] OTHER -> TRUE

(* Words: what they are about, their tone and who wrote them.               *)
Words(about, tone, by) == [about |-> about, tone |-> tone, by |-> by]
NoWords == Words(Unknown, "none", "none")
FallbackWords(h, tone) == Words(h, tone, "engine")
ModelWords(h, tone) == Words(h, tone, "model")

(* The action is the engine's, whoever has found the words.                 *)
Answer(words, i) == [words |-> words, action |-> i.action]
Silence == Answer(NoWords, None)

(* What the coach says of intervention i of habit h: nothing, when the user *)
(* wants nothing; else the words cached, those written by the model, or,    *)
(* when there are none, the reason the engine itself gives.                 *)
CoachForHabit(h, i, prefs, cached, written) ==
    IF ~ prefs.enabled \/ i = None \/ ~ PassesFrequency(i, prefs.frequency) THEN Silence
    ELSE Answer(CASE cached # NoWords -> cached
                  [] cached = NoWords /\ written # NoWords -> written
                  [] OTHER -> FallbackWords(h, prefs.tone), i)

(* What the cache may hold for intervention i: nothing, the entry having    *)
(* expired, been evicted or never been written, or what the model wrote     *)
(* today for a habit whose intervention had this fingerprint, in the tone   *)
(* chosen then.                                                             *)
Cached(interventions, i, today) ==
    {NoWords} \cup
    {ModelWords(h, tone) :
        h \in {g \in DOMAIN interventions :
                 InterventionFingerprint(interventions[g], today)
                   = InterventionFingerprint(i, today)},
        tone \in Tones}

-----------------------------------------------------------------------------
(* Adaptive analysis: the redesign that the last weeks justify, with its    *)
(* confidence in percent.                                                   *)
Proposal(type, confidence) == [type |-> type, confidence |-> confidence]
NoProposal == Proposal("NONE", 0)

Thriving(r) ==
    r.rate30 >= Percent(80) /\ (r.momentumLevel = "STRONG" \/ "CONSISTENT" \in r.signals)

MinimumOveruse(r) == r.minimum30 >= Percent(45) /\ r.full30 <= Percent(35)
EmergencyCrutch(r) == r.emergencies >= CrutchCount /\ OrZero(r.rate30) <= Percent(60)

ReduceTarget(h, r) ==
    "TOO_HARD" \in r.signals /\ OrZero(r.rate30) <= Percent(55) /\ h.goal > 1

ReducedTimes(times) == Max({2, (times * 6) \div 10})

ReduceTargetConfidence(r) ==
    40 + (IF OrZero(r.rate30) <= Percent(35) THEN 25 ELSE 15)
       + Evidence(MinimumOveruse(r), 20) + Evidence(EmergencyCrutch(r), 10)
       + Evidence("DECLINING" \in r.signals, 5)

AnalyzeAdaptation(h, r) ==
    CASE ~ r.history \/ r.samples < MinSamples -> NoProposal
      [] Thriving(r) -> NoProposal
      [] OTHER ->
           IF ReduceTarget(h, r)
             THEN Proposal("REDUCE_TARGET", Min({100, ReduceTargetConfidence(r)}))
           ELSE IF /\ h.schedule = "times_per_week" /\ h.times >= 5
                   /\ OrZero(r.rate30) <= Percent(50)
             THEN Proposal("REDUCE_FREQUENCY",
                    45 + (30 * (h.times - ReducedTimes(h.times))) \div h.times
                       + Evidence("TOO_HARD" \in r.signals, 15))
           ELSE IF r.times.planned # Unknown /\ BetterWindow(r)
             THEN Proposal("CHANGE_TIME", 50 + Min({30, 5 * r.times.bestCount}))
           ELSE NoProposal

-----------------------------------------------------------------------------
(* The overload report over the reports of all active habits.               *)
AverageMiss(reports) ==
    LET rated == Known(reports, "miss30")
    IN  IF DOMAIN rated = {} THEN Unknown ELSE Mean(rated)

Overloaded(reports) ==
    /\ Len(reports) >= MinActive /\ reports # <<>>
    /\ 2 * Len(SelectSeq(reports, HighRisk)) >= Len(reports)
    /\ AverageMiss(reports) >= Percent(40)

Hundredths(millionths) == (millionths + 5000) \div 10000

(* How loaded an overloaded user is, in hundredths.                         *)
OverloadScore(reports) ==
    LET struggling == Ratio(Len(SelectSeq(reports, HighRisk)), Len(reports))
        size == Min({One, Ratio(Len(reports), 10)})
    IN  IF Overloaded(reports)
          THEN Hundredths((50 * AverageMiss(reports) + 30 * struggling + 20 * size)
                            \div 1000)
          ELSE 0

(* How much a habit adds to the load, in hundredths.                        *)
ContributionScore(r) ==
    LET broken == IF r.current > 0 THEN 0 ELSE IF r.longest >= 5 THEN 100 ELSE 40
    IN  Hundredths(
          (30 * r.risk + 15 * 10000 * Evidence("TOO_HARD" \in r.signals, 100)) \div 100
          + (25 * (OrZero(r.miss30) \div 10)) \div 100
          + Evidence(r.momentumLevel = "FADING" \/ "DECLINING" \in r.signals, 100000)
          + (OrZero(r.minimum30) + OrZero(r.emergency30)) \div 100
          + broken * 1000)

(* What makes a habit the one to protect, in billionths.                    *)
Strength(r) ==
    LET momentum == CASE r.momentumLevel = "STRONG" -> 25
                      [] r.momentumLevel = "STEADY" -> 10
                      [] OTHER -> 0
    IN  50 * OrZero(r.rate30) + momentum * One + 25 * (One - 10 * r.risk)
          + 10 * Min({One, Ratio(r.current, 14)})

(* The strongest habit of every identity that several habits serve.         *)
IdentityAnchors(reports, identities) ==
    LET group(x) == {i \in DOMAIN reports : x \in identities[i]}
        anchor(g) == CHOOSE i \in g : \A j \in g :
            \/ Strength(reports[i]) > Strength(reports[j])
            \/ Strength(reports[i]) = Strength(reports[j]) /\ i <= j
    IN  {anchor(group(x)) : x \in {y \in UNION Range(identities) :
                                     Cardinality(group(y)) >= 2}}

(* The habits an overload report lists: heaviest first, anchors last.       *)
Contributors(reports, identities) ==
    LET anchors == IdentityAnchors(reports, identities)
        load(i) == ContributionScore(reports[i])
        ahead(i) == {j \in DOMAIN reports :
            IF (i \in anchors) # (j \in anchors) THEN i \in anchors
            ELSE load(j) > load(i) \/ (load(j) = load(i) /\ j < i)}
    IN  {i \in DOMAIN reports : Cardinality(ahead(i)) < Listed}

-----------------------------------------------------------------------------
(* The review of a week.                                                    *)

(* The trend of a week: the rate over all expected days against the mean of *)
(* the habits' own rates of the week before.                                *)
WeeklyTrend(reports) ==
    LET expected == Total(Known(reports, "expected7"))
        completed == Total(Known(reports, "completed7"))
        before == Known(reports, "prev7")
        delta == IF expected = 0 \/ DOMAIN before = {} THEN 0
                 ELSE Ratio(completed, expected) - Mean(before)
    IN  IF delta >= Percent(15) THEN "IMPROVING"
        ELSE IF delta <= -Percent(15) THEN "DECLINING" ELSE "STEADY"

(* The weekday that most habits name, ties to the earlier.                  *)
ModeDay(days) ==
    LET count(w) == Cardinality({i \in DOMAIN days : days[i] = w})
        named == {w \in 0 .. Week - 1 : count(w) > 0}
    IN  IF named = {} THEN Unknown
        ELSE CHOOSE w \in named : \A v \in named :
                count(w) > count(v) \/ (count(w) = count(v) /\ w <= v)

Observed(reports) == SelectSeq(reports, LAMBDA r : DOMAIN r.weekdays # {})
WeakestDay(reports) ==
    LET seen == Observed(reports)
    IN  ModeDay([i \in DOMAIN seen |-> WorstDay(seen[i].weekdays)])
StrongestDay(reports) ==
    LET seen == Observed(reports)
    IN  ModeDay([i \in DOMAIN seen |-> BestDay(seen[i].weekdays)])

(* The one signal a review goes by; none of these, when it is another one.  *)
PrimarySignal(r) ==
    LET found == SelectSeq(<<"CONSISTENT", "RECOVERING", "STRONG_MOMENTUM", "AT_RISK",
                             "DECLINING", "TOO_HARD">>, LAMBDA s : s \in r.signals)
    IN  IF found = <<>> THEN "none" ELSE Head(found)

Improved(r) == r.rate7 # Unknown /\ r.prev7 # Unknown /\ r.rate7 > r.prev7

(* The review written without the model: its headline, what it celebrates,  *)
(* what it has noticed and what it asks for.                                *)
WeeklyCopy(reports) ==
    LET says(what, holds) == IF holds THEN {what} ELSE {}
        some(P(_)) == \E r \in Range(reports) : P(r)
        weakest == WeakestDay(reports)
        strongest == StrongestDay(reports)
        weak == says("RESTART", some(LAMBDA r : r.rate7 # Unknown /\ r.rate7 < Percent(50)))
                  \cup says("PROTECT_DAY", weakest # Unknown)
    IN  IF ~ some(LAMBDA r : r.history) \/ ~ some(LAMBDA r : r.expected7 > 0)
          THEN [headline |-> "FORMING", wins |-> {}, patterns |-> {}, focus |-> {"SMALLEST"}]
        ELSE [headline |-> WeeklyTrend(reports),
              wins |-> says("IMPROVED", some(Improved))
                         \cup says("STREAK", some(LAMBDA r : r.current >= 3))
                         \cup says("BACK", some(LAMBDA r : PrimarySignal(r) = "RECOVERING")),
              patterns |-> says("HARDEST_DAY", weakest # Unknown)
                         \cup says("STRONGEST_DAY", strongest \notin {Unknown, weakest})
                         \cup says("SMALLER_WORKS", some(LAMBDA r :
                                  PrimarySignal(r) = "TOO_HARD" /\ r.rate7 >= Percent(50))),
              focus |-> IF weak = {} THEN {"KEEP"} ELSE weak]
=============================================================================
