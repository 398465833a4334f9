------------------------- MODULE BehaviorAnalytics -------------------------
(***************************************************************************)
(* The deterministic engine behind every report on a habit: completion      *)
(* rates, streaks, weekday and time patterns, difficulty, risk, momentum    *)
(* and the signals derived from them.                                       *)
(*                                                                         *)
(* Days are numbers, weekday 0 is Monday, a log maps the days so far to the *)
(* kind and the hour of their completion.  Rates are whole parts of One     *)
(* (the code uses doubles), Unknown is the code's null.                     *)
(***************************************************************************)
EXTENDS Integers, Sequences, FiniteSets, FiniteSetsExt, SequencesExt

CONSTANTS
    Week,            \* days of a week and of the short window
    Medium, Long,    \* days of the other windows
    MinPerWeekday,   \* occurrences before a weekday is judged
    StreakCap,       \* MOMENTUM_STREAK_CAP
    StreakMin,       \* CONSISTENT_MIN_STREAK
    TimeSample       \* TIME_WINDOW_MIN_SAMPLE

ASSUME AnalyticsAssumption ==
    /\ {Week, MinPerWeekday, StreakMin, TimeSample} \subseteq Nat \ {0}
    /\ Medium \in Nat /\ Long \in Nat /\ StreakCap \in Nat
    /\ Week <= Medium /\ Medium <= Long

One == 10000000
Percent(p) == p * (One \div 100)
Unknown == -1
OrZero(x) == IF x = Unknown THEN 0 ELSE x
Ratio(n, d) == (n * One + d \div 2) \div d
Clamp(x) == Max({0, Min({One, x})})

Kinds == {"FULL", "MINIMUM", "EMERGENCY"}
Missing == [kind |-> "none", hour |-> 0]
Window(today, n) == (today - n + 1) .. today

-----------------------------------------------------------------------------
(* Schedules.                                                               *)
IsScheduledOnDate(h, d) ==
    CASE h.schedule = "specific_days" -> h.days = {} \/ d % Week \in h.days
      [] h.schedule = "interval" ->
            h.every <= 1 \/ (d >= h.start /\ (d - h.start) % h.every = 0)
      [] OTHER -> TRUE

(* Days before the start of the habit are never scheduled.                  *)
Scheduled(h, d) == d >= h.start /\ IsScheduledOnDate(h, d)

(* The completions a report loads: no upper bound, whatever its day is.     *)
Completed(log, today) ==
    {d \in DOMAIN log : log[d].kind # "none" /\ d > today - Long}

ExpectedCompletions(h, eligible, n) ==
    IF h.schedule = "times_per_week"
      THEN Min({eligible, (Max({1, h.times}) * n + Week - 1) \div Week})
      ELSE eligible

(* Mutant: an unfinished today is already a miss.                           *)
EligibleWithToday(h, days, today) == {d \in days : Scheduled(h, d)}

(* Today is not eligible: unfinished it is not a miss yet.                  *)
Eligible(h, days, today) == {d \in days \ {today} : Scheduled(h, d)}

(* Mutant: a completed today is expected but not counted.                   *)
RateForgetsToday(h, done, days, today) ==
    LET eligible == Eligible(h, days, today)
        expected == Cardinality(eligible) + Cardinality({today} \cap days \cap done)
        completed == Cardinality(eligible \cap done)
    IN  [rate |-> IF expected = 0 THEN Unknown ELSE Ratio(completed, expected),
         expected |-> expected, completed |-> completed]

(* Today counts once it is completed, scheduled or not.                     *)
RateForWindow(h, done, days, today) ==
    LET eligible == Eligible(h, days, today)
        extra == IF today \in days \cap done /\ today \notin eligible THEN 1 ELSE 0
        expected == ExpectedCompletions(h, Cardinality(eligible),
                                        Cardinality(days)) + extra
        completed == Cardinality(eligible \cap done) + extra
    IN  IF expected = 0 THEN [rate |-> Unknown, expected |-> 0, completed |-> 0]
        ELSE [rate |-> Min({One, Ratio(completed, expected)}),
              expected |-> expected, completed |-> completed]

MissRate(m) == IF m.rate = Unknown THEN Unknown ELSE One - m.rate

-----------------------------------------------------------------------------
(* Streaks of the reports.                                                  *)
Runs(done, last) == {n \in 0 .. Cardinality(done) : (last - n + 1) .. last \subseteq done}

LongestStreak(done) == Max({0} \cup UNION {Runs(done, d) : d \in done})

CurrentStreak(done, today) ==
    Max(Runs(done, IF today \in done THEN today ELSE today - 1))

(* calculateStreaks, behind the profile and the badges: walking back from   *)
(* the latest date, a date counts while it lies at most as many days before *)
(* the one expected as have been counted.                                   *)
WalkBack(dates) ==
    LET walk[next \in Min(dates) - 1 .. Max(dates), n \in 0 .. Cardinality(dates)] ==
            LET near == {d \in dates : d <= next /\ next - d <= n}
            IN  IF near = {} THEN n ELSE walk[Max(near) - 1, n + 1]
    IN  walk[Max(dates), 0]

ProfileStreaks(dates, today) ==
    IF dates = {} THEN [current |-> 0, longest |-> 0]
    ELSE [current |-> IF Max(dates) \in {today, today - 1} THEN WalkBack(dates) ELSE 0,
          longest |-> LongestStreak(dates)]

-----------------------------------------------------------------------------
(* Shares of the reduced versions.                                          *)
OfKind(log, days, k) == Cardinality({d \in days : log[d].kind = k})
Share(log, days, k) ==
    IF days = {} THEN Unknown ELSE Ratio(OfKind(log, days, k), Cardinality(days))

EvidencePoints(log, days) ==
    2 * OfKind(log, days, "FULL") + OfKind(log, days, "MINIMUM")
        + OfKind(log, days, "EMERGENCY")

-----------------------------------------------------------------------------
(* Weekdays: rates of the judgeable ones, ties to the earlier.              *)
WeekdayRates(h, done, today) ==
    LET days(w) == {d \in Eligible(h, Window(today, Long), today) : d % Week = w}
        judged == {w \in 0 .. Week - 1 : Cardinality(days(w)) >= MinPerWeekday}
    IN  [w \in judged |-> Ratio(Cardinality(days(w) \cap done), Cardinality(days(w)))]

WorstDay(rates) ==
    CHOOSE w \in DOMAIN rates : \A v \in DOMAIN rates :
        rates[w] < rates[v] \/ (rates[w] = rates[v] /\ w <= v)

BestDay(rates) ==
    CHOOSE w \in DOMAIN rates : \A v \in DOMAIN rates :
        rates[w] > rates[v] \/ (rates[w] = rates[v] /\ w <= v)

(* The weak weekday, unless there is none to warn about.                    *)
WeekdayRisk(rates) ==
    LET worst == WorstDay(rates)
        others == (DOMAIN rates) \ {worst}
    IN  IF /\ Cardinality(DOMAIN rates) >= 2
           /\ rates[worst] < Percent(50)
           /\ MapThenSumSet(LAMBDA w : rates[w], others)
                >= Percent(65) * Cardinality(others)
          THEN worst ELSE Unknown

-----------------------------------------------------------------------------
(* Times of the day: five windows, the last one over midnight.              *)
TimeWindows == << <<5, 9>>, <<9, 12>>, <<12, 17>>, <<17, 21>>, <<21, 5>> >>

BucketOf(hour) ==
    CHOOSE b \in DOMAIN TimeWindows :
        LET from == TimeWindows[b][1]  to == TimeWindows[b][2]
        IN  IF from < to THEN from <= hour /\ hour < to ELSE hour >= from \/ hour < to

AnalyzeTimeWindows(h, log, days) ==
    LET count(b) == Cardinality({d \in days : BucketOf(log[d].hour) = b})
        used == {b \in DOMAIN TimeWindows : count(b) > 0}
        enough == Cardinality(days) >= TimeSample /\ Cardinality(used) >= 2
        best == CHOOSE b \in used : \A c \in used :
                    count(b) > count(c) \/ (count(b) = count(c) /\ b <= c)
        worst == CHOOSE b \in used : \A c \in used :
                    count(b) < count(c) \/ (count(b) = count(c) /\ b >= c)
    IN  [best |-> IF enough THEN best ELSE Unknown,
         worst |-> IF enough THEN worst ELSE Unknown,
         bestCount |-> IF enough THEN count(best) ELSE 0,
         worstCount |-> IF enough THEN count(worst) ELSE 0,
         planned |-> IF h.hour = Unknown THEN Unknown ELSE BucketOf(h.hour)]

-----------------------------------------------------------------------------
(* Evidence that a habit is too hard: each fact has its weight, in percent. *)
Evidence(holds, weight) == IF holds THEN weight ELSE 0

DetectDifficulty(log, days7, days30, decline) ==
    LET full30 == Share(log, days30, "FULL")
    IN  Evidence(Share(log, days7, "MINIMUM") >= Percent(40), 30)
          + Evidence(OfKind(log, days7, "EMERGENCY") >= 1, 20)
          + Evidence(Share(log, days30, "EMERGENCY") >= Percent(15), 20)
          + Evidence(decline > Percent(15), 20)
          + Evidence(full30 # Unknown /\ full30 <= Percent(50), 10)

TooHardTrigger == 50

-----------------------------------------------------------------------------
(* The risk and the momentum of a habit, in millionths.                     *)
Quantize(weighted) == (weighted + 500) \div 1000

ComputeRiskScore(miss7, miss30, decline, weakRate, minimum7, emergency7) ==
    LET weakness == IF weakRate = Unknown THEN 0 ELSE Clamp(One - 2 * weakRate)
        trend == Clamp((Max({0, decline}) * 5) \div 2)
    IN  Quantize(30 * OrZero(miss7) + 20 * trend + 15 * weakness
                 + 10 * OrZero(minimum7) + 15 * OrZero(emergency7)
                 + 10 * OrZero(miss30))

RiskLevelForScore(score) ==
    CASE score >= 800000 -> "CRITICAL"
      [] score >= 600000 /\ score < 800000 -> "HIGH"
      [] score >= 300000 /\ score < 600000 -> "MODERATE"
      [] OTHER -> "LOW"

ComputeMomentum(rate7, ratePrev7, current, longest, recent, previous) ==
    LET before == IF ratePrev7 = Unknown THEN rate7 ELSE ratePrev7
        trend == Clamp(Percent(50) + ((rate7 - before) * 5) \div 2)
        best == IF longest = 0 THEN current ELSE longest
        stability == Clamp(Ratio(current, Max({Week, Min({best, StreakCap})})))
        growth == IF recent + previous = 0 THEN Percent(50)
                  ELSE Ratio(recent, recent + previous)
    IN  IF rate7 = Unknown THEN Unknown
        ELSE Quantize(35 * rate7 + 20 * trend + 25 * stability + 20 * growth)

MomentumLevel(score) ==
    CASE score = Unknown -> "none"
      [] score >= 700000 -> "STRONG"
      [] score >= 350000 /\ score < 700000 -> "STEADY"
      [] OTHER -> "FADING"

-----------------------------------------------------------------------------
(* The labels; a habit without any completion has none.                     *)
DeriveSignals(r) ==
    LET signal(name, holds) == IF holds THEN {name} ELSE {}
    IN  IF ~ r.history THEN {}
        ELSE signal("CONSISTENT", r.rate30 >= Percent(80) /\ r.current >= StreakMin)
          \cup signal("DECLINING", r.rate30 # Unknown /\ r.rate7 # Unknown
                                   /\ r.rate30 - r.rate7 > Percent(15))
          \cup signal("RECOVERING", r.prev7 # Unknown /\ r.rate7 # Unknown
                                    /\ r.prev7 <= Percent(34)
                                    /\ r.rate7 - r.prev7 > Percent(15))
          \cup signal("AT_RISK", r.miss7 >= Percent(40) \/ r.level \in {"HIGH", "CRITICAL"})
          \cup signal("OVERLOADED", r.emergency30 >= Percent(25) /\ r.miss30 >= Percent(30))
          \cup signal("TOO_HARD", r.difficulty >= TooHardTrigger)
          \cup signal("STRONG_MOMENTUM", r.momentum >= 750000 /\ r.rate7 >= Percent(85))

(* What a report measures as of a day.  Only rates, weekdays and evidence   *)
(* stop at that day: the mixes, the longest streak and the times take every *)
(* loaded completion.                                                       *)
Measures(h, log, today) ==
    LET all == Completed(log, today)
        done == all \cap Window(today, Long)
        short == Window(today, Week)
        since(n) == {d \in all : d > today - n}
        d7 == RateForWindow(h, done, short, today)
        d30 == RateForWindow(h, done, Window(today, Medium), today)
        prev7 == RateForWindow(h, done, Window(today - Week, Week), today).rate
        decline == OrZero(d30.rate) - OrZero(d7.rate)
        rates == WeekdayRates(h, done, today)
        weak == IF DOMAIN rates = {} THEN Unknown ELSE WeekdayRisk(rates)
        current == CurrentStreak(done, today)
        risk == ComputeRiskScore(MissRate(d7), MissRate(d30), decline,
                    IF weak = Unknown THEN Unknown ELSE rates[weak],
                    Share(log, since(Week), "MINIMUM"),
                    Share(log, since(Week), "EMERGENCY"))
        momentum == ComputeMomentum(d7.rate, prev7, current, LongestStreak(all),
                        EvidencePoints(log, done \cap short),
                        EvidencePoints(log, done \cap Window(today - Week, Week)))
    IN  [history |-> all # {}, completedToday |-> today \in done,
         rate7 |-> d7.rate, rate30 |-> d30.rate, prev7 |-> prev7,
         miss7 |-> MissRate(d7), miss30 |-> MissRate(d30),
         emergency30 |-> Share(log, since(Medium), "EMERGENCY"),
         minimum30 |-> Share(log, since(Medium), "MINIMUM"),
         full30 |-> Share(log, since(Medium), "FULL"),
         emergencies |-> OfKind(log, since(Medium), "EMERGENCY"),
         samples |-> Cardinality(since(Medium)),
         expected7 |-> d7.expected, completed7 |-> d7.completed,
         current |-> current, longest |-> LongestStreak(all),
         weekdays |-> rates, weakDay |-> weak,
         risk |-> risk, level |-> RiskLevelForScore(risk),
         momentum |-> momentum, momentumLevel |-> MomentumLevel(momentum),
         difficulty |-> DetectDifficulty(log, since(Week), since(Medium), decline),
         times |-> AnalyzeTimeWindows(h, log, since(Medium)),
         signals |-> {}]

(* The whole report: what it measures, and the labels of that.              *)
Labelled(report) == [report EXCEPT !["signals"] = DeriveSignals(report)]
BuildBehaviorReport(h, log, today) == Labelled(Measures(h, log, today))
=============================================================================
