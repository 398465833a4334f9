------------------------------ MODULE Insights ------------------------------
(***************************************************************************)
(* The reports, interventions, proposals and overload reports of a user as  *)
(* the days pass and completions are logged, late or undone.                *)
(***************************************************************************)
EXTENDS Guidance, Awards

CONSTANTS
    MaxDay,          \* bound on the days modelled
    Entries,         \* the kinds and hours a completion may have
    Habits,          \* the habits analysed
    Companions       \* the other active habits: sequences of habit and entry

ASSUME InsightsAssumption ==
    /\ MaxDay \in Nat
    /\ \A h \in Habits : {h.start, h.times} \subseteq Nat

VARIABLES
    today,
    log,             \* day -> Completion, or Missing
    habit,
    others           \* the user's other habits and what every day of theirs holds

vars == <<today, log, habit, others>>

TypeOK ==
    /\ today \in 0 .. MaxDay
    /\ log \in [0 .. today -> Entries \cup {Missing}]
    /\ habit \in Habits /\ others \in Companions

Init ==
    /\ today = 0 /\ log = [d \in {0} |-> Missing]
    /\ habit \in Habits /\ others \in Companions

(* A completion is recorded, or its kind is changed, for today or a past    *)
(* day.                                                                     *)
Log(d, entry) ==
    /\ log[d] # entry
    /\ log' = [log EXCEPT ![d] = entry]
    /\ UNCHANGED <<today, habit, others>>

(* A completion is toggled off.                                             *)
Unlog(d) ==
    /\ log[d] # Missing
    /\ log' = [log EXCEPT ![d] = Missing]
    /\ UNCHANGED <<today, habit, others>>

Tomorrow ==
    /\ today < MaxDay
    /\ today' = today + 1
    /\ log' = [d \in 0 .. today + 1 |-> IF d <= today THEN log[d] ELSE Missing]
    /\ UNCHANGED <<habit, others>>

Next ==
    \/ \E d \in 0 .. today : (\E entry \in Entries : Log(d, entry)) \/ Unlog(d)
    \/ Tomorrow

Spec == Init /\ [][Next]_vars

-----------------------------------------------------------------------------
ReportOf(entries) == BuildBehaviorReport(habit, entries, today)
Report == ReportOf(log)

(* The reports of the other habits.                                         *)
OtherReports ==
    [i \in DOMAIN others |->
        BuildBehaviorReport(others[i].habit, [d \in 0 .. today |-> others[i].entry], today)]

Portfolio == <<Report>> \o OtherReports

(* The badges due; all habits were created on day 0.                        *)
AwardView(entries) ==
    LET done == Completed(entries, today)
    IN  [created |-> 0, done |-> done, hours |-> {entries[d].hour : d \in done}]
AwardViews(entries) ==
    <<AwardView(entries)>> \o
    [i \in DOMAIN others |-> AwardView([d \in 0 .. today |-> others[i].entry])]
Badges(entries) == DueBadges(AwardViews(entries), today)

(* The identities every habit of the portfolio serves.                      *)
PortfolioIdentities ==
    <<habit.identities>> \o [i \in DOMAIN others |-> others[i].habit.identities]

Intervention ==
    EvaluateIntervention(habit, Report, InterventionContext(habit, OtherReports, today))

(* The interventions of all habits, the habit analysed first.               *)
Interventions ==
    <<Intervention>> \o
    [i \in DOMAIN others |->
        EvaluateIntervention(others[i].habit, OtherReports[i],
            InterventionContext(others[i].habit, <<Report>> \o RemoveAt(OtherReports, i),
                                today))]

(* What the coach may answer about the habit a user of these preferences.   *)
CoachAnswers(prefs) ==
    {CoachForHabit(1, Intervention, prefs, cached, written) :
        cached \in Cached(Interventions, Intervention, today),
        written \in {NoWords, ModelWords(1, prefs.tone)}}

(* The preferences of a user who has only chosen a tone.                    *)
DefaultPreferences(tone) == [enabled |-> TRUE, frequency |-> "STANDARD", tone |-> tone]

-----------------------------------------------------------------------------
(* Completing a habit today never makes it look worse: its risk and its     *)
(* share of the load do not rise, its momentum does not fall, the user does *)
(* not become overloaded or more so, the habit does not join the ones the   *)
(* overload is put down to, no badge or perfect day is lost                 *)
(* (computeRiskScore, computeMomentum, contributionScore, identityAnchors,  *)
(* buildPortfolioOverloadReport, checkAndAwardBadges).                      *)
LoggingHelps ==
    [][ (log'[today] # log[today] /\ log'[today].kind = "FULL" /\ today' = today) =>
          \A before \in {Report}, after \in {ReportOf(log')} :
            /\ after.risk <= before.risk
            /\ after.momentum >= before.momentum
            /\ ContributionScore(after) <= ContributionScore(before)
            /\ Overloaded(<<after>> \o OtherReports) => Overloaded(Portfolio)
            /\ OverloadScore(<<after>> \o OtherReports) <= OverloadScore(Portfolio)
            /\ 1 \in Contributors(<<after>> \o OtherReports, PortfolioIdentities) =>
                  1 \in Contributors(Portfolio, PortfolioIdentities)
            /\ log[today] = Missing =>
                  /\ Badges(log) \subseteq Badges(log')
                  /\ PerfectDays(AwardViews(log))
                        \subseteq PerfectDays(AwardViews(log')) ]_vars

(* Every scheduled day before today has been completed in full, and nothing *)
(* but full completions are on record.                                      *)
Perfect ==
    \A d \in 0 .. today :
        log[d].kind = "FULL" \/ (log[d] = Missing /\ (d = today \/ ~ Scheduled(habit, d)))

(* Nothing is recorded for a day before the habit's start.                  *)
RecordedSinceStart == \A d \in 0 .. today : log[d] # Missing => d >= habit.start

(* A user who keeps to the schedule is never told otherwise, whatever the   *)
(* schedule is: no risk, no decline, no nudge, no review that asks for a    *)
(* restart and no redesign to less, though a habit that was done before its *)
(* start may be found too frequent (deriveSignals, evaluateIntervention,    *)
(* analyzeAdaptation, buildDeterministicWeeklyReview).                      *)
PerfectIsSafe ==
    Perfect =>
        /\ Report.level = "LOW" /\ Report.weakDay = Unknown
        /\ WeeklyCopy(<<Report>>).headline # "DECLINING"
        /\ "RESTART" \notin WeeklyCopy(<<Report>>).focus
        /\ Report.signals \cap {"AT_RISK", "DECLINING", "TOO_HARD", "OVERLOADED"} = {}
        /\ Intervention.type \notin {"RECOVERY", "REDUCE_DIFFICULTY", "CHANGE_TIME"}
        /\ AnalyzeAdaptation(habit, Report).type # "REDUCE_TARGET"
        /\ RecordedSinceStart =>
              AnalyzeAdaptation(habit, Report).type # "REDUCE_FREQUENCY"

(* A habit at risk that is due and not done is not met with silence by a    *)
(* coach of the default frequency, whether the model answers or not and     *)
(* whatever the cache holds; and the user is asked to do what the engine    *)
(* has decided (INTERVENTION_RULES, getCoachForHabit,                       *)
(* filterInterventionByFrequency).                                          *)
RiskIsAnswered ==
    ("AT_RISK" \in Report.signals /\ IsScheduledOnDate(habit, today)
        /\ log[today] = Missing /\ ~ habit.archived) =>
      /\ Intervention.type \notin {"NONE", "PROTECT_MOMENTUM", "REINFORCE_IDENTITY"}
      /\ \A tone \in Tones :
           \A answer \in CoachAnswers(DefaultPreferences(tone)) :
             answer.words # NoWords /\ answer.action = Intervention.action

-----------------------------------------------------------------------------
(* The following do not hold of this code; the README tells what TLC shows. *)

(* The profile's streak is the one of the reports.                          *)
StreaksAgree ==
    ProfileStreaks(Completed(log, today), today).current = Report.current

(* The overload of the interventions is the overload of the portfolio.      *)
OverloadAgrees ==
    (Intervention.id = "CROSS_HABIT_OVERLOAD") => Overloaded(Portfolio)

(* A habit is not told to keep its routine while a smaller one is proposed. *)
AdviceAgrees ==
    Intervention.type \in {"PROTECT_MOMENTUM", "REINFORCE_IDENTITY"} =>
        AnalyzeAdaptation(habit, Report).type \notin {"REDUCE_TARGET", "REDUCE_FREQUENCY"}

(* The coach speaks of the habit it was asked about, in the tone the user   *)
(* has chosen: the cache never changes results (coach.service.ts:251).      *)
CoachSpeaksOfHabit ==
    \A tone \in Tones :
        \A answer \in CoachAnswers(DefaultPreferences(tone)) :
            answer.words # NoWords => answer.words.about = 1 /\ answer.words.tone = tone

(* A user who keeps to the schedule is not told to do the habit less often. *)
PerfectKeepsFrequency ==
    Perfect => AnalyzeAdaptation(habit, Report).type # "REDUCE_FREQUENCY"

(* A user who keeps to the schedule has no hardest day.                     *)
PerfectHasNoHardestDay ==
    Perfect => "HARDEST_DAY" \notin WeeklyCopy(<<Report>>).patterns

(* Completing a past day never raises the risk.                             *)
BackfillHelps ==
    [][ (today' = today /\ \E d \in 0 .. today : log[d] = Missing /\ log'[d].kind = "FULL")
          => ReportOf(log').risk <= Report.risk ]_vars

AllDates ==
    Completed(log, today) \cup
    UNION {IF others[i].entry = Missing THEN {} ELSE 0 .. today : i \in DOMAIN others}

(* The perfect week is a week of completions (awards.service.ts:108).       *)
PerfectWeekEarned ==
    <<"perfect-week", 0>> \in Badges(log) => LongestStreak(AllDates) >= Week

(* A streak badge is given for consecutive days.                            *)
StreakBadgeEarned ==
    \A m \in StreakBadges : <<"streak", m>> \in Badges(log) =>
        m <= LongestStreak(AllDates)

(* A user whose day has begun before the server's keeps the streak: days    *)
(* are the client's, calculateStreaks compares them with the server's.      *)
EastKeepsStreak ==
    today - 1 \in Completed(log, today) =>
        ProfileStreaks(Completed(log, today), today - 1).current > 0

(* A week in which every habit kept its rate is steady.                     *)
TrendFollowsHabits ==
    (\A r \in Range(Portfolio) : r.prev7 # Unknown /\ r.rate7 = r.prev7) =>
        WeeklyTrend(Portfolio) = "STEADY"
=============================================================================
