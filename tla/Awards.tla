------------------------------- MODULE Awards -------------------------------
(***************************************************************************)
(* The badges that checkAndAwardBadges finds due after a completion.  A    *)
(* habit is the day it was created, the days it was completed and the      *)
(* hours, in UTC, at which its completions were written; archived habits   *)
(* count like the others.  A badge, once awarded, is never taken back.     *)
(***************************************************************************)
EXTENDS BehaviorAnalytics

CONSTANTS
    Scan,             \* rolling windows looked at
    Dedicated, Centurion,      \* completions in all
    EarlyHour, LateHour,       \* of the day
    StreakBadges      \* STREAK_MILESTONES

ASSUME AwardsAssumption ==
    /\ Scan \in Nat \ {0} /\ StreakBadges \subseteq Nat \ {0}
    /\ {Dedicated, Centurion, EarlyHour, LateHour} \subseteq Nat

(* From the day of its creation on.                                         *)
DoneThroughout(h, first, last) ==
    \A d \in first .. last : d >= h.created => d \in h.done

(* A window in which no habit was there yet is perfect too.                 *)
HasPerfectWeek(habits, today) ==
    /\ habits # <<>>
    /\ \E offset \in 0 .. Scan - 1 : \A h \in Range(habits) :
          DoneThroughout(h, today - offset - Week + 1, today - offset)

DueBadges(habits, today) ==
    LET total == FoldLeft(LAMBDA sum, h : sum + Cardinality(h.done), 0, habits)
        hours == UNION {h.hours : h \in Range(habits)}
        dates == UNION {h.done : h \in Range(habits)}
        streak == ProfileStreaks(dates, today).current
        badge(name, due) == IF due THEN {<<name, 0>>} ELSE {}
    IN  badge("first-step", total >= 1)
        \cup badge("early-bird", \E at \in hours : at < EarlyHour)
        \cup badge("night-owl", \E at \in hours : at >= LateHour)
        \cup badge("dedicated", total >= Dedicated)
        \cup badge("perfect-week", HasPerfectWeek(habits, today))
        \cup badge("centurion", total >= Centurion)
        \cup {<<"streak", m>> : m \in {n \in StreakBadges : n <= streak}}

(* calculatePerfectDays: days on which as many habits were completed as     *)
(* had been created; a completion before the creation counts too.           *)
PerfectDays(habits) ==
    {d \in UNION {h.done : h \in Range(habits)} :
        Len(SelectSeq(habits, LAMBDA h : d \in h.done))
          = Len(SelectSeq(habits, LAMBDA h : h.created <= d))}
=============================================================================
