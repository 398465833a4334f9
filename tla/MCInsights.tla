----------------------------- MODULE MCInsights -----------------------------
(* A week of three days; a habit of each schedule, and one of many times a  *)
(* week that starts later, alone or with another.                           *)
EXTENDS Insights

MCEntry(k, at) == [kind |-> k, hour |-> at]
MCEntries == {MCEntry("FULL", 6), MCEntry("MINIMUM", 18), MCEntry("EMERGENCY", 18)}

MCHabit(s) ==
    [schedule |-> s, days |-> {1}, every |-> 2, times |-> 2, start |-> 0, hour |-> 12,
     goal |-> 2, archived |-> FALSE, stacked |-> FALSE, minimum |-> TRUE,
     identities |-> {"reader"}]
MCHabits ==
    {MCHabit(s) : s \in {"daily", "specific_days", "interval", "times_per_week"}}
      \cup {[MCHabit("times_per_week") EXCEPT !.times = 6, !.start = 2]}

MCOther(entry) == [habit |-> MCHabit("daily"), entry |-> entry]
MCCompanions == {<<>>, <<MCOther(Missing)>>, <<MCOther(MCEntry("FULL", 6))>>}
=============================================================================
