----------------------------- MODULE MCOutreach -----------------------------
(* Two habits; one candidate a request and one delivery a day.              *)
EXTENDS Outreach

MCDue(overload, habits) ==
    [overload |-> overload, habits |-> habits, proposal |-> FALSE, outcome |-> FALSE]
MCSituations == {
    MCDue(FALSE, << <<"REENGAGEMENT">> >>),
    MCDue(TRUE, << <<"REENGAGEMENT">>, <<"RECOVERY_NEEDED">> >>)}

MCPrefs(on, frequency) ==
    [coach |-> TRUE, weeklyReview |-> TRUE, reengagement |-> on, frequency |-> frequency]
MCPreferences == {MCPrefs(TRUE, "STANDARD"), MCPrefs(FALSE, "MINIMAL")}

(* More insights than the scan takes, the urgent one last.                  *)
MCCrowded == {MCDue(FALSE, << <<"REENGAGEMENT", "DIFFICULTY_TOO_HIGH">>,
    <<"REENGAGEMENT", "DIFFICULTY_TOO_HIGH">>, <<"RECOVERY_NEEDED">> >>)}
=============================================================================
