------------------------------ MODULE Outreach ------------------------------
(***************************************************************************)
(* How insights reach a user: candidates gated by preferences, cooldowns    *)
(* and a daily cap, the app that schedules and confirms them, the hourly    *)
(* dispatcher that pushes re-engagement reminders, and the ledger of        *)
(* behavioural events with its funnel and its retention.                    *)
(*                                                                         *)
(* One user.  What is due (a situation) and the hour are inputs of every    *)
(* request; the reports they come from are those of module Guidance.        *)
(***************************************************************************)
EXTENDS Integers, Sequences, FiniteSets, FiniteSetsExt

CONSTANTS
    Phones, Crons,   \* apps and dispatch runs that work at a time
    Situations,      \* what may be due: [overload, habits, proposal, outcome]
    Preferences,     \* [coach, weeklyReview, reengagement, frequency]
    UserWeek,        \* days of a week
    MaxCandidates,   \* candidates returned by a request
    ScanSlack,       \* the scan of the habits stops this far above it
    MaxPerDay,       \* MAX_PER_DAY
    Cooldown,        \* days of the longest cooldown, COOLDOWN_DAYS
    Take,            \* deliveries a request reads back
    Retention,       \* EVENT_RETENTION_DAYS
    LastDay,         \* bound on the days modelled
    MaxPushes        \* bound on the pushes modelled

NotificationTypes == {
    "HABIT_AT_RISK", "RECOVERY_NEEDED", "DIFFICULTY_TOO_HIGH", "WEEKDAY_RISK", "TIME_RISK",
    "MOMENTUM_PROTECTION", "OVERLOAD_DETECTED", "ADAPTIVE_PROPOSAL_AVAILABLE",
    "ADAPTATION_OUTCOME", "WEEKLY_REVIEW_READY", "IDENTITY_REINFORCEMENT", "REENGAGEMENT"}

ASSUME OutreachAssumption ==
    /\ Phones \cap Crons = {} /\ IsFiniteSet(Phones \cup Crons)
    /\ {UserWeek, MaxCandidates, MaxPerDay} \subseteq Nat \ {0}
    /\ {ScanSlack, Cooldown, Take, Retention} \subseteq Nat
    /\ UserWeek <= Cooldown + 1
    /\ Situations \subseteq
          [overload : BOOLEAN, habits : Seq(Seq(NotificationTypes)),
           proposal : BOOLEAN, outcome : BOOLEAN]

VARIABLES
    day, prefs,
    deliveries,      \* rows of NotificationDelivery: [fp, day]
    events,          \* rows of BehavioralEvent: [fp, type, at]
    held,            \* requester -> fingerprints it has fetched and not confirmed
    sending,         \* dispatcher -> fingerprints pushed and not confirmed yet
    pushes,          \* history: fingerprints pushed, in order
    unconfirmed      \* history: fingerprints whose push was never confirmed

outreachVars == <<day, prefs, deliveries, events, held, sending, pushes, unconfirmed>>

Requesters == Phones \cup Crons

Lifecycle == {"WEEKLY_REVIEW_READY", "ADAPTATION_OUTCOME"}

InterventionPriority(type) ==
    CASE type = "RECOVERY_NEEDED" -> 100
      [] type = "DIFFICULTY_TOO_HIGH" -> 92
      [] type = "REENGAGEMENT" -> 84
      [] type = "OVERLOAD_DETECTED" -> 82
      [] type \in {"ADAPTIVE_PROPOSAL_AVAILABLE", "ADAPTATION_OUTCOME"} -> 80
      [] type = "HABIT_AT_RISK" -> 78
      [] type = "MOMENTUM_PROTECTION" -> 76
      [] type = "WEEKDAY_RISK" -> 74
      [] OTHER -> 60

(* URGENT, HIGH, NORMAL, LOW.                                               *)
Rank(type) ==
    CASE InterventionPriority(type) = 100 -> 0
      [] InterventionPriority(type) \in {92, 82} -> 1
      [] InterventionPriority(type) \in {84, 80, 78, 74} -> 2
      [] OTHER -> 3

(* One fingerprint per type, subject and week; one per outcome for ever.    *)
Fingerprint(type, subject) ==
    [type |-> type, subject |-> subject,
     week |-> IF type = "ADAPTATION_OUTCOME" THEN 0 ELSE day \div UserWeek]

(* Weeks begin with the account; the current one always holds today.        *)
UserWeekEnd == (day \div UserWeek) * UserWeek + UserWeek - 1
UserWeekComplete == day > UserWeekEnd

-----------------------------------------------------------------------------
(* Candidates.                                                              *)
FrequencyFloor(frequency) ==
    CASE frequency = "MINIMAL" -> 90
      [] frequency = "FREQUENT" -> 60
      [] OTHER -> 70

(* Mutant: nothing stops at the cap.                                        *)
PassesUncapped(fp, recent, quiet) ==
    /\ fp.type = "REENGAGEMENT" => prefs.reengagement
    /\ \A row \in recent : row.fp # fp
    /\ ~ quiet

(* evaluateCadence without the gates of a habit, which its scan applies.    *)
PassesCadence(fp, recent, quiet) ==
    /\ prefs.coach \/ fp.type = "WEEKLY_REVIEW_READY"
    /\ fp.type = "WEEKLY_REVIEW_READY" => prefs.weeklyReview
    /\ fp.type = "REENGAGEMENT" => prefs.reengagement
    /\ \A row \in recent : row.fp # fp
    /\ Cardinality({row \in recent : row.day = day}) < MaxPerDay
    /\ ~ quiet
    /\ \/ InterventionPriority(fp.type) = 100
       \/ fp.type \in Lifecycle
       \/ InterventionPriority(fp.type) >= FrequencyFloor(prefs.frequency)

(* What a request may offer, with its place in the order it comes up.       *)
Offer(i, n, type, subject) == [place |-> <<i, n>>, fp |-> Fingerprint(type, subject)]

Passing(offers, recent, quiet) == {c \in offers : PassesCadence(c.fp, recent, quiet)}

(* A scan of the habits stops before a habit once it has found enough.      *)
ScanHabits(habits, first, recent, quiet) ==
    LET offers(i) == {Offer(i, n, habits[i][n], i) : n \in DOMAIN habits[i]}
        found(i) == first \cup Passing(UNION {offers(k) : k \in 1 .. i - 1}, recent, quiet)
        scanned == {i \in DOMAIN habits :
                      Cardinality(found(i)) < MaxCandidates + ScanSlack}
    IN  Passing(UNION {offers(i) : i \in scanned}, recent, quiet)

Candidates(due, recent, quiet) ==
    LET single(holds, i, n, type) == IF holds THEN {Offer(i, n, type, 0)} ELSE {}
        first == Passing(single(due.overload, 0, 1, "OVERLOAD_DETECTED") \cup
                         single(UserWeekComplete, 0, 2, "WEEKLY_REVIEW_READY"),
                         recent, quiet)
        last == Len(due.habits) + 1
    IN  first \cup ScanHabits(due.habits, first, recent, quiet) \cup
        Passing(single(due.proposal, last, 1, "ADAPTIVE_PROPOSAL_AVAILABLE") \cup
                single(due.outcome, last, 2, "ADAPTATION_OUTCOME"),
                recent, quiet)

(* The first candidates by rank, then by priority, then by place.           *)
Key(c) == 1000 * Rank(c.fp.type) - InterventionPriority(c.fp.type)
Before(b, c) ==
    \/ Key(b) < Key(c)
    \/ Key(b) = Key(c) /\ b.place[1] < c.place[1]
    \/ Key(b) = Key(c) /\ b.place[1] = c.place[1] /\ b.place[2] < c.place[2]

Selected(candidates) ==
    {c.fp : c \in {d \in candidates :
                     Cardinality({b \in candidates : Before(b, d)}) < MaxCandidates}}

(* Mutant: only the deliveries of today are remembered.                     *)
RecentToday == {{row \in deliveries : row.day = day}}

(* The deliveries of the longest cooldown; a request reads any Take of them. *)
Cooling == {row \in deliveries : row.day >= day - Cooldown}
Recent == kSubset(Min({Take, Cardinality(Cooling)}), Cooling)

-----------------------------------------------------------------------------
(* Events: one per fingerprint and type.                                    *)
Recorded(fp, type) == \E e \in events : e.fp = fp /\ e.type = type
Record(fp, type) ==
    IF Recorded(fp, type) THEN events
    ELSE events \cup {[fp |-> fp, type |-> type, at |-> day]}

Steps == {"OPENED", "DISMISSED", "ACTION_STARTED", "ACTION_COMPLETED"}

(* Mutant: a step asks for the delivery only.                               *)
PredecessorDelivered(type) == "DELIVERED"

Predecessor(type) ==
    CASE type = "ACTION_STARTED" -> "OPENED"
      [] type = "ACTION_COMPLETED" -> "ACTION_STARTED"
      [] OTHER -> "DELIVERED"

-----------------------------------------------------------------------------
OutreachInit ==
    /\ day = 0 /\ prefs \in Preferences
    /\ deliveries = {} /\ events = {}
    /\ held = [r \in Requesters |-> {}] /\ sending = [c \in Crons |-> {}]
    /\ pushes = <<>> /\ unconfirmed = <<>>

(* What a requester keeps of a request: dispatchers only reminders.         *)
Batch(r, found) ==
    IF r \in Crons THEN {fp \in found : fp.type = "REENGAGEMENT"} ELSE found

(* A request for candidates.  The CANDIDATE_GENERATED events it leaves are  *)
(* only counted, never read back by the funnel; they are left out.          *)
GetCandidates(r, due, quiet, recent) ==
    /\ r \in Crons => held[r] = {} /\ sending[r] = {}
    /\ held' = [held EXCEPT ![r] = Batch(r, Selected(Candidates(due, recent, quiet)))]
    /\ UNCHANGED <<day, prefs, deliveries, events, sending, pushes, unconfirmed>>

(* One item of markDelivered: a row, unless there is one, then its event.   *)
(* Either write may fail; the failure is logged and the next item follows.  *)
MarkDelivered(fp, stored, logged) ==
    /\ deliveries' = IF ~ stored \/ (\E row \in deliveries : row.fp = fp) THEN deliveries
                     ELSE deliveries \cup {[fp |-> fp, day |-> day]}
    /\ events' = IF stored /\ logged THEN Record(fp, "DELIVERED") ELSE events

(* The app confirms what it has scheduled; it may repeat an old             *)
(* confirmation.  That it names nothing else is the app's doing:            *)
(* markDelivered takes any twenty fingerprints.                             *)
Confirm(p, fp, stored, logged) ==
    /\ p \in Phones
    /\ fp \in held[p] \cup {row.fp : row \in deliveries}
    /\ MarkDelivered(fp, stored, logged)
    /\ held' = [held EXCEPT ![p] = @ \ {fp}]
    /\ UNCHANGED <<day, prefs, sending, pushes, unconfirmed>>

(* The dispatcher pushes, unless the push service refuses, and then marks.  *)
Push(c, fp, accepted) ==
    /\ sending[c] = {} /\ fp \in held[c] /\ Len(pushes) < MaxPushes
    /\ held' = [held EXCEPT ![c] = @ \ {fp}]
    /\ IF accepted THEN /\ sending' = [sending EXCEPT ![c] = {fp}]
                        /\ pushes' = Append(pushes, fp)
                   ELSE UNCHANGED <<sending, pushes>>
    /\ UNCHANGED <<day, prefs, deliveries, events, unconfirmed>>

MarkPushed(c, fp, stored, logged) ==
    /\ fp \in sending[c]
    /\ MarkDelivered(fp, stored, logged)
    /\ sending' = [sending EXCEPT ![c] = {}]
    /\ unconfirmed' = IF stored THEN unconfirmed ELSE Append(unconfirmed, fp)
    /\ UNCHANGED <<day, prefs, held, pushes>>

(* A requester stops: the app is closed, the dispatcher times out.          *)
Stop(r) ==
    /\ held[r] # {} \/ (r \in Crons /\ sending[r] # {})
    /\ held' = [held EXCEPT ![r] = {}]
    /\ sending' = [c \in Crons |-> IF c = r THEN {} ELSE sending[c]]
    /\ IF r \in Crons /\ sending[r] # {}
         THEN \E fp \in sending[r] : unconfirmed' = Append(unconfirmed, fp)
         ELSE unconfirmed' = unconfirmed
    /\ UNCHANGED <<day, prefs, deliveries, events, pushes>>

(* What the user does with a notification.                                  *)
RecordNotificationInteraction(row, type) ==
    /\ Recorded(row.fp, "DELIVERED") /\ Recorded(row.fp, Predecessor(type))
    /\ events' = Record(row.fp, type)
    /\ UNCHANGED <<day, prefs, deliveries, held, sending, pushes, unconfirmed>>

(* Events past their retention are removed.                                 *)
PruneOldEvents ==
    /\ \E e \in events : e.at < day - Retention
    /\ events' = {e \in events : e.at >= day - Retention}
    /\ UNCHANGED <<day, prefs, deliveries, held, sending, pushes, unconfirmed>>

UpdatePreferences(p) ==
    /\ prefs' = p
    /\ UNCHANGED <<day, deliveries, events, held, sending, pushes, unconfirmed>>

NextDay ==
    /\ day < LastDay
    /\ day' = day + 1
    /\ UNCHANGED <<prefs, deliveries, events, held, sending, pushes, unconfirmed>>

OutreachNext ==
    \/ \E r \in Requesters : Stop(r)
    \/ \E r \in Requesters, due \in Situations, recent \in Recent, quiet \in BOOLEAN :
          GetCandidates(r, due, quiet, recent)
    \/ \E stored, logged \in BOOLEAN :
          \/ \E p \in Phones : \E fp \in held[p] \cup {row.fp : row \in deliveries} :
                Confirm(p, fp, stored, logged)
          \/ \E c \in Crons : \E fp \in sending[c] : MarkPushed(c, fp, stored, logged)
    \/ \E c \in Crons : \E fp \in held[c], accepted \in BOOLEAN : Push(c, fp, accepted)
    \/ \E row \in deliveries, type \in Steps : RecordNotificationInteraction(row, type)
    \/ PruneOldEvents
    \/ \E p \in Preferences : UpdatePreferences(p)
    \/ NextDay

OutreachSpec == OutreachInit /\ [][OutreachNext]_outreachVars

-----------------------------------------------------------------------------
Fingerprints == [type : NotificationTypes, subject : Nat, week : Nat]

OutreachTypeOK ==
    /\ day \in Nat /\ prefs \in Preferences
    /\ deliveries \subseteq [fp : Fingerprints, day : 0 .. day]
    /\ events \subseteq [fp : Fingerprints, type : Steps \cup {"DELIVERED"}, at : 0 .. day]
    /\ held \in [Requesters -> SUBSET Fingerprints]
    /\ sending \in [Crons -> SUBSET Fingerprints]
    /\ pushes \in Seq(Fingerprints) /\ unconfirmed \in Seq(Fingerprints)

DeliveredOn(d) == Cardinality({row \in deliveries : row.day = d})

(* However requests, confirmations and pushes interleave, a day sees fewer  *)
(* than MaxPerDay deliveries and one batch of every requester on top        *)
(* (getCandidates checks the cap, markDelivered does not).                  *)
DayBound ==
    DeliveredOn(day) <= MaxPerDay - 1 + MaxCandidates * Cardinality(Requesters)

CountOf(seq, fp) == Cardinality({i \in DOMAIN seq : seq[i] = fp})

(* A reminder is pushed again only when an earlier push of it was never     *)
(* confirmed: no preference, day or number of dispatches brings it back     *)
(* within its week (dispatchReengagement, the cooldown of evaluateCadence). *)
PushedOnce ==
    \A i \in DOMAIN pushes :
        CountOf(pushes, pushes[i]) <= 1 + CountOf(unconfirmed, pushes[i])

(* Every step of the funnel follows the one before it, on a delivery that   *)
(* exists, unless retention has taken the earlier step                      *)
(* (recordNotificationInteraction, pruneOldEvents).                         *)
FunnelOrdered ==
    \A e \in events : e.type \in Steps =>
        \E row \in deliveries :
            /\ row.fp = e.fp /\ row.day <= e.at
            /\ \/ row.day < day - Retention
               \/ \E before \in events :
                    before.fp = e.fp /\ before.at <= e.at
                      /\ before.type = (CASE e.type = "ACTION_STARTED" -> "OPENED"
                                          [] e.type = "ACTION_COMPLETED" -> "ACTION_STARTED"
                                          [] OTHER -> "DELIVERED")

-----------------------------------------------------------------------------
(* The following do not hold of this code; the README tells what TLC shows. *)

(* The cap is a ceiling.                                                    *)
DailyCeiling == DeliveredOn(day) <= MaxPerDay

(* A reminder is pushed once.                                               *)
NeverPushedTwice == \A i \in DOMAIN pushes : CountOf(pushes, pushes[i]) = 1

(* An urgent insight that is due, and that nothing gates, is returned.      *)
UrgentFirst ==
    \A due \in Situations, recent \in Recent : \A i \in DOMAIN due.habits :
        LET urgent == Fingerprint("RECOVERY_NEEDED", i)
        IN  (\E n \in DOMAIN due.habits[i] : due.habits[i][n] = "RECOVERY_NEEDED")
              /\ PassesCadence(urgent, recent, FALSE)
            => \E fp \in Selected(Candidates(due, recent, FALSE)) : Rank(fp.type) = 0
=============================================================================
