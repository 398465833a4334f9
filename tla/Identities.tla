----------------------------- MODULE Identities -----------------------------
(***************************************************************************)
(* What hangs on a habit: the identities its completions are evidence of,  *)
(* with their levels, the temptation bundles that a FULL completion        *)
(* releases, its reminder, and its end by deletion or expiry.              *)
(*                                                                         *)
(* A toggle is one step here: HabitRewards has its races.  Titles, times   *)
(* of reminders, the minimum version of a habit and the editing of a       *)
(* bundle, which changes only its text, are left out.                      *)
(***************************************************************************)
EXTENDS Integers, Sequences, FiniteSets, FiniteSetsExt

CONSTANTS
    Habits, Days,
    IdentityIds, BundleIds,   \* rows that may exist
    Callers,      \* concurrent HTTP requests
    LevelFloors,  \* IDENTITY_LEVEL_THRESHOLDS
    MaxOps        \* bound: requests started in a behaviour

ASSUME IdentitiesAssumption ==
    /\ MaxOps \in Nat
    /\ LevelFloors \in Seq(Nat) /\ LevelFloors # <<>> /\ LevelFloors[1] = 0

VARIABLES
    log,          \* the completion of each habit and day
    habit,        \* "live", "archived" or "gone"; nothing restores a habit
    reminder,     \* habits with an enabled reminder
    identity,     \* status of each Identity row, or "absent"
    links,        \* IdentityHabit rows
    bundle,       \* habit and status of each TemptationBundle row
    call,         \* what each request has read
    ops,          \* requests started so far
    earned,       \* history: bundles whose habit became FULL in their life
    uses          \* history: how often each bundle was used

rows == <<log, habit, reminder, identity, links, bundle, earned, uses>>
identityVars == <<rows, call, ops>>

Kinds == {"FULL", "MINIMUM", "EMERGENCY"}
Absent == [habit |-> CHOOSE h \in Habits : TRUE, status |-> "absent"]
Idle == [pc |-> "idle", id |-> "none", habits |-> {}]

Counts == ops < MaxOps /\ ops' = ops + 1
Starts(c, q) == call[c].pc = "idle" /\ Counts /\ call' = [call EXCEPT ![c] = q]
Goes(c, q) == call' = [call EXCEPT ![c] = q] /\ UNCHANGED ops
AtOnce == Counts /\ UNCHANGED call

-----------------------------------------------------------------------------
(* Evidence.                                                                *)
EvidencePoints(kind) ==
    CASE kind = "FULL" -> 2
      [] kind \in {"MINIMUM", "EMERGENCY"} -> 1
      [] OTHER -> 0

Linked(i) == {h \in Habits : <<i, h>> \in links}

Points(i) ==
    MapThenSumSet(LAMBDA x : EvidencePoints(log[x[1]][x[2]]), Linked(i) \X Days)

Level(points) == Max({n \in DOMAIN LevelFloors : LevelFloors[n] <= points})

(* The percentage of the way to the next level, rounded; none at the top.   *)
LevelProgress(points) ==
    LET n == Level(points)
    IN  IF n = Len(LevelFloors) THEN -1
        ELSE LET band == LevelFloors[n + 1] - LevelFloors[n]
             IN  ((points - LevelFloors[n]) * 200 + band) \div (2 * band)

CompletedOn(i, d) == Cardinality({h \in Linked(i) : log[h][d] \in Kinds})

Summary(i, d) ==
    [points |-> Points(i), level |-> Level(Points(i)),
     progress |-> LevelProgress(Points(i)),
     linkedHabits |-> Cardinality(Linked(i)), completedOn |-> CompletedOn(i, d)]

-----------------------------------------------------------------------------
(* toggleCompletion.  Without a kind it takes the row away, or logs FULL.   *)
Logged(before, ask) ==
    IF ask # "plain" THEN ask ELSE IF before = "none" THEN "FULL" ELSE "none"

(* Mutant: a used bundle is released again.                                 *)
ReleasedFromUsed(b, h) ==
    bundle[b].habit = h /\ bundle[b].status \in {"LOCKED", "USED"}

Released(b, h) == bundle[b].habit = h /\ bundle[b].status = "LOCKED"

(* A bundle is released only when the day was not completed before: a day   *)
(* raised from MINIMUM to FULL releases nothing.                            *)
Toggle(h, d, ask) ==
    LET before == log[h][d]
        after == Logged(before, ask)
        releases == before \notin Kinds /\ after = "FULL"
    IN  /\ habit[h] = "live" \/ before # "none"
        /\ AtOnce
        /\ log' = [log EXCEPT ![h][d] = after]
        /\ bundle' = [b \in BundleIds |->
                        IF releases /\ Released(b, h)
                          THEN [bundle[b] EXCEPT !.status = "UNLOCKED"]
                          ELSE bundle[b]]
        /\ earned' = IF before # "FULL" /\ after = "FULL"
                       THEN earned \cup {b \in BundleIds :
                              bundle[b].status # "absent" /\ bundle[b].habit = h}
                       ELSE earned
        /\ UNCHANGED <<habit, reminder, identity, links, uses>>

(* deleteHabit counts what the habit has, then archives or erases it;       *)
(* cleanupExpiredHabits archives it.                                        *)
DeleteHabit(c, h) ==
    LET kept == \/ \E i \in IdentityIds : <<i, h>> \in links
                \/ \E d \in Days : log[h][d] # "none"
    IN  /\ habit[h] # "gone"
        /\ Starts(c, [Idle EXCEPT !.pc = IF kept THEN "archive and silence"
                                                ELSE "erase habit",
                                  !.habits = {h}])
        /\ UNCHANGED rows

ExpireHabit(c, h) ==
    /\ habit[h] = "live"
    /\ Starts(c, [Idle EXCEPT !.pc = "archive and silence", !.habits = {h}])
    /\ UNCHANGED rows

(* Two statements sent together, in no transaction.                         *)
ArchiveHabit(c) ==
    LET q == call[c]
    IN  /\ q.pc \in {"archive and silence", "archive"}
        /\ Goes(c, IF q.pc = "archive" THEN Idle ELSE [q EXCEPT !.pc = "silence"])
        /\ habit' = [h \in Habits |-> IF h \in q.habits /\ habit[h] # "gone"
                                        THEN "archived" ELSE habit[h]]
        /\ UNCHANGED <<log, reminder, identity, links, bundle, earned, uses>>

SilenceHabit(c) ==
    LET q == call[c]
    IN  /\ q.pc \in {"archive and silence", "silence"}
        /\ Goes(c, IF q.pc = "silence" THEN Idle ELSE [q EXCEPT !.pc = "archive"])
        /\ reminder' = reminder \ q.habits
        /\ UNCHANGED <<log, habit, identity, links, bundle, earned, uses>>

EraseHabit(c) ==
    LET gone == call[c].habits
    IN  /\ call[c].pc = "erase habit" /\ Goes(c, Idle)
        /\ habit' = [h \in Habits |-> IF h \in gone THEN "gone" ELSE habit[h]]
        /\ log' = [h \in Habits |-> IF h \in gone THEN [d \in Days |-> "none"]
                                                  ELSE log[h]]
        /\ reminder' = reminder \ gone
        /\ links' = {l \in links : l[2] \notin gone}
        /\ bundle' = [b \in BundleIds |-> IF bundle[b].habit \in gone THEN Absent
                                                                   ELSE bundle[b]]
        /\ UNCHANGED <<identity, earned, uses>>

(* The reminder's endpoints do not ask whether the habit is archived.       *)
SetReminder(h, on) ==
    /\ habit[h] # "gone" /\ AtOnce
    /\ reminder' = IF on THEN reminder \cup {h} ELSE reminder \ {h}
    /\ UNCHANGED <<log, habit, identity, links, bundle, earned, uses>>

-----------------------------------------------------------------------------
(* Bundles.  The habit is read, then the row is written; an erased habit    *)
(* refuses it.                                                              *)
ReadHabit(c, b, h) ==
    /\ habit[h] = "live" /\ bundle[b].status = "absent"
    /\ \A o \in Callers : call[o].pc = "bundle" => call[o].id # b
    /\ Starts(c, [Idle EXCEPT !.pc = "bundle", !.id = b, !.habits = {h}])
    /\ UNCHANGED rows

CreateBundle(c) ==
    LET q == call[c]
    IN  /\ q.pc = "bundle" /\ Goes(c, Idle)
        /\ \E h \in q.habits :
              IF habit[h] = "gone" THEN UNCHANGED <<bundle, earned, uses>>
              ELSE /\ bundle' = [bundle EXCEPT ![q.id] =
                                   [habit |-> h, status |-> "LOCKED"]]
                   /\ earned' = earned \ {q.id}
                   /\ uses' = [uses EXCEPT ![q.id] = 0]
        /\ UNCHANGED <<log, habit, reminder, identity, links>>

UseBundle(b) ==
    /\ bundle[b].status = "UNLOCKED" /\ AtOnce
    /\ bundle' = [bundle EXCEPT ![b].status = "USED"]
    /\ uses' = [uses EXCEPT ![b] = @ + 1]
    /\ UNCHANGED <<log, habit, reminder, identity, links, earned>>

RemoveBundle(b) ==
    /\ bundle[b].status # "absent" /\ AtOnce
    /\ bundle' = [bundle EXCEPT ![b] = Absent]
    /\ UNCHANGED <<log, habit, reminder, identity, links, earned, uses>>

-----------------------------------------------------------------------------
(* Identities.                                                              *)
CreateIdentity(i) ==
    /\ identity[i] = "absent" /\ AtOnce
    /\ identity' = [identity EXCEPT ![i] = "ACTIVE"]
    /\ UNCHANGED <<log, habit, reminder, links, bundle, earned, uses>>

SetStatus(i, status) ==
    /\ identity[i] # "absent" /\ AtOnce
    /\ identity' = [identity EXCEPT ![i] = status]
    /\ UNCHANGED <<log, habit, reminder, links, bundle, earned, uses>>

LinkHabit(i, h) ==
    /\ identity[i] # "absent" /\ habit[h] # "gone"
    /\ <<i, h>> \notin links /\ AtOnce
    /\ links' = links \cup {<<i, h>>}
    /\ UNCHANGED <<log, habit, reminder, identity, bundle, earned, uses>>

UnlinkHabit(i, h) ==
    /\ <<i, h>> \in links /\ AtOnce
    /\ links' = links \ {<<i, h>>}
    /\ UNCHANGED <<log, habit, reminder, identity, bundle, earned, uses>>

(* updateHabit with identityIds: the links of the habit become these.       *)
SyncLinks(h, ids) ==
    /\ habit[h] # "gone" /\ \A i \in ids : identity[i] # "absent"
    /\ AtOnce
    /\ links' = {l \in links : l[2] # h} \cup (ids \X {h})
    /\ UNCHANGED <<log, habit, reminder, identity, bundle, earned, uses>>

(* delete: the links are read, then a completion of them is looked for, then *)
(* the row is archived or erased.                                           *)
DeleteIdentity(c, i) ==
    /\ identity[i] # "absent"
    /\ Starts(c, [Idle EXCEPT
                     !.pc = IF Linked(i) = {} THEN "erase identity" ELSE "look",
                     !.id = i, !.habits = Linked(i)])
    /\ UNCHANGED rows

Evident(habits) == \E h \in habits, d \in Days : log[h][d] \in Kinds

LookForEvidence(c) ==
    LET q == call[c]
    IN  /\ q.pc = "look"
        /\ Goes(c, [q EXCEPT !.pc = IF Evident(q.habits) THEN "archive identity"
                                                        ELSE "erase identity"])
        /\ UNCHANGED rows

EndDelete(c) ==
    LET q == call[c]
    IN  /\ q.pc \in {"archive identity", "erase identity"} /\ Goes(c, Idle)
        /\ \/ /\ identity[q.id] = "absent"
              /\ UNCHANGED <<identity, links>>
           \/ /\ identity[q.id] # "absent" /\ q.pc = "archive identity"
              /\ identity' = [identity EXCEPT ![q.id] = "ARCHIVED"]
              /\ UNCHANGED links
           \/ /\ identity[q.id] # "absent" /\ q.pc = "erase identity"
              /\ identity' = [identity EXCEPT ![q.id] = "absent"]
              /\ links' = {l \in links : l[1] # q.id}
        /\ UNCHANGED <<log, habit, reminder, bundle, earned, uses>>

-----------------------------------------------------------------------------
IdentityInit ==
    /\ log = [h \in Habits |-> [d \in Days |-> "none"]]
    /\ habit = [h \in Habits |-> "live"]
    /\ reminder = {} /\ links = {} /\ earned = {}
    /\ identity = [i \in IdentityIds |-> "absent"]
    /\ bundle = [b \in BundleIds |-> Absent]
    /\ uses = [b \in BundleIds |-> 0]
    /\ call = [c \in Callers |-> Idle]
    /\ ops = 0

HabitStep(h) ==
    \/ \E d \in Days, ask \in Kinds \cup {"plain", "PARTIAL"} : Toggle(h, d, ask)
    \/ \E on \in BOOLEAN : SetReminder(h, on)
    \/ \E c \in Callers : DeleteHabit(c, h) \/ ExpireHabit(c, h)
    \/ \E ids \in SUBSET IdentityIds : SyncLinks(h, ids)

BundleStep(b) ==
    \/ \E c \in Callers, h \in Habits : ReadHabit(c, b, h)
    \/ UseBundle(b) \/ RemoveBundle(b)

IdentityStep(i) ==
    \/ CreateIdentity(i)
    \/ \E status \in {"ACTIVE", "ARCHIVED"} : SetStatus(i, status)
    \/ \E h \in Habits : LinkHabit(i, h) \/ UnlinkHabit(i, h)
    \/ \E c \in Callers : DeleteIdentity(c, i)

IdentityNext ==
    \/ \E h \in Habits : HabitStep(h)
    \/ \E b \in BundleIds : BundleStep(b)
    \/ \E i \in IdentityIds : IdentityStep(i)
    \/ \E c \in Callers :
          \/ CreateBundle(c) \/ LookForEvidence(c) \/ EndDelete(c)
          \/ ArchiveHabit(c) \/ SilenceHabit(c) \/ EraseHabit(c)
=============================================================================
