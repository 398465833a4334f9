---------------------------- MODULE WeeklyReview ----------------------------
(***************************************************************************)
(* The review of one user-week: served from its row when it is stored,     *)
(* generated from the facts otherwise, by a language model asked at most   *)
(* twice or by rules, and stored once the week is over.  Completions and   *)
(* identities change meanwhile.                                            *)
(*                                                                         *)
(* Each server process has its map of generations in flight; a process can *)
(* die and lose it.  The database may fail a request; a review that cannot *)
(* be stored is answered all the same.  What the review says is left out:  *)
(* a review is what it was made from and by whom.                          *)
(***************************************************************************)
EXTENDS Identities

CONSTANTS
    Servers,      \* server processes
    WeekDays,     \* the days of the reviewed week
    Top,          \* identities a review names
    Attempts,     \* questions to the model per generation
    MaxCrashes,   \* bound on crashes
    None          \* model value

ASSUME ReviewAssumption ==
    /\ WeekDays \subseteq Days
    /\ Top \in Nat /\ Attempts \in Nat \ {0} /\ MaxCrashes \in Nat
    /\ None \notin Callers

VARIABLES
    over,         \* the week has ended
    prefs,        \* weeklyReviewEnabled and aiCoachEnabled of the user
    stored,       \* the WeeklyBehaviorReview row, or None
    inFlight,     \* of each process, the request that generates, or None
    job,          \* the review requests
    crashes,      \* processes that have died so far
    answered,     \* history: the review of the finished week was stored once
    failed        \* history: a regeneration ended without a review since the row
                  \* was last deleted

history == <<answered, failed>>
review == <<over, prefs, stored, inFlight, job, crashes, history>>
reviewVars == <<identityVars, review>>

NoJob == [pc |-> "idle", at |-> None, ai |-> FALSE, again |-> FALSE,
          final |-> FALSE, seen |-> None, facts |-> None, tries |-> 0, by |-> None]

Begins(c, q) == job[c].pc = "idle" /\ Counts /\ job' = [job EXCEPT ![c] = q]
Moves(c, q) == job' = [job EXCEPT ![c] = q] /\ UNCHANGED ops

-----------------------------------------------------------------------------
(* getWeeklyReview.  The preferences are read, then the user and the clock. *)
Get(c, s) ==
    /\ Begins(c, [NoJob EXCEPT !.pc = IF prefs.enabled THEN "clock" ELSE "idle",
                               !.at = s, !.ai = prefs.ai])
    /\ UNCHANGED <<rows, call, over, prefs, stored, inFlight, crashes, history>>

(* Mutant: nobody looks whether a generation is in flight.                  *)
JoinAlways(c, q) ==
    /\ Moves(c, [q EXCEPT !.pc = "reports"])
    /\ inFlight' = [inFlight EXCEPT ![q.at] = c]

(* One generation at a time in a process; the others wait for its answer.   *)
Join(c, q) ==
    IF inFlight[q.at] # None
      THEN Moves(c, [q EXCEPT !.pc = "wait"]) /\ UNCHANGED inFlight
      ELSE /\ Moves(c, [q EXCEPT !.pc = "reports"])
           /\ inFlight' = [inFlight EXCEPT ![q.at] = c]

(* A running week is never stored, nor put to the model.                    *)
ReadClock(c) ==
    LET q == [job[c] EXCEPT !.final = over, !.ai = @ /\ over]
    IN  /\ job[c].pc = "clock"
        /\ IF over THEN Moves(c, [q EXCEPT !.pc = "stored"]) /\ UNCHANGED inFlight
                   ELSE Join(c, q)
        /\ UNCHANGED <<rows, call, over, prefs, stored, crashes, history>>

FindStored(c) ==
    /\ job[c].pc = "stored"
    /\ Moves(c, [job[c] EXCEPT !.pc = "found", !.seen = stored])
    /\ UNCHANGED <<rows, call, over, prefs, stored, inFlight, crashes, history>>

AnswerStored(c) ==
    /\ job[c].pc = "found"
    /\ IF job[c].seen # None
         THEN Moves(c, NoJob) /\ UNCHANGED inFlight
         ELSE Join(c, job[c])
    /\ UNCHANGED <<rows, call, over, prefs, stored, crashes, history>>

(* regenerateWeeklyReview: the clock, the preferences, the row is deleted.  *)
Regenerate(c, s) ==
    /\ over
    /\ Begins(c, [NoJob EXCEPT !.pc = IF prefs.enabled THEN "delete" ELSE "idle",
                               !.at = s, !.ai = prefs.ai, !.again = TRUE,
                               !.final = TRUE])
    /\ UNCHANGED <<rows, call, over, prefs, stored, inFlight, crashes, history>>

DeleteRow(c) ==
    /\ job[c].pc = "delete"
    /\ Moves(c, [job[c] EXCEPT !.pc = "reports"])
    /\ stored' = None /\ failed' = FALSE
    /\ UNCHANGED <<rows, call, over, prefs, inFlight, crashes, answered>>

-----------------------------------------------------------------------------
(* buildFacts: the reports of the habits, then the identities as they are;   *)
(* a habit whose report fails is left out, and so are identities that fail. *)
Unarchived == {h \in Habits : habit[h] = "live"}

ReadReports(c) ==
    /\ job[c].pc = "reports"
    /\ \E read \in SUBSET Unarchived :
          Moves(c, [job[c] EXCEPT
            !.pc = "identities",
            !.facts = [over |-> over,
                       done |-> Cardinality({x \in read \X WeekDays :
                                               log[x[1]][x[2]] \in Kinds}),
                       enough |-> \E h \in read, d \in Days : log[h][d] \in Kinds,
                       named |-> {}]])
    /\ UNCHANGED <<rows, call, over, prefs, stored, inFlight, crashes, history>>

(* The strongest ACTIVE identities: one with Top stronger ones is left out. *)
Named ==
    LET active == {i \in IdentityIds : identity[i] = "ACTIVE"}
    IN  {i \in active : Cardinality({j \in active : Points(j) > Points(i)}) < Top}

ReadIdentities(c) ==
    LET asks == job[c].ai /\ job[c].facts.enough
    IN  /\ job[c].pc = "identities"
        /\ \E read \in {Named, {}} :
              Moves(c, [job[c] EXCEPT
                !.pc = IF asks THEN "ask" ELSE "persist",
                !.by = IF asks THEN None ELSE "fallback",
                !.facts.named = {[id |-> i, level |-> Summary(i, Max(WeekDays)).level] :
                                   i \in read}])
        /\ UNCHANGED <<rows, call, over, prefs, stored, inFlight, crashes, history>>

(* The model answers, or fails, or says something unreadable.               *)
Ask(c) ==
    LET q == [job[c] EXCEPT !.tries = @ + 1]
    IN  /\ q.pc = "ask"
        /\ \/ Moves(c, [q EXCEPT !.pc = "persist", !.by = "nvidia"])
           \/ Moves(c, IF q.tries < Attempts THEN q
                       ELSE [q EXCEPT !.pc = "persist", !.by = "fallback"])
        /\ UNCHANGED <<rows, call, over, prefs, stored, inFlight, crashes, history>>

(* Mutants: the clock is asked again; what the rules say is not stored.     *)
KeptIfOver(q) == over

KeptIfWritten(q) == q.final /\ q.by = "nvidia"

Kept(q) == q.final

(* The request is over, and with the generation of a process those who wait *)
(* for it: they get its answer, or its error.                               *)
Ends(c) ==
    LET q == job[c]
        leads == ~q.again /\ q.pc \in {"reports", "persist"}
    IN  /\ job' = [o \in Callers |->
                     IF \/ o = c
                        \/ leads /\ job[o].pc = "wait" /\ job[o].at = q.at
                       THEN NoJob ELSE job[o]]
        /\ inFlight' = IF leads THEN [inFlight EXCEPT ![q.at] = None] ELSE inFlight
        /\ UNCHANGED ops

Stores(q) ==
    /\ stored' = [facts |-> q.facts, by |-> q.by] /\ answered' = TRUE
    /\ UNCHANGED failed

StoresNot(q) == failed' = (failed \/ q.again) /\ UNCHANGED <<stored, answered>>

(* The upsert keeps one row a week, the last.  If it fails, for whatever    *)
(* reason, the review is answered and not stored.                           *)
Persist(c) ==
    LET q == job[c]
    IN  /\ q.pc = "persist" /\ Ends(c)
        /\ IF Kept(q) THEN Stores(q) \/ StoresNot(q) ELSE UNCHANGED <<stored, history>>
        /\ UNCHANGED <<rows, call, over, prefs, crashes>>

(* A statement of the database throws.                                      *)
Fails(c) ==
    /\ job[c].pc \in {"clock", "stored", "delete", "reports"} /\ Ends(c)
    /\ failed' = (failed \/ (job[c].again /\ job[c].pc = "reports"))
    /\ UNCHANGED <<rows, call, over, prefs, stored, crashes, answered>>

-----------------------------------------------------------------------------
(* A regeneration has deleted the row and not stored the next one yet.      *)
Regenerating(c) ==
    job[c].again /\ job[c].pc \in {"reports", "identities", "ask", "persist"}

EndWeek ==
    /\ ~over /\ over' = TRUE
    /\ UNCHANGED <<identityVars, prefs, stored, inFlight, job, crashes, history>>

SetPrefs(p) ==
    /\ p # prefs /\ AtOnce /\ prefs' = p
    /\ UNCHANGED <<rows, over, stored, inFlight, job, crashes, history>>

Crash(s) ==
    /\ crashes < MaxCrashes /\ crashes' = crashes + 1
    /\ job' = [c \in Callers |-> IF job[c].at = s THEN NoJob ELSE job[c]]
    /\ inFlight' = [inFlight EXCEPT ![s] = None]
    /\ failed' = (failed \/ \E c \in Callers : job[c].at = s /\ Regenerating(c))
    /\ UNCHANGED <<identityVars, over, prefs, stored, answered>>

ReviewInit ==
    /\ over = FALSE /\ prefs = [enabled |-> TRUE, ai |-> TRUE]
    /\ stored = None /\ answered = FALSE /\ failed = FALSE /\ crashes = 0
    /\ inFlight = [s \in Servers |-> None]
    /\ job = [c \in Callers |-> NoJob]

Init == IdentityInit /\ ReviewInit

Generates(c) ==
    \/ ReadClock(c) \/ FindStored(c) \/ AnswerStored(c) \/ DeleteRow(c)
    \/ ReadReports(c) \/ ReadIdentities(c) \/ Ask(c) \/ Persist(c)
    \/ Fails(c)

Next ==
    \/ IdentityNext /\ UNCHANGED review
    \/ EndWeek
    \/ \E p \in [enabled : BOOLEAN, ai : BOOLEAN] : SetPrefs(p)
    \/ \E s \in Servers : Crash(s) \/ \E c \in Callers : Get(c, s) \/ Regenerate(c, s)
    \/ \E c \in Callers : Generates(c)

Spec == Init /\ [][Next]_reviewVars

-----------------------------------------------------------------------------
(* PROPERTIES                                                               *)

(* A bundle is released only by a FULL completion of its habit in its       *)
(* lifetime, and used once: whatever is undone or logged again, it is not   *)
(* released a second time (temptation-bundle.service.ts:15).                *)
BundleLife ==
    \A b \in BundleIds : LET status == bundle[b].status
                         IN  /\ status \in {"UNLOCKED", "USED"} => b \in earned
                             /\ uses[b] <= 1
                             /\ status = "UNLOCKED" => uses[b] = 0

(* Two requests of one process never generate the review at the same time,  *)
(* unless the user asked for another one (weekly-review.service.ts:154).    *)
Generating(s) ==
    {c \in Callers : job[c].at = s /\ ~job[c].again
        /\ job[c].pc \in {"reports", "identities", "ask", "persist"}}

OneGeneration ==
    \A s \in Servers :
        /\ Cardinality(Generating(s)) <= 1
        /\ \A c \in Callers :
              job[c].pc = "wait" /\ job[c].at = s => Generating(s) # {}

(* A stored review was made from facts read after its week had ended: the   *)
(* review of a running week is never kept (weekly-review.service.ts:253).   *)
StoredIsOver == stored # None => stored.facts.over

(* The stored review of a finished week is gone only while another one is    *)
(* being generated, or after a regeneration that died, threw or could not   *)
(* store what it made; no regeneration, and no request beside one, loses it *)
(* by itself (weekly-review.service.ts:202).                                *)
ReviewKept ==
    answered /\ stored = None => failed \/ \E c \in Callers : Regenerating(c)

(* Not so: a regeneration keeps a row of the week                           *)
(* (weekly-review.service.ts:169); one that fails after its delete leaves   *)
(* none, though its answer may be a review (weekly-review.service.ts:372).  *)
RegenerationKeepsOne ==
    answered /\ stored = None => \E c \in Callers : Regenerating(c)

(* Not so: a habit that is archived has no enabled reminder                 *)
(* (habit.service.ts:206); the reminder's own endpoints do not look.        *)
ArchivedAreSilent ==
    \A h \in reminder : habit[h] = "archived" =>
        \E c \in Callers : h \in call[c].habits

(* Not so: an identity with evidence is never erased                        *)
(* (identity.service.ts:142); unlinking its habits first is enough.         *)
EvidenceKept ==
    [][\A i \in IdentityIds : Points(i) > 0 => identity'[i] # "absent"]_reviewVars

(* Not so: a FULL completion releases the bundles of its habit              *)
(* (temptation-bundle.service.ts:16); a day raised from MINIMUM does not.   *)
FullReleases == \A b \in earned : bundle[b].status # "LOCKED"

(* Not so: a level is never lost (evidence.utils.ts:11) while the log keeps *)
(* its completions; unlinking a habit takes the evidence away.              *)
LevelsKept ==
    [][log' = log => \A i \in IdentityIds :
          Level(Points(i)') >= Level(Points(i)) \/ identity'[i] = "absent"]_reviewVars

(* Not so: a request for the finished week may be answered with the review  *)
(* of the running week, which is still in flight.                           *)
FinishedIsFinal ==
    \A c \in Callers : job[c].pc = "wait" /\ job[c].final =>
        \E o \in Callers : inFlight[job[c].at] = o /\ job[o].final
=============================================================================
