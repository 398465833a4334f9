-------------------------- MODULE AdaptiveProposals --------------------------
(* The adjustment proposals of one habit: suggested when the evidence calls  *)
(* for one, then accepted, rejected or expired, and measured when the       *)
(* observation window of an accepted one has closed.  No handler uses a     *)
(* transaction: requests interleave between any two statements, and what    *)
(* one of them wrote before it failed stays.                                *)
EXTENDS Integers, Sequences, FiniteSets, FiniteSetsExt

CONSTANTS
    Requests,
    Fingerprints,     \* outcomes of the analysis that call for a proposal
    EvaluationDays,   \* OUTCOME_RULES.EVALUATION_DAYS
    MaxDay,           \* bound: days of a behaviour
    MaxRows,          \* bound: proposals of a behaviour
    Crashes,          \* the process may die between two statements
    Nothing           \* model value: the evidence calls for no change

ASSUME AdaptiveAssumption ==
    /\ EvaluationDays \in Nat \ {0} /\ MaxDay \in Nat \ {0} /\ MaxRows \in Nat
    /\ Crashes \in BOOLEAN /\ Nothing \notin Fingerprints

VARIABLES
    evidence,   \* fingerprint of what the analysis would propose now
    today,
    rows,       \* HabitAdjustmentProposal rows, in order of creation
    applied,    \* history: rows whose change updateHabit has written
    observed,   \* ADAPTIVE_PROPOSAL_* rows of the behavioral event ledger
    req

vars == <<evidence, today, rows, applied, observed, req>>

Ids == DOMAIN rows
Having(status) == {i \in Ids : rows[i].status = status}

(* The unique (habitId, fingerprint, status) index refuses to give row i, or *)
(* a new row, this status.                                                  *)
Taken(fp, status, i) == \E j \in Having(status) \ {i} : rows[j].fp = fp

Idle == [pc |-> "idle", fp |-> Nothing, id |-> 0, day |-> 0, early |-> TRUE,
         due |-> {}]
Step(r, q) == req' = [req EXCEPT ![r] = q]
Go(r, pc) == Step(r, [req[r] EXCEPT !.pc = pc])
Done(r) == Step(r, Idle)

Init ==
    /\ evidence = Nothing /\ today = 1
    /\ rows = <<>> /\ applied = {} /\ observed = {}
    /\ req = [r \in Requests |-> Idle]

-----------------------------------------------------------------------------
(* Completions, edits of the habit and the passing of time move the report. *)
Evidence ==
    /\ evidence' \in (Fingerprints \cup {Nothing}) \ {evidence}
    /\ UNCHANGED <<today, rows, applied, observed, req>>

NextDay ==
    /\ today < MaxDay /\ today' = today + 1
    /\ UNCHANGED <<evidence, rows, applied, observed, req>>

-----------------------------------------------------------------------------
(* getSuggestion: analyse, look for an open proposal, expire it when it is  *)
(* about other evidence, create the new one, record that it was generated.  *)
Suggest(r) ==
    /\ req[r].pc = "idle" /\ evidence # Nothing
    /\ Step(r, [Idle EXCEPT !.pc = "find", !.fp = evidence])
    /\ UNCHANGED <<evidence, today, rows, applied, observed>>

Open == Having("PENDING")

(* Mutant: only an identical proposal is looked for.                        *)
FindIdentical(r) ==
    /\ req[r].pc = "find"
    /\ IF \E i \in Open : rows[i].fp = req[r].fp THEN Done(r)
       ELSE Go(r, "create")
    /\ UNCHANGED <<evidence, today, rows, applied, observed>>

FindOpen(r) ==
    LET newest == Max(Open)
    IN  /\ req[r].pc = "find"
        /\ IF Open = {} THEN Go(r, "create")
           ELSE IF rows[newest].fp = req[r].fp THEN Done(r)
           ELSE Step(r, [req[r] EXCEPT !.pc = "expire", !.id = newest])
        /\ UNCHANGED <<evidence, today, rows, applied, observed>>

Expire(r) ==
    LET i == req[r].id
    IN  /\ req[r].pc = "expire"
        /\ IF rows[i].status # "PENDING"
             THEN Go(r, "create") /\ UNCHANGED rows
             ELSE IF Taken(rows[i].fp, "EXPIRED", i)
               THEN Done(r) /\ UNCHANGED rows
               ELSE Go(r, "create") /\ rows' = [rows EXCEPT ![i].status = "EXPIRED"]
        /\ UNCHANGED <<evidence, today, applied, observed>>

New(fp) == [fp |-> fp, status |-> "PENDING", outcome |-> "none", until |-> 0,
            early |-> TRUE]

Create(r) ==
    /\ req[r].pc = "create"
    /\ IF Taken(req[r].fp, "PENDING", 0) THEN Done(r) /\ UNCHANGED rows
       ELSE /\ Len(rows) < MaxRows
            /\ rows' = Append(rows, New(req[r].fp))
            /\ Step(r, [req[r] EXCEPT !.pc = "generated", !.id = Len(rows) + 1])
    /\ UNCHANGED <<evidence, today, applied, observed>>

Generated(r) ==
    /\ req[r].pc = "generated"
    /\ observed' = observed \cup {[id |-> req[r].id, type |-> "GENERATED"]}
    /\ Done(r)
    /\ UNCHANGED <<evidence, today, rows, applied>>

-----------------------------------------------------------------------------
(* Mutant: a proposal is looked up without its status.                      *)
StartAnyAccept(r, i) ==
    /\ req[r].pc = "idle" /\ i \in Ids
    /\ Step(r, [Idle EXCEPT !.pc = "apply", !.id = i, !.day = today,
                            !.early = (i \notin applied)])
    /\ UNCHANGED <<evidence, today, rows, applied, observed>>

(* acceptProposal: the open row and the baseline are read, the habit is     *)
(* updated, and the row is updated last, by id alone.                       *)
StartAccept(r, i) ==
    /\ req[r].pc = "idle" /\ i \in Open
    /\ Step(r, [Idle EXCEPT !.pc = "apply", !.id = i, !.day = today,
                            !.early = (i \notin applied)])
    /\ UNCHANGED <<evidence, today, rows, applied, observed>>

Apply(r) ==
    /\ req[r].pc = "apply"
    /\ applied' = applied \cup {req[r].id}
    /\ Go(r, "accept")
    /\ UNCHANGED <<evidence, today, rows, observed>>

Accepted(w, q) ==
    [w EXCEPT !.status = "ACCEPTED", !.outcome = "PENDING", !.early = q.early,
              !.until = q.day + EvaluationDays - 1]

MarkAccepted(r) ==
    LET i == req[r].id
    IN  /\ req[r].pc = "accept"
        /\ rows' = IF Taken(rows[i].fp, "ACCEPTED", i) THEN rows
                   ELSE [rows EXCEPT ![i] = Accepted(@, req[r])]
        /\ Done(r)
        /\ UNCHANGED <<evidence, today, applied, observed>>

(* rejectProposal: the same shape, and the observation afterwards.          *)
StartReject(r, i) ==
    /\ req[r].pc = "idle" /\ i \in Open
    /\ Step(r, [Idle EXCEPT !.pc = "reject", !.id = i])
    /\ UNCHANGED <<evidence, today, rows, applied, observed>>

MarkRejected(r) ==
    LET i == req[r].id
    IN  /\ req[r].pc = "reject"
        /\ IF Taken(rows[i].fp, "REJECTED", i) THEN Done(r) /\ UNCHANGED rows
           ELSE Go(r, "rejected") /\ rows' = [rows EXCEPT ![i].status = "REJECTED"]
        /\ UNCHANGED <<evidence, today, applied, observed>>

Rejected(r) ==
    LET i == req[r].id
    IN  /\ req[r].pc = "rejected"
        /\ observed' = IF rows[i].status # "REJECTED" THEN observed
                       ELSE observed \cup {[id |-> i, type |-> "REJECTED"]}
        /\ Done(r)
        /\ UNCHANGED <<evidence, today, rows, applied>>

-----------------------------------------------------------------------------
(* getAdaptationOutcomes: the due rows are read, measured, and written while *)
(* they have no outcome.  An accepted row has one, "PENDING", already.      *)
Due(i) ==
    /\ rows[i].status = "ACCEPTED" /\ rows[i].outcome = "none"
    /\ rows[i].until > 0 /\ rows[i].until <= today

Lookup(r) ==
    /\ req[r].pc = "idle"
    /\ Step(r, [Idle EXCEPT !.pc = "measure", !.day = today,
                            !.due = {i \in Ids : Due(i)}])
    /\ UNCHANGED <<evidence, today, rows, applied, observed>>

Measure(r) ==
    /\ req[r].pc = "measure"
    /\ rows' = [i \in Ids |->
                  IF i \in req[r].due /\ rows[i].outcome = "none"
                    THEN [rows[i] EXCEPT !.outcome = "MEASURED"] ELSE rows[i]]
    /\ Done(r)
    /\ UNCHANGED <<evidence, today, applied, observed>>

Crash(r) ==
    /\ Crashes /\ req[r].pc # "idle"
    /\ Done(r)
    /\ UNCHANGED <<evidence, today, rows, applied, observed>>

Next ==
    \/ Evidence \/ NextDay
    \/ \E r \in Requests :
          \/ Suggest(r) \/ FindOpen(r) \/ Expire(r) \/ Create(r) \/ Generated(r)
          \/ \E i \in Ids : StartAccept(r, i) \/ StartReject(r, i)
          \/ Apply(r) \/ MarkAccepted(r) \/ MarkRejected(r) \/ Rejected(r)
          \/ Lookup(r) \/ Measure(r) \/ Crash(r)

Spec == Init /\ [][Next]_vars

-----------------------------------------------------------------------------
(* PROPERTIES                                                               *)

RowOK(w) ==
    /\ w.fp \in Fingerprints /\ w.early \in BOOLEAN /\ w.until \in Nat
    /\ w.status \in {"PENDING", "ACCEPTED", "REJECTED", "EXPIRED"}
    /\ w.outcome \in {"none", "PENDING", "MEASURED"}
    /\ w.status = "ACCEPTED" => w.until > 0

(* Rows, observations and requests are well formed, and an accepted proposal *)
(* has its observation window.                                              *)
TypeOK ==
    /\ evidence \in Fingerprints \cup {Nothing} /\ today \in 1 .. MaxDay
    /\ Len(rows) <= MaxRows /\ \A i \in Ids : RowOK(rows[i])
    /\ applied \subseteq Ids
    /\ observed \subseteq [id : Ids, type : {"GENERATED", "REJECTED"}]
    /\ req \in [Requests ->
         [pc : {"idle", "find", "expire", "create", "generated", "apply",
                "accept", "reject", "rejected", "measure"},
          fp : Fingerprints \cup {Nothing}, id : Ids \cup {0},
          day : 0 .. MaxDay, early : BOOLEAN, due : SUBSET Ids]]

(* Requests one after the other, with crashes in between: a habit never has *)
(* two open proposals, whatever the evidence does.                          *)
OneOpen == Cardinality(Open) <= 1

(* An accepted, rejected or expired proposal stays so: accepting what was   *)
(* rejected, or the reverse, is "an impossible transition"                  *)
(* (behavioral-event.service.ts:315).                                       *)
ResolvedOnce ==
    [][\A i \in Ids : rows[i].status # "PENDING"
                        => rows'[i].status = rows[i].status]_vars

(* The baseline of an accepted proposal was captured before its change      *)
(* reached the habit (adaptive.service.ts:171).                             *)
BaselineBeforeChange ==
    \A i \in Having("ACCEPTED") : rows[i].early

(* A suggestion for other evidence resolves the open proposal it found      *)
(* (adaptive.service.ts:118).                                               *)
StaleExpires ==
    [][\A r \in Requests :
          req[r].pc = "expire" /\ req'[r].pc # "expire"
            => rows'[req[r].id].status # "PENDING"]_vars

(* Looking at the outcomes measures every accepted proposal whose window    *)
(* has closed (adaptive.service.ts:213).                                    *)
LookupsMeasure ==
    [][\A r \in Requests, i \in Ids :
          /\ req[r].pc = "measure" /\ req'[r].pc = "idle"
          /\ rows[i].status = "ACCEPTED" /\ rows[i].until <= req[r].day
            => rows'[i].outcome = "MEASURED"]_vars
=============================================================================
