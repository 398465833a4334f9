----------------------------- MODULE HabitStack -----------------------------
(* Habit stacking: every habit of a user follows at most one other          *)
(* (stackAfterHabitId).  A creation or update that names a cue checks the   *)
(* target and then the whole chain with plain reads inside its transaction, *)
(* and writes the edge last; READ COMMITTED lets other requests in between. *)
EXTENDS Integers

CONSTANTS
    Edits,   \* concurrent HTTP requests
    Habits,     \* ids of the habits one user ever has
    MaxDepth,   \* MAX_STACK_DEPTH
    NoHabit     \* model value: no cue

ASSUME StackAssumption == MaxDepth \in Nat \ {0} /\ NoHabit \notin Habits

VARIABLES
    exists,     \* habits in the table
    archived,   \* those with isArchived
    after,      \* stackAfterHabitId
    edit

stackVars == <<exists, archived, after, edit>>

NoEdit == [pc |-> "idle", mode |-> "update", habit |-> NoHabit, target |-> NoHabit]

(* Mutants: only the direct loop is looked for; the walk that runs out of   *)
(* depth finds the chain harmless.                                          *)
WouldLoopDirectly(edges, habit, parent) ==
    habit = parent \/ edges[parent] = habit

WalkGivesUp(edges, habit, parent) ==
    LET closing[d \in 0 .. MaxDepth] ==
            {x \in Habits : d > 0 /\ (x = habit \/ (edges[x] \notin {NoHabit, x}
                                                    /\ edges[x] \in closing[d - 1]))}
    IN  habit = parent \/ parent \in closing[MaxDepth]

(* wouldCreateStackCycle: walk from the proposed parent, MaxDepth steps at  *)
(* most; a habit that follows itself ends the walk.  closing[d]: the habits *)
(* from which a walk of d steps meets the habit or runs out of depth.       *)
WouldCreateStackCycle(edges, habit, parent) ==
    LET closing[d \in 0 .. MaxDepth] ==
            {x \in Habits : d = 0 \/ x = habit \/ (edges[x] \notin {NoHabit, x}
                                                   /\ edges[x] \in closing[d - 1])}
    IN  habit = parent \/ parent \in closing[MaxDepth]

StackInit ==
    /\ exists = {} /\ archived = {}
    /\ after = [h \in Habits |-> NoHabit]
    /\ edit = [r \in Edits |-> NoEdit]

Claimed == {edit[r].habit : r \in {s \in Edits : edit[s].mode = "create"}}

(* createHabit and updateHabit up to assertStackTarget's read of the target.*)
Stack(r, mode, h, t) ==
    /\ edit[r].pc = "idle"
    /\ IF mode = "create" THEN h \notin exists \cup Claimed
       ELSE h \in exists /\ h # t
    /\ t \in exists \ archived
    /\ edit' = [edit EXCEPT ![r] = [pc |-> "check", mode |-> mode, habit |-> h,
                                  target |-> t]]
    /\ UNCHANGED <<exists, archived, after>>

(* On creation there is no habit id yet: the code checks the target against *)
(* itself (forHabitId ?? stackAfterHabitId).                                *)
Checked(q) == IF q.mode = "create" THEN q.target ELSE q.habit

CheckChain(r) ==
    LET q == edit[r]
    IN  /\ q.pc = "check"
        /\ edit' = [edit EXCEPT ![r].pc =
              IF WouldCreateStackCycle(after, Checked(q), q.target)
                THEN "conflict" ELSE "write"]
        /\ UNCHANGED <<exists, archived, after>>

Conflict(r) ==
    /\ edit[r].pc = "conflict"
    /\ edit' = [edit EXCEPT ![r] = NoEdit]
    /\ UNCHANGED <<exists, archived, after>>

(* The write; the habit may be gone by now (P2025), or its target (foreign  *)
(* key).                                                                    *)
WriteStack(r) ==
    LET q == edit[r]
    IN  /\ q.pc = "write"
        /\ IF q.target \in exists /\ (q.mode = "update" => q.habit \in exists)
             THEN /\ exists' = exists \cup {q.habit}
                  /\ after' = [after EXCEPT ![q.habit] = q.target]
             ELSE UNCHANGED <<exists, after>>
        /\ edit' = [edit EXCEPT ![r] = NoEdit]
        /\ UNCHANGED archived

(* Requests that touch one row only: a habit without a cue, a cue removed,  *)
(* a habit archived, a habit deleted (the foreign key sets null).           *)
CreateHabit(h) ==
    /\ h \notin exists \cup Claimed
    /\ exists' = exists \cup {h}
    /\ UNCHANGED <<archived, after, edit>>

Unstack(h) ==
    /\ h \in exists /\ after[h] # NoHabit
    /\ after' = [after EXCEPT ![h] = NoHabit]
    /\ UNCHANGED <<exists, archived, edit>>

Archive(h) ==
    /\ h \in exists
    /\ archived' = archived \cup {h}
    /\ UNCHANGED <<exists, after, edit>>

Delete(h) ==
    /\ h \in exists
    /\ exists' = exists \ {h} /\ archived' = archived \ {h}
    /\ after' = [x \in Habits |->
                   IF x = h \/ after[x] = h THEN NoHabit ELSE after[x]]
    /\ UNCHANGED edit

StackNext ==
    \/ \E r \in Edits :
          \/ \E mode \in {"create", "update"}, h, t \in Habits : Stack(r, mode, h, t)
          \/ CheckChain(r) \/ Conflict(r) \/ WriteStack(r)
    \/ \E h \in Habits : CreateHabit(h) \/ Unstack(h) \/ Archive(h) \/ Delete(h)

StackSpec == StackInit /\ [][StackNext]_stackVars

-----------------------------------------------------------------------------
(* PROPERTIES                                                               *)

(* Only habits in the table have or are cues; requests are well formed.     *)
StackTypeOK ==
    /\ archived \subseteq exists /\ exists \subseteq Habits
    /\ after \in [Habits -> exists \cup {NoHabit}]
    /\ \A h \in Habits : after[h] # NoHabit => h \in exists
    /\ edit \in [Edits -> [pc : {"idle", "check", "conflict", "write"},
                             mode : {"create", "update"},
                             habit : Habits \cup {NoHabit},
                             target : Habits \cup {NoHabit}]]

(* Independent of any walk: in every set of habits one has its cue outside. *)
Acyclic(edges) ==
    \A S \in (SUBSET Habits) \ {{}} : \E h \in S : edges[h] \notin S

(* A stack never loops: each habit's chain of cues ends                     *)
(* (habit.service.ts:238).                                                  *)
StackAcyclic == Acyclic(after)

(* The bounded walk misses no cycle an edge would close in an acyclic       *)
(* stack, however long the chain.                                           *)
WalkFindsCycles ==
    \A h, p \in Habits :
        Acyclic(after) /\ ~Acyclic([after EXCEPT ![h] = p])
            => WouldCreateStackCycle(after, h, p)

Closes(q) == ~Acyclic([after EXCEPT ![q.habit] = q.target])

Refuses(r) == edit[r].pc = "check" /\ edit'[r].pc = "conflict"

LongChain(h) ==
    \E walk \in [0 .. MaxDepth -> Habits] :
        walk[0] = h /\ \A i \in 1 .. MaxDepth : walk[i] = after[walk[i - 1]]

(* An update is refused as circular only when its edge would close a cycle  *)
(* in the stack as it is, or behind a chain longer than the walk            *)
(* (wouldCreateStackCycle, habit.service.ts:237).                           *)
UpdatesRefusedRightly ==
    [][\A r \in Edits :
          Refuses(r) /\ edit[r].mode = "update"
            => Closes(edit[r]) \/ LongChain(edit[r].target)]_stackVars

(* The same of every request: creating a habit after an existing one closes *)
(* no cycle (habit.service.ts:237, create-habit.dto.ts:225).                *)
ConflictsAreCycles ==
    [][\A r \in Edits : Refuses(r) => Closes(edit[r])]_stackVars
=============================================================================
