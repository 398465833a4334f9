-------------------------- MODULE WeeklyReviewProofs -------------------------
(* The weekly review for any number of requests, server processes and        *)
(* crashes: one generation at a time in a process, nobody waits for a        *)
(* generation that is gone, what is stored is about a finished week; and a   *)
(* temptation bundle is earned before it is released and used once.          *)
EXTENDS WeeklyReview, FiniteSetTheorems, TLAPS

Generation == {"reports", "identities", "ask", "persist"}
Stages == {"idle", "clock", "stored", "found", "wait", "delete"} \cup Generation

(* The fields of a request; what they hold is left open.                    *)
Fields == {"pc", "at", "ai", "again", "final", "seen", "facts", "tries", "by"}
Shaped(q) == q = [f \in Fields |-> q[f]]
FactFields == {"over", "done", "enough", "named"}
WithFacts(x) == x = [f \in FactFields |-> x[f]]

JobOK(q) ==
    /\ Shaped(q) /\ q.pc \in Stages
    /\ q.again \in BOOLEAN /\ q.final \in BOOLEAN
    /\ q.pc # "idle" => q.at \in Servers
    /\ q.pc = "delete" => q.again
    /\ q.again => q.final /\ q.pc \in {"idle", "delete"} \cup Generation
    /\ q.pc \in {"identities", "ask", "persist"} =>
          WithFacts(q.facts) /\ (q.final => q.facts.over = TRUE)

ReviewTyped ==
    /\ over \in BOOLEAN
    /\ job = [c \in Callers |-> job[c]]
    /\ inFlight \in [Servers -> Callers \cup {None}]
    /\ \A c \in Callers : JobOK(job[c]) /\ (job[c].final => over)

(* The map of a process names exactly its generation.                       *)
Alone(q) == ~q.again /\ q.pc \in Generation

FlightInv ==
    /\ \A c \in Callers : Alone(job[c]) => inFlight[job[c].at] = c
    /\ \A s \in Servers : inFlight[s] # None =>
          job[inFlight[s]].at = s /\ Alone(job[inFlight[s]])
    /\ \A c \in Callers : job[c].pc = "wait" => inFlight[job[c].at] # None

ReviewInv == ReviewTyped /\ FlightInv /\ StoredIsOver

-----------------------------------------------------------------------------
(* The request before it begins and after it is answered.                   *)
LEMMA NoJobOK == JobOK(NoJob) /\ ~Alone(NoJob) /\ NoJob.pc = "idle" /\ ~NoJob.final
  BY DEF NoJob, JobOK, Shaped, Fields, Stages, Alone, Generation

(* A request moves on without touching the map.                             *)
LEMMA MoveKeeps ==
    ASSUME ReviewInv, NEW c \in Callers, NEW q,
           job' = [job EXCEPT ![c] = q], inFlight' = inFlight, over' = over,
           JobOK(q), q.final => over,
           Alone(q) <=> Alone(job[c]), Alone(q) => q.at = job[c].at,
           q.pc = "wait" => inFlight[q.at] # None
    PROVE  ReviewTyped' /\ FlightInv'
<1>1. \A o \in Callers : job'[o] = IF o = c THEN q ELSE job[o]
  BY DEF ReviewInv, ReviewTyped
<1>2. ReviewTyped'
  BY <1>1 DEF ReviewInv, ReviewTyped, JobOK, Shaped, Fields, WithFacts, FactFields
<1>3. ASSUME NEW o \in Callers
      PROVE  /\ Alone(job'[o]) => inFlight'[job'[o].at] = o
             /\ job'[o].pc = "wait" => inFlight'[job'[o].at] # None
  BY <1>1 DEF ReviewInv, FlightInv
<1>4. ASSUME NEW s \in Servers, inFlight'[s] # None
      PROVE  job'[inFlight'[s]].at = s /\ Alone(job'[inFlight'[s]])
  <2>1. inFlight[s] \in Callers /\ job[inFlight[s]].at = s /\ Alone(job[inFlight[s]])
    BY <1>4 DEF ReviewInv, ReviewTyped, FlightInv
  <2> QED
    BY <1>1, <2>1
<1> QED
  BY <1>2, <1>3, <1>4 DEF FlightInv

(* A request that joins waits for the generation, or becomes it.            *)
LEMMA JoinKeeps ==
    ASSUME ReviewInv, NEW c \in Callers, NEW q, Join(c, q), over' = over,
           JobOK(q), q.final => over, q.pc \in {"clock", "found"},
           ~Alone(job[c])
    PROVE  ReviewTyped' /\ FlightInv'
<1>0. q.at \in Servers /\ ~q.again /\ inFlight \in [Servers -> Callers \cup {None}]
  BY DEF JobOK, ReviewInv, ReviewTyped, Generation
<1>1. CASE inFlight[q.at] # None
  <2> DEFINE w == [q EXCEPT !.pc = "wait"]
  <2>1. job' = [job EXCEPT ![c] = w] /\ inFlight' = inFlight
    BY <1>1 DEF Join, Moves
  <2>2. w.pc = "wait" /\ w.at = q.at /\ w.final = q.final /\ w.again = q.again
    BY DEF JobOK, Shaped, Fields
  <2>3. JobOK(w)
    BY <1>0 DEF JobOK, Shaped, Fields, Stages, Generation
  <2>4. ~Alone(w)
    BY <2>2 DEF Alone, Generation
  <2> QED
    BY <1>1, <2>1, <2>2, <2>3, <2>4, MoveKeeps
<1>2. CASE inFlight[q.at] = None
  <2> DEFINE w == [q EXCEPT !.pc = "reports"]
  <2>1. job' = [job EXCEPT ![c] = w] /\ inFlight' = [inFlight EXCEPT ![q.at] = c]
    BY <1>2 DEF Join, Moves
  <2>2. w.pc = "reports" /\ w.at = q.at /\ w.final = q.final /\ w.again = q.again
    BY DEF JobOK, Shaped, Fields
  <2>3. JobOK(w) /\ Alone(w)
    BY <1>0, <2>2 DEF JobOK, Shaped, Fields, Stages, Generation, Alone
  <2>4. /\ \A o \in Callers : job'[o] = IF o = c THEN w ELSE job[o]
        /\ \A s \in Servers : inFlight'[s] = IF s = q.at THEN c ELSE inFlight[s]
        /\ inFlight' \in [Servers -> Callers \cup {None}]
    BY <1>0, <2>1 DEF ReviewInv, ReviewTyped
  <2>5. ReviewTyped'
    BY <2>1, <2>2, <2>3, <2>4 DEF ReviewInv, ReviewTyped
  <2>6. ASSUME NEW o \in Callers, o # c
        PROVE  /\ Alone(job[o]) => job[o].at # q.at /\ job[o].at \in Servers
               /\ job[o].pc = "wait" => job[o].at \in Servers
    BY <1>2, ReviewAssumption DEF ReviewInv, ReviewTyped, FlightInv, JobOK, Alone, Generation
  <2>7. ASSUME NEW o \in Callers
        PROVE  /\ Alone(job'[o]) => inFlight'[job'[o].at] = o
               /\ job'[o].pc = "wait" => inFlight'[job'[o].at] # None
    <3>1. CASE o = c
      BY <1>0, <2>2, <2>4, <3>1
    <3>2. CASE o # c
      BY <2>4, <2>6, <3>2, ReviewAssumption DEF ReviewInv, FlightInv
    <3> QED
      BY <3>1, <3>2
  <2>8. ASSUME NEW s \in Servers, inFlight'[s] # None
        PROVE  job'[inFlight'[s]].at = s /\ Alone(job'[inFlight'[s]])
    <3>1. CASE s = q.at
      BY <2>2, <2>3, <2>4, <3>1
    <3>2. CASE s # q.at
      <4>1. inFlight[s] \in Callers /\ job[inFlight[s]].at = s /\ Alone(job[inFlight[s]])
        BY <2>4, <2>8, <3>2 DEF ReviewInv, ReviewTyped, FlightInv
      <4> QED
        BY <2>4, <3>2, <4>1
    <3> QED
      BY <3>1, <3>2
  <2> QED
    BY <2>5, <2>7, <2>8 DEF FlightInv
<1> QED
  BY <1>1, <1>2

-----------------------------------------------------------------------------
(* The requests, action by action.                                          *)

(* getWeeklyReview and regenerateWeeklyReview begin.                        *)
LEMMA BeginKeeps ==
    ASSUME ReviewInv, NEW c \in Callers, NEW s \in Servers,
           Get(c, s) \/ Regenerate(c, s)
    PROVE  ReviewTyped' /\ FlightInv'
<1>1. job[c].pc = "idle" /\ ~Alone(job[c]) /\ inFlight' = inFlight /\ over' = over
  BY DEF Get, Regenerate, Begins, Alone, Generation
<1>2. CASE Get(c, s)
  <2> DEFINE pc == IF prefs.enabled THEN "clock" ELSE "idle"
             q == [NoJob EXCEPT !.pc = pc, !.at = s, !.ai = prefs.ai]
  <2>1. job' = [job EXCEPT ![c] = q] /\ pc \in {"clock", "idle"}
    BY <1>2 DEF Get, Begins
  <2> HIDE DEF pc
  <2>2. JobOK(q) /\ ~q.final /\ q.pc = pc
    BY <2>1 DEF NoJob, JobOK, Shaped, Fields, Stages
  <2>3. ~Alone(q) /\ q.pc # "wait"
    BY <2>1, <2>2 DEF Alone, Generation
  <2> QED
    BY <1>1, <2>1, <2>2, <2>3, MoveKeeps
<1>3. CASE Regenerate(c, s)
  <2> DEFINE pc == IF prefs.enabled THEN "delete" ELSE "idle"
             q == [NoJob EXCEPT !.pc = pc, !.at = s, !.ai = prefs.ai, !.again = TRUE,
                                !.final = TRUE]
  <2>1. job' = [job EXCEPT ![c] = q] /\ pc \in {"delete", "idle"} /\ over
    BY <1>3 DEF Regenerate, Begins
  <2> HIDE DEF pc
  <2>2. JobOK(q) /\ q.again /\ q.pc = pc
    BY <2>1 DEF NoJob, JobOK, Shaped, Fields, Stages
  <2>3. ~Alone(q) /\ q.pc # "wait"
    BY <2>1, <2>2 DEF Alone
  <2> QED
    BY <1>1, <2>1, <2>2, <2>3, MoveKeeps
<1> QED
  BY <1>2, <1>3

(* The clock, the stored row, its deletion.                                 *)
LEMMA LookKeeps ==
    ASSUME ReviewInv, NEW c \in Callers,
           ReadClock(c) \/ FindStored(c) \/ AnswerStored(c) \/ DeleteRow(c)
    PROVE  ReviewTyped' /\ FlightInv'
<1>0. JobOK(job[c]) /\ (job[c].final => over) /\ over \in BOOLEAN
  BY DEF ReviewInv, ReviewTyped
<1>1. over' = over /\ ~Alone(job[c])
  BY <1>0 DEF ReadClock, FindStored, AnswerStored, DeleteRow, Alone, Generation
<1>2. CASE ReadClock(c)
  <2> DEFINE q == [job[c] EXCEPT !.final = over, !.ai = @ /\ over]
  <2>1. q.pc = "clock" /\ ~q.again /\ (q.final <=> over) /\ q.final \in BOOLEAN
    BY <1>0, <1>2 DEF ReadClock, JobOK, Shaped, Fields, Generation
  <2>2. JobOK(q)
    BY <1>0, <1>2, <2>1 DEF ReadClock, JobOK, Shaped, Fields, Stages, Generation
  <2>3. CASE over
    <3> DEFINE w == [q EXCEPT !.pc = "stored"]
    <3>1. job' = [job EXCEPT ![c] = w] /\ inFlight' = inFlight
      BY <1>2, <2>3 DEF ReadClock, Moves
    <3>2. JobOK(w) /\ w.pc = "stored"
      BY <2>1, <2>2 DEF JobOK, Shaped, Fields, Stages, Generation
    <3>3. ~Alone(w)
      BY <3>2 DEF Alone, Generation
    <3> QED
      BY <1>1, <2>3, <3>1, <3>2, <3>3, MoveKeeps
  <2>4. CASE ~over
    BY <1>1, <1>2, <2>1, <2>2, <2>4, JoinKeeps DEF ReadClock
  <2> QED
    BY <2>3, <2>4
<1>3. CASE FindStored(c)
  <2> DEFINE w == [job[c] EXCEPT !.pc = "found", !.seen = stored]
  <2>1. job' = [job EXCEPT ![c] = w] /\ inFlight' = inFlight
    BY <1>3 DEF FindStored, Moves
  <2>2. JobOK(w) /\ w.pc = "found" /\ w.final = job[c].final
    BY <1>0, <1>3 DEF FindStored, JobOK, Shaped, Fields, Stages, Generation
  <2>3. ~Alone(w)
    BY <2>2 DEF Alone, Generation
  <2> QED
    BY <1>0, <1>1, <2>1, <2>2, <2>3, MoveKeeps
<1>4. CASE AnswerStored(c)
  <2>1. CASE job[c].seen # None
    BY <1>1, <1>4, <2>1, NoJobOK, MoveKeeps DEF AnswerStored, Moves
  <2>2. CASE job[c].seen = None
    BY <1>0, <1>1, <1>4, <2>2, JoinKeeps DEF AnswerStored
  <2> QED
    BY <2>1, <2>2
<1>5. CASE DeleteRow(c)
  <2> DEFINE w == [job[c] EXCEPT !.pc = "reports"]
  <2>1. job' = [job EXCEPT ![c] = w] /\ inFlight' = inFlight
    BY <1>5 DEF DeleteRow, Moves
  <2>2. JobOK(w) /\ w.pc = "reports" /\ w.final = job[c].final /\ w.again
    BY <1>0, <1>5 DEF DeleteRow, JobOK, Shaped, Fields, Stages, Generation
  <2>3. ~Alone(w)
    BY <2>2 DEF Alone
  <2> QED
    BY <1>0, <1>1, <2>1, <2>2, <2>3, MoveKeeps
<1> QED
  BY <1>2, <1>3, <1>4, <1>5

(* The steps of a generation keep it the generation it is.                  *)
LEMMA GenerationMoves ==
    ASSUME NEW c \in Callers, JobOK(job[c]), job[c].final => over, over \in BOOLEAN,
           ReadReports(c) \/ ReadIdentities(c) \/ Ask(c)
    PROVE  \E w : /\ job' = [job EXCEPT ![c] = w] /\ JobOK(w)
                  /\ w.final = job[c].final /\ w.again = job[c].again
                  /\ w.at = job[c].at /\ w.pc \in Generation
<1>0. JobOK(job[c]) /\ (job[c].final => over) /\ over \in BOOLEAN
  OBVIOUS
<1>1. job[c].pc \in Generation
  BY <1>0 DEF ReadReports, ReadIdentities, Ask, Generation, JobOK, Shaped, Fields
<1>3. CASE ReadReports(c)
  <2> DEFINE F(read) == [over |-> over,
                         done |-> Cardinality({x \in read \X WeekDays :
                                                 log[x[1]][x[2]] \in Kinds}),
                         enough |-> \E h \in read, d \in Days : log[h][d] \in Kinds,
                         named |-> {}]
  <2>1. PICK read : job' = [job EXCEPT ![c] = [job[c] EXCEPT !.pc = "identities",
                                                             !.facts = F(read)]]
    BY <1>3 DEF ReadReports, Moves
  <2> DEFINE f == F(read)
             w == [job[c] EXCEPT !.pc = "identities", !.facts = f]
  <2>2. WithFacts(f) /\ f.over = over
    BY DEF WithFacts, FactFields
  <2>3. job' = [job EXCEPT ![c] = w]
    BY <2>1
  <2> HIDE DEF f
  <2>4. JobOK(w)
    BY <1>0, <1>3, <2>2 DEF ReadReports, JobOK, Shaped, Fields, Stages, Generation
  <2> QED
    BY <1>0, <2>3, <2>4 DEF JobOK, Shaped, Fields, Generation
<1>4. CASE ReadIdentities(c)
  <2> DEFINE N(read) == {[id |-> i, level |-> Summary(i, Max(WeekDays)).level] : i \in read}
             asks == job[c].ai /\ job[c].facts.enough
             pc == IF asks THEN "ask" ELSE "persist"
             by == IF asks THEN None ELSE "fallback"
  <2>1. /\ \E read : job' = [job EXCEPT ![c] =
                               [job[c] EXCEPT !.pc = pc, !.by = by, !.facts.named = N(read)]]
        /\ pc \in {"ask", "persist"}
    BY <1>4 DEF ReadIdentities, Moves
  <2> HIDE DEF pc, by, N
  <2>2. PICK n : job' = [job EXCEPT ![c] =
                           [job[c] EXCEPT !.pc = pc, !.by = by, !.facts.named = n]]
    BY <2>1
  <2> DEFINE w == [job[c] EXCEPT !.pc = pc, !.by = by, !.facts.named = n]
  <2>3. job[c].pc = "identities" /\ WithFacts(job[c].facts)
    BY <1>0, <1>4 DEF ReadIdentities, JobOK
  <2>4. /\ Shaped(w) /\ w.pc = pc /\ w.at = job[c].at
        /\ w.again = job[c].again /\ w.final = job[c].final
        /\ WithFacts(w.facts) /\ w.facts.over = job[c].facts.over
    BY <1>0, <2>3 DEF JobOK, Shaped, Fields, WithFacts, FactFields
  <2>5. JobOK(w)
    BY <1>0, <2>1, <2>3, <2>4 DEF JobOK, Stages, Generation
  <2> QED
    BY <2>1, <2>2, <2>4, <2>5 DEF Generation
<1>5. CASE Ask(c)
  <2> DEFINE q == [job[c] EXCEPT !.tries = @ + 1]
  <2>1. /\ Shaped(q) /\ q.pc = job[c].pc /\ q.at = job[c].at /\ q.facts = job[c].facts
        /\ q.again = job[c].again /\ q.final = job[c].final
    BY <1>0 DEF JobOK, Shaped, Fields
  <2>2. q.pc = "ask"
        /\ \/ job' = [job EXCEPT ![c] = [q EXCEPT !.pc = "persist", !.by = "nvidia"]]
           \/ job' = [job EXCEPT ![c] = q]
           \/ job' = [job EXCEPT ![c] = [q EXCEPT !.pc = "persist", !.by = "fallback"]]
    BY <1>5 DEF Ask, Moves
  <2> HIDE DEF q
  <2>3. \A v : LET w == [q EXCEPT !.pc = "persist", !.by = v]
               IN  /\ JobOK(w) /\ w.final = job[c].final /\ w.again = job[c].again
                   /\ w.at = job[c].at /\ w.pc \in Generation
    BY <1>0, <2>1, <2>2 DEF JobOK, Shaped, Fields, Stages, Generation
  <2>4. JobOK(q)
    BY <1>0, <2>1, <2>2 DEF JobOK
  <2>5. \/ \E v : job' = [job EXCEPT ![c] = [q EXCEPT !.pc = "persist", !.by = v]]
        \/ job' = [job EXCEPT ![c] = q]
    BY <2>2
  <2>6. CASE \E v : job' = [job EXCEPT ![c] = [q EXCEPT !.pc = "persist", !.by = v]]
    BY <2>3, <2>6
  <2>7. CASE job' = [job EXCEPT ![c] = q]
    BY <1>1, <2>1, <2>4, <2>7
  <2> QED
    BY <2>5, <2>6, <2>7
<1> QED
  BY <1>3, <1>4, <1>5

(* The facts are read, the model is asked.                                  *)
LEMMA MakeKeeps ==
    ASSUME ReviewInv, NEW c \in Callers, ReadReports(c) \/ ReadIdentities(c) \/ Ask(c)
    PROVE  ReviewTyped' /\ FlightInv'
<1>0. JobOK(job[c]) /\ (job[c].final => over) /\ over \in BOOLEAN
  BY DEF ReviewInv, ReviewTyped
<1>1. over' = over /\ inFlight' = inFlight /\ job[c].pc \in Generation
  BY <1>0 DEF ReadReports, ReadIdentities, Ask, Generation, JobOK, Shaped, Fields
<1>2. PICK w : /\ job' = [job EXCEPT ![c] = w] /\ JobOK(w)
               /\ w.final = job[c].final /\ w.again = job[c].again
               /\ w.at = job[c].at /\ w.pc \in Generation
  BY <1>0, GenerationMoves
<1>3. (Alone(w) <=> Alone(job[c])) /\ w.pc # "wait"
  BY <1>1, <1>2 DEF Alone, Generation
<1> QED
  BY <1>0, <1>1, <1>2, <1>3, MoveKeeps

-----------------------------------------------------------------------------
(* A finished generation answers those who wait for it and leaves the map.  *)
LEMMA EndKeeps ==
    ASSUME ReviewInv, NEW c \in Callers, Persist(c) \/ Fails(c)
    PROVE  ReviewTyped' /\ FlightInv'
<1> DEFINE q == job[c]
<1>0. /\ JobOK(q) /\ q.pc \notin {"idle", "wait", "identities", "ask"}
      /\ q.at \in Servers /\ over' = over /\ Ends(c)
      /\ inFlight \in [Servers -> Callers \cup {None}]
      /\ Alone(q) <=> ~q.again /\ q.pc \in {"reports", "persist"}
  BY DEF ReviewInv, ReviewTyped, Persist, Fails, JobOK, Alone, Generation
<1>1. /\ job' = [o \in Callers |-> job'[o]]
      /\ \A o \in Callers : job'[o] = job[o] \/ job'[o] = NoJob
      /\ job'[c] = NoJob
      /\ \A o \in Callers : o # c /\ job'[o] # job[o] =>
            Alone(q) /\ job[o].pc = "wait" /\ job[o].at = q.at
      /\ \A o \in Callers : Alone(q) /\ job[o].pc = "wait" /\ job[o].at = q.at =>
            job'[o] = NoJob
  BY <1>0 DEF Ends
<1>2. /\ inFlight' \in [Servers -> Callers \cup {None}]
      /\ \A s \in Servers : inFlight'[s] = IF Alone(q) /\ s = q.at THEN None
                                                             ELSE inFlight[s]
  BY <1>0 DEF Ends
<1> HIDE DEF q
<1>3. ReviewTyped'
  BY <1>0, <1>1, <1>2, NoJobOK DEF ReviewInv, ReviewTyped
<1>4. ASSUME NEW o \in Callers
      PROVE  /\ Alone(job'[o]) => inFlight'[job'[o].at] = o
             /\ job'[o].pc = "wait" => inFlight'[job'[o].at] # None
  <2>1. CASE job'[o] = NoJob
    BY <2>1, NoJobOK
  <2>2. CASE job'[o] # NoJob
    <3>1. job'[o] = job[o] /\ o # c /\ JobOK(job[o])
      BY <1>1, <2>2 DEF ReviewInv, ReviewTyped
    <3>2. CASE ~Alone(q)
      <4>1. \A s \in Servers : inFlight'[s] = inFlight[s]
        BY <1>2, <3>2
      <4> QED
        BY <3>1, <4>1 DEF ReviewInv, FlightInv, JobOK, Alone, Generation
    <3>3. CASE Alone(q)
      <4>1. inFlight[q.at] = c
        BY <1>0, <3>3 DEF q, ReviewInv, FlightInv, Alone, Generation
      <4>2. Alone(job[o]) => job[o].at \in Servers /\ job[o].at # q.at
        BY <3>1, <4>1 DEF ReviewInv, FlightInv, JobOK, Alone, Generation
      <4>3. job[o].pc = "wait" => job[o].at \in Servers /\ job[o].at # q.at
        BY <1>1, <2>2, <3>1, <3>3 DEF JobOK
      <4> QED
        BY <1>2, <3>1, <4>2, <4>3 DEF ReviewInv, FlightInv
    <3> QED
      BY <3>2, <3>3
  <2> QED
    BY <2>1, <2>2
<1>5. ASSUME NEW s \in Servers, inFlight'[s] # None
      PROVE  job'[inFlight'[s]].at = s /\ Alone(job'[inFlight'[s]])
  <2> DEFINE o == inFlight[s]
  <2>1. inFlight'[s] = o /\ o # None
    BY <1>2, <1>5
  <2>2. o \in Callers /\ job[o].at = s /\ Alone(job[o])
    BY <2>1, <1>0 DEF ReviewInv, FlightInv
  <2>3. o # c
    <3>1. CASE ~Alone(q)
      BY <2>2, <3>1 DEF q, Alone
    <3>2. CASE Alone(q)
      BY <1>2, <1>5, <2>2, <3>2 DEF q
    <3> QED
      BY <3>1, <3>2
  <2>4. job'[o] = job[o]
    BY <1>1, <2>2, <2>3 DEF Alone, Generation
  <2> QED
    BY <2>1, <2>2, <2>4
<1> QED
  BY <1>3, <1>4, <1>5 DEF FlightInv

(* A process that dies loses its map and its requests together.             *)
LEMMA CrashKeeps ==
    ASSUME ReviewInv, NEW s \in Servers, Crash(s)
    PROVE  ReviewTyped' /\ FlightInv'
<1>1. /\ job' = [o \in Callers |-> job'[o]] /\ over' = over
      /\ \A o \in Callers : job'[o] = IF job[o].at = s THEN NoJob ELSE job[o]
      /\ inFlight' \in [Servers -> Callers \cup {None}]
      /\ \A t \in Servers : inFlight'[t] = IF t = s THEN None ELSE inFlight[t]
  BY DEF Crash, ReviewInv, ReviewTyped
<1>2. ReviewTyped'
  BY <1>1, NoJobOK DEF ReviewInv, ReviewTyped
<1>3. ASSUME NEW o \in Callers
      PROVE  /\ Alone(job'[o]) => inFlight'[job'[o].at] = o
             /\ job'[o].pc = "wait" => inFlight'[job'[o].at] # None
  <2>1. CASE job[o].at = s
    BY <1>1, <2>1, NoJobOK
  <2>2. CASE job[o].at # s
    BY <1>1, <2>2 DEF ReviewInv, ReviewTyped, FlightInv, JobOK, Alone, Generation
  <2> QED
    BY <2>1, <2>2
<1>4. ASSUME NEW t \in Servers, inFlight'[t] # None
      PROVE  job'[inFlight'[t]].at = t /\ Alone(job'[inFlight'[t]])
  <2>1. t # s /\ inFlight'[t] = inFlight[t]
    BY <1>1, <1>4
  <2>2. inFlight[t] \in Callers /\ job[inFlight[t]].at = t /\ Alone(job[inFlight[t]])
    BY <1>4, <2>1 DEF ReviewInv, ReviewTyped, FlightInv
  <2> QED
    BY <1>1, <2>1, <2>2
<1> QED
  BY <1>2, <1>3, <1>4 DEF FlightInv

(* What the requests of the identities, the clock and the preferences do.   *)
LEMMA OthersKeep ==
    ASSUME ReviewInv, job' = job, inFlight' = inFlight, over' \in BOOLEAN, over => over'
    PROVE  ReviewTyped' /\ FlightInv'
  BY DEF ReviewInv, ReviewTyped, FlightInv

(* What is kept is what was read after the week had ended.                  *)
LEMMA StoredKeeps ==
    ASSUME ReviewInv, [Next]_reviewVars
    PROVE  StoredIsOver'
<1>1. CASE stored' = stored
  BY <1>1 DEF ReviewInv, StoredIsOver
<1>2. CASE stored' = None
  BY <1>2 DEF StoredIsOver
<1>3. ASSUME NEW c \in Callers, Persist(c)
      PROVE  StoredIsOver'
  <2>1. JobOK(job[c]) /\ job[c].pc = "persist"
    BY <1>3 DEF ReviewInv, ReviewTyped, Persist
  <2>2. CASE job[c].final
    BY <1>1, <1>3, <2>1, <2>2 DEF Persist, Kept, Stores, StoresNot, JobOK, StoredIsOver
  <2>3. CASE ~job[c].final
    BY <1>1, <1>3, <2>3 DEF Persist, Kept
  <2> QED
    BY <2>2, <2>3
<1>4. stored' = stored \/ stored' = None \/ \E c \in Callers : Persist(c)
  BY DEF Next, reviewVars, review, EndWeek, SetPrefs, Crash, Get, Regenerate, Generates,
         ReadClock, FindStored, AnswerStored, DeleteRow, ReadReports, ReadIdentities, Ask, Fails
<1> QED
  BY <1>1, <1>2, <1>3, <1>4

(* Every step keeps the invariant.                                          *)
LEMMA ReviewStep == ReviewInv /\ [Next]_reviewVars => ReviewInv'
<1> SUFFICES ASSUME ReviewInv, [Next]_reviewVars
             PROVE  ReviewTyped' /\ FlightInv'
  BY StoredKeeps DEF ReviewInv
<1>0. over \in BOOLEAN
  BY DEF ReviewInv, ReviewTyped
<1>1. CASE UNCHANGED review
  BY <1>0, <1>1, OthersKeep DEF review
<1>2. CASE EndWeek
  BY <1>0, <1>2, OthersKeep DEF EndWeek
<1>3. ASSUME NEW p, SetPrefs(p)
      PROVE  ReviewTyped' /\ FlightInv'
  BY <1>0, <1>3, OthersKeep DEF SetPrefs
<1>4. ASSUME NEW s \in Servers,
             Crash(s) \/ \E c \in Callers : Get(c, s) \/ Regenerate(c, s)
      PROVE  ReviewTyped' /\ FlightInv'
  BY <1>4, CrashKeeps, BeginKeeps
<1>5. ASSUME NEW c \in Callers, Generates(c)
      PROVE  ReviewTyped' /\ FlightInv'
  BY <1>5, LookKeeps, MakeKeeps, EndKeeps DEF Generates
<1> QED
  BY <1>1, <1>2, <1>3, <1>4, <1>5 DEF Next, reviewVars

(* Nobody generates at the start.                                           *)
LEMMA ReviewStart == Init => ReviewInv
<1> SUFFICES ASSUME Init PROVE ReviewInv
  OBVIOUS
<1>1. /\ job = [c \in Callers |-> NoJob] /\ over = FALSE /\ stored = None
      /\ inFlight = [s \in Servers |-> None]
  BY DEF Init, ReviewInit
<1> QED
  BY <1>1, NoJobOK DEF ReviewInv, ReviewTyped, FlightInv, StoredIsOver

(* What the invariant says of a process: no second generation, and nobody   *)
(* waits for one that is gone.                                              *)
LEMMA FlightOne == ReviewInv => OneGeneration
<1> SUFFICES ASSUME ReviewInv, NEW s \in Servers
             PROVE  /\ Cardinality(Generating(s)) <= 1
                    /\ \A c \in Callers :
                          job[c].pc = "wait" /\ job[c].at = s => Generating(s) # {}
  BY DEF OneGeneration
<1>1. Generating(s) = {c \in Callers : job[c].at = s /\ Alone(job[c])}
  BY DEF Generating, Alone, Generation
<1>2. Generating(s) \subseteq {inFlight[s]}
  BY <1>1 DEF ReviewInv, FlightInv
<1>3. Cardinality(Generating(s)) <= 1
  <2>1. ASSUME NEW G, NEW x, G \subseteq {x}
        PROVE  Cardinality(G) <= 1
    <3>1. G = {} \/ G = {x}
      BY <2>1
    <3>2. Cardinality(G) = 0 \/ Cardinality(G) = 1
      BY <3>1, FS_EmptySet, FS_Singleton
    <3> QED
      BY <3>2
  <2> QED
    BY <1>2, <2>1
<1>4. ASSUME NEW c \in Callers, job[c].pc = "wait", job[c].at = s
      PROVE  Generating(s) # {}
  <2>1. inFlight[s] # None /\ inFlight[s] \in Callers \cup {None}
    BY <1>4 DEF ReviewInv, ReviewTyped, FlightInv
  <2>2. inFlight[s] \in Generating(s)
    BY <1>1, <2>1 DEF ReviewInv, FlightInv
  <2> QED
    BY <2>2
<1> QED
  BY <1>3, <1>4

(* Between the deletion of a row and the next one its regeneration runs.    *)
Again(q) == q.again /\ q.pc \in Generation

(* A row is gone only while its regeneration runs, or after one that failed.*)
LEMMA KeptStep ==
    ASSUME \A f, b : [facts |-> f, by |-> b] # None
    PROVE  ReviewInv /\ ReviewKept /\ [Next]_reviewVars => ReviewKept'
<1> SUFFICES ASSUME ReviewInv, ReviewKept, [Next]_reviewVars, answered', stored' = None, ~failed'
             PROVE  \E c \in Callers : Again(job'[c])
  BY DEF ReviewKept, Regenerating, Again, Generation
<1>1. ASSUME NEW c \in Callers
      PROVE  JobOK(job[c]) /\ (Again(job[c]) => job[c].final)
  BY DEF ReviewInv, ReviewTyped, JobOK, Again
<1>2. job = [c \in Callers |-> job[c]]
  BY DEF ReviewInv, ReviewTyped
<1>3. answered /\ stored = None /\ ~failed => \E c \in Callers : Again(job[c])
  BY DEF ReviewKept, Regenerating, Again, Generation
(* Of those who end, only a regeneration had the row deleted; it fails.     *)
<1>4. ASSUME NEW c \in Callers, Persist(c) \/ Fails(c)
      PROVE  \E o \in Callers : Again(job'[o])
  <2>1. Ends(c) /\ ~Again(job[c]) /\ ~failed /\ UNCHANGED <<stored, answered>>
    <3>1. CASE Persist(c)
      <4>1. CASE Kept(job[c])
        BY <3>1, <4>1 DEF Persist, Stores, StoresNot, Again
      <4>2. CASE ~Kept(job[c])
        BY <1>1, <3>1, <4>2 DEF Persist, Kept, history
      <4> QED
        BY <4>1, <4>2
    <3>2. CASE Fails(c)
      BY <1>1, <3>2 DEF Fails, Again, JobOK, Generation
    <3> QED
      BY <1>4, <3>1, <3>2
  <2>2. PICK o \in Callers : Again(job[o])
    BY <1>3, <2>1
  <2>3. job'[o] = job[o]
    BY <2>1, <2>2 DEF Ends, Again, Generation
  <2> QED
    BY <2>2, <2>3
<1>5. ASSUME NEW s, Crash(s)
      PROVE  \E o \in Callers : Again(job'[o])
  <2>1. PICK o \in Callers : Again(job[o])
    BY <1>3, <1>5 DEF Crash
  <2>2. job[o].at # s
    BY <1>5, <2>1 DEF Crash, Regenerating, Again, Generation
  <2>3. job'[o] = job[o]
    BY <1>5, <2>2 DEF Crash
  <2> QED
    BY <2>1, <2>3
<1>6. ASSUME NEW c \in Callers, DeleteRow(c)
      PROVE  \E o \in Callers : Again(job'[o])
  BY <1>1, <1>2, <1>6
  DEF DeleteRow, Moves, Again, JobOK, Shaped, Fields, Generation
(* Every other step leaves the row alone and ends no regeneration.          *)
<1>7. ASSUME NEW c \in Callers, NEW q, job' = [job EXCEPT ![c] = q],
             UNCHANGED <<stored, history>>, Again(job[c]) => Again(q)
      PROVE  \E o \in Callers : Again(job'[o])
  <2>1. PICK o \in Callers : Again(job[o])
    BY <1>3, <1>7 DEF history
  <2>2. job'[o] = IF o = c THEN q ELSE job[o]
    BY <1>2, <1>7
  <2> QED
    BY <1>7, <2>1, <2>2
<1>8. ASSUME NEW c \in Callers, NEW s, Get(c, s) \/ Regenerate(c, s)
      PROVE  \E o \in Callers : Again(job'[o])
  <2>1. ~Again(job[c]) /\ UNCHANGED <<stored, history>>
    BY <1>8 DEF Get, Regenerate, Begins, Again, Generation
  <2>2. \E q : job' = [job EXCEPT ![c] = q]
    BY <1>8 DEF Get, Regenerate, Begins
  <2> QED
    BY <1>7, <2>1, <2>2
<1>9. ASSUME NEW c \in Callers, ReadClock(c) \/ FindStored(c) \/ AnswerStored(c)
      PROVE  \E o \in Callers : Again(job'[o])
  <2>1. ~Again(job[c]) /\ UNCHANGED <<stored, history>>
    BY <1>9 DEF ReadClock, FindStored, AnswerStored, Again, Generation
  <2>2. \E q : job' = [job EXCEPT ![c] = q]
    BY <1>9 DEF ReadClock, FindStored, AnswerStored, Join, Moves
  <2> QED
    BY <1>7, <2>1, <2>2
<1>10. ASSUME NEW c \in Callers, ReadReports(c) \/ ReadIdentities(c) \/ Ask(c)
       PROVE  \E o \in Callers : Again(job'[o])
  <2>1. UNCHANGED <<stored, history>>
    BY <1>10 DEF ReadReports, ReadIdentities, Ask
  <2>2. PICK q : /\ job' = [job EXCEPT ![c] = q] /\ q.again = job[c].again
                 /\ q.pc \in Generation
    BY <1>1, <1>10, GenerationMoves DEF ReviewInv, ReviewTyped
  <2> QED
    BY <1>7, <2>1, <2>2 DEF Again
<1>11. CASE job' = job /\ UNCHANGED <<stored, history>>
  BY <1>3, <1>11 DEF history
<1> QED
  BY <1>4, <1>5, <1>6, <1>8, <1>9, <1>10, <1>11
  DEF Next, Generates, reviewVars, review, EndWeek, SetPrefs

(* The invariant holds of every reachable state.                            *)
LEMMA ReviewAlways == Spec => []ReviewInv
  BY ReviewStart, ReviewStep, PTL DEF Spec

(* Two requests of one process never generate the review at the same time   *)
(* unless one of them regenerates, and a request that waits waits for a     *)
(* generation that runs (weekly-review.service.ts:154).                     *)
THEOREM FlightAlone == Spec => []OneGeneration
  BY ReviewAlways, FlightOne, PTL

(* The review of a running week is never stored, whatever happens between   *)
(* reading the clock and the upsert (weekly-review.service.ts:253).         *)
THEOREM StoredAfterEnd == Spec => []StoredIsOver
<1>1. ReviewInv => StoredIsOver
  BY DEF ReviewInv
<1> QED
  BY <1>1, ReviewAlways, PTL

(* The stored review of a finished week is gone only while another one is    *)
(* being generated or after a regeneration that died, threw or could not    *)
(* store, when a row is not the absent row (weekly-review.service.ts:202).  *)
THEOREM KeptOnceReviewed ==
    ASSUME \A f, b : [facts |-> f, by |-> b] # None
    PROVE  Spec => []ReviewKept
<1>1. Init => ReviewKept
  BY DEF Init, ReviewInit, ReviewKept
<1>2. ReviewInv /\ ReviewKept /\ [Next]_reviewVars => ReviewKept'
  BY KeptStep
<1> QED
  BY <1>1, <1>2, ReviewAlways, PTL DEF Spec

-----------------------------------------------------------------------------
(* The life of a bundle.                                                    *)

Columns == {"habit", "status"}

LifeOK(b) ==
    /\ bundle[b] = [f \in Columns |-> bundle[b][f]]
    /\ bundle[b].status \in {"absent", "LOCKED", "UNLOCKED", "USED"}
    /\ uses[b] \in {0, 1}
    /\ bundle[b].status \in {"LOCKED", "UNLOCKED"} => uses[b] = 0
    /\ bundle[b].status \in {"UNLOCKED", "USED"} => b \in earned

LifeInv ==
    /\ bundle = [b \in BundleIds |-> bundle[b]]
    /\ uses = [b \in BundleIds |-> uses[b]]
    /\ \A b \in BundleIds : LifeOK(b)

(* A row that is gone, and the row of a new bundle.                         *)
LEMMA RowColumns ==
    /\ Absent = [f \in Columns |-> Absent[f]] /\ Absent.status = "absent"
    /\ \A h : LET new == [habit |-> h, status |-> "LOCKED"]
             IN  new = [f \in Columns |-> new[f]] /\ new.status = "LOCKED"
<1> DEFINE h0 == CHOOSE h \in Habits : TRUE
<1>1. Absent = [habit |-> h0, status |-> "absent"]
  BY DEF Absent
<1> HIDE DEF h0
<1> QED
  BY <1>1 DEF Columns

(* A step that writes other bundles only.                                   *)
LEMMA LifeSame ==
    ASSUME NEW b \in BundleIds, LifeOK(b), bundle'[b] = bundle[b], uses'[b] = uses[b],
           b \in earned => b \in earned'
    PROVE  LifeOK(b)'
  BY DEF LifeOK

LEMMA ToggleLife ==
    ASSUME LifeInv, NEW h \in Habits, NEW d \in Days, NEW ask, Toggle(h, d, ask)
    PROVE  LifeInv'
<1> DEFINE after == Logged(log[h][d], ask)
           releases == log[h][d] \notin Kinds /\ after = "FULL"
<1>1. /\ bundle' = [b \in BundleIds |->
                      IF releases /\ Released(b, h)
                        THEN [bundle[b] EXCEPT !.status = "UNLOCKED"]
                        ELSE bundle[b]]
      /\ uses' = uses
      /\ earned' = IF log[h][d] # "FULL" /\ after = "FULL"
                     THEN earned \cup {b \in BundleIds :
                            bundle[b].status # "absent" /\ bundle[b].habit = h}
                     ELSE earned
  BY DEF Toggle
<1>2. releases => log[h][d] # "FULL" /\ after = "FULL"
  BY DEF Kinds
<1> HIDE DEF after, releases
<1>3. ASSUME NEW b \in BundleIds PROVE LifeOK(b)'
  <2>0. LifeOK(b) /\ (b \in earned => b \in earned')
    BY <1>1 DEF LifeInv
  <2>1. CASE releases /\ Released(b, h)
    <3>1. bundle[b].habit = h /\ bundle[b].status = "LOCKED"
      BY <2>1 DEF Released
    <3>2. b \in earned'
      BY <1>1, <1>2, <2>1, <3>1
    <3>3. bundle'[b] = [bundle[b] EXCEPT !.status = "UNLOCKED"] /\ uses'[b] = uses[b]
      BY <1>1, <2>1
    <3>4. bundle'[b] = [f \in Columns |-> bundle'[b][f]] /\ bundle'[b].status = "UNLOCKED"
      BY <2>0, <3>3 DEF LifeOK, Columns
    <3> QED
      BY <2>0, <3>1, <3>2, <3>3, <3>4 DEF LifeOK
  <2>2. CASE ~(releases /\ Released(b, h))
    <3>1. bundle'[b] = bundle[b] /\ uses'[b] = uses[b]
      BY <1>1, <2>2
    <3> QED
      BY <2>0, <3>1, LifeSame
  <2> QED
    BY <2>1, <2>2
<1> QED
  BY <1>1, <1>3 DEF LifeInv

LEMMA BundleWritesLife ==
    ASSUME LifeInv,
           \/ \E c \in Callers : CreateBundle(c) \/ EraseHabit(c)
           \/ \E b \in BundleIds : UseBundle(b) \/ RemoveBundle(b)
    PROVE  LifeInv'
<1>1. ASSUME NEW c \in Callers, CreateBundle(c) PROVE LifeInv'
  <2> DEFINE id == call[c].id
  <2>1. PICK h : \/ UNCHANGED <<bundle, earned, uses>>
                 \/ /\ bundle' = [bundle EXCEPT ![id] = [habit |-> h, status |-> "LOCKED"]]
                    /\ earned' = earned \ {id}
                    /\ uses' = [uses EXCEPT ![id] = 0]
    BY <1>1 DEF CreateBundle
  <2> HIDE DEF id
  <2>2. CASE UNCHANGED <<bundle, earned, uses>>
    BY <2>2 DEF LifeInv, LifeOK
  <2>3. CASE /\ bundle' = [bundle EXCEPT ![id] = [habit |-> h, status |-> "LOCKED"]]
             /\ earned' = earned \ {id}
             /\ uses' = [uses EXCEPT ![id] = 0]
    <3>1. ASSUME NEW b \in BundleIds PROVE LifeOK(b)'
      <4>1. CASE b = id
        <5>1. bundle'[b] = [habit |-> h, status |-> "LOCKED"] /\ uses'[b] = 0
          BY <2>3, <4>1 DEF LifeInv
        <5> QED
          BY <5>1, RowColumns DEF LifeOK
      <4>2. CASE b # id
        <5>1. bundle'[b] = bundle[b] /\ uses'[b] = uses[b] /\ (b \in earned => b \in earned')
          BY <2>3, <4>2 DEF LifeInv
        <5> QED
          BY <5>1, LifeSame DEF LifeInv
      <4> QED
        BY <4>1, <4>2
    <3> QED
      BY <2>3, <3>1 DEF LifeInv
  <2> QED
    BY <2>1, <2>2, <2>3
<1>2. ASSUME NEW c \in Callers, EraseHabit(c) PROVE LifeInv'
  <2>1. /\ bundle' = [b \in BundleIds |-> IF bundle[b].habit \in call[c].habits
                                           THEN Absent ELSE bundle[b]]
        /\ UNCHANGED <<earned, uses>>
    BY <1>2 DEF EraseHabit
  <2>2. ASSUME NEW b \in BundleIds PROVE LifeOK(b)'
    <3>1. bundle'[b] = Absent \/ bundle'[b] = bundle[b]
      BY <2>1
    <3> QED
      BY <2>1, <3>1, RowColumns DEF LifeInv, LifeOK
  <2> QED
    BY <2>1, <2>2 DEF LifeInv
<1>3. ASSUME NEW b \in BundleIds, UseBundle(b) PROVE LifeInv'
  <2>1. /\ bundle[b].status = "UNLOCKED" /\ earned' = earned
        /\ bundle' = [bundle EXCEPT ![b].status = "USED"]
        /\ uses' = [uses EXCEPT ![b] = @ + 1]
    BY <1>3 DEF UseBundle
  <2>2. ASSUME NEW o \in BundleIds PROVE LifeOK(o)'
    <3>1. CASE o = b
      <4>1. LifeOK(b) /\ uses[b] = 0 /\ b \in earned
        BY <2>1 DEF LifeInv, LifeOK
      <4>2. bundle'[b] = [bundle[b] EXCEPT !.status = "USED"] /\ uses'[b] = 0 + 1
        BY <2>1, <4>1 DEF LifeInv
      <4>3. bundle'[b] = [f \in Columns |-> bundle'[b][f]] /\ bundle'[b].status = "USED"
        BY <4>1, <4>2 DEF LifeOK, Columns
      <4> QED
        BY <2>1, <3>1, <4>1, <4>2, <4>3 DEF LifeOK
    <3>2. CASE o # b
      <4>1. bundle'[o] = bundle[o] /\ uses'[o] = uses[o]
        BY <2>1, <3>2 DEF LifeInv
      <4> QED
        BY <2>1, <4>1, LifeSame DEF LifeInv
    <3> QED
      BY <3>1, <3>2
  <2> QED
    BY <2>1, <2>2 DEF LifeInv
<1>4. ASSUME NEW b \in BundleIds, RemoveBundle(b) PROVE LifeInv'
  <2>1. bundle' = [bundle EXCEPT ![b] = Absent] /\ UNCHANGED <<earned, uses>>
    BY <1>4 DEF RemoveBundle
  <2>2. ASSUME NEW o \in BundleIds PROVE LifeOK(o)'
    <3>1. bundle'[o] = Absent \/ bundle'[o] = bundle[o]
      BY <2>1 DEF LifeInv
    <3> QED
      BY <2>1, <3>1, RowColumns DEF LifeInv, LifeOK
  <2> QED
    BY <2>1, <2>2 DEF LifeInv
<1> QED
  BY <1>1, <1>2, <1>3, <1>4

LEMMA LifeStep == LifeInv /\ [Next]_reviewVars => LifeInv'
<1> SUFFICES ASSUME LifeInv, [Next]_reviewVars PROVE LifeInv'
  OBVIOUS
<1>1. CASE UNCHANGED <<bundle, earned, uses>>
  BY <1>1 DEF LifeInv, LifeOK
<1>2. CASE UNCHANGED reviewVars
  BY <1>1, <1>2 DEF reviewVars, identityVars, rows
<1>3. CASE IdentityNext
  <2>1. ASSUME NEW h \in Habits, HabitStep(h) PROVE LifeInv'
    <3>1. CASE \E d \in Days, ask \in Kinds \cup {"plain", "PARTIAL"} : Toggle(h, d, ask)
      BY <3>1, ToggleLife
    <3>2. \/ \E d \in Days, ask \in Kinds \cup {"plain", "PARTIAL"} : Toggle(h, d, ask)
          \/ UNCHANGED <<bundle, earned, uses>>
      BY <2>1 DEF HabitStep, SetReminder, DeleteHabit, ExpireHabit, SyncLinks, rows
    <3> QED
      BY <1>1, <3>1, <3>2
  <2>2. ASSUME NEW b \in BundleIds, BundleStep(b) PROVE LifeInv'
    <3>1. UseBundle(b) \/ RemoveBundle(b) \/ UNCHANGED <<bundle, earned, uses>>
      BY <2>2 DEF BundleStep, ReadHabit, rows
    <3> QED
      BY <1>1, <3>1, BundleWritesLife
  <2>3. ASSUME NEW i \in IdentityIds, IdentityStep(i) PROVE LifeInv'
    <3>1. UNCHANGED <<bundle, earned, uses>>
      BY <2>3 DEF IdentityStep, CreateIdentity, SetStatus, LinkHabit, UnlinkHabit,
             DeleteIdentity, rows
    <3> QED
      BY <1>1, <3>1
  <2>4. ASSUME NEW c \in Callers,
               LookForEvidence(c) \/ EndDelete(c) \/ ArchiveHabit(c) \/ SilenceHabit(c)
        PROVE  LifeInv'
    <3>1. UNCHANGED <<bundle, earned, uses>>
      BY <2>4 DEF LookForEvidence, EndDelete, ArchiveHabit, SilenceHabit, rows
    <3> QED
      BY <1>1, <3>1
  <2> QED
    BY <1>3, <2>1, <2>2, <2>3, <2>4, BundleWritesLife DEF IdentityNext
<1>4. CASE Next /\ ~IdentityNext
  <2>1. UNCHANGED rows
    BY <1>4 DEF Next, EndWeek, SetPrefs, Crash, Get, Regenerate, Generates, ReadClock,
           FindStored, AnswerStored, DeleteRow, ReadReports, ReadIdentities, Ask, Persist,
           Fails, identityVars
  <2> QED
    BY <1>1, <2>1 DEF rows
<1> QED
  BY <1>2, <1>3, <1>4

(* A bundle is released only by a FULL completion of its habit in its       *)
(* lifetime and is used once: whatever is undone or logged again, it is not *)
(* released a second time (temptation-bundle.service.ts:15).                *)
THEOREM BundleLives == Spec => []BundleLife
<1>1. Init => LifeInv
  BY RowColumns DEF Init, IdentityInit, LifeInv, LifeOK
<1>2. LifeInv => BundleLife
  BY DEF LifeInv, LifeOK, BundleLife
<1> QED
  BY <1>1, <1>2, LifeStep, PTL DEF Spec
==============================================================================
