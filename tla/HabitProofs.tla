----------------------------- MODULE HabitProofs -----------------------------
(* What is proved of the two services that change a habit after it was made: *)
(* the proposals to redesign it and the stack it belongs to.                 *)
EXTENDS AdaptiveProposals, HabitStack, Sums

-----------------------------------------------------------------------------
(* The proposals of a habit, with any number of requests, proposals,         *)
(* fingerprints, days and crashes: when suggestions take turns there is one  *)
(* open proposal, and when the decisions about a proposal take turns what is *)
(* resolved stays resolved.                                                  *)

(* No suggestion is between what it finds open and what it creates while     *)
(* another one is.                                                           *)
Suggesting(q) == q.pc \in {"expire", "create"}
SuggestedInTurn ==
    \A r, s \in Requests : Suggesting(req[r]) /\ Suggesting(req[s]) => r = s

(* Nothing else decides about a proposal that is being accepted or rejected. *)
Answering(q) == q.pc \in {"apply", "accept", "reject"}
DecidedInTurn ==
    \A r, s \in Requests :
        Answering(req[r]) /\ (Answering(req[s]) \/ req[s].pc = "expire")
          /\ req[r].id = req[s].id => r = s

Columns == {"fp", "status", "outcome", "until", "early"}
Shaped(w) == w = [f \in Columns |-> w[f]]
Request(q) == q = [f \in {"pc", "fp", "id", "day", "early", "due"} |-> q[f]]

ShapeInv ==
    /\ Len(rows) \in Nat /\ rows = [i \in 1 .. Len(rows) |-> rows[i]]
    /\ \A i \in Ids : Shaped(rows[i])
    /\ req = [r \in Requests |-> req[r]]
    /\ \A r \in Requests : Request(req[r])

(* What a suggestion has found is still all there is.                        *)
OpenInv ==
    /\ \A i, j \in Open : i = j
    /\ \A r \in Requests :
          /\ req[r].pc = "create" => Open = {}
          /\ req[r].pc = "expire" => \A i \in Open : i = req[r].id

(* What is being answered is still open.                                     *)
AnswerInv == \A r \in Requests : Answering(req[r]) => req[r].id \in Open

(* What is resolved is not touched.                                          *)
Kept == \A i \in Ids : rows[i].status # "PENDING" => rows'[i].status = rows[i].status

(* All that a step does to the open proposals and to its request.            *)
Busy == {"expire", "create", "apply", "accept", "reject"}
Moves(r) == Open' = Open /\ req'[r].pc \notin Busy /\ Kept
Finds(r) ==
    /\ Open' = Open /\ Kept
    /\ \/ req'[r].pc = "create" /\ Open = {}
       \/ req'[r].pc = "expire" /\ Open # {} /\ req'[r].id = Max(Open)
Expires(r) ==
    /\ req[r].pc = "expire" /\ req'[r].pc = "create"
    /\ Open' = Open \ {req[r].id} /\ Kept
Creates(r) ==
    /\ req[r].pc = "create" /\ req'[r].pc \notin Busy
    /\ Open' = Open \cup {Len(rows) + 1} /\ Kept
Begins(r) ==
    /\ Open' = Open /\ Kept
    /\ \/ req'[r].pc \in {"apply", "reject"} /\ req'[r].id \in Open
       \/ req[r].pc = "apply" /\ req'[r].pc = "accept" /\ req'[r].id = req[r].id
Answers(r) ==
    /\ req[r].pc \in {"accept", "reject"} /\ req'[r].pc \notin Busy
    /\ Open' = Open \ {req[r].id}
    /\ req[r].id \in Open => Kept

Effect(r) == Moves(r) \/ Finds(r) \/ Expires(r) \/ Creates(r) \/ Begins(r) \/ Answers(r)
Others(r) == \A s \in Requests \ {r} : req'[s] = req[s]

(* A request before it begins.                                              *)
LEMMA IdleRequest == Idle.pc \notin Busy /\ Request(Idle)
  BY DEF Idle, Busy, Request

(* A request moves on while no row changes.                                 *)
LEMMA Moved ==
    ASSUME ShapeInv, NEW r \in Requests, NEW q, Request(q), Step(r, q), rows' = rows
    PROVE  ShapeInv' /\ Others(r) /\ req'[r] = q /\ Open' = Open /\ Kept
<1>1. /\ req' = [s \in Requests |-> req'[s]] /\ req'[r] = q
      /\ \A s \in Requests \ {r} : req'[s] = req[s]
  BY DEF Step, ShapeInv
<1>2. Ids' = Ids /\ Open' = Open
  BY DEF Ids, Open, Having
<1> QED
  BY <1>1, <1>2 DEF ShapeInv, Kept, Others

(* A proposal is resolved, and nothing else of it or others changes.        *)
LEMMA Resolved ==
    ASSUME ShapeInv, NEW r \in Requests, NEW q, Request(q), Step(r, q),
           NEW i, NEW w, i \in Ids => Shaped(w), w.status # "PENDING",
           rows' = [rows EXCEPT ![i] = w]
    PROVE  /\ ShapeInv' /\ Others(r) /\ req'[r] = q /\ Open' = Open \ {i}
           /\ i \in Open => Kept
<1>1. /\ req' = [s \in Requests |-> req'[s]] /\ req'[r] = q
      /\ \A s \in Requests \ {r} : req'[s] = req[s]
  BY DEF Step, ShapeInv
<1>2. Ids = 1 .. Len(rows) /\ Len(rows) \in Nat
  BY DEF Ids, ShapeInv
<1>3. /\ Ids' = Ids /\ Len(rows') = Len(rows)
      /\ \A j \in Ids : rows'[j] = IF j = i THEN w ELSE rows[j]
  BY <1>2 DEF Ids, ShapeInv
<1>4. Open' = Open \ {i}
  BY <1>3 DEF Open, Having
<1>5. rows' = [j \in 1 .. Len(rows) |-> rows'[j]]
  BY <1>2, <1>3 DEF ShapeInv, Ids
<1>6. \A j \in Ids : Shaped(rows'[j])
  BY <1>3 DEF ShapeInv
<1>7. i \in Open => Kept
  BY <1>3 DEF Kept, Open, Having
<1> QED
  BY <1>1, <1>2, <1>3, <1>4, <1>5, <1>6, <1>7 DEF ShapeInv, Others

(* getSuggestion: the open proposal is looked for, expired, recorded.       *)
LEMMA SuggestDoes ==
    ASSUME ShapeInv, NEW r \in Requests,
           Suggest(r) \/ FindOpen(r) \/ Expire(r) \/ Generated(r)
    PROVE  ShapeInv' /\ Others(r) /\ Effect(r)
<1> DEFINE q == req[r]
<1>0. Request(q)
  BY DEF ShapeInv
<1>1. CASE Suggest(r)
  <2> DEFINE w == [Idle EXCEPT !.pc = "find", !.fp = evidence]
  <2>1. Step(r, w) /\ rows' = rows
    BY <1>1 DEF Suggest
  <2>2. Request(w) /\ w.pc = "find"
    BY DEF Idle, Request
  <2> HIDE DEF w
  <2>3. ShapeInv' /\ Others(r) /\ req'[r] = w /\ Open' = Open /\ Kept
    BY <2>1, <2>2, Moved
  <2> QED
    BY <2>2, <2>3 DEF Effect, Moves, Busy
<1>2. CASE FindOpen(r)
  <2>1. CASE Open = {}
    <3> DEFINE w == [q EXCEPT !.pc = "create"]
    <3>1. Step(r, w) /\ rows' = rows
      BY <1>2, <2>1 DEF FindOpen, Go
    <3>2. Request(w) /\ w.pc = "create"
      BY <1>0 DEF Request
    <3> HIDE DEF w
    <3>3. ShapeInv' /\ Others(r) /\ req'[r] = w /\ Open' = Open /\ Kept
      BY <3>1, <3>2, Moved
    <3> QED
      BY <2>1, <3>2, <3>3 DEF Effect, Finds
  <2>2. CASE Open # {}
    <3> DEFINE top == Max(Open)
               w == [q EXCEPT !.pc = "expire", !.id = top]
    <3>1. rows' = rows /\ (Step(r, Idle) \/ Step(r, w))
      BY <1>2, <2>2 DEF FindOpen, Done
    <3> HIDE DEF top
    <3>2. Request(w) /\ w.pc = "expire" /\ w.id = top
      BY <1>0 DEF Request
    <3> HIDE DEF w
    <3>3. CASE Step(r, Idle)
      <4>1. ShapeInv' /\ Others(r) /\ req'[r] = Idle /\ Open' = Open /\ Kept
        BY <3>1, <3>3, IdleRequest, Moved
      <4> QED
        BY <4>1, IdleRequest DEF Effect, Moves
    <3>4. CASE Step(r, w)
      <4>1. ShapeInv' /\ Others(r) /\ req'[r] = w /\ Open' = Open /\ Kept
        BY <3>1, <3>2, <3>4, Moved
      <4> QED
        BY <2>2, <3>2, <4>1 DEF Effect, Finds, top
    <3> QED
      BY <3>1, <3>3, <3>4
  <2> QED
    BY <2>1, <2>2
<1>3. CASE Expire(r)
  <2> DEFINE n == [q EXCEPT !.pc = "create"]
             w == [rows[q.id] EXCEPT !.status = "EXPIRED"]
  <2>1. Request(n) /\ n.pc = "create" /\ q.pc = "expire"
    BY <1>0, <1>3 DEF Request, Expire
  <2>2. CASE rows[q.id].status # "PENDING"
    <3>1. Step(r, n) /\ rows' = rows
      BY <1>3, <2>2 DEF Expire, Go
    <3> HIDE DEF n
    <3>2. ShapeInv' /\ Others(r) /\ req'[r] = n /\ Open' = Open /\ Kept
      BY <2>1, <3>1, Moved
    <3>3. q.id \notin Open
      BY <2>2 DEF Open, Having
    <3> QED
      BY <2>1, <3>2, <3>3 DEF Effect, Expires
  <2>3. CASE rows[q.id].status = "PENDING" /\ Taken(rows[q.id].fp, "EXPIRED", q.id)
    <3>1. Step(r, Idle) /\ rows' = rows
      BY <1>3, <2>3 DEF Expire, Done
    <3>2. ShapeInv' /\ Others(r) /\ req'[r] = Idle /\ Open' = Open /\ Kept
      BY <3>1, IdleRequest, Moved
    <3> QED
      BY <3>2, IdleRequest DEF Effect, Moves
  <2>4. CASE rows[q.id].status = "PENDING" /\ ~Taken(rows[q.id].fp, "EXPIRED", q.id)
    <3>1. Step(r, n) /\ rows' = [rows EXCEPT ![q.id].status = "EXPIRED"]
      BY <1>3, <2>4 DEF Expire, Go
    <3>2. CASE q.id \in Ids
      <4>1. Shaped(rows[q.id])
        BY <3>2 DEF ShapeInv
      <4>2. Shaped(w) /\ w.status = "EXPIRED"
        BY <4>1 DEF Shaped, Columns
      <4>3. rows' = [rows EXCEPT ![q.id] = w]
        BY <3>1
      <4>4. q.id \in Open
        BY <2>4, <3>2 DEF Open, Having
      <4> HIDE DEF w, n
      <4>5. /\ ShapeInv' /\ Others(r) /\ req'[r] = n /\ Open' = Open \ {q.id}
            /\ q.id \in Open => Kept
        BY <2>1, <3>1, <4>2, <4>3, Resolved
      <4> QED
        BY <2>1, <4>4, <4>5 DEF Effect, Expires
    <3>3. CASE q.id \notin Ids
      <4>1. rows' = rows /\ q.id \notin Open
        BY <3>1, <3>3 DEF ShapeInv, Ids, Open, Having
      <4> HIDE DEF n
      <4>2. ShapeInv' /\ Others(r) /\ req'[r] = n /\ Open' = Open /\ Kept
        BY <2>1, <3>1, <4>1, Moved
      <4> QED
        BY <2>1, <4>1, <4>2 DEF Effect, Expires
    <3> QED
      BY <3>2, <3>3
  <2> QED
    BY <2>2, <2>3, <2>4
<1>4. CASE Generated(r)
  <2>1. ShapeInv' /\ Others(r) /\ req'[r] = Idle /\ Open' = Open /\ Kept
    BY <1>4, IdleRequest, Moved DEF Generated, Done
  <2> QED
    BY <2>1, IdleRequest DEF Effect, Moves
<1> QED
  BY <1>1, <1>2, <1>3, <1>4

(* The new row is open.                                                     *)
LEMMA CreateDoes ==
    ASSUME ShapeInv, NEW r \in Requests, Create(r)
    PROVE  ShapeInv' /\ Others(r) /\ Effect(r)
<1> DEFINE q == req[r]
           n == Len(rows) + 1
           w == [q EXCEPT !.pc = "generated", !.id = n]
<1>0. Request(q) /\ Len(rows) \in Nat /\ q.pc = "create"
  BY DEF ShapeInv, Create
<1>1. CASE Taken(q.fp, "PENDING", 0)
  <2>1. Step(r, Idle) /\ rows' = rows
    BY <1>1 DEF Create, Done
  <2>2. ShapeInv' /\ Others(r) /\ req'[r] = Idle /\ Open' = Open /\ Kept
    BY <2>1, IdleRequest, Moved
  <2> QED
    BY <2>2, IdleRequest DEF Effect, Moves
<1>2. CASE ~Taken(q.fp, "PENDING", 0)
  <2>1. Step(r, w) /\ rows' = Append(rows, New(q.fp))
    BY <1>2 DEF Create
  <2>2. Request(w) /\ w.pc = "generated"
    BY <1>0 DEF Request
  <2>3. rows \in Seq({rows[i] : i \in Ids})
    BY <1>0 DEF ShapeInv, Ids
  <2>4. /\ Len(rows') = n /\ rows' = [i \in 1 .. n |-> rows'[i]]
        /\ \A i \in Ids : rows'[i] = rows[i]
        /\ rows'[n] = New(q.fp)
        /\ Ids' = Ids \cup {n} /\ Ids = 1 .. Len(rows)
    BY <1>0, <2>1, <2>3 DEF Ids
  <2>5. Shaped(New(q.fp)) /\ New(q.fp).status = "PENDING"
    BY DEF New, Shaped, Columns
  <2>6. Open' = Open \cup {n}
    BY <1>0, <2>4, <2>5 DEF Open, Having
  <2> HIDE DEF w
  <2>7. /\ req' = [s \in Requests |-> req'[s]] /\ req'[r] = w
        /\ \A s \in Requests \ {r} : req'[s] = req[s]
    BY <2>1 DEF Step, ShapeInv
  <2>8. Kept
    BY <2>4 DEF Kept
  <2>9. ShapeInv'
    BY <1>0, <2>2, <2>4, <2>5, <2>7 DEF ShapeInv
  <2> QED
    BY <1>0, <2>2, <2>6, <2>7, <2>8, <2>9 DEF Others, Effect, Creates, Busy
<1> QED
  BY <1>1, <1>2

(* acceptProposal and rejectProposal: read while open, written by id.       *)
LEMMA AnswerDoes ==
    ASSUME ShapeInv, NEW r \in Requests,
           \/ \E i \in Ids : StartAccept(r, i) \/ StartReject(r, i)
           \/ Apply(r) \/ MarkAccepted(r) \/ MarkRejected(r) \/ Rejected(r)
    PROVE  ShapeInv' /\ Others(r) /\ Effect(r)
<1> DEFINE q == req[r]
<1>0. Request(q)
  BY DEF ShapeInv
<1>1. ASSUME NEW i \in Ids, StartAccept(r, i) \/ StartReject(r, i)
      PROVE  ShapeInv' /\ Others(r) /\ Effect(r)
  <2> DEFINE early == i \notin applied
             a == [Idle EXCEPT !.pc = "apply", !.id = i, !.day = today, !.early = early]
             b == [Idle EXCEPT !.pc = "reject", !.id = i]
  <2>1. rows' = rows /\ i \in Open /\ (Step(r, a) \/ Step(r, b))
    BY <1>1 DEF StartAccept, StartReject
  <2> HIDE DEF early
  <2>2. /\ Request(a) /\ a.pc = "apply" /\ a.id = i
        /\ Request(b) /\ b.pc = "reject" /\ b.id = i
    BY DEF Idle, Request
  <2> HIDE DEF a, b
  <2>3. PICK w \in {a, b} : Step(r, w)
    BY <2>1
  <2>4. Request(w) /\ w.pc \in {"apply", "reject"} /\ w.id = i
    BY <2>2
  <2>5. ShapeInv' /\ Others(r) /\ req'[r] = w /\ Open' = Open /\ Kept
    BY <2>1, <2>3, <2>4, Moved
  <2> QED
    BY <2>1, <2>4, <2>5 DEF Effect, Begins
<1>2. CASE Apply(r)
  <2> DEFINE w == [q EXCEPT !.pc = "accept"]
  <2>1. Step(r, w) /\ rows' = rows /\ q.pc = "apply"
    BY <1>2 DEF Apply, Go
  <2>2. Request(w) /\ w.pc = "accept" /\ w.id = q.id
    BY <1>0 DEF Request
  <2> HIDE DEF w
  <2>3. ShapeInv' /\ Others(r) /\ req'[r] = w /\ Open' = Open /\ Kept
    BY <2>1, <2>2, Moved
  <2> QED
    BY <2>1, <2>2, <2>3 DEF Effect, Begins
<1>3. CASE MarkAccepted(r)
  <2> DEFINE w == Accepted(rows[q.id], q)
  <2>0. q.pc = "accept" /\ Step(r, Idle)
    BY <1>3 DEF MarkAccepted, Done
  <2>1. CASE rows' = rows
    <3>1. ShapeInv' /\ Others(r) /\ req'[r] = Idle /\ Open' = Open /\ Kept
      BY <2>0, <2>1, IdleRequest, Moved
    <3> QED
      BY <3>1, IdleRequest DEF Effect, Moves
  <2>2. CASE rows' # rows
    <3>1. rows' = [rows EXCEPT ![q.id] = w]
      BY <1>3, <2>2 DEF MarkAccepted
    <3>2. q.id \in Ids
      BY <2>2, <3>1 DEF ShapeInv, Ids
    <3>3. Shaped(rows[q.id])
      BY <3>2 DEF ShapeInv
    <3>4. Shaped(w) /\ w.status = "ACCEPTED"
      BY <3>3 DEF Accepted, Shaped, Columns
    <3> HIDE DEF w
    <3>5. /\ ShapeInv' /\ Others(r) /\ req'[r] = Idle /\ Open' = Open \ {q.id}
          /\ q.id \in Open => Kept
      BY <2>0, <3>1, <3>4, IdleRequest, Resolved
    <3> QED
      BY <2>0, <3>5, IdleRequest DEF Effect, Answers
  <2> QED
    BY <2>1, <2>2
<1>4. CASE MarkRejected(r)
  <2> DEFINE n == [q EXCEPT !.pc = "rejected"]
             w == [rows[q.id] EXCEPT !.status = "REJECTED"]
  <2>0. q.pc = "reject" /\ Request(n) /\ n.pc = "rejected"
    BY <1>0, <1>4 DEF MarkRejected, Request
  <2>1. CASE Taken(rows[q.id].fp, "REJECTED", q.id)
    <3>1. Step(r, Idle) /\ rows' = rows
      BY <1>4, <2>1 DEF MarkRejected, Done
    <3>2. ShapeInv' /\ Others(r) /\ req'[r] = Idle /\ Open' = Open /\ Kept
      BY <3>1, IdleRequest, Moved
    <3> QED
      BY <3>2, IdleRequest DEF Effect, Moves
  <2>2. CASE ~Taken(rows[q.id].fp, "REJECTED", q.id)
    <3>1. Step(r, n) /\ rows' = [rows EXCEPT ![q.id].status = "REJECTED"]
      BY <1>4, <2>2 DEF MarkRejected, Go
    <3>2. CASE q.id \in Ids
      <4>1. Shaped(rows[q.id])
        BY <3>2 DEF ShapeInv
      <4>2. Shaped(w) /\ w.status = "REJECTED"
        BY <4>1 DEF Shaped, Columns
      <4>3. rows' = [rows EXCEPT ![q.id] = w]
        BY <3>1
      <4> HIDE DEF w, n
      <4>4. /\ ShapeInv' /\ Others(r) /\ req'[r] = n /\ Open' = Open \ {q.id}
            /\ q.id \in Open => Kept
        BY <2>0, <3>1, <4>2, <4>3, Resolved
      <4> QED
        BY <2>0, <4>4 DEF Effect, Answers, Busy
    <3>3. CASE q.id \notin Ids
      <4>1. rows' = rows
        BY <3>1, <3>3 DEF ShapeInv, Ids
      <4> HIDE DEF n
      <4>2. ShapeInv' /\ Others(r) /\ req'[r] = n /\ Open' = Open /\ Kept
        BY <2>0, <3>1, <4>1, Moved
      <4> QED
        BY <2>0, <4>2 DEF Effect, Moves, Busy
    <3> QED
      BY <3>2, <3>3
  <2> QED
    BY <2>1, <2>2
<1>5. CASE Rejected(r)
  <2>1. ShapeInv' /\ Others(r) /\ req'[r] = Idle /\ Open' = Open /\ Kept
    BY <1>5, IdleRequest, Moved DEF Rejected, Done
  <2> QED
    BY <2>1, IdleRequest DEF Effect, Moves
<1> QED
  BY <1>1, <1>2, <1>3, <1>4, <1>5

(* Outcomes are looked up and written; the process dies.                    *)
LEMMA LookupDoes ==
    ASSUME ShapeInv, NEW r \in Requests, Lookup(r) \/ Measure(r) \/ Crash(r)
    PROVE  ShapeInv' /\ Others(r) /\ Effect(r)
<1>1. CASE Lookup(r)
  <2> DEFINE due == {i \in Ids : Due(i)}
             w == [Idle EXCEPT !.pc = "measure", !.day = today, !.due = due]
  <2>1. Step(r, w) /\ rows' = rows
    BY <1>1 DEF Lookup
  <2> HIDE DEF due
  <2>2. Request(w) /\ w.pc = "measure"
    BY DEF Idle, Request
  <2> HIDE DEF w
  <2>3. ShapeInv' /\ Others(r) /\ req'[r] = w /\ Open' = Open /\ Kept
    BY <2>1, <2>2, Moved
  <2> QED
    BY <2>2, <2>3 DEF Effect, Moves, Busy
<1>2. CASE Measure(r)
  <2>1. /\ req' = [s \in Requests |-> req'[s]] /\ req'[r] = Idle
        /\ \A s \in Requests \ {r} : req'[s] = req[s]
    BY <1>2 DEF Measure, Done, Step, ShapeInv
  <2>2. Ids = 1 .. Len(rows) /\ Len(rows) \in Nat
    BY DEF Ids, ShapeInv
  <2>3. rows' = [i \in Ids |-> rows'[i]]
    BY <1>2 DEF Measure
  <2>4. Ids' = Ids /\ Len(rows') = Len(rows)
    BY <2>2, <2>3 DEF Ids
  <2>5. \A i \in Ids : Shaped(rows'[i]) /\ rows'[i].status = rows[i].status
    <3> TAKE i \in Ids
    <3>1. Shaped(rows[i])
      BY DEF ShapeInv
    <3>2. rows'[i] = rows[i] \/ rows'[i] = [rows[i] EXCEPT !.outcome = "MEASURED"]
      BY <1>2 DEF Measure
    <3> QED
      BY <3>1, <3>2 DEF Shaped, Columns
  <2>6. Open' = Open /\ Kept
    BY <2>4, <2>5 DEF Open, Having, Kept
  <2>7. ShapeInv'
    BY <2>1, <2>2, <2>3, <2>4, <2>5, IdleRequest DEF ShapeInv
  <2> QED
    BY <2>1, <2>6, <2>7, IdleRequest DEF Others, Effect, Moves
<1>3. CASE Crash(r)
  <2>1. ShapeInv' /\ Others(r) /\ req'[r] = Idle /\ Open' = Open /\ Kept
    BY <1>3, IdleRequest, Moved DEF Crash, Done
  <2> QED
    BY <2>1, IdleRequest DEF Effect, Moves
<1> QED
  BY <1>1, <1>2, <1>3

(* Every step is the effect of one request, or of none.                     *)
LEMMA EveryStep ==
    ASSUME ShapeInv, [Next]_vars
    PROVE  /\ ShapeInv'
           /\ \/ req' = req /\ Open' = Open /\ Kept
              \/ \E r \in Requests : Others(r) /\ Effect(r)
<1>1. CASE Evidence \/ NextDay \/ UNCHANGED vars
  <2>1. req' = req /\ rows' = rows
    BY <1>1 DEF Evidence, NextDay, vars
  <2> QED
    BY <2>1 DEF ShapeInv, Kept, Open, Having, Ids
<1>2. ASSUME NEW r \in Requests,
             \/ Suggest(r) \/ FindOpen(r) \/ Expire(r) \/ Create(r) \/ Generated(r)
             \/ \E i \in Ids : StartAccept(r, i) \/ StartReject(r, i)
             \/ Apply(r) \/ MarkAccepted(r) \/ MarkRejected(r) \/ Rejected(r)
             \/ Lookup(r) \/ Measure(r) \/ Crash(r)
      PROVE  ShapeInv' /\ Others(r) /\ Effect(r)
  BY <1>2, SuggestDoes, CreateDoes, AnswerDoes, LookupDoes
<1> QED
  BY <1>1, <1>2 DEF Next

(* Suggestions that take turns find and leave at most one open proposal.    *)
LEMMA OpenStep ==
    ASSUME ShapeInv, OpenInv, SuggestedInTurn, [Next]_vars
    PROVE  OpenInv'
<1>1. CASE req' = req /\ Open' = Open
  BY <1>1 DEF OpenInv
<1>2. ASSUME NEW r \in Requests, Others(r), Effect(r)
      PROVE  OpenInv'
  <2>1. CASE Moves(r) \/ Begins(r)
    BY <1>2, <2>1 DEF Moves, Begins, Busy, Others, OpenInv
  <2>2. CASE Finds(r)
    <3>1. ASSUME Open # {}
          PROVE  \A i \in Open : i = Max(Open)
      <4>1. PICK i \in Open : Open = {i}
        BY <3>1 DEF OpenInv
      <4>2. i \in Nat
        BY DEF Open, Having, Ids, ShapeInv
      <4>3. Max(Open) = i
        BY <4>1, <4>2 DEF Max
      <4> QED
        BY <4>1, <4>3
    <3> QED
      BY <1>2, <2>2, <3>1 DEF Finds, Others, OpenInv
  <2>3. CASE Expires(r)
    <3>1. Open' = {}
      BY <2>3 DEF Expires, OpenInv
    <3> QED
      BY <3>1 DEF OpenInv
  <2>4. CASE Creates(r)
    <3>1. Open' = {Len(rows) + 1}
      BY <2>4 DEF Creates, OpenInv
    <3>2. \A s \in Requests : ~Suggesting(req'[s])
      BY <1>2, <2>4 DEF Creates, Others, SuggestedInTurn, Suggesting, Busy
    <3> QED
      BY <3>1, <3>2 DEF OpenInv, Suggesting
  <2>5. CASE Answers(r)
    BY <1>2, <2>5 DEF Answers, Busy, Others, OpenInv
  <2> QED
    BY <1>2, <2>1, <2>2, <2>3, <2>4, <2>5 DEF Effect
<1> QED
  BY <1>1, <1>2, EveryStep

(* Decisions that take turns find the proposal as they read it.             *)
LEMMA AnswerStep ==
    ASSUME ShapeInv, AnswerInv, DecidedInTurn, [Next]_vars
    PROVE  AnswerInv' /\ Kept
<1>1. CASE req' = req /\ Open' = Open /\ Kept
  BY <1>1 DEF AnswerInv
<1>2. ASSUME NEW r \in Requests, Others(r), Effect(r)
      PROVE  AnswerInv' /\ Kept
  <2>1. CASE Moves(r) \/ Finds(r) \/ Creates(r)
    BY <1>2, <2>1 DEF Moves, Finds, Creates, Busy, Others, AnswerInv, Answering
  <2>2. CASE Begins(r)
    BY <1>2, <2>2 DEF Begins, Others, AnswerInv, Answering
  <2>3. CASE Expires(r)
    <3>1. \A s \in Requests \ {r} : Answering(req[s]) => req[s].id # req[r].id
      BY <2>3 DEF Expires, DecidedInTurn
    <3> QED
      BY <1>2, <2>3, <3>1 DEF Expires, Others, AnswerInv, Answering
  <2>4. CASE Answers(r)
    <3>1. \A s \in Requests \ {r} : Answering(req[s]) => req[s].id # req[r].id
      BY <2>4 DEF Answers, DecidedInTurn, Answering
    <3>2. req[r].id \in Open
      BY <2>4 DEF Answers, AnswerInv, Answering
    <3> QED
      BY <1>2, <2>4, <3>1, <3>2 DEF Answers, Others, AnswerInv, Answering, Busy
  <2> QED
    BY <1>2, <2>1, <2>2, <2>3, <2>4 DEF Effect
<1> QED
  BY <1>1, <1>2, EveryStep

(* There are no proposals at first.                                         *)
LEMMA ProposalStart == Init => ShapeInv /\ OpenInv /\ AnswerInv
  BY IdleRequest DEF Init, ShapeInv, OpenInv, AnswerInv, Answering, Busy, Ids, Open, Having

(* While suggestions take turns a habit never has two open proposals,       *)
(* whatever the evidence does, whatever is accepted and rejected in between *)
(* and wherever the process dies (adaptive.service.ts:118).                 *)
THEOREM OneOpenProposal == Spec /\ []SuggestedInTurn => []OneOpen
<1>1. ShapeInv /\ OpenInv => OneOpen
  <2> SUFFICES ASSUME OpenInv PROVE Cardinality(Open) <= 1
    BY DEF OneOpen
  <2>1. Open = {} \/ \E i : Open = {i}
    BY DEF OpenInv
  <2>2. Cardinality(Open) = 0 \/ Cardinality(Open) = 1
    BY <2>1, FS_EmptySet, FS_Singleton
  <2> QED
    BY <2>2
<1>2. ShapeInv /\ OpenInv /\ SuggestedInTurn /\ [Next]_vars => ShapeInv' /\ OpenInv'
  BY EveryStep, OpenStep
<1> QED
  BY <1>1, <1>2, ProposalStart, PTL DEF Spec

(* While nothing else decides about a proposal that is being answered, an   *)
(* accepted, rejected or expired one stays so, however many requests work   *)
(* at a time and wherever the process dies (behavioral-event.service.ts:315).*)
THEOREM ResolvedForGood == Spec /\ []DecidedInTurn => ResolvedOnce
<1>1. ShapeInv /\ AnswerInv /\ DecidedInTurn /\ [Next]_vars => ShapeInv' /\ AnswerInv'
  BY EveryStep, AnswerStep
<1>2. ShapeInv /\ AnswerInv /\ DecidedInTurn /\ [Next]_vars =>
        [\A i \in Ids : rows[i].status # "PENDING"
                          => rows'[i].status = rows[i].status]_vars
  BY AnswerStep DEF Kept
<1> QED
  BY <1>1, <1>2, ProposalStart, PTL DEF Spec, ResolvedOnce

-----------------------------------------------------------------------------
(* No cycle is ever stacked, for every number of habits, every depth of the *)
(* walk and chains of every length, while the checks of two updates do not  *)
(* overlap; and the bounded walk overlooks no cycle an edge would close.    *)

(* The walk of wouldCreateStackCycle, one step and all of it.               *)
Ahead(edges, habit, d, reached) ==
    {x \in Habits : d = 0 \/ x = habit \/ (edges[x] \notin {NoHabit, x}
                                             /\ edges[x] \in reached)}
Walks(edges, habit, g) ==
    g = [d \in 0 .. MaxDepth |-> Ahead(edges, habit, d, g[d - 1])]

LEMMA WalkIs ==
    ASSUME NEW edges, NEW habit, NEW parent
    PROVE  WouldCreateStackCycle(edges, habit, parent)
             = (habit = parent \/ parent \in (CHOOSE g : Walks(edges, habit, g))[MaxDepth])
  BY DEF WouldCreateStackCycle, Walks, Ahead

(* The recursion defines a function: it does up to every number of steps,   *)
(* or there were a smallest one up to which it does not.                    *)
LEMMA WalkExists ==
    ASSUME NEW edges, NEW habit
    PROVE  \E g : Walks(edges, habit, g)
<1> DEFINE UpTo(n, g) == \A d \in 0 .. n : g[d] = Ahead(edges, habit, d, g[d - 1])
           Funs == [Nat -> SUBSET Habits]
           Bad == {n \in Nat : ~\E g \in Funs : UpTo(n, g)}
<1>1. Bad = {}
  <2>1. SUFFICES ASSUME Bad # {} PROVE FALSE
    OBVIOUS
  <2>2. Bad \subseteq Nat
    OBVIOUS
  <2> HIDE DEF Bad
  <2>3. PICK n \in Bad : \A m \in Bad : n <= m
    BY <2>1, <2>2, Least
  <2>7. n \in Nat /\ \A m \in Nat : m < n => m \notin Bad
    BY <2>2, <2>3
  <2> USE DEF Bad
  <2>4. n \in Nat /\ ~\E g \in Funs : UpTo(n, g)
    OBVIOUS
  <2>5. CASE n = 0
    <3> DEFINE g == [d \in Nat |-> Habits]
    <3>1. g \in Funs /\ UpTo(n, g)
      BY <2>5 DEF Ahead
    <3> QED
      BY <2>4, <3>1
  <2>6. CASE n # 0
    <3> HIDE DEF Bad
    <3>1. n - 1 \in Nat /\ n - 1 \notin Bad
      BY <2>6, <2>7
    <3> USE DEF Bad
    <3>2. PICK g \in Funs : UpTo(n - 1, g)
      BY <3>1
    <3> DEFINE h == [g EXCEPT ![n] = Ahead(edges, habit, n, g[n - 1])]
    <3>3. h \in Funs
      BY <2>4 DEF Ahead
    <3>4. ASSUME NEW d \in 0 .. n PROVE h[d] = Ahead(edges, habit, d, h[d - 1])
      <4>1. CASE d = n
        <5>1. h[n] = Ahead(edges, habit, n, g[n - 1]) /\ h[n - 1] = g[n - 1]
          BY <2>4, <3>1
        <5> QED
          BY <4>1, <5>1
      <4>2. CASE d # n /\ d # 0
        <5>1. d \in 0 .. n - 1 /\ d - 1 \in Nat /\ d - 1 # n
          BY <2>4, <4>2
        <5>2. h[d] = g[d] /\ h[d - 1] = g[d - 1]
          BY <2>4, <4>2, <5>1
        <5> QED
          BY <3>2, <5>1, <5>2
      <4>3. CASE d # n /\ d = 0
        <5>1. h[d] = g[d] /\ d \in 0 .. n - 1
          BY <2>4, <2>6, <4>3
        <5>2. \A reached : Ahead(edges, habit, 0, reached) = Habits
          BY DEF Ahead
        <5> QED
          BY <3>2, <4>3, <5>1, <5>2
      <4> QED
        BY <4>1, <4>2, <4>3
    <3> QED
      BY <2>4, <3>3, <3>4
  <2> QED
    BY <2>5, <2>6
<1>2. MaxDepth \in Nat
  BY StackAssumption
<1>3. PICK g \in Funs : UpTo(MaxDepth, g)
  BY <1>1, <1>2
<1> DEFINE h == [d \in 0 .. MaxDepth |-> g[d]]
<1>4. ASSUME NEW d \in 0 .. MaxDepth
      PROVE  g[d] = Ahead(edges, habit, d, h[d - 1])
  <2>1. CASE d = 0
    BY <1>3, <2>1 DEF Ahead
  <2>2. CASE d # 0
    <3>1. d - 1 \in 0 .. MaxDepth
      BY <1>2, <2>2
    <3> QED
      BY <1>3, <3>1
  <2> QED
    BY <2>1, <2>2
<1>5. h = [d \in 0 .. MaxDepth |-> Ahead(edges, habit, d, h[d - 1])]
  BY <1>4
<1> HIDE DEF h
<1> QED
  BY <1>5 DEF Walks

-----------------------------------------------------------------------------
(* A loop is a set of habits whose cues are all inside.                     *)
Loop(edges, S) == S \subseteq Habits /\ S # {} /\ \A x \in S : edges[x] \in S

LEMMA AcyclicIs ==
    ASSUME NEW edges
    PROVE  /\ Acyclic(edges) => \A S : ~Loop(edges, S)
           /\ (\A S : ~Loop(edges, S)) => Acyclic(edges)
<1>1. ASSUME Acyclic(edges), NEW S, Loop(edges, S) PROVE FALSE
  <2>1. S \in (SUBSET Habits) \ {{}}
    BY <1>1 DEF Loop
  <2>2. PICK h \in S : edges[h] \notin S
    BY <1>1, <2>1 DEF Acyclic
  <2> QED
    BY <1>1, <2>2 DEF Loop
<1>2. ASSUME \A S : ~Loop(edges, S) PROVE Acyclic(edges)
  <2>1. ASSUME NEW S \in (SUBSET Habits) \ {{}} PROVE \E h \in S : edges[h] \notin S
    BY <1>2 DEF Loop
  <2> QED
    BY <2>1 DEF Acyclic
<1> QED
  BY <1>1, <1>2

(* A walk from inside a loop that the new edge closes never gets out: it    *)
(* meets the habit or runs out of depth.                                    *)
LEMMA LoopIsWalked ==
    ASSUME NEW edges, NEW habit, NEW S, NEW g, Walks(edges, habit, g),
           S \subseteq Habits, Acyclic(edges), NoHabit \notin Habits,
           \A x \in S : x # habit => edges[x] \in S
    PROVE  S \subseteq g[MaxDepth]
<1>0. MaxDepth \in Nat
  BY StackAssumption
<1> DEFINE Bad == {n \in 0 .. MaxDepth : ~(S \subseteq g[n])}
<1>1. Bad \subseteq Nat
  OBVIOUS
<1>2. ASSUME Bad # {} PROVE FALSE
  <2> HIDE DEF Bad
  <2>1. PICK n \in Bad : \A m \in Bad : n <= m
    BY <1>1, <1>2, Least
  <2>2. n \in Nat /\ \A m \in Nat : m < n => m \notin Bad
    BY <1>1, <2>1
  <2> USE DEF Bad
  <2>3. n \in 0 .. MaxDepth /\ g[n] = Ahead(edges, habit, n, g[n - 1])
    BY DEF Walks
  <2>4. PICK x \in S : x \notin g[n]
    OBVIOUS
  <2>5. x \in Habits /\ n # 0 /\ x # habit
    BY <2>3, <2>4 DEF Ahead
  <2>6. edges[x] \in S /\ edges[x] # NoHabit
    BY <2>4, <2>5
  <2>7. edges[x] # x
    <3>1. ASSUME edges[x] = x PROVE FALSE
      <4>1. Loop(edges, {x})
        BY <2>5, <3>1 DEF Loop
      <4> QED
        BY <4>1, AcyclicIs
    <3> QED
      BY <3>1
  <2>8. n - 1 \in 0 .. MaxDepth /\ n - 1 \notin Bad
    <3> HIDE DEF Bad
    <3> QED
      BY <1>0, <2>2, <2>3, <2>5
  <2>9. edges[x] \in g[n - 1]
    BY <2>6, <2>8
  <2> QED
    BY <2>3, <2>4, <2>5, <2>6, <2>7, <2>9 DEF Ahead
<1>3. MaxDepth \in 0 .. MaxDepth /\ MaxDepth \notin Bad
  BY <1>0, <1>2
<1> QED
  BY <1>3

(* The walk lets no edge through that closes a cycle, however deep the      *)
(* chain (MAX_STACK_DEPTH, stack.utils.ts:52).                              *)
LEMMA WalkIsSound ==
    ASSUME NEW edges \in [Habits -> Habits \cup {NoHabit}],
           NEW habit \in Habits, NEW parent \in Habits, Acyclic(edges),
           ~WouldCreateStackCycle(edges, habit, parent)
    PROVE  Acyclic([edges EXCEPT ![habit] = parent])
<1> DEFINE new == [edges EXCEPT ![habit] = parent]
           g == CHOOSE g : Walks(edges, habit, g)
<1>0. NoHabit \notin Habits
  BY StackAssumption
<1>1. \A x \in Habits : new[x] = IF x = habit THEN parent ELSE edges[x]
  OBVIOUS
<1>2. Walks(edges, habit, g)
  BY WalkExists
<1>3. habit # parent /\ parent \notin g[MaxDepth]
  BY WalkIs
<1> HIDE DEF new, g
<1>4. ASSUME NEW S, Loop(new, S) PROVE FALSE
  <2>1. S \subseteq Habits /\ S # {} /\ \A x \in S : new[x] \in S
    BY <1>4 DEF Loop
  <2>2. \A x \in S : x # habit => edges[x] \in S
    BY <1>1, <2>1
  <2>3. habit \in S
    <3>1. ASSUME habit \notin S PROVE FALSE
      <4>1. Loop(edges, S)
        BY <2>1, <2>2, <3>1 DEF Loop
      <4> QED
        BY <4>1, AcyclicIs
    <3> QED
      BY <3>1
  <2>4. parent \in S
    BY <1>1, <2>1, <2>3
  <2>5. S \subseteq g[MaxDepth]
    BY <1>0, <1>2, <2>1, <2>2, LoopIsWalked
  <2> QED
    BY <1>3, <2>4, <2>5
<1>5. Acyclic(new)
  BY <1>4, AcyclicIs
<1> QED
  BY <1>5 DEF new

(* An edge that is taken away closes nothing.                               *)
LEMMA FewerEdges ==
    ASSUME NEW edges, NEW fewer, Acyclic(edges), NoHabit \notin Habits,
           \A x \in Habits : fewer[x] \in {edges[x], NoHabit}
    PROVE  Acyclic(fewer)
<1>1. ASSUME NEW S, Loop(fewer, S) PROVE FALSE
  <2>1. Loop(edges, S)
    BY <1>1 DEF Loop
  <2> QED
    BY <2>1, AcyclicIs
<1> QED
  BY <1>1, AcyclicIs

-----------------------------------------------------------------------------
(* Only habits in the table have or are cues, and a request that is to      *)
(* check or to write an edge knows its two ends.                            *)
StackTypeInv ==
    /\ StackTypeOK
    /\ \A r \in Edits : edit[r].pc \in {"check", "write"} =>
          edit[r].habit \in Habits /\ edit[r].target \in Habits

LEMMA StackInitTyped == StackInit => StackTypeInv
  BY StackAssumption DEF StackInit, StackTypeInv, StackTypeOK, NoEdit

(* Every step keeps the table and the requests well formed.                 *)
LEMMA StackNextTyped == StackTypeInv /\ [StackNext]_stackVars => StackTypeInv'
<1> SUFFICES ASSUME StackTypeInv, [StackNext]_stackVars PROVE StackTypeInv'
  OBVIOUS
<1> USE StackAssumption DEF StackTypeInv, StackTypeOK
<1>1. ASSUME NEW r \in Edits, NEW mode \in {"create", "update"}, NEW h \in Habits,
             NEW t \in Habits, Stack(r, mode, h, t)
      PROVE  StackTypeInv'
  BY <1>1 DEF Stack
<1>2. ASSUME NEW r \in Edits, CheckChain(r) PROVE StackTypeInv'
  <2>1. UNCHANGED <<exists, archived, after>>
    BY <1>2 DEF CheckChain
  <2>2. \E pc \in {"conflict", "write"} : edit' = [edit EXCEPT ![r].pc = pc]
    BY <1>2 DEF CheckChain
  <2>3. edit[r].pc = "check"
    BY <1>2 DEF CheckChain
  <2> QED
    BY <2>1, <2>2, <2>3
<1>3. ASSUME NEW r \in Edits, Conflict(r) PROVE StackTypeInv'
  BY <1>3 DEF Conflict, NoEdit
<1>4. ASSUME NEW r \in Edits, WriteStack(r) PROVE StackTypeInv'
  <2>1. edit' \in [Edits -> [pc : {"idle", "check", "conflict", "write"},
                               mode : {"create", "update"},
                               habit : Habits \cup {NoHabit},
                               target : Habits \cup {NoHabit}]]
        /\ \A s \in Edits : edit'[s].pc \in {"check", "write"} =>
              edit'[s].habit \in Habits /\ edit'[s].target \in Habits
    BY <1>4 DEF WriteStack, NoEdit
  <2>2. edit[r].habit \in Habits /\ edit[r].target \in Habits /\ archived' = archived
    BY <1>4 DEF WriteStack
  <2>3. CASE UNCHANGED <<exists, after>>
    BY <2>1, <2>2, <2>3
  <2>4. CASE /\ edit[r].target \in exists
             /\ exists' = exists \cup {edit[r].habit}
             /\ after' = [after EXCEPT ![edit[r].habit] = edit[r].target]
    BY <2>1, <2>2, <2>4
  <2> QED
    BY <1>4, <2>3, <2>4 DEF WriteStack
<1>5. ASSUME NEW h \in Habits, CreateHabit(h) \/ Unstack(h) \/ Archive(h) PROVE StackTypeInv'
  BY <1>5 DEF CreateHabit, Unstack, Archive
<1>6. ASSUME NEW h \in Habits, Delete(h) PROVE StackTypeInv'
  BY <1>6 DEF Delete
<1>7. CASE UNCHANGED stackVars
  BY <1>7 DEF stackVars
<1> QED
  BY <1>1, <1>2, <1>3, <1>4, <1>5, <1>6, <1>7 DEF StackNext

(* Only habits in the table have or are cues, however many requests run     *)
(* together and whatever is deleted between a check and its write           *)
(* (habit.service.ts:242).                                                  *)
THEOREM StackTyped == StackSpec => []StackTypeOK
<1>1. StackSpec => []StackTypeInv
  BY StackInitTyped, StackNextTyped, PTL DEF StackSpec
<1> QED
  BY <1>1, PTL DEF StackTypeInv

(* The bounded walk misses no cycle that an edge would close, however long  *)
(* the chain and however deep the walk (stack.utils.ts:42).                 *)
THEOREM WalkIsEnough == StackSpec => []WalkFindsCycles
<1>1. StackTypeInv => WalkFindsCycles
  <2> SUFFICES ASSUME StackTypeInv, NEW h \in Habits, NEW p \in Habits, Acyclic(after),
                      ~WouldCreateStackCycle(after, h, p)
               PROVE  Acyclic([after EXCEPT ![h] = p])
    BY DEF WalkFindsCycles
  <2>1. after \in [Habits -> Habits \cup {NoHabit}]
    BY DEF StackTypeInv, StackTypeOK
  <2> QED
    BY <2>1, WalkIsSound
<1> QED
  BY <1>1, StackInitTyped, StackNextTyped, PTL DEF StackSpec

-----------------------------------------------------------------------------
(* While no two updates are between their checks and their writes, what was *)
(* checked still holds at the write: others only take edges away.           *)
WritesInTurn ==
    \A r, s \in Edits : edit[r].pc = "write" /\ edit[s].pc = "write" => r = s

MayWrite(q) ==
    q.pc = "write" =>
        q.mode = "update" /\ Acyclic([after EXCEPT ![q.habit] = q.target])

StackInv == StackTypeInv /\ StackAcyclic /\ \A r \in Edits : MayWrite(edit[r])

(* Fewer edges in the table are fewer edges at the write.                   *)
LEMMA StillMayWrite ==
    ASSUME StackInv, StackTypeInv', \A x \in Habits : after'[x] \in {after[x], NoHabit},
           NEW r \in Edits, edit'[r] = edit[r]
    PROVE  StackAcyclic' /\ MayWrite(edit[r])'
<1>0. NoHabit \notin Habits
  BY StackAssumption
<1>1. StackAcyclic'
  BY <1>0, FewerEdges DEF StackInv, StackAcyclic
<1>2. ASSUME edit[r].pc = "write"
      PROVE  edit[r].mode = "update" /\ Acyclic([after' EXCEPT ![edit[r].habit] = edit[r].target])
  <2> DEFINE old == [after EXCEPT ![edit[r].habit] = edit[r].target]
             new == [after' EXCEPT ![edit[r].habit] = edit[r].target]
  <2>1. Acyclic(old) /\ edit[r].mode = "update"
    BY <1>2 DEF StackInv, MayWrite
  <2>2. \A x \in Habits : new[x] \in {old[x], NoHabit}
    BY DEF StackInv, StackTypeInv, StackTypeOK
  <2> HIDE DEF old, new
  <2>3. Acyclic(new)
    BY <1>0, <2>1, <2>2, FewerEdges
  <2> QED
    BY <2>1, <2>3 DEF new
<1> QED
  BY <1>1, <1>2 DEF MayWrite

(* Every step of a stack that is written in turn keeps it acyclic.          *)
LEMMA StackHolds == WritesInTurn /\ StackInv /\ [StackNext]_stackVars => StackInv'
<1> SUFFICES ASSUME WritesInTurn, StackInv, [StackNext]_stackVars PROVE StackInv'
  OBVIOUS
<1>0. StackTypeInv /\ StackTypeInv' /\ StackAcyclic
  BY StackNextTyped DEF StackInv
<1>1. ASSUME \A x \in Habits : after'[x] \in {after[x], NoHabit},
             \A r \in Edits : edit'[r] = edit[r] \/ edit'[r].pc # "write",
             after' = after \/ edit' = edit
      PROVE  StackInv'
  <2>1. StackAcyclic'
    BY <1>0, <1>1, FewerEdges, StackAssumption DEF StackAcyclic
  <2>2. ASSUME NEW r \in Edits PROVE MayWrite(edit[r])'
    BY <1>0, <1>1, StillMayWrite DEF MayWrite
  <2> QED
    BY <1>0, <2>1, <2>2 DEF StackInv
<1>2. ASSUME NEW r \in Edits, NEW mode \in {"create", "update"}, NEW h \in Habits,
             NEW t \in Habits, Stack(r, mode, h, t)
      PROVE  StackInv'
  BY <1>0, <1>1, <1>2 DEF Stack, StackTypeInv, StackTypeOK
<1>3. ASSUME NEW r \in Edits, CheckChain(r) PROVE StackInv'
  <2>1. CASE WouldCreateStackCycle(after, Checked(edit[r]), edit[r].target)
    BY <1>0, <1>1, <1>3, <2>1 DEF CheckChain, StackTypeInv, StackTypeOK
  <2>2. CASE ~WouldCreateStackCycle(after, Checked(edit[r]), edit[r].target)
    <3>1. edit[r].mode = "update" /\ Checked(edit[r]) = edit[r].habit
      BY <1>0, <2>2, WalkIs DEF Checked, StackTypeInv, StackTypeOK
    <3>2. Acyclic([after EXCEPT ![edit[r].habit] = edit[r].target])
      <4>1. /\ after \in [Habits -> Habits \cup {NoHabit}]
            /\ edit[r].habit \in Habits /\ edit[r].target \in Habits
        BY <1>0, <1>3 DEF StackTypeInv, StackTypeOK, CheckChain
      <4> QED
        BY <1>0, <2>2, <3>1, <4>1, WalkIsSound DEF StackAcyclic
    <3>3. /\ after' = after /\ edit'[r].mode = edit[r].mode
          /\ edit'[r].habit = edit[r].habit /\ edit'[r].target = edit[r].target
          /\ \A s \in Edits \ {r} : edit'[s] = edit[s]
      BY <1>0, <1>3 DEF CheckChain, StackTypeInv, StackTypeOK
    <3>4. MayWrite(edit[r])'
      BY <3>1, <3>2, <3>3 DEF MayWrite
    <3>5. \A s \in Edits \ {r} : MayWrite(edit[s])'
      BY <3>3 DEF StackInv, MayWrite
    <3> QED
      BY <1>0, <3>3, <3>4, <3>5 DEF StackInv, StackAcyclic
  <2> QED
    BY <2>1, <2>2
<1>4. ASSUME NEW r \in Edits, Conflict(r) PROVE StackInv'
  BY <1>0, <1>1, <1>4 DEF Conflict, NoEdit, StackTypeInv, StackTypeOK
<1>5. ASSUME NEW r \in Edits, WriteStack(r) PROVE StackInv'
  <2>1. /\ edit[r].pc = "write" /\ edit'[r].pc = "idle"
        /\ \A s \in Edits \ {r} : edit'[s] = edit[s]
    BY <1>0, <1>5 DEF WriteStack, NoEdit, StackTypeInv, StackTypeOK
  <2>2. \A s \in Edits : edit'[s].pc # "write"
    BY <2>1 DEF WritesInTurn
  <2>3. after' = after \/ after' = [after EXCEPT ![edit[r].habit] = edit[r].target]
    BY <1>5 DEF WriteStack
  <2>4. StackAcyclic'
    BY <1>0, <2>1, <2>3 DEF StackInv, MayWrite, StackAcyclic
  <2> QED
    BY <1>0, <2>2, <2>4 DEF StackInv, MayWrite
<1>6. ASSUME NEW h \in Habits, CreateHabit(h) \/ Archive(h) PROVE StackInv'
  BY <1>0, <1>1, <1>6 DEF CreateHabit, Archive
<1>7. ASSUME NEW h \in Habits, Unstack(h) \/ Delete(h) PROVE StackInv'
  <2>1. \A x \in Habits : after'[x] \in {after[x], NoHabit}
    BY <1>0, <1>7 DEF Unstack, Delete, StackTypeInv, StackTypeOK
  <2> QED
    BY <1>1, <1>7, <2>1 DEF Unstack, Delete
<1>8. CASE UNCHANGED stackVars
  BY <1>0, <1>1, <1>8 DEF stackVars
<1> QED
  BY <1>2, <1>3, <1>4, <1>5, <1>6, <1>7, <1>8 DEF StackNext

(* While no two updates are between their checks and their writes, no stack *)
(* ever loops, whatever is created, unstacked and deleted in between        *)
(* (habit.service.ts:238).                                                  *)
THEOREM StacksEnd == StackSpec /\ []WritesInTurn => []StackAcyclic
<1>1. StackInit => StackInv
  <2> SUFFICES ASSUME StackInit PROVE StackInv
    OBVIOUS
  <2>1. Acyclic(after)
    BY StackAssumption DEF StackInit, Acyclic
  <2>2. \A r \in Edits : MayWrite(edit[r])
    BY DEF StackInit, NoEdit, MayWrite
  <2> QED
    BY <2>1, <2>2, StackInitTyped DEF StackInv, StackAcyclic
<1>2. StackInv => StackAcyclic
  BY DEF StackInv
<1> QED
  BY <1>1, <1>2, StackHolds, PTL DEF StackSpec

-----------------------------------------------------------------------------
(* The walk accuses no edge but one that closes a cycle or one behind a     *)
(* chain that is longer than the walk.                                      *)
ChainOf(edges, x, n) ==
    \E walk \in [0 .. n -> Habits] :
        walk[0] = x /\ \A i \in 1 .. n : walk[i] = edges[walk[i - 1]]

(* The chain from x on comes to the habit.                                  *)
Meets(edges, habit, x) ==
    \E S \in SUBSET Habits :
        x \in S /\ habit \in S /\ \A y \in S : y # habit => edges[y] \in S

LEMMA WalkGoesOn ==
    ASSUME NEW edges, NEW habit \in Habits, NEW x \in Habits, NEW d \in Nat, d # 0,
           Meets(edges, habit, edges[x]) \/ ChainOf(edges, edges[x], d - 1)
    PROVE  Meets(edges, habit, x) \/ ChainOf(edges, x, d)
<1>1. CASE Meets(edges, habit, edges[x])
  <2>1. PICK S \in SUBSET Habits : /\ edges[x] \in S /\ habit \in S
                                   /\ \A y \in S : y # habit => edges[y] \in S
    BY <1>1 DEF Meets
  <2>2. S \cup {x} \in SUBSET Habits
    BY <2>1
  <2>3. x \in S \cup {x} /\ habit \in S \cup {x}
    BY <2>1
  <2>4. \A y \in S \cup {x} : y # habit => edges[y] \in S \cup {x}
    BY <2>1
  <2> QED
    BY <2>2, <2>3, <2>4 DEF Meets
<1>2. CASE ChainOf(edges, edges[x], d - 1)
  <2>1. PICK w \in [0 .. d - 1 -> Habits] :
            w[0] = edges[x] /\ \A i \in 1 .. d - 1 : w[i] = edges[w[i - 1]]
    BY <1>2 DEF ChainOf
  <2> DEFINE v == [i \in 0 .. d |-> IF i = 0 THEN x ELSE w[i - 1]]
  <2>2. v \in [0 .. d -> Habits] /\ v[0] = x
    OBVIOUS
  <2>3. ASSUME NEW i \in 1 .. d PROVE v[i] = edges[v[i - 1]]
    <3>1. CASE i = 1
      BY <2>1, <3>1
    <3>2. CASE i # 1
      <4>1. i - 1 \in 1 .. d - 1 /\ i - 1 \in 0 .. d /\ i \in 0 .. d /\ i # 0 /\ i - 1 # 0
        BY <3>2
      <4>2. v[i] = w[i - 1] /\ v[i - 1] = w[i - 1 - 1]
        BY <4>1
      <4> QED
        BY <2>1, <4>1, <4>2
    <3> QED
      BY <3>1, <3>2
  <2> HIDE DEF v
  <2> QED
    BY <2>2, <2>3 DEF ChainOf
<1> QED
  BY <1>1, <1>2

LEMMA WalkIsFair ==
    ASSUME NEW edges, NEW habit \in Habits, NEW g, Walks(edges, habit, g)
    PROVE  \A x \in g[MaxDepth] : Meets(edges, habit, x) \/ ChainOf(edges, x, MaxDepth)
<1>0. MaxDepth \in Nat
  BY StackAssumption
<1> DEFINE Fair(n) == \A x \in g[n] : Meets(edges, habit, x) \/ ChainOf(edges, x, n)
           Bad == {n \in 0 .. MaxDepth : ~Fair(n)}
<1>1. Bad \subseteq Nat
  OBVIOUS
<1>2. ASSUME Bad # {} PROVE FALSE
  <2> HIDE DEF Bad
  <2>1. PICK n \in Bad : \A m \in Bad : n <= m
    BY <1>1, <1>2, Least
  <2>2. n \in Nat /\ \A m \in Nat : m < n => m \notin Bad
    BY <1>1, <2>1
  <2>3. n \in 0 .. MaxDepth /\ ~Fair(n)
    BY <2>1 DEF Bad
  <2>4. g[n] = Ahead(edges, habit, n, g[n - 1])
    BY <2>3 DEF Walks
  <2>5. PICK x \in g[n] : ~Meets(edges, habit, x) /\ ~ChainOf(edges, x, n)
    BY <2>3
  <2>6. x \in Habits
    BY <2>4 DEF Ahead
  <2>7. n # 0
    <3>1. ASSUME n = 0 PROVE ChainOf(edges, x, n)
      <4> DEFINE w == [i \in 0 .. 0 |-> x]
      <4>1. w \in [0 .. 0 -> Habits] /\ w[0] = x
        BY <2>6
      <4>2. \A i \in 1 .. 0 : w[i] = edges[w[i - 1]]
        OBVIOUS
      <4> HIDE DEF w
      <4>3. ChainOf(edges, x, 0)
        BY <4>1, <4>2 DEF ChainOf
      <4> QED
        BY <3>1, <4>3
    <3> QED
      BY <2>5, <3>1
  <2>8. x # habit
    <3>1. Meets(edges, habit, habit)
      <4>1. {habit} \in SUBSET Habits
        OBVIOUS
      <4> QED
        BY <4>1 DEF Meets
    <3> QED
      BY <2>5, <3>1
  <2>9. edges[x] \in g[n - 1]
    BY <2>4, <2>5, <2>7, <2>8 DEF Ahead
  <2>10. n - 1 \in 0 .. MaxDepth /\ n - 1 \notin Bad
    BY <1>0, <2>2, <2>3, <2>7
  <2>11. Fair(n - 1)
    BY <2>10 DEF Bad
  <2> QED
    BY <2>2, <2>5, <2>6, <2>7, <2>9, <2>11, WalkGoesOn
<1>3. MaxDepth \in 0 .. MaxDepth /\ MaxDepth \notin Bad
  BY <1>0, <1>2
<1> QED
  BY <1>3

LEMMA WalkAccusesRightly ==
    ASSUME NEW edges \in [Habits -> Habits \cup {NoHabit}],
           NEW habit \in Habits, NEW parent \in Habits,
           WouldCreateStackCycle(edges, habit, parent)
    PROVE  \/ ~Acyclic([edges EXCEPT ![habit] = parent])
           \/ ChainOf(edges, parent, MaxDepth)
<1> DEFINE new == [edges EXCEPT ![habit] = parent]
           g == CHOOSE g : Walks(edges, habit, g)
<1>1. \A x \in Habits : new[x] = IF x = habit THEN parent ELSE edges[x]
  OBVIOUS
<1>2. Walks(edges, habit, g)
  BY WalkExists
<1>3. habit = parent \/ parent \in g[MaxDepth]
  BY WalkIs
<1> HIDE DEF new, g
<1>4. CASE Meets(edges, habit, parent)
  <2>1. PICK S \in SUBSET Habits : /\ parent \in S /\ habit \in S
                                   /\ \A y \in S : y # habit => edges[y] \in S
    BY <1>4 DEF Meets
  <2>2. Loop(new, S)
    BY <1>1, <2>1 DEF Loop
  <2>3. ~Acyclic(new)
    BY <2>2, AcyclicIs
  <2> QED
    BY <2>3 DEF new
<1>5. CASE habit = parent
  <2>1. Loop(new, {habit})
    BY <1>1, <1>5 DEF Loop
  <2>2. ~Acyclic(new)
    BY <2>1, AcyclicIs
  <2> QED
    BY <2>2 DEF new
<1> QED
  BY <1>2, <1>3, <1>4, <1>5, WalkIsFair

(* An update is refused as circular only when its edge would close a cycle, *)
(* or behind a chain longer than the walk, for every depth and number of    *)
(* habits (stack.utils.ts:42).                                              *)
THEOREM RefusedRightly == StackSpec => UpdatesRefusedRightly
<1>1. StackTypeInv /\ [StackNext]_stackVars =>
        [\A r \in Edits : Refuses(r) /\ edit[r].mode = "update"
            => Closes(edit[r]) \/ LongChain(edit[r].target)]_stackVars
  <2> SUFFICES ASSUME StackTypeInv, [StackNext]_stackVars, NEW r \in Edits, Refuses(r),
                      edit[r].mode = "update"
               PROVE  Closes(edit[r]) \/ LongChain(edit[r].target)
    OBVIOUS
  <2>1. /\ edit[r].pc = "check" /\ edit'[r].pc = "conflict"
        /\ edit[r].habit \in Habits /\ edit[r].target \in Habits
        /\ after \in [Habits -> Habits \cup {NoHabit}]
    BY DEF Refuses, StackTypeInv, StackTypeOK
  <2>2. CheckChain(r)
    BY <2>1 DEF StackNext, stackVars, Stack, CheckChain, Conflict, WriteStack, NoEdit,
       CreateHabit, Unstack, Archive, Delete, StackTypeInv, StackTypeOK
  <2>3. WouldCreateStackCycle(after, edit[r].habit, edit[r].target)
    BY <2>1, <2>2 DEF CheckChain, Checked, StackTypeInv, StackTypeOK
  <2> QED
    BY <2>1, <2>3, WalkAccusesRightly DEF Closes, LongChain, ChainOf
<1> QED
  BY <1>1, StackInitTyped, StackNextTyped, PTL DEF StackSpec, UpdatesRefusedRightly
==============================================================================
