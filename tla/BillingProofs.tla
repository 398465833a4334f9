---------------------------- MODULE BillingProofs ----------------------------
(* What no order of requests, webhooks, charges and crashes does to one      *)
(* user's subscription, for every number of requests and references, every  *)
(* length of the periods and every bound on time.                           *)
EXTENDS Billing, TLAPS

WebhookStages == {"gate", "charge", "compare", "failed", "grace", "not_renew",
                  "disable", "sync", "invoice"}

(* What a request is known to hold at each stage.                           *)
Staged(q) ==
    /\ q.pc \in WebhookStages =>
          q.task = "webhook" /\ q.event \in events /\ q.ref = q.event.ref
    /\ q.pc = "activate" /\ q.task = "webhook" => q.event \in events
    /\ q.pc \in {"ask", "fail"} => q.task = "verify" /\ q.ref \in Checkouts
    /\ q.pc \in {"activate", "mark"} => q.ref \in Refs
    /\ q.pc \in {"persist", "decide"} => q.seen \in Rows

TypeInv ==
    /\ TypeOK
    /\ \A c \in Checkouts : due[c] <= MaxTime + Period
    /\ \A r \in Requests : Staged(req[r])

-----------------------------------------------------------------------------
(* The instants a handler computes are instants the row may hold.           *)
LEMMA ForeverFits ==
    /\ Forever \in Nat /\ 0 \in Instants
    /\ \A t \in Time : /\ t + Period \in Instants /\ t + Grace \in Instants
                       /\ t + Period <= MaxTime + Period
    /\ \A t \in Instants : t <= MaxTime + Period => t + Period \in Instants
    /\ TrialLength \in Instants /\ Forever \in Instants
  BY BillingAssumption DEF Forever, Instants, Time

(* A request before it begins.                                              *)
LEMMA IdleTyped == Idle \in RequestRecords /\ Staged(Idle)
  BY DEF Idle, RequestRecords, Stages, Staged, WebhookStages

(* A request that turns to another statement, with the row it read.         *)
LEMMA SeenTyped ==
    ASSUME NEW q \in RequestRecords, NEW pc \in Stages, NEW w \in Rows
    PROVE  /\ [q EXCEPT !.pc = pc, !.seen = w] \in RequestRecords
           /\ \A task \in Tasks :
                 [q EXCEPT !.pc = pc, !.task = task, !.seen = w] \in RequestRecords
<1> HIDE DEF Stages, Rows
<1> QED
  BY DEF RequestRecords

(* A step of one request keeps the records of all.                          *)
LEMMA StepTyped ==
    ASSUME TypeInv, NEW r \in Requests, NEW q \in RequestRecords, Step(r, q),
           events' = events, Staged(q)
    PROVE  /\ req' \in [Requests -> RequestRecords]
           /\ \A s \in Requests : Staged(req[s])'
<1>1. req \in [Requests -> RequestRecords]
  BY DEF TypeInv, TypeOK
<1>2. \A s \in Requests : req'[s] = IF s = r THEN q ELSE req[s]
  BY <1>1 DEF Step
<1>3. req' \in [Requests -> RequestRecords]
  BY <1>1, <1>2 DEF Step
<1>4. ASSUME NEW s \in Requests PROVE Staged(req[s])'
  <2>1. Staged(req[s])
    BY DEF TypeInv
  <2> QED
    BY <1>2, <2>1 DEF Staged
<1> QED
  BY <1>3, <1>4

(* Paystack's events are well formed, and what is delivered stays so.       *)
LEMMA EmitTyped ==
    ASSUME TypeInv, NEW sent, Emit(sent),
           \A e \in sent : e.kind \in Kinds => e \in EventSet
    PROVE  /\ \A e \in gate \cup events' : e \in EventSet
           /\ \A q \in RequestRecords : Staged(q) => Staged(q)'
<1>1. \A e \in gate \cup events' : e \in EventSet
  BY DEF TypeInv, TypeOK, Emit
<1>2. \A q \in RequestRecords : Staged(q) => Staged(q)'
  BY DEF Staged, Emit
<1> QED
  BY <1>1, <1>2

(* The webhooks Paystack sends are well formed.                             *)
LEMMA EventTyped ==
    ASSUME NEW kind \in Kinds, NEW ref \in Refs, NEW next \in Instants
    PROVE  Event(kind, ref, next) \in EventSet
  BY DEF Event, EventSet

-----------------------------------------------------------------------------
(* The type invariant, action by action.                                    *)

(* Who leaves the row and the payments alone.                               *)
LEMMA ReadsTyped ==
    ASSUME TypeInv, NEW r \in Requests,
           \/ \E task \in Tasks : Resolve(r, task)
           \/ \E c \in Checkouts : VerifyRead(r, c)
           \/ \E e \in events : Deliver(r, e)
           \/ Access(r) \/ VerifyAsk(r) \/ HandleCharge(r) \/ CompareCharge(r)
           \/ HandleFailed(r) \/ PassGate(r)
           \/ PlanGone(r) \/ NoUserMatches(r) \/ Crash(r)
    PROVE  TypeInv'
<1>0. req[r] \in RequestRecords /\ Staged(req[r]) /\ row \in Rows
  BY DEF TypeInv, TypeOK
<1>2. \E q \in RequestRecords : Step(r, q) /\ Staged(q)
  <2>1. CASE \E task \in Tasks : Resolve(r, task)
    <3> PICK task \in Tasks : Resolve(r, task)
      BY <2>1
    <3> DEFINE pc == IF Lapsed(row) THEN "persist" ELSE "decide"
               q == [Idle EXCEPT !.pc = pc, !.task = task, !.seen = row]
    <3>0. pc \in {"persist", "decide"}
      OBVIOUS
    <3>3. Step(r, q)
      BY DEF Resolve
    <3> HIDE DEF pc
    <3>4. q \in RequestRecords
      <4>1. pc \in Stages
        BY <3>0 DEF Stages
      <4> QED
        BY <1>0, <4>1, IdleTyped, SeenTyped
    <3>5. q.pc \in {"persist", "decide"} /\ q.task = task /\ q.seen = row
      BY <3>0 DEF Idle
    <3> HIDE DEF q
    <3>1. q \in RequestRecords /\ Staged(q)
      BY <1>0, <3>4, <3>5 DEF Staged, WebhookStages, Tasks
    <3> QED
      BY <3>1, <3>3
  <2>2. CASE \E c \in Checkouts : VerifyRead(r, c)
    <3> PICK c \in Checkouts : VerifyRead(r, c)
      BY <2>2
    <3> DEFINE q == [Idle EXCEPT !.pc = "ask", !.task = "verify", !.ref = c]
    <3>1. q \in RequestRecords /\ Staged(q)
      BY DEF Idle, RequestRecords, Stages, Staged, WebhookStages, Refs
    <3>2. Step(r, q)
      BY DEF VerifyRead
    <3> QED
      BY <3>1, <3>2
  <2>3. CASE \E e \in events : Deliver(r, e)
    <3> PICK e \in events : Deliver(r, e)
      BY <2>3
    <3> DEFINE q == [Idle EXCEPT !.pc = "gate", !.task = "webhook", !.event = e,
                                 !.ref = e.ref]
    <3>1. e \in EventSet
      BY DEF TypeInv, TypeOK
    <3>2. q \in RequestRecords /\ Staged(q)
      BY <3>1 DEF Idle, RequestRecords, Stages, Staged, WebhookStages, EventSet
    <3>3. Step(r, q)
      BY DEF Deliver
    <3> QED
      BY <3>2, <3>3
  <2>4. CASE Access(r) \/ PlanGone(r) \/ NoUserMatches(r) \/ Crash(r)
    BY <2>4, IdleTyped DEF Access, PlanGone, NoUserMatches, Crash, Decides, Done
  <2>5. CASE VerifyAsk(r)
    <3> DEFINE q == [req[r] EXCEPT
                       !.pc = IF charge[req[r].ref] = "paid" THEN "activate" ELSE "fail"]
    <3>1. q \in RequestRecords /\ Staged(q)
      BY <1>0, <2>5 DEF VerifyAsk, RequestRecords, Stages, Staged, WebhookStages, Refs
    <3> QED
      BY <2>5, <3>1 DEF VerifyAsk
  <2>6. CASE HandleCharge(r)
    <3> DEFINE q == [req[r] EXCEPT !.pc = "compare", !.pay = PaymentOf(req[r].ref)]
    <3>1. PaymentOf(req[r].ref) \in {"none", "PENDING", "SUCCESS", "FAILED"}
      BY DEF PaymentOf, TypeInv, TypeOK
    <3>2. q \in RequestRecords /\ Staged(q)
      BY <1>0, <2>6, <3>1 DEF HandleCharge, RequestRecords, Stages, Staged, WebhookStages
    <3> QED
      BY <2>6, <3>2 DEF HandleCharge
  <2>7. CASE CompareCharge(r)
    <3> DEFINE q == [req[r] EXCEPT !.pc = "activate"]
    <3>1. req[r].event \in EventSet
      BY <1>0, <2>7 DEF CompareCharge, Staged, WebhookStages, TypeInv, TypeOK
    <3>2. q \in RequestRecords /\ Staged(q)
      BY <1>0, <2>7, <3>1
      DEF CompareCharge, RequestRecords, Stages, Staged, WebhookStages, EventSet
    <3> QED
      BY <2>7, <3>2, IdleTyped DEF CompareCharge
  <2>8. CASE HandleFailed(r)
    <3> DEFINE q == [req[r] EXCEPT !.pc = "grace"]
    <3>1. q \in RequestRecords /\ Staged(q)
      BY <1>0, <2>8 DEF HandleFailed, RequestRecords, Stages, Staged, WebhookStages
    <3> QED
      BY <2>8, <3>1, IdleTyped DEF HandleFailed
  <2>9. CASE PassGate(r)
    <3> DEFINE q == [req[r] EXCEPT !.pc = req[r].event.kind]
    <3>1. req[r].event \in EventSet
      BY <1>0, <2>9 DEF PassGate, Staged, WebhookStages, TypeInv, TypeOK
    <3>2. req[r].event.kind \in {"charge", "failed", "not_renew", "disable", "sync",
                                 "invoice"}
      BY <3>1, BillingAssumption DEF EventSet
    <3>3. q \in RequestRecords /\ Staged(q)
      BY <1>0, <2>9, <3>2
      DEF PassGate, RequestRecords, Stages, Staged, WebhookStages
    <3> QED
      BY <2>9, <3>3, IdleTyped DEF PassGate, Done
  <2> QED
    BY <2>1, <2>2, <2>3, <2>4, <2>5, <2>6, <2>7, <2>8, <2>9
<1>3. PICK q \in RequestRecords : Step(r, q) /\ Staged(q)
  BY <1>2
<1>4. gate' \subseteq gate \cup events /\ UNCHANGED <<now, row, payment, history, paystack>>
  BY <1>0 DEF Resolve, VerifyRead, Deliver, Access, VerifyAsk, HandleCharge,
       CompareCharge, HandleFailed, PlanGone, NoUserMatches, Crash, PassGate, Staged,
       WebhookStages
<1> QED
  BY <1>3, <1>4, StepTyped DEF TypeInv, TypeOK, paystack, history

(* Who ends after writing the row or a payment.                             *)
LEMMA LastsTyped ==
    ASSUME TypeInv, NEW r \in Requests, Done(r), row' \in Rows,
           payment' \in [Checkouts -> {"none", "PENDING", "SUCCESS", "FAILED"}],
           UNCHANGED <<now, gate, activated, paystack>>, granted' \in BOOLEAN
    PROVE  TypeInv'
  BY IdleTyped, StepTyped DEF Done, TypeInv, TypeOK, paystack

(* The handlers that end with a write keep the types.                       *)
LEMMA WritesTyped ==
    ASSUME TypeInv, NEW r \in Requests,
           \/ Resume(r) \/ SetFree(r) \/ StartGrace(r) \/ HandleStop(r)
           \/ HandleSync(r) \/ HandleInvoice(r) \/ VerifyFail(r) \/ MarkSuccess(r)
    PROVE  TypeInv'
<1>0. /\ req[r] \in RequestRecords /\ Staged(req[r]) /\ row \in Rows
      /\ payment \in [Checkouts -> {"none", "PENDING", "SUCCESS", "FAILED"}]
      /\ now \in Time /\ granted \in BOOLEAN
  BY DEF TypeInv, TypeOK
<1>1. req[r].event \in events => req[r].event.next \in Instants
  BY DEF TypeInv, TypeOK, EventSet
<1>2. CASE Resume(r)
  BY <1>0, <1>2, LastsTyped DEF Resume, Decides, history, Rows, Statuses
<1>3. CASE SetFree(r)
  BY <1>0, <1>3, LastsTyped, BillingAssumption DEF SetFree, Decides, Rows
<1>4. CASE StartGrace(r)
  <2>1. Done(r) /\ payment' = payment /\ UNCHANGED <<now, gate, history, paystack>>
    BY <1>4 DEF StartGrace
  <2>2. row' = [row EXCEPT !.status = "PAYMENT_FAILED", !.graceEnd = now + Grace]
    BY <1>4 DEF StartGrace
  <2>3. now + Grace \in Instants
    BY <1>0, ForeverFits
  <2>4. row' \in Rows
    BY <1>0, <2>2, <2>3 DEF Rows, Statuses
  <2> QED
    BY <1>0, <2>1, <2>4, LastsTyped DEF history
<1>5. CASE HandleStop(r)
  <2>1. row'\in Rows
    BY <1>0, <1>1, <1>5
    DEF HandleStop, Stopped, Rows, Statuses, Staged, WebhookStages
  <2> QED
    BY <1>0, <1>5, <2>1, LastsTyped DEF HandleStop, history
<1>6. CASE HandleSync(r)
  <2>1. row'\in Rows
    BY <1>0, <1>1, <1>6 DEF HandleSync, Rows, Staged, WebhookStages
  <2> QED
    BY <1>0, <1>6, <2>1, LastsTyped DEF HandleSync, history
<1>7. CASE HandleInvoice(r)
  <2>1. row'\in Rows
    BY <1>0, <1>1, <1>7 DEF HandleInvoice, Rows, Staged, WebhookStages
  <2> QED
    BY <1>0, <1>7, <2>1, LastsTyped DEF HandleInvoice, history
<1>8. CASE VerifyFail(r)
  BY <1>0, <1>8, LastsTyped DEF VerifyFail, history
<1>9. CASE MarkSuccess(r)
  BY <1>0, <1>9, LastsTyped DEF MarkSuccess, history
<1> QED
  BY <1>2, <1>3, <1>4, <1>5, <1>6, <1>7, <1>8, <1>9

(* Storing a subscription keeps the types.                                  *)
LEMMA PersistTyped ==
    ASSUME TypeInv, NEW r \in Requests, Persist(r)
    PROVE  TypeInv'
<1> DEFINE q == [req[r] EXCEPT !.pc = "decide", !.seen = row']
<1>1. row' \in Rows
  BY DEF Persist, TypeInv, TypeOK, Rows, Statuses
<1>2. req[r] \in RequestRecords /\ "decide" \in Stages
  BY DEF TypeInv, TypeOK, Stages
<1>3. q \in RequestRecords
  BY <1>1, <1>2, SeenTyped
<1>4. q.pc = "decide" /\ q.seen \in Rows
  BY <1>1, <1>2 DEF RequestRecords
<1>5. Staged(q)
  <2> HIDE DEF q
  <2> QED
    BY <1>4 DEF Staged, WebhookStages
<1> QED
  BY <1>1, <1>3, <1>5, StepTyped DEF Persist, TypeInv, TypeOK, paystack, history

(* An activation keeps the types.                                           *)
LEMMA ActivateTyped ==
    ASSUME TypeInv, NEW r \in Requests, Activate(r)
    PROVE  TypeInv'
<1> DEFINE q == req[r]
           marks == q.task = "verify" \/ q.pay \in {"PENDING", "FAILED"}
           ends == {now + Period} \cup
                     (IF q.task = "webhook" THEN {q.event.next} ELSE {})
<1>0. /\ q \in RequestRecords /\ Staged(q) /\ row \in Rows /\ now \in Time
      /\ activated \in [Refs -> SUBSET Time]
  BY DEF TypeInv, TypeOK
<1>1. q.pc = "activate" /\ q.ref \in Refs
  BY <1>0 DEF Activate, Staged
<1>2. \A end \in ends : end \in Instants
  BY <1>0, <1>1, ForeverFits DEF Staged, TypeInv, TypeOK, EventSet
<1>3. row' \in Rows
  <2> PICK end \in ends : row' = Activated(row, q.ref, end)
    BY DEF Activate
  <2> QED
    BY <1>0, <1>1, <1>2, ForeverFits DEF Activated, Rows, Statuses
<1>4. activated' \in [Refs -> SUBSET Time]
  BY <1>0 DEF Activate
<1>5. [q EXCEPT !.pc = "mark"] \in RequestRecords /\ Staged([q EXCEPT !.pc = "mark"])
  BY <1>0, <1>1 DEF RequestRecords, Stages, Staged, WebhookStages
<1>6. Step(r, [q EXCEPT !.pc = "mark"]) \/ Step(r, Idle)
  BY DEF Activate
<1>7. events' = events
  BY DEF Activate, paystack
<1>8. /\ req' \in [Requests -> RequestRecords]
      /\ \A s \in Requests : Staged(req[s])'
  BY <1>5, <1>6, <1>7, IdleTyped, StepTyped
<1> QED
  BY <1>3, <1>4, <1>8 DEF Activate, TypeInv, TypeOK, paystack

(* Paystack's steps, and the one request that causes some.                  *)
LEMMA EndRenewalTyped ==
    ASSUME TypeInv, NEW c \in Checkouts, EndRenewal(c)
    PROVE  /\ due' \in [Checkouts -> Instants]
           /\ \A x \in Checkouts : due'[x] <= MaxTime + Period
           /\ \A e \in gate \cup events' : e \in EventSet
           /\ \A q \in RequestRecords : Staged(q) => Staged(q)'
<1> DEFINE sent == {Event("not_renew", c, due[c]), Event("disable", c, due[c])}
<1>1. due \in [Checkouts -> Instants] /\ Emit(sent)
  BY DEF EndRenewal, TypeInv, TypeOK
<1>2. \A e \in sent : e.kind \in Kinds => e \in EventSet
  BY <1>1 DEF Event, EventSet, Refs
<1>3. due' \in [Checkouts -> Instants]
      /\ \A x \in Checkouts : due'[x] <= MaxTime + Period
  BY <1>1, ForeverFits, BillingAssumption DEF EndRenewal, TypeInv
<1> QED
  BY <1>1, <1>2, <1>3, EmitTyped

(* A cancellation keeps the types.                                          *)
LEMMA CancelTyped ==
    ASSUME TypeInv, NEW r \in Requests, Cancel(r)
    PROVE  TypeInv'
<1>1. row \in Rows
  BY DEF TypeInv, TypeOK
<1>2. row' \in Rows
  BY <1>1 DEF Cancel, Stopped, Rows, Statuses
<1>3. req' = [req EXCEPT ![r] = Idle]
  BY DEF Cancel, Decides, Done, Step
<1>4. CASE UNCHANGED <<due, events>>
  BY <1>2, <1>4, LastsTyped DEF Cancel, Decides, paystack, history, TypeInv, TypeOK
<1>5. CASE \E c \in Checkouts : EndRenewal(c)
  <2> PICK c \in Checkouts : EndRenewal(c)
    BY <1>5
  <2>1. /\ due' \in [Checkouts -> Instants]
        /\ \A x \in Checkouts : due'[x] <= MaxTime + Period
        /\ \A e \in gate \cup events' : e \in EventSet
        /\ \A q \in RequestRecords : Staged(q) => Staged(q)'
    BY EndRenewalTyped
  <2>2. req' \in [Requests -> RequestRecords]
    BY <1>3, IdleTyped DEF TypeInv, TypeOK
  <2>3. ASSUME NEW s \in Requests PROVE Staged(req[s])'
    <3>1. req'[s] = Idle \/ req'[s] = req[s]
      BY <1>3 DEF TypeInv, TypeOK
    <3> QED
      BY <2>1, <3>1, IdleTyped DEF TypeInv, TypeOK
  <2> QED
    BY <1>2, <2>1, <2>2, <2>3 DEF Cancel, TypeInv, TypeOK, history
<1> QED
  BY <1>4, <1>5 DEF Cancel

(* What Paystack does on its own keeps the types.                           *)
LEMMA PaystackTyped ==
    ASSUME TypeInv, NEW c \in Checkouts,
           \/ Checkout(c) \/ Pay(c) \/ Invoice(c) \/ Stop(c)
           \/ \E n \in Renewals : Renew(c, n)
    PROVE  TypeInv'
<1>0. /\ c \in Refs /\ now \in Time /\ due \in [Checkouts -> Instants]
      /\ charge \in [Refs -> {"none", "open", "paid", "failed"}]
      /\ now + Period \in Instants /\ now + Period <= MaxTime + Period
      /\ due[c] <= MaxTime + Period /\ due[c] + Period \in Instants
  BY ForeverFits DEF TypeInv, TypeOK, Refs
<1>1. SUFFICES
        /\ charge' \in [Refs -> {"none", "open", "paid", "failed"}]
        /\ payment' \in [Checkouts -> {"none", "PENDING", "SUCCESS", "FAILED"}]
        /\ due' \in [Checkouts -> Instants]
        /\ \A x \in Checkouts : due'[x] <= MaxTime + Period
        /\ \A e \in gate \cup events' : e \in EventSet
        /\ \A q \in RequestRecords : Staged(q) => Staged(q)'
  BY DEF Checkout, Pay, Invoice, Stop, Renew, TypeInv, TypeOK, server, history
<1>2. CASE Checkout(c)
  BY <1>0, <1>2 DEF Checkout, TypeInv, TypeOK, Staged
<1>3. CASE Pay(c)
  <2> DEFINE sent == {Event("charge", c, now + Period), Event("sync", c, now + Period)}
  <2>1. \A e \in sent : e.kind \in Kinds => e \in EventSet
    BY <1>0 DEF Event, EventSet
  <2>2. Emit(sent)
    BY <1>3 DEF Pay
  <2> HIDE DEF sent
  <2>3. /\ \A e \in gate \cup events' : e \in EventSet
        /\ \A q \in RequestRecords : Staged(q) => Staged(q)'
    BY <2>1, <2>2, EmitTyped
  <2>4. /\ due' \in [Checkouts -> Instants]
        /\ \A x \in Checkouts : due'[x] <= MaxTime + Period
    BY <1>0, <1>3 DEF Pay, TypeInv
  <2> QED
    BY <1>0, <1>3, <2>3, <2>4 DEF Pay, TypeInv, TypeOK, server, history
<1>4. CASE Invoice(c)
  <2> DEFINE sent == {Event("invoice", c, due[c] + Period)}
  <2>1. \A e \in sent : e.kind \in Kinds => e \in EventSet
    BY <1>0 DEF Event, EventSet
  <2>2. Emit(sent)
    BY <1>4 DEF Invoice
  <2> HIDE DEF sent
  <2>3. /\ \A e \in gate \cup events' : e \in EventSet
        /\ \A q \in RequestRecords : Staged(q) => Staged(q)'
    BY <2>1, <2>2, EmitTyped
  <2> QED
    BY <1>0, <1>4, <2>3 DEF Invoice, TypeInv, TypeOK, server, history
<1>5. CASE Stop(c)
  BY <1>0, <1>5, EndRenewalTyped DEF Stop, TypeInv, TypeOK, server, history
<1>6. CASE \E n \in Renewals : Renew(c, n)
  <2> PICK n \in Renewals : Renew(c, n)
    BY <1>6
  <2>0. n \in Refs
    BY DEF Refs
  <2>1. CASE charge' = [charge EXCEPT ![n] = "paid"]
             /\ due' = [due EXCEPT ![c] = now + Period]
             /\ Emit({Event("charge", n, now + Period), Event("sync", n, now + Period)})
    <3> DEFINE sent == {Event("charge", n, now + Period), Event("sync", n, now + Period)}
    <3>1. \A e \in sent : e.kind \in Kinds => e \in EventSet
      BY <1>0, <2>0 DEF Event, EventSet
    <3>2. Emit(sent)
      BY <2>1
    <3> HIDE DEF sent
    <3>3. /\ \A e \in gate \cup events' : e \in EventSet
          /\ \A q \in RequestRecords : Staged(q) => Staged(q)'
      BY <3>1, <3>2, EmitTyped
    <3>4. /\ due' \in [Checkouts -> Instants]
          /\ \A x \in Checkouts : due'[x] <= MaxTime + Period
      BY <1>0, <2>1 DEF TypeInv
    <3> QED
      BY <1>0, <2>0, <2>1, <3>3, <3>4 DEF Renew, TypeInv, TypeOK, server, history
  <2>2. CASE charge' = [charge EXCEPT ![n] = "failed"]
             /\ Emit({Event("failed", n, 0)}) /\ UNCHANGED due
    <3> DEFINE sent == {Event("failed", n, 0)}
    <3>1. \A e \in sent : e.kind \in Kinds => e \in EventSet
      BY <2>0, ForeverFits DEF Event, EventSet
    <3>2. Emit(sent)
      BY <2>2
    <3> HIDE DEF sent
    <3>3. /\ \A e \in gate \cup events' : e \in EventSet
          /\ \A q \in RequestRecords : Staged(q) => Staged(q)'
      BY <3>1, <3>2, EmitTyped
    <3> QED
      BY <1>0, <2>0, <2>2, <3>3 DEF Renew, TypeInv, TypeOK, server, history
  <2> QED
    BY <2>1, <2>2 DEF Renew
<1> QED
  BY <1>2, <1>3, <1>4, <1>5, <1>6

(* The first state is well typed.                                           *)
LEMMA InitTyped == Init => TypeInv
<1> SUFFICES ASSUME Init PROVE TypeInv
  OBVIOUS
<1>1. now \in Time /\ 0 \in Time
  BY BillingAssumption DEF Init, Time
<1>2. row \in Rows
  BY ForeverFits DEF Init, Rows, Statuses
<1>3. due \in [Checkouts -> Instants] /\ \A c \in Checkouts : due[c] <= MaxTime + Period
  BY ForeverFits, BillingAssumption DEF Init
<1>4. /\ req \in [Requests -> RequestRecords]
      /\ \A r \in Requests : Staged(req[r])
  BY IdleTyped DEF Init
<1> QED
  BY <1>1, <1>2, <1>3, <1>4 DEF Init, TypeInv, TypeOK

(* Every step keeps the types and the discipline of the stages.             *)
LEMMA NextTyped == TypeInv /\ [Next]_vars => TypeInv'
<1> SUFFICES ASSUME TypeInv, [Next]_vars PROVE TypeInv'
  OBVIOUS
<1>1. CASE Tick
  BY <1>1, BillingAssumption
  DEF Tick, Time, TypeInv, TypeOK, Staged, server, history, paystack
<1>2. CASE Paystack
  BY <1>2, PaystackTyped DEF Paystack
<1>3. CASE \E r \in Requests : Server(r)
  <2> PICK r \in Requests : Server(r)
    BY <1>3
  <2> QED
    BY ReadsTyped, WritesTyped, PersistTyped, ActivateTyped, CancelTyped
    DEF Server, Decide, Settle, Webhook
<1>4. CASE UNCHANGED vars
  BY <1>4 DEF vars, server, history, paystack, TypeInv, TypeOK, Staged
<1> QED
  BY <1>1, <1>2, <1>3, <1>4 DEF Next

(* Every row, payment, event and request is well formed, however many       *)
(* handlers interleave and die (subscription.service.ts, webhook.service.ts). *)
THEOREM BillingTyped == Spec => []TypeOK
<1>1. Spec => []TypeInv
  BY InitTyped, NextTyped, PTL DEF Spec
<1> QED
  BY <1>1, PTL DEF TypeInv

-----------------------------------------------------------------------------
(* One handler for each event: whoever handles it has passed the gate, and  *)
(* the gate lets nobody pass a second time.                                 *)
Handling(q) == q.task = "webhook" /\ q.pc # "gate"

GateInv ==
    /\ TypeInv
    /\ \A r \in Requests : Handling(req[r]) => req[r].event \in gate
    /\ \A r, s \in Requests :
          Handling(req[r]) /\ Handling(req[s]) /\ req[r].event = req[s].event => r = s

(* No other step begins to handle an event, and none takes a gate row away. *)
LEMMA OnlyGatePasses ==
    ASSUME TypeInv, NEW r \in Requests, Server(r), ~PassGate(r)
    PROVE  /\ gate' = gate
           /\ \A s \in Requests \ {r} : req'[s] = req[s]
           /\ Handling(req'[r]) => Handling(req[r]) /\ req'[r].event = req[r].event
<1>0. /\ req \in [Requests -> RequestRecords] /\ req[r] \in RequestRecords
      /\ Staged(req[r])
  BY DEF TypeInv, TypeOK
<1>1. CASE \/ \E task \in Tasks : Resolve(r, task)
           \/ \E c \in Checkouts : VerifyRead(r, c)
           \/ \E e \in events : Deliver(r, e)
  BY <1>0, <1>1 DEF Resolve, VerifyRead, Deliver, Step, Idle, Tasks, Handling
<1>2. CASE Persist(r)
  BY <1>0, <1>2 DEF Persist, Step, RequestRecords, Handling
<1>3. CASE \/ Access(r) \/ Cancel(r) \/ Resume(r) \/ SetFree(r)
           \/ PlanGone(r) \/ NoUserMatches(r) \/ Crash(r)
  <2>1. gate' = gate /\ req' = [req EXCEPT ![r] = Idle]
    BY <1>3 DEF Crash, PlanGone, NoUserMatches, Access, Cancel, Resume, SetFree, Decides,
                Done, Step
  <2> QED
    BY <1>0, <2>1 DEF Idle, Handling
<1>4. CASE VerifyAsk(r)
  BY <1>0, <1>4 DEF VerifyAsk, Step, RequestRecords, Staged, Handling
<1>5. CASE Activate(r)
  <2>1. gate' = gate /\ req[r].pc = "activate"
        /\ \/ req' = [req EXCEPT ![r] = Idle]
           \/ req' = [req EXCEPT ![r] = [req[r] EXCEPT !.pc = "mark"]]
    BY <1>5 DEF Activate, Step
  <2> QED
    BY <1>0, <2>1 DEF Idle, Handling, RequestRecords
<1>6. CASE VerifyFail(r) \/ MarkSuccess(r) \/ StartGrace(r) \/ HandleStop(r)
             \/ HandleSync(r) \/ HandleInvoice(r)
  <2>1. gate' = gate /\ req' = [req EXCEPT ![r] = Idle]
    BY <1>6 DEF VerifyFail, MarkSuccess, StartGrace, HandleStop, HandleSync,
                HandleInvoice, Done, Step
  <2> QED
    BY <1>0, <2>1 DEF Idle, Handling
<1>7. CASE HandleCharge(r)
  BY <1>0, <1>7 DEF HandleCharge, Step, RequestRecords, Handling
<1>8. CASE CompareCharge(r)
  BY <1>0, <1>8 DEF CompareCharge, Step, Idle, RequestRecords, Handling
<1>9. CASE HandleFailed(r)
  BY <1>0, <1>9 DEF HandleFailed, Step, Idle, RequestRecords, Handling
<1> QED
  BY <1>1, <1>2, <1>3, <1>4, <1>5, <1>6, <1>7, <1>8, <1>9
  DEF Server, Decide, Settle, Webhook

(* Every step keeps one handler per stored event.                           *)
LEMMA GateHolds == GateInv /\ [Next]_vars => GateInv'
<1> SUFFICES ASSUME GateInv, [Next]_vars PROVE GateInv'
  OBVIOUS
<1>1. TypeInv /\ TypeInv'
  BY NextTyped DEF GateInv
<1>2. CASE UNCHANGED <<gate, req>>
  BY <1>1, <1>2 DEF GateInv
<1>3. ASSUME NEW r \in Requests, Server(r) PROVE GateInv'
  <2>1. CASE ~PassGate(r)
    <3>1. /\ gate' = gate
          /\ \A s \in Requests \ {r} : req'[s] = req[s]
          /\ Handling(req'[r]) => Handling(req[r]) /\ req'[r].event = req[r].event
      BY <1>1, <1>3, <2>1, OnlyGatePasses
    <3>2. \A s \in Requests : Handling(req'[s]) =>
            Handling(req[s]) /\ req'[s].event = req[s].event
      BY <3>1
    <3> QED
      BY <1>1, <3>1, <3>2 DEF GateInv
  <2>2. CASE PassGate(r)
    <3>1. /\ req \in [Requests -> RequestRecords] /\ req[r] \in RequestRecords
          /\ req[r].task = "webhook" /\ req[r].pc = "gate"
      BY <1>1, <2>2 DEF PassGate, TypeInv, TypeOK, Staged, WebhookStages
    <3>2. gate' = gate \cup {req[r].event}
          /\ \A s \in Requests \ {r} : req'[s] = req[s]
      BY <2>2, <3>1 DEF PassGate, Done, Step
    <3>3. CASE req[r].event \in gate
      <4>1. ~Handling(req'[r])
        BY <2>2, <3>1, <3>3 DEF PassGate, Done, Step, Idle, Handling
      <4> QED
        BY <1>1, <3>2, <4>1 DEF GateInv
    <3>4. CASE req[r].event \notin gate
      <4>1. req'[r].event = req[r].event
        BY <2>2, <3>1, <3>4 DEF PassGate, Step, RequestRecords
      <4>2. \A s \in Requests \ {r} :
              Handling(req'[s]) => req'[s].event \in gate /\ req'[s].event # req'[r].event
        BY <3>2, <3>4, <4>1 DEF GateInv
      <4> QED
        BY <1>1, <3>2, <4>1, <4>2 DEF GateInv
    <3> QED
      BY <3>3, <3>4
  <2> QED
    BY <2>1, <2>2
<1>4. CASE Tick
  BY <1>2, <1>4 DEF Tick, server, history
<1>5. CASE Paystack
  BY <1>2, <1>5 DEF Paystack, Checkout, Pay, Invoice, Stop, Renew, server, history
<1> QED
  BY <1>2, <1>3, <1>4, <1>5 DEF Next, vars, server, history

(* However many deliveries of one event pass the duplicate check together,  *)
(* at most one of them handles it (webhook.service.ts:78).                  *)
THEOREM HandledOnce == Spec => []OneHandlerPerEvent
<1>1. Init => GateInv
  <2> SUFFICES ASSUME Init PROVE GateInv
    OBVIOUS
  <2>1. \A r \in Requests : ~Handling(req[r])
    BY DEF Init, Idle, Handling
  <2> QED
    BY <2>1, InitTyped DEF GateInv
<1>2. GateInv => OneHandlerPerEvent
  BY DEF GateInv, OneHandlerPerEvent, Handles, Handling
<1> QED
  BY <1>1, <1>2, GateHolds, PTL DEF Spec

-----------------------------------------------------------------------------
(* Access beyond the trial needs a payment, or free access: free access      *)
(* makes a trial look active, and a cancellation then stores NON_RENEWING.  *)
Allowed == granted \/ \E x \in Refs : charge[x] = "paid"
Paying(w) == w.status \in {"ACTIVE", "NON_RENEWING", "PAYMENT_FAILED"}
Entitled(w) == Paying(w) \/ w.free # 0

(* What a request carries has been paid for.                                *)
Owed(q) ==
    /\ q.pc \in {"charge", "compare", "activate", "mark"} => charge[q.ref] = "paid"
    /\ q.pc \in {"grace", "not_renew", "disable"} => Allowed
    /\ q.pc \in {"persist", "decide"} => (Entitled(q.seen) => Allowed)

RowPaid ==
    /\ Entitled(row) => Allowed
    /\ row.last # NoRef => charge[row.last] = "paid"
PaymentsPaid == \A c \in Checkouts : payment[c] = "SUCCESS" => charge[c] = "paid"
EventsPaid ==
    /\ \A e \in events :
          /\ e.kind = "charge" => charge[e.ref] = "paid"
          /\ e.kind \in {"not_renew", "disable"} => Allowed
    /\ \A c \in Checkouts : due[c] > 0 => Allowed

PaidInv ==
    /\ TypeInv /\ RowPaid /\ PaymentsPaid /\ EventsPaid
    /\ \A r \in Requests : Owed(req[r])

(* A request that reads, or that takes over what it has read.               *)
LEMMA OwedStep ==
    ASSUME PaidInv, NEW r \in Requests, NEW q \in RequestRecords, Step(r, q),
           charge' = charge, granted => granted', Owed(q)
    PROVE  \A s \in Requests : Owed(req[s])'
<1>1. \A s \in Requests : req'[s] = IF s = r THEN q ELSE req[s]
  BY DEF Step, PaidInv, TypeInv, TypeOK
<1>2. Allowed => Allowed'
  BY DEF Allowed
<1>3. ASSUME NEW s \in Requests PROVE Owed(req[s])'
  <2>1. Owed(req[s])
    BY DEF PaidInv
  <2> QED
    BY <1>1, <1>2, <2>1 DEF Owed, Entitled, Paying
<1> QED
  BY <1>3

(* A request that carries nothing owes nothing.                             *)
LEMMA IdleOwed == Idle \in RequestRecords /\ Owed(Idle)
  BY IdleTyped DEF Idle, Owed

(* A request that reads takes over only references that are paid.           *)
LEMMA ReadsOwed ==
    ASSUME PaidInv, NEW r \in Requests,
           \/ \E task \in Tasks : Resolve(r, task)
           \/ \E c \in Checkouts : VerifyRead(r, c)
           \/ \E e \in events : Deliver(r, e)
           \/ VerifyAsk(r) \/ HandleCharge(r) \/ CompareCharge(r)
           \/ HandleFailed(r) \/ PassGate(r)
    PROVE  \A s \in Requests : Owed(req[s])'
<1>0. /\ req[r] \in RequestRecords /\ Staged(req[r]) /\ Owed(req[r])
      /\ charge' = charge /\ granted' = granted /\ RowPaid /\ EventsPaid
      /\ row \in Rows
  BY DEF PaidInv, TypeInv, TypeOK, paystack, history, Resolve, VerifyRead, Deliver,
         VerifyAsk, HandleCharge, CompareCharge, HandleFailed, PassGate
<1>1. SUFFICES \E q : Step(r, q) /\ Owed(q)
  <2> PICK q : Step(r, q) /\ Owed(q)
    BY <1>1
  <2>1. req'[r] = q /\ req' \in [Requests -> RequestRecords]
    BY ReadsTyped DEF Step, PaidInv, TypeInv, TypeOK
  <2> QED
    BY <1>0, <2>1, OwedStep
<1>2. CASE \E task \in Tasks : Resolve(r, task)
  <2> PICK task \in Tasks : Resolve(r, task)
    BY <1>2
  <2> DEFINE pc == IF Lapsed(row) THEN "persist" ELSE "decide"
             q == [Idle EXCEPT !.pc = pc, !.task = task, !.seen = row]
  <2>1. pc \in {"persist", "decide"} /\ Step(r, q)
    BY DEF Resolve
  <2> HIDE DEF pc
  <2>2. Owed(q)
    BY <1>0, <2>1 DEF Owed, Idle, RowPaid
  <2> QED
    BY <2>1, <2>2
<1>3. CASE \E c \in Checkouts : VerifyRead(r, c)
  <2> PICK c \in Checkouts : VerifyRead(r, c)
    BY <1>3
  <2> DEFINE q == [Idle EXCEPT !.pc = "ask", !.task = "verify", !.ref = c]
  <2>1. Step(r, q) /\ Owed(q)
    BY DEF VerifyRead, Owed, Idle
  <2> QED
    BY <2>1
<1>4. CASE \E e \in events : Deliver(r, e)
  <2> PICK e \in events : Deliver(r, e)
    BY <1>4
  <2> DEFINE q == [Idle EXCEPT !.pc = "gate", !.task = "webhook", !.event = e,
                               !.ref = e.ref]
  <2>1. Step(r, q) /\ Owed(q)
    BY DEF Deliver, Owed, Idle
  <2> QED
    BY <2>1
<1>5. CASE VerifyAsk(r)
  <2>1. CASE charge[req[r].ref] = "paid"
    BY <1>0, <1>5, <2>1 DEF VerifyAsk, Owed, RequestRecords
  <2>2. CASE charge[req[r].ref] # "paid"
    BY <1>0, <1>5, <2>2 DEF VerifyAsk, Owed, RequestRecords
  <2> QED
    BY <2>1, <2>2
<1>6. CASE HandleCharge(r)
  <2> DEFINE q == [req[r] EXCEPT !.pc = "compare", !.pay = PaymentOf(req[r].ref)]
  <2>1. Step(r, q) /\ Owed(q)
    BY <1>0, <1>6 DEF HandleCharge, Owed, RequestRecords
  <2> QED
    BY <2>1
<1>7. CASE CompareCharge(r)
  <2> DEFINE q == [req[r] EXCEPT !.pc = "activate"]
  <2>1. (Step(r, q) \/ Step(r, Idle)) /\ Owed(q)
    BY <1>0, <1>7 DEF CompareCharge, Owed, RequestRecords
  <2> QED
    BY <2>1, IdleOwed
<1>8. CASE HandleFailed(r)
  <2> DEFINE q == [req[r] EXCEPT !.pc = "grace"]
  <2>1. Step(r, Idle) \/ (Step(r, q) /\ Allowed)
    BY <1>0, <1>8 DEF HandleFailed, RowPaid, Entitled, Paying
  <2>2. Allowed => Owed(q)
    BY <1>0 DEF Owed, RequestRecords
  <2> QED
    BY <2>1, <2>2, IdleOwed
<1>9. CASE PassGate(r)
  <2>1. req[r].event \in events /\ req[r].ref = req[r].event.ref
        /\ req[r].event.kind \in Kinds
    BY <1>0, <1>9 DEF PassGate, Staged, WebhookStages, PaidInv, TypeInv, TypeOK, EventSet
  <2>2. Owed([req[r] EXCEPT !.pc = req[r].event.kind])
    BY <1>0, <2>1, BillingAssumption DEF Owed, EventsPaid, RequestRecords
  <2> QED
    BY <1>9, <2>2, IdleOwed DEF PassGate, Done
<1> QED
  BY <1>2, <1>3, <1>4, <1>5, <1>6, <1>7, <1>8, <1>9

(* A request that ends with a write of the row.                             *)
LEMMA RowKept ==
    ASSUME PaidInv, NEW r \in Requests, Step(r, Idle),
           charge' = charge, payment' = payment, granted => granted',
           row'.last = row.last, Entitled(row') => Allowed'
    PROVE  RowPaid' /\ PaymentsPaid' /\ \A s \in Requests : Owed(req[s])'
<1>1. RowPaid /\ PaymentsPaid
  BY DEF PaidInv
<1>3. RowPaid'
  BY <1>1 DEF RowPaid, Entitled, Paying
<1>4. PaymentsPaid'
  BY <1>1 DEF PaymentsPaid
<1>5. \A s \in Requests : Owed(req[s])'
  BY IdleOwed, OwedStep
<1> QED
  BY <1>3, <1>4, <1>5

(* The steps that write the row or a payment.                               *)
LEMMA WritesPaid ==
    ASSUME PaidInv, NEW r \in Requests,
           \/ Decide(r) \/ VerifyFail(r) \/ Activate(r) \/ MarkSuccess(r)
           \/ StartGrace(r) \/ HandleStop(r) \/ HandleSync(r) \/ HandleInvoice(r)
           \/ PlanGone(r) \/ NoUserMatches(r) \/ Crash(r)
    PROVE  /\ charge' = charge /\ (granted => granted')
           /\ RowPaid' /\ PaymentsPaid'
           /\ \A s \in Requests : Owed(req[s])'
<1>0. /\ req[r] \in RequestRecords /\ Staged(req[r]) /\ Owed(req[r]) /\ row \in Rows
      /\ RowPaid /\ PaymentsPaid
      /\ payment \in [Checkouts -> {"none", "PENDING", "SUCCESS", "FAILED"}]
  BY DEF PaidInv, TypeInv, TypeOK
<1>1. charge' = charge /\ (granted => granted')
  <2>1. charge' = charge
    BY DEF Decide, Persist, Access, Cancel, Resume, SetFree, VerifyFail, Activate,
           MarkSuccess, StartGrace, HandleStop, HandleSync, HandleInvoice, PlanGone,
           NoUserMatches, Crash, EndRenewal, paystack
  <2>2. CASE SetFree(r)
    BY <2>1, <2>2, Zenon DEF SetFree
  <2>3. CASE ~SetFree(r)
    <3>1. granted' = granted
      BY <2>3 DEF Decide, Persist, Access, Cancel, Resume, VerifyFail, Activate,
             MarkSuccess, StartGrace, HandleStop, HandleSync, HandleInvoice, PlanGone,
             NoUserMatches, Crash, history
    <3> QED
      BY <2>1, <3>1, Zenon
  <2> QED
    BY <2>2, <2>3
<1>2. Allowed => Allowed'
  BY <1>1 DEF Allowed
<1>3. CASE Persist(r)
  <2> DEFINE q == [req[r] EXCEPT !.pc = "decide", !.seen = row']
  <2>1. Step(r, q) /\ row' = [row EXCEPT !.status = "EXPIRED"] /\ payment' = payment
    BY <1>3 DEF Persist
  <2>2. row'.free = row.free /\ ~Paying(row') /\ row'.last = row.last
    BY <1>0, <2>1 DEF Paying, Rows
  <2>3. q \in RequestRecords
    <3>1. row' \in Rows /\ "decide" \in Stages
      BY <1>0, <2>1 DEF Rows, Statuses, Stages
    <3> QED
      BY <1>0, <3>1, SeenTyped
  <2>4. Owed(q)
    BY <1>0, <2>2 DEF Owed, RowPaid, Entitled, RequestRecords
  <2>5. \A s \in Requests : Owed(req[s])'
    BY <1>1, <2>1, <2>3, <2>4, OwedStep
  <2>6. RowPaid' /\ PaymentsPaid'
    BY <1>0, <1>1, <1>2, <2>1, <2>2 DEF RowPaid, PaymentsPaid, Entitled, Paying
  <2> QED
    BY <1>1, <2>5, <2>6
<1>4. CASE Activate(r)
  <2> DEFINE q == [req[r] EXCEPT !.pc = "mark"]
  <2>1. (Step(r, q) \/ Step(r, Idle)) /\ payment' = payment
    BY <1>4 DEF Activate
  <2>2. charge[req[r].ref] = "paid" /\ req[r].ref \in Refs
    BY <1>0, <1>4 DEF Activate, Owed, Staged
  <2>3. q \in RequestRecords /\ Owed(q)
    BY <1>0, <2>2 DEF RequestRecords, Stages, Owed
  <2>4. \A s \in Requests : Owed(req[s])'
    BY <1>1, <2>1, <2>3, IdleOwed, OwedStep
  <2>5. row'.last = req[r].ref
    BY <1>0, <1>4 DEF Activate, Activated, Rows
  <2>6. RowPaid' /\ PaymentsPaid'
    BY <1>0, <1>1, <1>2, <2>1, <2>2, <2>5 DEF RowPaid, PaymentsPaid, Allowed
  <2> QED
    BY <1>1, <2>4, <2>6
<1>5. Entitled(row) => Allowed
  BY <1>0 DEF RowPaid
<1>6. CASE Cancel(r)
  <2>1. payment' = payment /\ req[r].pc = "decide" /\ Step(r, Idle)
    BY <1>6 DEF Cancel, Decides, Done
  <2>2. \/ row' = row
        \/ row' = Stopped(row, row.periodEnd) /\ Effective(req[r].seen) = "ACTIVE"
    BY <1>6 DEF Cancel
  <2>3. Effective(req[r].seen) = "ACTIVE" => Allowed
    <3>1. req[r].seen \in Rows /\ now \in Nat
      BY <1>0, <2>1, BillingAssumption DEF Staged, PaidInv, TypeInv, TypeOK, Time
    <3>2. Free(req[r].seen) => req[r].seen.free # 0
      BY <3>1 DEF Free, Rows
    <3> QED
      BY <1>0, <2>1, <3>2 DEF Effective, Owed, Entitled, Paying
  <2>4. row'.free = row.free /\ row'.last = row.last
    BY <1>0, <1>5, <2>2 DEF Stopped, Rows
  <2>5. Entitled(row') => Allowed'
    BY <1>2, <1>5, <2>2, <2>3, <2>4 DEF Entitled
  <2> QED
    BY <1>1, <2>1, <2>4, <2>5, RowKept
<1>7. CASE Resume(r)
  <2>1. payment' = payment /\ req[r].pc = "decide" /\ Step(r, Idle)
    BY <1>7 DEF Resume, Decides, Done
  <2>2. \/ row' = row
        \/ /\ row' = [row EXCEPT !.status = "ACTIVE", !.cancelling = FALSE]
           /\ Effective(req[r].seen) \in {"ACTIVE", "NON_RENEWING"}
    BY <1>7 DEF Resume
  <2>3. Effective(req[r].seen) \in {"ACTIVE", "NON_RENEWING"} => Allowed
    <3>1. req[r].seen \in Rows /\ now \in Nat
      BY <1>0, <2>1, BillingAssumption DEF Staged, PaidInv, TypeInv, TypeOK, Time
    <3>2. Free(req[r].seen) => req[r].seen.free # 0
      BY <3>1 DEF Free, Rows
    <3> QED
      BY <1>0, <2>1, <3>2 DEF Effective, Owed, Entitled, Paying
  <2>4. row'.free = row.free /\ row'.last = row.last
    BY <1>0, <1>5, <2>2 DEF Rows
  <2>5. Entitled(row') => Allowed'
    BY <1>2, <1>5, <2>2, <2>3, <2>4 DEF Entitled
  <2> QED
    BY <1>1, <2>1, <2>4, <2>5, RowKept
<1>8. CASE Access(r) \/ PlanGone(r) \/ NoUserMatches(r) \/ Crash(r)
  <2>1. row' = row /\ payment' = payment /\ Step(r, Idle)
    BY <1>8 DEF Access, PlanGone, NoUserMatches, Crash, Decides, Done
  <2> QED
    BY <1>1, <1>2, <1>5, <2>1, RowKept
<1>9. CASE SetFree(r)
  <2>1. payment' = payment /\ Step(r, Idle) /\ Allowed'
    BY <1>9 DEF SetFree, Decides, Done, Allowed
  <2>2. row'.last = row.last
    BY <1>0, <1>9 DEF SetFree, Rows
  <2> QED
    BY <1>1, <2>1, <2>2, RowKept
<1>10. CASE VerifyFail(r) \/ MarkSuccess(r)
  <2>1. row' = row /\ Step(r, Idle)
    BY <1>10 DEF VerifyFail, MarkSuccess, Done
  <2>2. PaymentsPaid'
    <3>1. CASE VerifyFail(r)
      BY <1>0, <1>1, <3>1 DEF VerifyFail, PaymentsPaid
    <3>2. CASE MarkSuccess(r)
      BY <1>0, <1>1, <3>2 DEF MarkSuccess, PaymentsPaid, Owed
    <3> QED
      BY <1>10, <3>1, <3>2
  <2>3. RowPaid'
    BY <1>0, <1>1, <1>2, <2>1 DEF RowPaid, Entitled, Paying
  <2>4. \A s \in Requests : Owed(req[s])'
    BY <1>1, <2>1, IdleOwed, OwedStep
  <2> QED
    BY <1>1, <2>2, <2>3, <2>4
<1>11. CASE StartGrace(r)
  <2>1. payment' = payment /\ Step(r, Idle) /\ Allowed
    BY <1>0, <1>11 DEF StartGrace, Done, Owed
  <2>2. row'.last = row.last
    BY <1>0, <1>11 DEF StartGrace, Rows
  <2> QED
    BY <1>1, <1>2, <2>1, <2>2, RowKept
<1>12. CASE HandleStop(r)
  <2>1. payment' = payment /\ Step(r, Idle) /\ Allowed
    BY <1>0, <1>12 DEF HandleStop, Done, Owed
  <2>2. PICK end : row' = Stopped(row, end)
    BY <1>12 DEF HandleStop
  <2>3. row'.last = row.last
    BY <1>0, <2>2 DEF Stopped, Rows
  <2> QED
    BY <1>1, <1>2, <2>1, <2>3, RowKept
<1>13. CASE HandleSync(r)
  <2>1. payment' = payment /\ Step(r, Idle)
    BY <1>13 DEF HandleSync, Done
  <2>2. row'.free = row.free /\ row'.last = row.last /\ row'.status = row.status
    BY <1>0, <1>13 DEF HandleSync, Rows
  <2> QED
    BY <1>1, <1>2, <1>5, <2>1, <2>2, RowKept DEF Entitled, Paying
<1>14. CASE HandleInvoice(r)
  <2>1. payment' = payment /\ Step(r, Idle)
    BY <1>14 DEF HandleInvoice, Done
  <2>2. row'.free = row.free /\ row'.last = row.last /\ row'.status = row.status
    BY <1>0, <1>14 DEF HandleInvoice, Rows
  <2> QED
    BY <1>1, <1>2, <1>5, <2>1, <2>2, RowKept DEF Entitled, Paying
<1> QED
  BY <1>1, <1>3, <1>4, <1>6, <1>7, <1>8, <1>9, <1>10, <1>11, <1>12, <1>13, <1>14
  DEF Decide

(* A subscription that ends had been paid for.                              *)
LEMMA EndRenewalPaid ==
    ASSUME PaidInv, NEW c \in Checkouts, EndRenewal(c), charge' = charge,
           granted => granted'
    PROVE  EventsPaid'
<1>1. EventsPaid /\ due \in [Checkouts -> Instants]
  BY DEF PaidInv, TypeInv, TypeOK
<1>2. Allowed /\ Allowed'
  BY <1>1 DEF EndRenewal, EventsPaid, Allowed
<1>3. \A e \in events' \ events : e.kind \in {"not_renew", "disable"}
  BY DEF EndRenewal, Emit, Event
<1> QED
  BY <1>1, <1>2, <1>3 DEF EventsPaid

(* Paystack's steps only add payments, and announce what is paid.           *)
LEMMA PaystackPaid ==
    ASSUME PaidInv, NEW c \in Checkouts,
           \/ Checkout(c) \/ Pay(c) \/ Invoice(c) \/ Stop(c)
           \/ \E n \in Renewals : Renew(c, n)
    PROVE  /\ \A x \in Refs : charge[x] = "paid" => charge'[x] = "paid"
           /\ granted' = granted /\ EventsPaid'
<1>0. /\ charge \in [Refs -> {"none", "open", "paid", "failed"}]
      /\ due \in [Checkouts -> Instants] /\ c \in Refs /\ Renewals \subseteq Refs
      /\ EventsPaid /\ \A e \in events : e.ref \in Refs
  BY DEF PaidInv, TypeInv, TypeOK, Refs, EventSet
<1>1. /\ \A x \in Refs : charge[x] = "paid" => charge'[x] = "paid"
      /\ granted' = granted
  BY <1>0 DEF Checkout, Pay, Invoice, Stop, Renew, server, history
<1>2. Allowed => Allowed'
  BY <1>1 DEF Allowed
<1>3. CASE Checkout(c)
  BY <1>0, <1>1, <1>2, <1>3 DEF Checkout, EventsPaid
<1>4. CASE Pay(c)
  <2>1. charge'[c] = "paid" /\ Allowed'
    BY <1>0, <1>4 DEF Pay, Allowed
  <2>2. \A e \in events' \ events : e.kind = "charge" => e.ref = c
    BY <1>4 DEF Pay, Emit, Event
  <2> QED
    BY <1>0, <1>1, <2>1, <2>2 DEF EventsPaid
<1>5. CASE Invoice(c)
  <2>1. \A e \in events' \ events : e.kind = "invoice"
    BY <1>5 DEF Invoice, Emit, Event
  <2> QED
    BY <1>0, <1>1, <1>2, <1>5, <2>1 DEF EventsPaid, Invoice
<1>6. CASE Stop(c)
  BY <1>1, <1>6, EndRenewalPaid DEF Stop
<1>7. CASE \E n \in Renewals : Renew(c, n)
  <2> PICK n \in Renewals : Renew(c, n)
    BY <1>7
  <2>1. Allowed
    BY <1>0 DEF Renew, EventsPaid
  <2>2. \A e \in events' \ events :
          \/ e.kind = "charge" /\ e.ref = n /\ charge'[n] = "paid"
          \/ e.kind \in {"sync", "failed"}
    BY <1>0 DEF Renew, Emit, Event
  <2> QED
    BY <1>0, <1>1, <1>2, <2>1, <2>2 DEF EventsPaid
<1> QED
  BY <1>1, <1>3, <1>4, <1>5, <1>6, <1>7

(* Every step keeps what looks paid paid.                                   *)
LEMMA PaidHolds == PaidInv /\ [Next]_vars => PaidInv'
<1> SUFFICES ASSUME PaidInv, [Next]_vars PROVE PaidInv'
  OBVIOUS
<1>0. TypeInv /\ TypeInv'
  BY NextTyped DEF PaidInv
<1>1. CASE UNCHANGED <<server, paystack>>
  BY <1>0, <1>1
  DEF server, history, paystack, PaidInv, RowPaid, PaymentsPaid, EventsPaid, Owed,
      Allowed, Entitled, Paying
<1>2. CASE Paystack
  <2>1. PICK c \in Checkouts : \/ Checkout(c) \/ Pay(c) \/ Invoice(c) \/ Stop(c)
                               \/ \E n \in Renewals : Renew(c, n)
    BY <1>2 DEF Paystack
  <2>2. /\ \A x \in Refs : charge[x] = "paid" => charge'[x] = "paid"
        /\ granted' = granted /\ EventsPaid'
    BY <2>1, PaystackPaid
  <2>3. Allowed => Allowed'
    BY <2>2 DEF Allowed
  <2>4. row' = row /\ req' = req
    BY <2>1 DEF Checkout, Pay, Invoice, Stop, Renew, server, history
  <2>5. RowPaid'
    BY <2>2, <2>3, <2>4 DEF PaidInv, RowPaid, TypeInv, TypeOK, Rows, Entitled, Paying
  <2>6. \A c2 \in Checkouts : payment'[c2] = "SUCCESS" => payment[c2] = "SUCCESS"
    BY <2>1, <1>0 DEF Checkout, Pay, Invoice, Stop, Renew, server, history, TypeInv, TypeOK
  <2>7. PaymentsPaid'
    BY <2>2, <2>6 DEF PaidInv, PaymentsPaid, Refs
  <2>8. ASSUME NEW r \in Requests PROVE Owed(req[r])'
    <3>1. Owed(req[r]) /\ Staged(req[r]) /\ req[r] \in RequestRecords
      BY <1>0 DEF PaidInv, TypeInv, TypeOK
    <3>2. req[r].pc \in {"charge", "compare", "activate", "mark"} => req[r].ref \in Refs
      <4>1. \A e \in events : e.ref \in Refs
        BY <1>0 DEF TypeInv, TypeOK, EventSet
      <4> QED
        BY <3>1, <4>1 DEF Staged, WebhookStages
    <3> QED
      BY <2>2, <2>3, <2>4, <3>1, <3>2 DEF Owed, Entitled, Paying
  <2> QED
    BY <1>0, <2>2, <2>5, <2>7, <2>8 DEF PaidInv
<1>3. ASSUME NEW r \in Requests, Server(r) PROVE PaidInv'
  <2>1. CASE \/ \E task \in Tasks : Resolve(r, task)
             \/ \E c \in Checkouts : VerifyRead(r, c)
             \/ \E e \in events : Deliver(r, e)
             \/ VerifyAsk(r) \/ HandleCharge(r) \/ CompareCharge(r)
             \/ HandleFailed(r) \/ PassGate(r)
    <3>1. \A s \in Requests : Owed(req[s])'
      BY <2>1, ReadsOwed
    <3>2. UNCHANGED <<row, payment, history, paystack>>
      BY <2>1 DEF Resolve, VerifyRead, Deliver, VerifyAsk, HandleCharge,
                  CompareCharge, HandleFailed, PassGate
    <3> QED
      BY <1>0, <3>1, <3>2
      DEF paystack, history, PaidInv, RowPaid, PaymentsPaid, EventsPaid, Allowed,
          Entitled, Paying
  <2>2. CASE \/ Decide(r) \/ VerifyFail(r) \/ Activate(r) \/ MarkSuccess(r)
             \/ StartGrace(r) \/ HandleStop(r) \/ HandleSync(r) \/ HandleInvoice(r)
             \/ PlanGone(r) \/ NoUserMatches(r) \/ Crash(r)
    <3>1. /\ charge' = charge /\ (granted => granted')
          /\ RowPaid' /\ PaymentsPaid'
          /\ \A s \in Requests : Owed(req[s])'
      BY <2>2, WritesPaid
    <3>2. EventsPaid'
      <4>1. CASE UNCHANGED <<due, events>>
        BY <3>1, <4>1 DEF PaidInv, EventsPaid, Allowed
      <4>2. CASE \E c \in Checkouts : EndRenewal(c)
        BY <3>1, <4>2, EndRenewalPaid
      <4> QED
        BY <2>2, <4>1, <4>2
        DEF Decide, Persist, Access, Cancel, Resume, SetFree, VerifyFail, Activate,
            MarkSuccess, StartGrace, HandleStop, HandleSync, HandleInvoice, PlanGone,
            NoUserMatches, Crash, paystack
    <3> QED
      BY <1>0, <3>1, <3>2 DEF PaidInv
  <2> QED
    BY <1>3, <2>1, <2>2 DEF Server, Settle, Webhook
<1> QED
  BY <1>1, <1>2, <1>3 DEF Next, Tick, vars

(* Before anything happens nothing looks paid.                              *)
LEMMA PaidAtFirst == Init => PaidInv
<1> SUFFICES ASSUME Init PROVE PaidInv
  OBVIOUS
<1>1. TypeInv
  BY InitTyped
<1>2. RowPaid /\ PaymentsPaid /\ EventsPaid
  BY DEF Init, RowPaid, PaymentsPaid, EventsPaid, Entitled, Paying
<1>3. \A r \in Requests : Owed(req[r])
  BY IdleOwed DEF Init
<1> QED
  BY <1>1, <1>2, <1>3 DEF PaidInv

(* Unless an admin once gave it free access, no order of verifications,     *)
(* webhooks, cancellations, resumptions and crashes makes an unpaid account *)
(* look paid (subscription.service.ts:347).                                 *)
THEOREM PaidOnly == Spec => []PaidMeansPaid
<1>1. Init => PaidInv
  BY PaidAtFirst
<1>2. PaidInv => PaidMeansPaid
  BY DEF PaidInv, RowPaid, PaymentsPaid, PaidMeansPaid, Allowed, Entitled, Paying
<1> QED
  BY <1>1, <1>2, PaidHolds, PTL DEF Spec

-----------------------------------------------------------------------------
(* How a request moves on: it begins, ends, or keeps what it is about; and  *)
(* who leads to the stages that matter below.                               *)
Keeps(q, p) == p.task = q.task /\ p.ref = q.ref /\ p.event = q.event

Arrives(r) ==
    /\ req'[r].pc = "persist" => \E task \in Tasks : Resolve(r, task)
    /\ req'[r].pc = "activate" => VerifyAsk(r) \/ CompareCharge(r)
    /\ req'[r].pc = "mark" => Activate(r)
    /\ req'[r].pc = "compare" => HandleCharge(r)
    /\ req'[r].pc = "charge" => PassGate(r) /\ req[r].event.kind = "charge"

LEMMA Moves ==
    ASSUME TypeInv, NEW r \in Requests, Server(r)
    PROVE  /\ \A s \in Requests \ {r} : req'[s] = req[s]
           /\ \/ \E task \in Tasks : Resolve(r, task)
              \/ \E c \in Checkouts : VerifyRead(r, c)
              \/ \E e \in events : Deliver(r, e)
              \/ req'[r] = Idle \/ Keeps(req[r], req'[r])
           /\ Arrives(r)
<1>0. /\ req \in [Requests -> RequestRecords] /\ req[r] \in RequestRecords
      /\ Staged(req[r])
  BY DEF TypeInv, TypeOK
<1>1. CASE \E task \in Tasks : Resolve(r, task)
  BY <1>0, <1>1 DEF Resolve, Step, Idle, Arrives
<1>2. CASE (\E c \in Checkouts : VerifyRead(r, c)) \/ (\E e \in events : Deliver(r, e))
  BY <1>0, <1>2 DEF VerifyRead, Deliver, Step, Idle, Arrives
<1>3. CASE PassGate(r)
  <2>1. req[r].pc = "gate" /\ req[r].event.kind \in Kinds
    BY <1>0, <1>3 DEF PassGate, Staged, WebhookStages, TypeInv, TypeOK, EventSet
  <2>2. \/ req'[r] = Idle
        \/ Keeps(req[r], req'[r]) /\ req'[r].pc = req[r].event.kind
    BY <1>0, <1>3 DEF PassGate, Done, Step, RequestRecords, Keeps
  <2>3. \A s \in Requests \ {r} : req'[s] = req[s]
    BY <1>0, <1>3 DEF PassGate, Done, Step
  <2>4. Arrives(r)
    BY <1>3, <2>1, <2>2, BillingAssumption DEF Arrives, Idle
  <2> QED
    BY <2>2, <2>3, <2>4
<1>4. CASE \/ Access(r) \/ Cancel(r) \/ Resume(r) \/ SetFree(r) \/ Crash(r)
           \/ PlanGone(r) \/ NoUserMatches(r) \/ VerifyFail(r) \/ MarkSuccess(r)
           \/ StartGrace(r) \/ HandleStop(r) \/ HandleSync(r) \/ HandleInvoice(r)
  <2>1. req' = [req EXCEPT ![r] = Idle]
    BY <1>4 DEF Access, Cancel, Resume, SetFree, Crash, PlanGone, NoUserMatches,
                VerifyFail, MarkSuccess, StartGrace, HandleStop, HandleSync,
                HandleInvoice, Decides, Done, Step
  <2> QED
    BY <1>0, <2>1 DEF Idle, Arrives
<1>5. CASE Persist(r)
  BY <1>0, <1>5 DEF Persist, Step, RequestRecords, Keeps, Arrives
<1>6. CASE VerifyAsk(r)
  BY <1>0, <1>6 DEF VerifyAsk, Step, RequestRecords, Keeps, Arrives
<1>7. CASE HandleCharge(r)
  BY <1>0, <1>7 DEF HandleCharge, Step, RequestRecords, Keeps, Arrives
<1>8. CASE CompareCharge(r)
  BY <1>0, <1>8 DEF CompareCharge, Step, Idle, RequestRecords, Keeps, Arrives
<1>9. CASE HandleFailed(r)
  BY <1>0, <1>9 DEF HandleFailed, Step, Idle, RequestRecords, Keeps, Arrives
<1>10. CASE Activate(r)
  BY <1>0, <1>10 DEF Activate, Step, Idle, RequestRecords, Keeps, Arrives
<1> QED
  BY <1>1, <1>2, <1>3, <1>4, <1>5, <1>6, <1>7, <1>8, <1>9, <1>10
  DEF Server, Decide, Settle, Webhook

(* Only an activation adds to the history, only a verification that fails   *)
(* or a settlement writes a payment, and Paystack alone charges.            *)
LEMMA OnlySettlements ==
    ASSUME TypeInv, NEW r \in Requests, Server(r)
    PROVE  /\ charge' = charge /\ gate \subseteq gate'
           /\ ~VerifyFail(r) /\ ~MarkSuccess(r) => payment' = payment
           /\ ~Activate(r) => activated' = activated
<1>1. CASE \/ \E task \in Tasks : Resolve(r, task)
           \/ \E c \in Checkouts : VerifyRead(r, c)
           \/ \E e \in events : Deliver(r, e)
           \/ Access(r) \/ Crash(r) \/ PlanGone(r) \/ NoUserMatches(r)
           \/ VerifyAsk(r) \/ HandleCharge(r) \/ CompareCharge(r) \/ HandleFailed(r)
  BY <1>1 DEF Resolve, VerifyRead, Deliver, Access, Crash, PlanGone, NoUserMatches,
              VerifyAsk, HandleCharge, CompareCharge, HandleFailed, paystack, history
<1>2. CASE PassGate(r) \/ Persist(r) \/ Cancel(r) \/ Resume(r) \/ SetFree(r)
  BY <1>2 DEF PassGate, Persist, Cancel, Resume, SetFree, paystack, history
<1>3. CASE StartGrace(r) \/ HandleStop(r) \/ HandleSync(r) \/ HandleInvoice(r)
  BY <1>3 DEF StartGrace, HandleStop, HandleSync, HandleInvoice, paystack, history
<1>4. CASE VerifyFail(r) \/ MarkSuccess(r) \/ Activate(r)
  BY <1>4 DEF VerifyFail, MarkSuccess, Activate, paystack, history
<1> QED
  BY <1>1, <1>2, <1>3, <1>4 DEF Server, Decide, Settle, Webhook

(* Time and Paystack leave the requests, the row and the history alone, and *)
(* settle no payment.                                                       *)
LEMMA Outside ==
    ASSUME TypeInv, Tick \/ Paystack \/ UNCHANGED vars
    PROVE  /\ req' = req /\ row' = row /\ gate' = gate /\ activated' = activated
           /\ now' \in {now, now + 1}
           /\ \A c \in Checkouts : payment'[c] = "SUCCESS" => payment[c] = "SUCCESS"
<1>0. payment \in [Checkouts -> {"none", "PENDING", "SUCCESS", "FAILED"}]
  BY DEF TypeInv, TypeOK
<1> QED
  BY <1>0 DEF Tick, Paystack, Checkout, Pay, Invoice, Stop, Renew, vars, server, history,
              paystack

-----------------------------------------------------------------------------
(* A payment is closed by whoever has applied it.                           *)
AppliedInv ==
    /\ TypeInv /\ SettledIsApplied
    /\ \A r \in Requests : req[r].pc = "mark" => activated[req[r].ref] # {}

LEMMA AppliedHolds == AppliedInv /\ [Next]_vars => AppliedInv'
<1> SUFFICES ASSUME AppliedInv, [Next]_vars PROVE AppliedInv'
  OBVIOUS
<1>0. /\ TypeInv /\ TypeInv' /\ activated \in [Refs -> SUBSET Time]
      /\ payment \in [Checkouts -> {"none", "PENDING", "SUCCESS", "FAILED"}]
      /\ Checkouts \subseteq Refs
  BY NextTyped DEF AppliedInv, TypeInv, TypeOK, Refs
<1>1. CASE Tick \/ Paystack \/ UNCHANGED vars
  BY <1>0, <1>1, Outside DEF AppliedInv, SettledIsApplied
<1>2. ASSUME NEW r \in Requests, Server(r) PROVE AppliedInv'
  <2>0. req[r] \in RequestRecords /\ Staged(req[r]) /\ req \in [Requests -> RequestRecords]
    BY <1>0 DEF TypeInv, TypeOK
  <2>1. \A x \in Refs : activated[x] # {} => activated'[x] # {}
    <3>1. CASE Activate(r)
      BY <1>0, <3>1 DEF Activate
    <3> QED
      BY <1>0, <1>2, <3>1, OnlySettlements
  <2>2. SettledIsApplied'
    <3>1. CASE VerifyFail(r)
      BY <1>0, <2>1, <3>1 DEF VerifyFail, AppliedInv, SettledIsApplied
    <3>2. CASE MarkSuccess(r)
      BY <1>0, <2>1, <3>2 DEF MarkSuccess, AppliedInv, SettledIsApplied
    <3> QED
      BY <1>0, <1>2, <2>1, <3>1, <3>2, OnlySettlements DEF AppliedInv, SettledIsApplied
  <2>3. ASSUME NEW s \in Requests, req'[s].pc = "mark"
        PROVE  activated'[req'[s].ref] # {}
    <3>1. CASE s = r
      <4>1. Activate(r)
        BY <1>0, <1>2, <2>3, <3>1, Moves DEF Arrives
      <4>2. req'[r].ref = req[r].ref /\ req[r].ref \in Refs
        BY <2>0, <2>3, <3>1, <4>1 DEF Activate, Step, Staged, RequestRecords, Idle
      <4> QED
        BY <1>0, <3>1, <4>1, <4>2 DEF Activate
    <3>2. CASE s # r
      <4>1. req'[s] = req[s]
        BY <1>0, <1>2, <3>2, Moves
      <4>2. req[s].ref \in Refs
        BY <1>0, <2>3, <4>1 DEF TypeInv, Staged
      <4> QED
        BY <2>1, <2>3, <4>1, <4>2 DEF AppliedInv
    <3> QED
      BY <3>1, <3>2
  <2> QED
    BY <1>0, <2>2, <2>3 DEF AppliedInv
<1> QED
  BY <1>1, <1>2 DEF Next

(* A payment row is closed only after its payment was applied, however many *)
(* handlers race and wherever they die: what the gate swallows of a         *)
(* checkout's charge can be verified again (subscription.service.ts:391).   *)
THEOREM ClosedIsApplied == Spec => []SettledIsApplied
<1>1. Init => AppliedInv
  BY InitTyped DEF Init, AppliedInv, SettledIsApplied, Idle
<1> QED
  BY <1>1, AppliedHolds, PTL DEF Spec, AppliedInv

-----------------------------------------------------------------------------
(* A request that is about to store EXPIRED read a row that had lapsed, and *)
(* what has lapsed once has lapsed at any later time.                       *)
ReadLapsed ==
    TypeInv /\ \A r \in Requests : req[r].pc = "persist" => Lapsed(req[r].seen)

LEMMA StillLapsed ==
    ASSUME NEW w \in Rows, now \in Nat, now' \in {now, now + 1}, Lapsed(w)
    PROVE  Lapsed(w)'
<1>1. w.trialEnd \in Nat /\ w.periodEnd \in Nat /\ w.graceEnd \in Nat
  BY ForeverFits DEF Rows, Instants
<1> QED
  BY <1>1 DEF Lapsed

(* A step of the server takes no time.                                      *)
LEMMA NoTime == ASSUME NEW r \in Requests, Server(r) PROVE now' = now
  BY DEF Server, Decide, Settle, Webhook, Resolve, VerifyRead, Deliver, Persist, Access,
         Cancel, Resume, SetFree, VerifyAsk, VerifyFail, Activate, PlanGone,
         MarkSuccess, PassGate, NoUserMatches, HandleCharge, CompareCharge,
         HandleFailed, StartGrace, HandleStop, HandleSync, HandleInvoice, Crash

LEMMA ReadLapsedHolds == ReadLapsed /\ [Next]_vars => ReadLapsed'
<1> SUFFICES ASSUME ReadLapsed, [Next]_vars PROVE ReadLapsed'
  OBVIOUS
<1>0. TypeInv /\ TypeInv' /\ now \in Nat /\ req \in [Requests -> RequestRecords]
  BY NextTyped, BillingAssumption DEF ReadLapsed, TypeInv, TypeOK, Time
<1>1. \A r \in Requests : req[r].pc = "persist" => req[r].seen \in Rows
  BY <1>0 DEF TypeInv, Staged
<1>2. CASE Tick \/ Paystack \/ UNCHANGED vars
  <2>1. req' = req /\ now' \in {now, now + 1}
    BY <1>0, <1>2, Outside
  <2> QED
    BY <1>0, <1>1, <2>1, StillLapsed DEF ReadLapsed
<1>3. ASSUME NEW r \in Requests, Server(r) PROVE ReadLapsed'
  <2>1. now' = now
    BY <1>3, NoTime
  <2>2. ASSUME NEW s \in Requests, req'[s].pc = "persist" PROVE Lapsed(req[s].seen)'
    <3>1. CASE s = r
      <4>1. PICK task \in Tasks : Resolve(r, task)
        BY <1>0, <1>3, <2>2, <3>1, Moves DEF Arrives
      <4>2. req'[r].seen = row /\ Lapsed(row)
        BY <1>0, <2>2, <3>1, <4>1 DEF Resolve, Step, Idle
      <4> QED
        BY <2>1, <3>1, <4>2 DEF Lapsed
    <3>2. CASE s # r
      <4>1. req'[s] = req[s] /\ Lapsed(req[s].seen)
        BY <1>0, <1>3, <2>2, <3>2, Moves DEF ReadLapsed
      <4> QED
        BY <2>1, <4>1 DEF Lapsed
    <3> QED
      BY <3>1, <3>2
  <2> QED
    BY <1>0, <2>2 DEF ReadLapsed
<1> QED
  BY <1>2, <1>3 DEF Next

(* Nothing but Persist lets an account expire.                              *)
LEMMA ExpiresByPersist ==
    ASSUME TypeInv, [Next]_vars, row.status # "EXPIRED", row'.status = "EXPIRED"
    PROVE  \E r \in Requests : Persist(r)
<1>0. row \in Rows
  BY DEF TypeInv, TypeOK
<1>1. PICK r \in Requests : Server(r)
  BY DEF Next, Tick, Paystack, Checkout, Pay, Invoice, Stop, Renew, vars, server
<1>2. ~Cancel(r) /\ ~Resume(r) /\ ~SetFree(r)
  BY <1>0 DEF Cancel, Resume, SetFree, Stopped, Rows
<1>3. /\ ~StartGrace(r) /\ ~HandleStop(r) /\ ~HandleSync(r) /\ ~HandleInvoice(r)
      /\ ~Activate(r)
  BY <1>0 DEF StartGrace, HandleStop, HandleSync, HandleInvoice, Activate, Activated,
              Stopped, Rows
<1> QED
  BY <1>1, <1>2, <1>3
  DEF Server, Decide, Settle, Webhook, Resolve, VerifyRead, Deliver, Access, VerifyAsk,
      VerifyFail, PlanGone, MarkSuccess, PassGate, NoUserMatches, HandleCharge,
      CompareCharge, HandleFailed, Crash

(* An account loses its access before its time only to a request that read  *)
(* the row before it last changed, however many requests, webhooks and      *)
(* crashes there are (subscription.service.ts:190).                         *)
THEOREM EarlyOnlyIfStale == Spec => EarlyExpiryIsStale
<1>1. Init => ReadLapsed
  BY InitTyped DEF Init, Idle, ReadLapsed
<1>2. ReadLapsed /\ [Next]_vars =>
        [row.status # "EXPIRED" /\ row'.status = "EXPIRED" =>
            Overdue \/ \E r \in Requests : StaleRead(r)]_vars
  <2> SUFFICES ASSUME ReadLapsed, [Next]_vars, row.status # "EXPIRED",
                      row'.status = "EXPIRED"
               PROVE  Overdue \/ \E r \in Requests : StaleRead(r)
    OBVIOUS
  <2>1. PICK r \in Requests : Persist(r)
    BY ExpiresByPersist DEF ReadLapsed
  <2>2. CASE req[r].seen = row
    <3>1. Lapsed(row) /\ row \in Rows /\ now \in Nat
      BY <2>1, <2>2, BillingAssumption DEF Persist, ReadLapsed, TypeInv, TypeOK, Time
    <3>2. row.trialEnd \in Nat /\ row.periodEnd \in Nat /\ row.graceEnd \in Nat
      BY <3>1, ForeverFits DEF Rows, Instants
    <3> QED
      BY <3>1, <3>2 DEF Lapsed, Overdue
  <2>3. CASE req[r].seen # row
    BY <2>1, <2>3 DEF Persist, StaleRead
  <2> QED
    BY <2>2, <2>3
<1> QED
  BY <1>1, <1>2, ReadLapsedHolds, PTL DEF Spec, EarlyExpiryIsStale

-----------------------------------------------------------------------------
(* Whoever is about to apply or close a payment verifies it or handles its  *)
(* charge.                                                                  *)
Charging(q) ==
    /\ q.pc \in {"charge", "compare"} => q.event.kind = "charge"
    /\ q.pc \in {"activate", "mark"} => q.task = "verify" \/ q.event.kind = "charge"

SettleInv == PaidInv /\ \A r \in Requests : Charging(req[r])

LEMMA SettleHolds == SettleInv /\ [Next]_vars => SettleInv'
<1> SUFFICES ASSUME SettleInv, [Next]_vars PROVE SettleInv'
  OBVIOUS
<1>0. /\ PaidInv' /\ TypeInv /\ req \in [Requests -> RequestRecords]
      /\ \A r \in Requests : Charging(req[r]) /\ Staged(req[r])
  BY PaidHolds DEF SettleInv, PaidInv, TypeInv, TypeOK
<1>1. CASE Tick \/ Paystack \/ UNCHANGED vars
  BY <1>0, <1>1, Outside DEF SettleInv, Charging
<1>2. ASSUME NEW r \in Requests, Server(r), NEW s \in Requests PROVE Charging(req'[s])
  <2>1. CASE s # r
    BY <1>0, <1>2, <2>1, Moves
  <2>2. CASE s = r /\ req'[r].pc \in {"charge", "compare", "activate", "mark"}
    <3>1. PassGate(r) \/ HandleCharge(r) \/ VerifyAsk(r) \/ CompareCharge(r) \/ Activate(r)
      BY <1>0, <1>2, <2>2, Moves DEF Arrives
    <3>2. Keeps(req[r], req'[r])
      <4>1. /\ ~\E task \in Tasks : Resolve(r, task)
            /\ ~\E c \in Checkouts : VerifyRead(r, c)
            /\ ~\E e \in events : Deliver(r, e)
        BY <3>1 DEF PassGate, HandleCharge, VerifyAsk, CompareCharge, Activate, Resolve,
                    VerifyRead, Deliver
      <4> QED
        BY <1>0, <1>2, <2>2, <4>1, Moves DEF Idle
    <3>3. CASE req'[r].pc = "charge"
      BY <1>0, <1>2, <2>2, <3>2, <3>3, Moves DEF Arrives, Keeps, Charging
    <3>4. CASE req'[r].pc = "compare"
      <4>1. req[r].pc = "charge"
        BY <1>0, <1>2, <3>4, Moves DEF Arrives, HandleCharge
      <4> QED
        BY <1>0, <2>2, <3>2, <3>4, <4>1 DEF Keeps, Charging
    <3>5. CASE req'[r].pc = "activate"
      <4>1. req[r].pc \in {"ask", "compare"}
        BY <1>0, <1>2, <3>5, Moves DEF Arrives, VerifyAsk, CompareCharge
      <4> QED
        BY <1>0, <2>2, <3>2, <3>5, <4>1 DEF Keeps, Charging, Staged
    <3>6. CASE req'[r].pc = "mark"
      <4>1. req[r].pc = "activate"
        BY <1>0, <1>2, <3>6, Moves DEF Arrives, Activate
      <4> QED
        BY <1>0, <2>2, <3>2, <3>6, <4>1 DEF Keeps, Charging
    <3> QED
      BY <2>2, <3>3, <3>4, <3>5, <3>6
  <2>3. CASE s = r /\ req'[r].pc \notin {"charge", "compare", "activate", "mark"}
    BY <2>3 DEF Charging
  <2> QED
    BY <2>1, <2>2, <2>3
<1>3. CASE \E r \in Requests : Server(r)
  BY <1>0, <1>2, <1>3 DEF SettleInv, Charging
<1> QED
  BY <1>1, <1>3 DEF Next

(* Paystack charges a settled checkout no second time.                      *)
LEMMA PaystackSettles ==
    ASSUME PaidInv, Tick \/ Paystack \/ UNCHANGED vars, NEW c \in Checkouts, Settled(c)
    PROVE  Settled(c)'
<1>0. /\ TypeInv /\ charge[c] = "paid" /\ c \notin Renewals
      /\ payment \in [Checkouts -> {"none", "PENDING", "SUCCESS", "FAILED"}]
  BY BillingAssumption DEF PaidInv, PaymentsPaid, Settled, TypeInv, TypeOK
<1>1. req' = req /\ gate' = gate
  BY <1>0, Outside
<1>2. payment'[c] = payment[c]
  BY <1>0 DEF Tick, Paystack, Checkout, Pay, Invoice, Stop, Renew, vars, server
<1>3. \A e \in events' \ events : ~(e.kind = "charge" /\ e.ref = c)
  <2>1. CASE Tick \/ UNCHANGED vars
    BY <2>1 DEF Tick, vars, paystack
  <2>2. CASE Paystack
    <3> PICK d \in Checkouts : \/ Checkout(d) \/ Pay(d) \/ Invoice(d) \/ Stop(d)
                               \/ \E n \in Renewals : Renew(d, n)
      BY <2>2 DEF Paystack
    <3>1. CASE Checkout(d) \/ Invoice(d) \/ Stop(d)
      BY <3>1 DEF Checkout, Invoice, Stop, EndRenewal, Emit, Event
    <3>2. CASE Pay(d)
      BY <1>0, <3>2 DEF Pay, Emit, Event
    <3>3. CASE \E n \in Renewals : Renew(d, n)
      BY <1>0, <3>3 DEF Renew, Emit, Event
    <3> QED
      BY <3>1, <3>2, <3>3
  <2> QED
    BY <2>1, <2>2
<1>4. \A r \in Requests : ~Settles(r, c)'
  BY <1>1 DEF Settled, Settles
<1> QED
  BY <1>1, <1>2, <1>3, <1>4 DEF Settled

(* No request takes a settled checkout up again, or writes its payment.     *)
LEMMA ServerSettles ==
    ASSUME SettleInv, NEW r \in Requests, Server(r), NEW c \in Checkouts, Settled(c)
    PROVE  activated'[c] = activated[c] /\ Settled(c)'
<1>0. /\ TypeInv /\ req \in [Requests -> RequestRecords] /\ req[r] \in RequestRecords
      /\ Charging(req[r]) /\ Staged(req[r]) /\ ~Settles(r, c)
      /\ payment \in [Checkouts -> {"none", "PENDING", "SUCCESS", "FAILED"}]
      /\ activated \in [Refs -> SUBSET Time] /\ c \in Refs /\ c # NoRef
  BY BillingAssumption DEF SettleInv, PaidInv, TypeInv, TypeOK, Settled, Refs
<1>1. activated'[c] = activated[c]
  <2>1. CASE Activate(r)
    <3>1. req[r].ref # c
      BY <1>0, <2>1 DEF Activate, Charging, Settles
    <3> QED
      BY <1>0, <2>1, <3>1 DEF Activate
  <2> QED
    BY <1>0, <2>1, OnlySettlements
<1>2. payment'[c] = "SUCCESS"
  <2>1. CASE VerifyFail(r)
    <3>1. req[r].ref # c
      BY <1>0, <2>1 DEF VerifyFail, Staged, Settles
    <3> QED
      BY <1>0, <2>1, <3>1 DEF VerifyFail, Settled
  <2>2. CASE MarkSuccess(r)
    BY <1>0, <2>2 DEF MarkSuccess, Settled
  <2> QED
    BY <1>0, <2>1, <2>2, OnlySettlements DEF Settled
<1>3. \A e \in events' : e.kind = "charge" /\ e.ref = c => e \in gate'
  <2>1. \A e \in events' \ events : e.kind # "charge"
    <3>1. CASE Cancel(r)
      BY <3>1 DEF Cancel, EndRenewal, Emit, Event
    <3>2. CASE ~Cancel(r)
      <4>1. events' = events
        BY <3>2 DEF Server, Decide, Settle, Webhook, Resolve, VerifyRead, Deliver,
             Persist, Access, Resume, SetFree, VerifyAsk, VerifyFail, Activate,
             PlanGone, MarkSuccess, PassGate, NoUserMatches, HandleCharge,
             CompareCharge, HandleFailed, StartGrace, HandleStop, HandleSync,
             HandleInvoice, Crash, paystack
      <4> QED
        BY <4>1
    <3> QED
      BY <3>1, <3>2
  <2> QED
    BY <1>0, <2>1, OnlySettlements DEF Settled
<1>4. ~Settles(r, c)'
  <2>1. CASE \E task \in Tasks : Resolve(r, task)
    BY <1>0, <2>1 DEF Resolve, Step, Idle, Settles
  <2>2. CASE \E d \in Checkouts : VerifyRead(r, d)
    BY <1>0, <2>2 DEF VerifyRead, Step, Idle, Settles, Settled
  <2>3. CASE \E e \in events : Deliver(r, e)
    BY <1>0, <2>3 DEF Deliver, Step, Idle, Settles, Settled
  <2>4. CASE req'[r] = Idle
    BY <1>0, <2>4 DEF Idle, Settles
  <2>5. CASE Keeps(req[r], req'[r])
    BY <1>0, <2>5 DEF Keeps, Settles
  <2> QED
    BY <1>0, <2>1, <2>2, <2>3, <2>4, <2>5, Moves
<1>5. \A s \in Requests \ {r} : ~Settles(s, c)'
  BY <1>0, Moves DEF Settles, Settled
<1> QED
  BY <1>1, <1>2, <1>3, <1>4, <1>5 DEF Settled

(* Once a checkout has settled it stays so, and never moves the period      *)
(* again, whatever crashes and races went before and however often it is    *)
(* verified and delivered (subscription.service.ts:345).                    *)
THEOREM SettlesForGood == Spec => SettledForGood
<1>1. Init => SettleInv
  <2> SUFFICES ASSUME Init PROVE SettleInv
    OBVIOUS
  <2>1. PaidInv
    BY PaidAtFirst
  <2> QED
    BY <2>1 DEF Init, Idle, SettleInv, Charging
<1>2. SettleInv /\ [Next]_vars =>
        [\A c \in Checkouts :
            Settled(c) => activated'[c] = activated[c] /\ Settled(c)']_vars
  <2> SUFFICES ASSUME SettleInv, [Next]_vars, NEW c \in Checkouts, Settled(c)
               PROVE  activated'[c] = activated[c] /\ Settled(c)'
    OBVIOUS
  <2>1. CASE Tick \/ Paystack \/ UNCHANGED vars
    <3>1. PaidInv /\ TypeInv
      BY DEF SettleInv, PaidInv
    <3> QED
      BY <2>1, <3>1, PaystackSettles, Outside
  <2>2. CASE \E r \in Requests : Server(r)
    BY <2>2, ServerSettles
  <2> QED
    BY <2>1, <2>2 DEF Next
<1> QED
  BY <1>1, <1>2, SettleHolds, PTL DEF Spec, SettledForGood
=============================================================================
