------------------------------- MODULE Billing -------------------------------
(* One user's subscription: the UserSubscription row, the payment rows of   *)
(* its checkouts and the webhook gate, under concurrent HTTP requests,      *)
(* Paystack's charges and its webhook deliveries (any order, any delay, any *)
(* number of times).  Time advances in ticks; a missing period end never    *)
(* passes and a missing grace end always has, which is how                  *)
(* computeEffectiveStatus reads the two nulls.                              *)
EXTENDS Integers

CONSTANTS
    Requests,     \* concurrent HTTP requests and webhook deliveries
    Checkouts,    \* payment references created by checkout
    Renewals,     \* references of Paystack's own recurring charges
    Kinds,        \* webhook events Paystack sends
    FreeGrants,   \* ends of free access an admin may set, 0 to revoke
    TrialLength, Period, Grace,
    MaxTime,      \* bound: ticks of a behaviour
    Crashes,      \* a handler may die between two statements
    NoRef         \* model value: no payment reference, no event

ASSUME BillingAssumption ==
    /\ Kinds \subseteq {"charge", "failed", "not_renew", "disable", "sync",
                        "invoice"}
    /\ TrialLength \in Nat /\ Period \in Nat \ {0} /\ Grace \in Nat
    /\ MaxTime \in Nat /\ FreeGrants \subseteq Nat /\ Crashes \in BOOLEAN
    /\ Checkouts \cap Renewals = {} /\ NoRef \notin Checkouts \cup Renewals

Refs == Checkouts \cup Renewals
Time == 0 .. MaxTime
Forever == MaxTime + 2 * Period + Grace + TrialLength + 1

VARIABLES
    now,
    row,        \* the UserSubscription row
    payment,    \* status of the PaymentTransaction of each checkout
    gate,       \* events with a SubscriptionWebhookEvent row
    req,        \* what each request has read so far
    charge,     \* Paystack: the state of each reference
    due,        \* Paystack: next charge of the subscription a checkout began
    events,     \* Paystack: webhook events sent, deliverable again and again
    activated,  \* history: when each reference activated the row
    granted     \* history: an admin has set free access

history == <<activated, granted>>
server == <<row, payment, gate, req, history>>
paystack == <<charge, due, events>>
vars == <<now, server, paystack>>

Statuses == {"TRIALING", "ACTIVE", "NON_RENEWING", "PAYMENT_FAILED", "EXPIRED"}

Idle == [pc |-> "idle", task |-> "none", ref |-> NoRef, event |-> NoRef,
         seen |-> NoRef, pay |-> "none"]

Step(r, q) == req' = [req EXCEPT ![r] = q]
Done(r) == Step(r, Idle)

-----------------------------------------------------------------------------
(* Mutant: the end of a trial or a period compared one tick early.          *)
LapsedEarly(w) ==
    \/ w.status = "TRIALING" /\ now + 1 >= w.trialEnd
    \/ w.status \in {"ACTIVE", "NON_RENEWING"} /\ now + 1 >= w.periodEnd
    \/ w.status = "PAYMENT_FAILED" /\ now >= w.graceEnd

(* Mutant: a cancelled account is not looked at any more.                   *)
LapsedUnlessCancelled(w) ==
    \/ w.status = "TRIALING" /\ now >= w.trialEnd
    \/ w.status = "ACTIVE" /\ now >= w.periodEnd
    \/ w.status = "PAYMENT_FAILED" /\ now >= w.graceEnd

(* computeEffectiveStatus, at the time of the call.                         *)
Lapsed(w) ==
    \/ w.status = "TRIALING" /\ now >= w.trialEnd
    \/ w.status \in {"ACTIVE", "NON_RENEWING"} /\ now >= w.periodEnd
    \/ w.status = "PAYMENT_FAILED" /\ now >= w.graceEnd

Free(w) == now < w.free

Effective(w) == IF Free(w) THEN "ACTIVE" ELSE w.status

(* The update of activateSubscription and activateFromWebhook.              *)
Activated(w, ref, end) ==
    [w EXCEPT !.status = "ACTIVE", !.cancelling = FALSE, !.periodEnd = end,
              !.graceEnd = 0, !.last = ref]

Stopped(w, end) ==
    [w EXCEPT !.status = "NON_RENEWING", !.cancelling = TRUE, !.periodEnd = end]

Init ==
    /\ now = 0
    /\ row = [status |-> "TRIALING", trialEnd |-> TrialLength,
              periodEnd |-> Forever, graceEnd |-> 0, cancelling |-> FALSE,
              last |-> NoRef, free |-> 0]
    /\ payment = [c \in Checkouts |-> "none"]
    /\ gate = {}
    /\ req = [r \in Requests |-> Idle]
    /\ charge = [x \in Refs |-> "none"]
    /\ due = [c \in Checkouts |-> 0]
    /\ events = {}
    /\ activated = [x \in Refs |-> {}]
    /\ granted = FALSE

-----------------------------------------------------------------------------
(* Paystack.  A paid checkout starts a subscription, which charges under    *)
(* new references whenever it is due.                                       *)
Event(kind, ref, next) == [kind |-> kind, ref |-> ref, next |-> next]
Emit(sent) == events' = events \cup {e \in sent : e.kind \in Kinds}

Pay(c) ==
    /\ charge[c] = "open"
    /\ charge' = [charge EXCEPT ![c] = "paid"]
    /\ due' = [due EXCEPT ![c] = now + Period]
    /\ Emit({Event("charge", c, now + Period), Event("sync", c, now + Period)})
    /\ UNCHANGED <<now, server>>

Renew(c, n) ==
    /\ due[c] > 0 /\ now >= due[c] /\ charge[n] = "none"
    /\ \/ /\ charge' = [charge EXCEPT ![n] = "paid"]
          /\ due' = [due EXCEPT ![c] = now + Period]
          /\ Emit({Event("charge", n, now + Period), Event("sync", n, now + Period)})
       \/ /\ charge' = [charge EXCEPT ![n] = "failed"]
          /\ Emit({Event("failed", n, 0)})
          /\ UNCHANGED due
    /\ UNCHANGED <<now, server>>

(* The upcoming invoice names the period it will pay for.                   *)
Invoice(c) ==
    /\ due[c] > 0
    /\ Emit({Event("invoice", c, due[c] + Period)})
    /\ UNCHANGED <<now, server, charge, due>>

EndRenewal(c) ==
    /\ due[c] > 0
    /\ due' = [due EXCEPT ![c] = 0]
    /\ Emit({Event("not_renew", c, due[c]), Event("disable", c, due[c])})

Stop(c) == EndRenewal(c) /\ UNCHANGED <<now, server, charge>>

Tick == now < MaxTime /\ now' = now + 1 /\ UNCHANGED <<server, paystack>>

-----------------------------------------------------------------------------
(* Every authenticated request resolves the row: a read, and an update by   *)
(* userId when the row it read has lapsed.                                  *)
Tasks == {"access", "cancel", "resume", "free"}

Resolve(r, task) ==
    /\ req[r].pc = "idle" /\ (task = "free" => FreeGrants # {})
    /\ Step(r, [Idle EXCEPT !.pc = IF Lapsed(row) THEN "persist" ELSE "decide",
                            !.task = task, !.seen = row])
    /\ UNCHANGED <<now, row, payment, gate, history, paystack>>

Persist(r) ==
    /\ req[r].pc = "persist"
    /\ row' = [row EXCEPT !.status = "EXPIRED"]
    /\ Step(r, [req[r] EXCEPT !.pc = "decide", !.seen = row'])
    /\ UNCHANGED <<now, payment, gate, history, paystack>>

Decides(r, task) == req[r].pc = "decide" /\ req[r].task = task /\ Done(r)

(* The guard lets the request in or answers 403.                            *)
Access(r) ==
    /\ Decides(r, "access")
    /\ UNCHANGED <<now, row, payment, gate, history, paystack>>

(* The Paystack disable is best effort, for the subscription code known, and *)
(* makes Paystack tell what it did.                                         *)
Cancel(r) ==
    /\ Decides(r, "cancel")
    /\ IF Effective(req[r].seen) = "ACTIVE"
         THEN /\ row' = Stopped(row, row.periodEnd)
              /\ UNCHANGED <<due, events>> \/ \E c \in Checkouts : EndRenewal(c)
         ELSE UNCHANGED <<row, due, events>>
    /\ UNCHANGED <<now, payment, gate, history, charge>>

Resume(r) ==
    /\ Decides(r, "resume")
    /\ row' = IF /\ Effective(req[r].seen) \in {"ACTIVE", "NON_RENEWING"}
                 /\ req[r].seen.cancelling
                THEN [row EXCEPT !.status = "ACTIVE", !.cancelling = FALSE]
                ELSE row
    /\ UNCHANGED <<now, payment, gate, history, paystack>>

SetFree(r) ==
    /\ Decides(r, "free")
    /\ \E end \in FreeGrants : row' = [row EXCEPT !.free = end]
    /\ granted' = TRUE
    /\ UNCHANGED <<now, payment, gate, activated, paystack>>

-----------------------------------------------------------------------------
(* Checkout creates the reference at Paystack and a PENDING payment row.    *)
Checkout(c) ==
    /\ charge[c] = "none"
    /\ charge' = [charge EXCEPT ![c] = "open"]
    /\ payment' = [payment EXCEPT ![c] = "PENDING"]
    /\ UNCHANGED <<now, row, gate, req, history, due, events>>

(* Mutant: a settled payment is verified, and applied, once more.           *)
VerifyReadSettled(r, c) ==
    /\ req[r].pc = "idle" /\ payment[c] # "none"
    /\ Step(r, [Idle EXCEPT !.pc = "ask", !.task = "verify", !.ref = c])
    /\ UNCHANGED <<now, row, payment, gate, history, paystack>>

VerifyRead(r, c) ==
    /\ req[r].pc = "idle"
    /\ payment[c] \in {"PENDING", "FAILED"}
    /\ Step(r, [Idle EXCEPT !.pc = "ask", !.task = "verify", !.ref = c])
    /\ UNCHANGED <<now, row, payment, gate, history, paystack>>

(* Mutant: the answer of Paystack is not looked at.                         *)
VerifyTrusts(r) ==
    /\ req[r].pc = "ask" /\ Step(r, [req[r] EXCEPT !.pc = "activate"])
    /\ UNCHANGED <<now, row, payment, gate, history, paystack>>

(* Mutant: the payment is closed before the account is activated.           *)
VerifyCloses(r) ==
    /\ req[r].pc = "ask"
    /\ IF charge[req[r].ref] = "paid"
         THEN /\ Step(r, [req[r] EXCEPT !.pc = "activate"])
              /\ payment' = [payment EXCEPT ![req[r].ref] = "SUCCESS"]
         ELSE Step(r, [req[r] EXCEPT !.pc = "fail"]) /\ UNCHANGED payment
    /\ UNCHANGED <<now, row, gate, history, paystack>>

VerifyAsk(r) ==
    /\ req[r].pc = "ask"
    /\ Step(r, [req[r] EXCEPT
                  !.pc = IF charge[req[r].ref] = "paid" THEN "activate" ELSE "fail"])
    /\ UNCHANGED <<now, row, payment, gate, history, paystack>>

VerifyFail(r) ==
    /\ req[r].pc = "fail"
    /\ payment' = [payment EXCEPT ![req[r].ref] = "FAILED"]
    /\ Done(r)
    /\ UNCHANGED <<now, row, gate, history, paystack>>

(* The upsert that gives access; a webhook may carry the next payment date. *)
Activate(r) ==
    LET q == req[r]
        ends == {now + Period} \cup
                  (IF q.task = "webhook" THEN {q.event.next} ELSE {})
        marks == q.task = "verify" \/ q.pay \in {"PENDING", "FAILED"}
    IN  /\ q.pc = "activate"
        /\ \E end \in ends : row' = Activated(row, q.ref, end)
        /\ activated' = [activated EXCEPT ![q.ref] = @ \cup {now}]
        /\ Step(r, IF marks THEN [q EXCEPT !.pc = "mark"] ELSE Idle)
        /\ UNCHANGED <<now, payment, gate, granted, paystack>>

(* A verified payment whose plan the configuration no longer names is left  *)
(* as it was.                                                               *)
PlanGone(r) ==
    /\ req[r].pc = "activate" /\ req[r].task = "verify"
    /\ Done(r)
    /\ UNCHANGED <<now, row, payment, gate, history, paystack>>

MarkSuccess(r) ==
    /\ req[r].pc = "mark"
    /\ payment' = [payment EXCEPT ![req[r].ref] = "SUCCESS"]
    /\ Done(r)
    /\ UNCHANGED <<now, row, gate, history, paystack>>

-----------------------------------------------------------------------------
(* Webhooks: duplicate check, unique gate row, then the handler.  An event  *)
(* record stands for its dedupe key: the charge, the invoice or, for a stop, *)
(* the subscription it is about.                                            *)
Deliver(r, e) ==
    /\ req[r].pc = "idle" /\ e \in events /\ e \notin gate
    /\ Step(r, [Idle EXCEPT !.pc = "gate", !.task = "webhook", !.event = e,
                            !.ref = e.ref])
    /\ UNCHANGED <<now, row, payment, gate, history, paystack>>

(* Mutant: the unique gate row does not stop the second delivery.           *)
PassGateTwice(r) ==
    /\ req[r].pc = "gate"
    /\ Step(r, [req[r] EXCEPT !.pc = req[r].event.kind])
    /\ gate' = gate \cup {req[r].event}
    /\ UNCHANGED <<now, row, payment, history, paystack>>

PassGate(r) ==
    LET e == req[r].event
    IN  /\ req[r].pc = "gate"
        /\ IF e \in gate THEN Done(r) ELSE Step(r, [req[r] EXCEPT !.pc = e.kind])
        /\ gate' = gate \cup {e}
        /\ UNCHANGED <<now, row, payment, history, paystack>>

(* Nobody is found for the event: its handler ends, the gate row stays.  A  *)
(* checkout's charge finds its user in its payment row.                     *)
NoUserMatches(r) ==
    /\ \/ req[r].pc \in {"failed", "not_renew", "disable", "sync", "invoice"}
       \/ req[r].pc = "charge" /\ req[r].ref \notin Checkouts
    /\ Done(r)
    /\ UNCHANGED <<now, row, payment, gate, history, paystack>>

PaymentOf(ref) == IF ref \in Checkouts THEN payment[ref] ELSE "none"

(* handleChargeSuccess reads the payment, then the subscription row.        *)
HandleCharge(r) ==
    /\ req[r].pc = "charge"
    /\ Step(r, [req[r] EXCEPT !.pc = "compare", !.pay = PaymentOf(req[r].ref)])
    /\ UNCHANGED <<now, row, payment, gate, history, paystack>>

CompareCharge(r) ==
    /\ req[r].pc = "compare"
    /\ Step(r, IF row.last = req[r].ref THEN Idle
               ELSE [req[r] EXCEPT !.pc = "activate"])
    /\ UNCHANGED <<now, row, payment, gate, history, paystack>>

HandleFailed(r) ==
    /\ req[r].pc = "failed"
    /\ Step(r, IF row.status = "ACTIVE" THEN [req[r] EXCEPT !.pc = "grace"]
               ELSE Idle)
    /\ UNCHANGED <<now, row, payment, gate, history, paystack>>

StartGrace(r) ==
    /\ req[r].pc = "grace"
    /\ row' = [row EXCEPT !.status = "PAYMENT_FAILED", !.graceEnd = now + Grace]
    /\ Done(r)
    /\ UNCHANGED <<now, payment, gate, history, paystack>>

HandleStop(r) ==
    LET q == req[r]
    IN  /\ \/ q.pc = "not_renew"
              /\ \E end \in {row.periodEnd, q.event.next} : row' = Stopped(row, end)
           \/ q.pc = "disable" /\ row' = Stopped(row, row.periodEnd)
        /\ Done(r)
        /\ UNCHANGED <<now, payment, gate, history, paystack>>

(* handleSubscriptionUpsert writes the cancel flag the event carries, or the *)
(* one it read before, and the next payment date when there is one.         *)
HandleSync(r) ==
    /\ req[r].pc = "sync"
    /\ \E end \in {row.periodEnd, req[r].event.next}, flag \in BOOLEAN :
          row' = [row EXCEPT !.periodEnd = end, !.cancelling = flag]
    /\ Done(r)
    /\ UNCHANGED <<now, payment, gate, history, paystack>>

HandleInvoice(r) ==
    /\ req[r].pc = "invoice"
    /\ \E end \in {row.periodEnd, req[r].event.next} :
          row' = [row EXCEPT !.periodEnd = end]
    /\ Done(r)
    /\ UNCHANGED <<now, payment, gate, history, paystack>>

(* The process dies, or a handler throws and the error is logged.           *)
Crash(r) ==
    /\ Crashes /\ req[r].pc # "idle"
    /\ Done(r)
    /\ UNCHANGED <<now, row, payment, gate, history, paystack>>

-----------------------------------------------------------------------------
Webhook(r) ==
    \/ PassGate(r) \/ NoUserMatches(r) \/ HandleCharge(r) \/ CompareCharge(r)
    \/ HandleFailed(r) \/ StartGrace(r)
    \/ HandleStop(r) \/ HandleSync(r) \/ HandleInvoice(r)

Decide(r) == Persist(r) \/ Access(r) \/ Cancel(r) \/ Resume(r) \/ SetFree(r)

Settle(r) ==
    \/ VerifyAsk(r) \/ VerifyFail(r)
    \/ Activate(r) \/ PlanGone(r) \/ MarkSuccess(r)

Server(r) ==
    \/ \E task \in Tasks : Resolve(r, task)
    \/ \E c \in Checkouts : VerifyRead(r, c)
    \/ \E e \in events : Deliver(r, e)
    \/ Decide(r) \/ Settle(r) \/ Webhook(r) \/ Crash(r)

Paystack ==
    \E c \in Checkouts : \/ Checkout(c) \/ Pay(c) \/ Invoice(c) \/ Stop(c)
                         \/ \E n \in Renewals : Renew(c, n)

Next == Tick \/ Paystack \/ \E r \in Requests : Server(r)

Spec == Init /\ [][Next]_vars

(* A started request finishes, time passes, and the user keeps coming back: *)
(* any authenticated request resolves the row.  Nothing is assumed of       *)
(* Paystack or of any other endpoint.                                       *)
Fairness ==
    /\ WF_vars(Tick)
    /\ \A r \in Requests : WF_vars(Decide(r) \/ Settle(r) \/ Webhook(r))
    /\ SF_vars(\E r \in Requests : Resolve(r, "access"))

FairSpec == Spec /\ Fairness

-----------------------------------------------------------------------------
(* PROPERTIES                                                               *)

Instants == 0 .. Forever
Rows == [status : Statuses, trialEnd : Instants, periodEnd : Instants,
         graceEnd : Instants, cancelling : BOOLEAN, last : Refs \cup {NoRef},
         free : Nat]
EventSet == [kind : Kinds, ref : Refs, next : Instants]
Stages == {"idle", "persist", "decide", "ask", "fail", "activate", "mark",
           "gate", "charge", "compare", "failed", "grace", "not_renew", "disable", "sync",
           "invoice"}
RequestRecords ==
    [pc : Stages, task : Tasks \cup {"none", "verify", "webhook"},
     ref : Refs \cup {NoRef}, event : EventSet \cup {NoRef},
     seen : Rows \cup {NoRef}, pay : {"none", "PENDING", "SUCCESS", "FAILED"}]

(* Types of the tables, of the requests and of Paystack's side.             *)
TypeOK ==
    /\ now \in Time /\ row \in Rows
    /\ payment \in [Checkouts -> {"none", "PENDING", "SUCCESS", "FAILED"}]
    /\ \A e \in gate \cup events : e \in EventSet
    /\ req \in [Requests -> RequestRecords]
    /\ charge \in [Refs -> {"none", "open", "paid", "failed"}]
    /\ due \in [Checkouts -> Instants]
    /\ activated \in [Refs -> SUBSET Time]
    /\ granted \in BOOLEAN

Handles(r, e) ==
    req[r].task = "webhook" /\ req[r].pc # "gate" /\ req[r].event = e

(* Two deliveries of one event never both apply it, although both may have  *)
(* passed the duplicate check (webhook.service.ts:78).                      *)
OneHandlerPerEvent ==
    \A r, s \in Requests, e \in events : Handles(r, e) /\ Handles(s, e) => r = s

(* Nothing but a payment Paystack confirms gives access beyond the trial:   *)
(* no order of verifications, webhooks, cancellations, resumptions and      *)
(* crashes makes an unpaid account look paid, unless an admin once gave it  *)
(* free access; and what the row and the payment rows call paid, is         *)
(* (subscription.service.ts:76).                                            *)
PaidMeansPaid ==
    /\ row.status \in {"ACTIVE", "NON_RENEWING", "PAYMENT_FAILED"} =>
          granted \/ \E x \in Refs : charge[x] = "paid"
    /\ row.last # NoRef => charge[row.last] = "paid"
    /\ \A c \in Checkouts : payment[c] = "SUCCESS" => charge[c] = "paid"

Overdue ==
    \/ row.status = "TRIALING" /\ row.trialEnd <= now
    \/ row.status \in {"ACTIVE", "NON_RENEWING"} /\ row.periodEnd <= now
    \/ row.status = "PAYMENT_FAILED" /\ row.graceEnd <= now

(* Not so: an account expires only when its trial, its period or its grace  *)
(* is over (subscription.service.ts:182).                                   *)
ExpiresOnlyWhenOverdue ==
    [][row.status # "EXPIRED" /\ row'.status = "EXPIRED" => Overdue]_vars

StaleRead(r) == req[r].pc = "persist" /\ req[r].seen # row

(* An account loses its access before its time only to a request that read  *)
(* the row before it last changed: no crash, webhook or passing of time     *)
(* makes any other request expire it early (subscription.service.ts:190).   *)
EarlyExpiryIsStale ==
    [][row.status # "EXPIRED" /\ row'.status = "EXPIRED" =>
          Overdue \/ \E r \in Requests : StaleRead(r)]_vars

(* A payment buys one period, however often it is verified and its webhook  *)
(* delivered (subscription.service.ts:345), until another payment follows   *)
(* it: the row remembers only the last.                                     *)
OnePeriodPerPayment ==
    \A x \in Refs : \A t, u \in activated[x] :
        u - t >= Period =>
            \E y \in Refs \ {x} : \E v \in activated[y] : t <= v /\ v <= u

(* Not so either: a charge processed for this reference is skipped for good *)
(* (webhook.service.ts:158).                                                *)
ChargeBuysOnce == \A x \in Refs : \A t, u \in activated[x] : u - t < Period

(* A settled payment stays settled.                                         *)
SuccessIsFinal ==
    [][\A c \in Checkouts : payment[c] = "SUCCESS" => payment'[c] = "SUCCESS"]_vars

(* Not so: a recorded charge has activated the account, or is about to.  A  *)
(* handler that dies, throws or finds no user behind the gate loses it      *)
(* (webhook.service.ts:23).                                                 *)
RecordedChargeApplies ==
    \A e \in gate : e.kind = "charge" =>
        activated[e.ref] # {} \/ \E r \in Requests : Handles(r, e)

(* A payment row is closed only after its payment was applied: whatever the *)
(* gate swallows of a checkout's charge, and wherever a handler dies, the   *)
(* row stays open to another verification (subscription.service.ts:391).    *)
SettledIsApplied ==
    \A c \in Checkouts : payment[c] = "SUCCESS" => activated[c] # {}

Settles(r, c) ==
    req[r].ref = c /\ (req[r].task = "verify" \/ req[r].event.kind = "charge")

(* Nothing is at work on the checkout and no delivery of its charge is new. *)
Settled(c) ==
    /\ payment[c] = "SUCCESS"
    /\ \A r \in Requests : ~Settles(r, c)
    /\ \A e \in events : e.kind = "charge" /\ e.ref = c => e \in gate

(* A checkout that has settled stays so, and never moves the period again,  *)
(* however often it is verified and its webhook delivered, whatever crashes *)
(* or races went before (subscription.service.ts:345).                      *)
SettledForGood ==
    [][\A c \in Checkouts :
          Settled(c) => activated'[c] = activated[c] /\ Settled(c)']_vars

(* Not so: a cancelled account has an end, access lapses with the paid      *)
(* period (subscription.service.ts:408).                                    *)
NonRenewingLapses == row.status = "NON_RENEWING" => row.periodEnd < Forever

(* Access that is overdue does not last: some request notices it, or a new  *)
(* payment or free access ends the debt.                                    *)
LapseIsNoticed == Overdue ~> ~Overdue
=============================================================================
