---------------------------- MODULE BillingProofs ----------------------------
(***************************************************************************)
(* Theorems about Billing, for any number of concurrent requests, any set  *)
(* of plans, prices, invoices and references, and any environments.        *)
(***************************************************************************)
EXTENDS Billing, TLAPS, SequenceTheorems, FiniteSetTheorems

-----------------------------------------------------------------------------
(* What requests, rows and records are made of.                            *)

LEMMA RequestParts ==
  ASSUME NEW r \in Request
  PROVE  /\ r.op = "change" => r.plan \in Plans /\ r.price \in Nat /\ r.seen \in Subscription
         /\ r.op = "checkout" =>
              /\ r.plan \in Plans /\ r.price \in Nat /\ r.invoice \in Invoices
              /\ r.fresh \in BOOLEAN /\ r.locked \in BOOLEAN /\ r.session \in BOOLEAN
         /\ r.op = "pay" =>
              /\ r.invoice \in Invoices /\ r.amount \in Nat
              /\ r.ref \in Refs /\ r.seen \in Subscription
         /\ r.op = "void" => r.invoice \in Invoices /\ r.seen \in Subscription
         /\ r.op = "cancel" =>
              r.value \in BOOLEAN /\ r.told \in BOOLEAN /\ r.seen \in Subscription
         /\ r.op = "hook" =>
              /\ r.event \in Nat /\ r.seen \in Subscription
              /\ r.found \in SUBSET Invoices /\ r.settles \in BOOLEAN
  BY DEF Request

LEMMA MergeType ==
  ASSUME sub \in Subscription, NEW s \in Subscription, NEW t \in Subscription
  PROVE  Merge(s, t) \in Subscription
  BY DEF Merge, Column, Subscription

LEMMA ActivatedType ==
  ASSUME NEW s \in Subscription, NEW p \in Plans \union {None}
  PROVE  Activated(s, p) \in Subscription
  BY DEF Activated, Subscription, SubscriptionStatus

LEMMA OpenInvoiceType ==
  ASSUME NEW p \in Plans \union {None}, NEW n \in Nat
  PROVE  OpenInvoice(p, n) \in Invoice
  BY DEF OpenInvoice, Absent, Invoice

LEMMA SettledType ==
  ASSUME NEW r \in Invoice, NEW s \in StripeInvoices
  PROVE  /\ Settled(r) \in Invoice
         /\ [Settled(r) EXCEPT !.stripe = s] \in Invoice
         /\ [r EXCEPT !.stripe = s] \in Invoice
  BY DEF Settled, Invoice

LEMMA VoidedType ==
  ASSUME NEW r \in Invoice
  PROVE  Voided(r) \in Invoice
  BY DEF Voided, Invoice

LEMMA ReceivedType ==
  ASSUME NEW r \in Invoice, NEW n \in Nat, n <= r.due
  PROVE  Received(r, n) \in Invoice
<1>1. r.paid + n \in Nat /\ r.due - n \in Nat
  BY DEF Invoice
<1> QED
  BY <1>1 DEF Received, Invoice

LEMMA EmitType ==
  ASSUME log \in Seq(Event), NEW i \in Invoices, NEW n \in 0..PeriodBound,
         NEW s \in StripeSubscription, NEW types,
         types \in Seq({"completed", "paid", "failed", "updated", "deleted"})
  PROVE  /\ Emit(types, i, s, n) \in Seq(Event)
         /\ Len(Emit(types, i, s, n)) = Len(log) + Len(types)
         /\ \A k \in DOMAIN log : Emit(types, i, s, n)[k] = log[k]
         /\ \A k \in DOMAIN Emit(types, i, s, n) \ DOMAIN log :
              /\ Emit(types, i, s, n)[k].sub = i
              /\ Emit(types, i, s, n)[k].state = s
<1> DEFINE new == [k \in DOMAIN types |-> Snapshot(types[k], i, s, n)]
<1>1. new \in Seq(Event) /\ Len(new) = Len(types)
  <2>1. \A k \in 1..Len(types) : Snapshot(types[k], i, s, n) \in Event
    BY DEF Snapshot, Event
  <2>2. new = [k \in 1..Len(types) |-> Snapshot(types[k], i, s, n)]
    OBVIOUS
  <2>3. Len(types) \in Nat
    OBVIOUS
  <2> QED BY <2>1, <2>2, <2>3
<1>2. Emit(types, i, s, n) = log \o new
  BY DEF Emit
<1>3. \A k \in 1..Len(types) : new[k].sub = i /\ new[k].state = s
  BY DEF Snapshot
<1> HIDE DEF new
<1> DEFINE all == log \o new
<1>4. /\ all \in Seq(Event)
      /\ Len(all) = Len(log) + Len(new)
      /\ \A k \in 1..Len(log) : all[k] = log[k]
      /\ \A k \in (Len(log) + 1)..(Len(log) + Len(new)) : all[k] = new[k - Len(log)]
  BY <1>1
<1> HIDE DEF all
<1>5. DOMAIN log = 1..Len(log) /\ DOMAIN all = 1..Len(all) /\ Len(log) \in Nat /\ Len(types) \in Nat
  BY <1>4
<1>6. ASSUME NEW k \in DOMAIN all, k \notin DOMAIN log
      PROVE  all[k].sub = i /\ all[k].state = s
  <2>1. k \in (Len(log) + 1)..(Len(log) + Len(new)) /\ k - Len(log) \in 1..Len(types)
    BY <1>1, <1>4, <1>5, <1>6
  <2> QED BY <1>3, <1>4, <2>1
<1>7. Emit(types, i, s, n) = all
  BY <1>2 DEF all
<1> QED BY <1>1, <1>4, <1>5, <1>6, <1>7

-----------------------------------------------------------------------------
(* The inductive invariant.                                                *)

Exists(i) == inv[i].status # "absent"

(* An invoice being paid by record_payment is open, has the amount left to *)
(* pay, and is locked by that request alone.                               *)
PaysFit ==
  \A h \in Handlers : req[h].op = "pay" =>
    /\ inv[req[h].invoice].status = "open"
    /\ req[h].amount <= inv[req[h].invoice].due
    /\ ~InvoiceLocked(h, req[h].invoice)

(* The identifier of an invoice create_checkout has not written yet is its *)
(* own; once it is written the invoice exists.                             *)
Reserved ==
  \A h \in Handlers : req[h].op = "checkout" =>
    IF req[h].fresh
    THEN /\ ~Exists(req[h].invoice)
         /\ \A g \in Handlers \ {h} :
              req[g].op = "checkout" => req[g].invoice # req[h].invoice
    ELSE Exists(req[h].invoice)

(* The invoices a request will settle or void.                             *)
Targets(r) ==
  IF r.op \in {"pay", "void"} THEN {r.invoice}
  ELSE IF r.op = "hook" THEN r.found ELSE {}

(* Invoices that requests, rows, Stripe and its events refer to exist.     *)
TargetsExist == \A h \in Handlers : \A i \in Targets(req[h]) : Exists(i)
RowsExist ==
  \A i \in Invoices :
    \/ inv[i].stripe # None
    \/ sessions[i].state \in {"open", "paid"}
    \/ stripe[i].status # "none"
    => Exists(i)
EventsExist == \A k \in DOMAIN log : Exists(log[k].sub)

(* Sessions and Stripe subscriptions have a plan, so have the events; what *)
(* a subscriptions row is linked to was started.                           *)
Begun(s) == s.status # "none" /\ s.plan # None
Planned ==
  /\ \A i \in Invoices : sessions[i].state # "none" => sessions[i].plan # None
  /\ \A i \in Invoices : stripe[i].status # "none" => stripe[i].plan # None
Logged ==
  \A k \in DOMAIN log :
    Begun(log[k].state) /\ stripe[log[k].sub].status # "none"
Linkable(s) == s.link # None => stripe[s.link].status # "none"
Links ==
  /\ Linkable(sub)
  /\ \A h \in Handlers :
       req[h].op \in {"change", "pay", "void", "cancel", "hook"} => Linkable(req[h].seen)
Hooks ==
  \A h \in Handlers :
    /\ req[h].op = "cancel" /\ ~req[h].told => req[h].seen.link # None
    /\ req[h].op = "hook" => /\ req[h].event \in DOMAIN log
                             /\ log[req[h].event].type # "completed"

(* While a change is pending there is an open invoice for it, and whoever  *)
(* is about to settle or void that one saw the change pending: so the same *)
(* commit clears it.                                                       *)
Witness(i) ==
  /\ inv[i].status = "open" /\ inv[i].plan = sub.pending
  /\ \A h \in Handlers : i \in Targets(req[h]) => req[h].seen.pending # None
Pending == sub.pending # None => \E i \in Invoices : Witness(i)

Invariant ==
  /\ TypeOK
  /\ PaysFit /\ Reserved
  /\ TargetsExist /\ RowsExist /\ EventsExist
  /\ Planned /\ Logged /\ Links /\ Hooks
  /\ Pending

-----------------------------------------------------------------------------
(* Every step keeps the types.                                             *)

(* The steps of a request by what they do: read, give up, commit a plan    *)
(* change, a part of a checkout, an administrator's change or an event;    *)
(* and the steps at Stripe that emit events.                               *)
Reading(h) ==
  \/ \E p \in Plans : ChangeRead(h, p)
  \/ \E p \in Plans, i \in Invoices : CheckoutRead(h, p, i)
  \/ \E i \in Invoices, amount \in Nat, ref \in Refs : PayRead(h, i, amount, ref)
  \/ \E i \in Invoices : VoidRead(h, i)
  \/ \E value \in BOOLEAN : CancelRead(h, value)
  \/ \E k \in DOMAIN log : HookRead(h, k)
Dropping(h) == CheckoutRefused(h) \/ PayConflict(h) \/ Abandon(h)
Changing(h) == ChangeFree(h) \/ ChangeInvoice(h) \/ CancelCommit(h)
Checking(h) == CheckoutCustomer(h) \/ CheckoutSession(h) \/ CheckoutCommit(h)
Booking(h) == PayCommit(h) \/ VoidCommit(h)
Hooking(h) == HookReport(h) \/ HookSettle(h) \/ HookMirror(h) \/ HookRenew(h)
Completing(h) == \E k \in DOMAIN log : HookCompleted(h, k) \/ HookIgnore(h, k)
Emitting ==
  \/ \E i \in Invoices : StripePay(i) \/ StripeRenew(i) \/ StripeFail(i) \/ StripeEnd(i)
  \/ \E i \in Invoices, p \in Plans : StripePortal(i, p)
  \/ \E h \in Handlers : CancelStripe(h)
Administering ==
  \/ \E i \in Invoices, amount \in Prices : Charge(i, amount)
  \/ \E p \in Plans, amount \in Prices : Reprice(p, amount)
Expiring == \E i \in Invoices : StripeExpire(i)

LEMMA NextClasses ==
  ASSUME TypeOK, Next
  PROVE  \/ \E h \in Handlers :
              \/ Reading(h) \/ Dropping(h) \/ Changing(h) \/ Checking(h)
              \/ Booking(h) \/ Hooking(h) \/ Completing(h)
         \/ Emitting \/ Administering \/ Expiring
<1>1. ASSUME NEW i \in Invoices, NEW amount \in 1..inv[i].due, NEW ref \in env.refs
      PROVE  amount \in Nat /\ ref \in Refs
  BY <1>1, BillingAssumption DEF TypeOK, Environment
<1>2. ASSUME NEW h \in Handlers, UserStep(h)
      PROVE  Reading(h) \/ Dropping(h) \/ Changing(h) \/ Checking(h) \/ Emitting
  BY <1>2 DEF UserStep, Reading, Dropping, Changing, Checking, Emitting
<1>3. ASSUME NEW h \in Handlers, AdminStep(h)
      PROVE  Reading(h) \/ Dropping(h) \/ Booking(h)
  BY <1>1, <1>3 DEF AdminStep, Reading, Dropping, Booking
<1>4. ASSUME NEW h \in Handlers, HookStep(h)
      PROVE  Reading(h) \/ Hooking(h) \/ Completing(h)
  BY <1>4 DEF HookStep, Reading, Hooking, Completing
<1>5. ASSUME NEW h \in Handlers, Abandon(h) PROVE Dropping(h)
  BY <1>5 DEF Dropping
<1>6. ASSUME StripeStep PROVE Emitting \/ Expiring
  BY <1>6 DEF StripeStep, Emitting, Expiring
<1> QED
  BY <1>2, <1>3, <1>4, <1>5, <1>6 DEF Next, Administering

(* A step that replaces one request and changes nothing else.              *)
Replaces(h, r) ==
  /\ req' = [req EXCEPT ![h] = r]
  /\ UNCHANGED <<env, sub, inv, payments, price, customer, processed, stripeVars>>

LEMMA IdleType == Idle \in Request
  BY DEF Idle, Request

LEMMA ReplacesType ==
  ASSUME TypeOK, NEW h \in Handlers, NEW r \in Request, Replaces(h, r)
  PROVE  TypeOK'
<1>1. req' \in [Handlers -> Request]
  BY DEF Replaces, TypeOK
<1> QED
  BY <1>1 DEF Replaces, TypeOK, stripeVars

LEMMA ReadType ==
  ASSUME TypeOK, NEW h \in Handlers, Reading(h) \/ Dropping(h)
  PROVE  TypeOK'
<1>1. sub \in Subscription /\ \A p \in Plans : price[p] \in Nat
  BY DEF TypeOK
<1>2. ASSUME NEW p \in Plans, ChangeRead(h, p) PROVE TypeOK'
  <2> DEFINE r == [op |-> "change", plan |-> p, price |-> price[p], seen |-> sub]
  <2>1. r \in Request
    BY <1>1 DEF Request
  <2>2. Replaces(h, r)
    BY <1>2 DEF ChangeRead, Replaces
  <2> QED BY <2>1, <2>2, ReplacesType
<1>3. ASSUME NEW p \in Plans, NEW i \in Invoices, CheckoutRead(h, p, i) PROVE TypeOK'
  <2> DEFINE r == [op |-> "checkout", plan |-> p, price |-> price[p], invoice |-> i,
                   fresh |-> sub.pending = None, locked |-> TRUE, session |-> FALSE]
  <2>1. r \in Request
    <3>1. (sub.pending = None) \in BOOLEAN
      OBVIOUS
    <3> QED BY <1>1, <3>1 DEF Request
  <2>2. Replaces(h, r)
    BY <1>3 DEF CheckoutRead, Replaces
  <2> QED BY <2>1, <2>2, ReplacesType
<1>4. ASSUME NEW i \in Invoices, NEW amount \in Nat, NEW ref \in Refs,
             PayRead(h, i, amount, ref)
      PROVE  TypeOK'
  <2> DEFINE r == [op |-> "pay", invoice |-> i, amount |-> amount, ref |-> ref,
                   seen |-> sub]
  <2>1. r \in Request
    BY <1>1 DEF Request
  <2>2. Replaces(h, r)
    BY <1>4 DEF PayRead, Replaces
  <2> QED BY <2>1, <2>2, ReplacesType
<1>5. ASSUME NEW i \in Invoices, VoidRead(h, i) PROVE TypeOK'
  <2> DEFINE r == [op |-> "void", invoice |-> i, seen |-> sub]
  <2>1. r \in Request
    BY <1>1 DEF Request
  <2>2. Replaces(h, r)
    BY <1>5 DEF VoidRead, Replaces
  <2> QED BY <2>1, <2>2, ReplacesType
<1>6. ASSUME NEW value \in BOOLEAN, CancelRead(h, value) PROVE TypeOK'
  <2> DEFINE r == [op |-> "cancel", value |-> value, told |-> sub.link = None,
                   seen |-> sub]
  <2>1. r \in Request
    <3>1. (sub.link = None) \in BOOLEAN
      OBVIOUS
    <3> QED BY <1>1, <3>1 DEF Request
  <2>2. Replaces(h, r)
    BY <1>6 DEF CancelRead, Replaces
  <2> QED BY <2>1, <2>2, ReplacesType
<1>7. ASSUME NEW k \in DOMAIN log, HookRead(h, k) PROVE TypeOK'
  <2>1. PICK found \in SUBSET Invoices, settles \in BOOLEAN :
          Replaces(h, [op |-> "hook", event |-> k, seen |-> sub, found |-> found,
                       settles |-> settles])
    <3> DEFINE found == IF log[k].type = "paid" THEN Mirrors(log[k]) ELSE {}
               settles == \E j \in found : inv[j].status = "open"
    <3>1. log[k] \in Event
      BY DEF TypeOK
    <3>2. found \in SUBSET Invoices
      BY <3>1 DEF Mirrors, Event
    <3>3. settles \in BOOLEAN
      OBVIOUS
    <3>4. Replaces(h, [op |-> "hook", event |-> k, seen |-> sub, found |-> found,
                       settles |-> settles])
      BY <1>7 DEF HookRead, Replaces
    <3> HIDE DEF found, settles
    <3> QED BY <3>2, <3>3, <3>4
  <2>2. [op |-> "hook", event |-> k, seen |-> sub, found |-> found,
         settles |-> settles] \in Request
    <3>1. k \in Nat
      BY DEF TypeOK
    <3> QED BY <1>1, <3>1 DEF Request
  <2> QED BY <2>1, <2>2, ReplacesType
<1>8. CASE Dropping(h)
  <2>1. Replaces(h, Idle)
    BY <1>8 DEF Dropping, CheckoutRefused, PayConflict, Abandon, Finish, Replaces
  <2> QED BY <2>1, IdleType, ReplacesType
<1> QED
  BY <1>2, <1>3, <1>4, <1>5, <1>6, <1>7, <1>8 DEF Reading

(* What a step that changes the subscription and its own request writes.   *)
LEMMA PlanStepType ==
  ASSUME TypeOK, NEW h \in Handlers, Changing(h)
  PROVE  TypeOK'
<1> DEFINE r == req[h]
<1>1. r \in Request /\ sub \in Subscription
  BY DEF TypeOK
<1>2. req' = [req EXCEPT ![h] = Idle] /\ req' \in [Handlers -> Request]
  BY IdleType DEF Changing, ChangeFree, ChangeInvoice, CancelCommit, Finish, TypeOK
<1>3. CASE ChangeFree(h)
  <2>1. r.seen \in Subscription /\ r.plan \in Plans
    BY <1>1, <1>3, RequestParts DEF ChangeFree
  <2>2. sub' \in Subscription
    BY <1>1, <1>3, <2>1, ActivatedType, MergeType DEF ChangeFree
  <2> QED BY <1>2, <1>3, <2>2 DEF ChangeFree, TypeOK, stripeVars
<1>4. CASE ChangeInvoice(h)
  <2>1. r.seen \in Subscription /\ r.plan \in Plans /\ r.price \in Nat
    BY <1>1, <1>4, RequestParts DEF ChangeInvoice
  <2>2. [r.seen EXCEPT !.pending = r.plan] \in Subscription
    BY <2>1 DEF Subscription
  <2>3. sub' \in Subscription
    BY <1>1, <1>4, <2>1, <2>2, MergeType DEF ChangeInvoice
  <2>4. inv' \in [Invoices -> Invoice]
    <3>1. OpenInvoice(r.plan, r.price) \in Invoice
      BY <2>1, OpenInvoiceType
    <3> QED BY <1>4, <3>1 DEF ChangeInvoice, TypeOK
  <2> QED BY <1>2, <1>4, <2>3, <2>4 DEF ChangeInvoice, TypeOK, stripeVars
<1>5. CASE CancelCommit(h)
  <2>1. r.seen \in Subscription /\ r.value \in BOOLEAN
    BY <1>1, <1>5, RequestParts DEF CancelCommit
  <2>2. [r.seen EXCEPT !.cancelling = r.value] \in Subscription
    BY <2>1 DEF Subscription
  <2>3. sub' \in Subscription
    BY <1>1, <1>5, <2>1, <2>2, MergeType DEF CancelCommit
  <2> QED BY <1>2, <1>5, <2>3 DEF CancelCommit, TypeOK, stripeVars
<1> QED BY <1>3, <1>4, <1>5 DEF Changing

LEMMA SaveInvoiceType ==
  ASSUME TypeOK, NEW h \in Handlers, req[h].op = "checkout", SaveInvoice(h)
  PROVE  inv' \in [Invoices -> Invoice] /\ sub' \in Subscription
<1> DEFINE r == req[h]
<1>1. r.plan \in Plans /\ r.price \in Nat /\ r.invoice \in Invoices
  BY RequestParts DEF TypeOK
<1>2. OpenInvoice(r.plan, r.price) \in Invoice
  BY <1>1, OpenInvoiceType
<1>3. [sub EXCEPT !.pending = r.plan] \in Subscription
  BY <1>1 DEF TypeOK, Subscription
<1> QED BY <1>1, <1>2, <1>3 DEF SaveInvoice, TypeOK

LEMMA CheckoutType ==
  ASSUME TypeOK, NEW h \in Handlers, Checking(h)
  PROVE  TypeOK'
<1> DEFINE r == req[h]
<1>1. r \in Request /\ r.op = "checkout"
  BY DEF TypeOK, Checking, CheckoutCustomer, CheckoutSession, CheckoutCommit
<1>2. /\ r.plan \in Plans /\ r.price \in Nat /\ r.invoice \in Invoices
      /\ r.fresh \in BOOLEAN /\ r.locked \in BOOLEAN /\ r.session \in BOOLEAN
  BY <1>1, RequestParts
<1>3. r \in [op : {"checkout"}, plan : Plans, price : Nat, invoice : Invoices,
             fresh : BOOLEAN, locked : BOOLEAN, session : BOOLEAN]
  BY <1>1 DEF Request
<1>4. CASE CheckoutCustomer(h)
  <2>1. [r EXCEPT !.fresh = FALSE, !.locked = FALSE] \in Request
    BY <1>3 DEF Request
  <2>2. req' = [req EXCEPT ![h] = [r EXCEPT !.fresh = FALSE, !.locked = FALSE]]
    BY <1>4 DEF CheckoutCustomer, TypeOK
  <2>3. req' \in [Handlers -> Request]
    BY <2>1, <2>2 DEF TypeOK
  <2>4. inv' \in [Invoices -> Invoice] /\ sub' \in Subscription
    BY <1>1, <1>4, SaveInvoiceType DEF CheckoutCustomer
  <2> QED BY <1>4, <2>3, <2>4 DEF CheckoutCustomer, TypeOK, stripeVars
<1>5. CASE CheckoutSession(h)
  <2>1. [r EXCEPT !.session = TRUE] \in Request
    BY <1>3 DEF Request
  <2>2. req' = [req EXCEPT ![h] = [r EXCEPT !.session = TRUE]]
    BY <1>5 DEF CheckoutSession, TypeOK
  <2>3. req' \in [Handlers -> Request]
    BY <2>1, <2>2 DEF TypeOK
  <2>4. sessions' \in [Invoices -> Session]
    <3>1. [state |-> "created", plan |-> r.plan, amount |-> r.price] \in Session
      BY <1>2 DEF Session
    <3> QED BY <1>2, <1>5, <3>1 DEF CheckoutSession, TypeOK
  <2> QED BY <1>5, <2>3, <2>4 DEF CheckoutSession, TypeOK
<1>6. CASE CheckoutCommit(h)
  <2>1. req' \in [Handlers -> Request]
    BY <1>6, IdleType DEF CheckoutCommit, Finish, TypeOK
  <2>2. inv' \in [Invoices -> Invoice] /\ sub' \in Subscription
    BY <1>1, <1>6, SaveInvoiceType DEF CheckoutCommit
  <2>3. sessions' \in [Invoices -> Session]
    <3>1. sessions' = sessions \/ sessions' = [sessions EXCEPT ![r.invoice].state = "open"]
      BY <1>6 DEF CheckoutCommit
    <3>2. \A s \in Session : [s EXCEPT !.state = "open"] \in Session
      BY DEF Session
    <3>3. sessions \in [Invoices -> Session] /\ r.invoice \in Invoices
      BY <1>2 DEF TypeOK
    <3> QED BY <3>1, <3>2, <3>3
  <2> QED BY <1>6, <2>1, <2>2, <2>3 DEF CheckoutCommit, TypeOK
<1> QED BY <1>4, <1>5, <1>6 DEF Checking

LEMMA AdminType ==
  ASSUME TypeOK, PaysFit, NEW h \in Handlers, Booking(h)
  PROVE  TypeOK'
<1> DEFINE r == req[h]
           row == inv[r.invoice]
<1>1. r \in Request /\ sub \in Subscription
  BY DEF TypeOK
<1>2. req' \in [Handlers -> Request]
  BY IdleType DEF Booking, PayCommit, VoidCommit, Finish, TypeOK
<1>3. CASE PayCommit(h)
  <2>1. /\ r.invoice \in Invoices /\ r.amount \in Nat /\ r.ref \in Refs
        /\ r.seen \in Subscription /\ r.amount <= row.due
    BY <1>1, <1>3, RequestParts DEF PayCommit, PaysFit
  <2>2. row \in Invoice
    BY <2>1 DEF TypeOK
  <2>3. inv' \in [Invoices -> Invoice]
    BY <1>3, <2>1, <2>2, ReceivedType DEF PayCommit, TypeOK
  <2>4. payments' \subseteq Payment
    <3>1. [ref |-> r.ref, invoice |-> r.invoice, amount |-> r.amount] \in Payment
      BY <2>1 DEF Payment, PaymentRefs
    <3> QED BY <1>3, <3>1 DEF PayCommit, TypeOK
  <2>5. sub' \in Subscription
    <3>1. row.plan \in Plans \union {None}
      BY <2>2 DEF Invoice
    <3>2. Merge(r.seen, Activated(r.seen, row.plan)) \in Subscription
      BY <1>1, <2>1, <3>1, ActivatedType, MergeType
    <3> QED BY <1>1, <1>3, <3>2 DEF PayCommit
  <2> QED BY <1>2, <1>3, <2>3, <2>4, <2>5 DEF PayCommit, TypeOK, stripeVars
<1>4. CASE VoidCommit(h)
  <2>1. r.invoice \in Invoices /\ r.seen \in Subscription
    BY <1>1, <1>4, RequestParts DEF VoidCommit
  <2>2. Voided(row) \in Invoice
    BY <2>1, VoidedType DEF TypeOK
  <2>3. inv' \in [Invoices -> Invoice]
    <3>1. inv' = inv \/ inv' = [inv EXCEPT ![r.invoice] = Voided(row)]
      BY <1>4 DEF VoidCommit
    <3> QED BY <2>1, <2>2, <3>1 DEF TypeOK
  <2>4. sub' \in Subscription
    <3>1. [r.seen EXCEPT !.pending = None] \in Subscription
      BY <2>1 DEF Subscription
    <3>2. Merge(r.seen, [r.seen EXCEPT !.pending = None]) \in Subscription
      BY <1>1, <2>1, <3>1, MergeType
    <3>3. sub' = sub \/ sub' = Merge(r.seen, [r.seen EXCEPT !.pending = None])
      BY <1>4 DEF VoidCommit
    <3> QED BY <1>1, <3>2, <3>3
  <2> QED BY <1>2, <1>4, <2>3, <2>4 DEF VoidCommit, TypeOK, stripeVars
<1> QED BY <1>3, <1>4 DEF Booking

LEMMA RowType ==
  ASSUME TypeOK, Administering
  PROVE  TypeOK'
<1>1. \A amount \in Prices : amount \in Nat
  BY BillingAssumption
<1>2. ASSUME NEW i \in Invoices, NEW amount \in Prices, Charge(i, amount)
      PROVE  TypeOK'
  <2>1. OpenInvoice(None, amount) \in Invoice
    BY <1>1, OpenInvoiceType
  <2>2. inv' \in [Invoices -> Invoice]
    BY <1>2, <2>1 DEF Charge, TypeOK
  <2> QED BY <1>2, <2>2 DEF Charge, TypeOK, stripeVars
<1>3. ASSUME NEW p \in Plans, NEW amount \in Prices, Reprice(p, amount)
      PROVE  TypeOK'
  <2>1. price' \in [Plans -> Nat]
    BY <1>1, <1>3 DEF Reprice, TypeOK
  <2> QED BY <1>3, <2>1 DEF Reprice, TypeOK, stripeVars
<1> QED BY <1>2, <1>3 DEF Administering

LEMMA EventParts ==
  ASSUME TypeOK, Logged, NEW k \in DOMAIN log
  PROVE  /\ log[k].sub \in Invoices /\ log[k].period \in 0..PeriodBound
         /\ log[k].state \in StripeSubscription /\ Begun(log[k].state)
         /\ log[k].type \in {"completed", "paid", "failed", "updated", "deleted"}
         /\ <<log[k].sub, log[k].period>> \in StripeInvoices
         /\ Charged(log[k]) \in Nat
<1>1. log[k] \in Event
  BY DEF TypeOK
<1>2. log[k].sub \in Invoices /\ log[k].period \in 0..PeriodBound
  BY <1>1 DEF Event
<1>3. Charged(log[k]) \in Nat
  BY <1>2 DEF Charged, TypeOK, Session
<1>4. <<log[k].sub, log[k].period>> \in StripeInvoices
  BY <1>2 DEF StripeInvoices
<1> QED
  BY <1>1, <1>2, <1>3, <1>4 DEF Event, Logged

LEMMA PayForType ==
  ASSUME payments \subseteq Payment, NEW ref \in PaymentRefs, NEW i \in Invoices,
         NEW n \in Nat, PayFor(ref, i, n)
  PROVE  payments' \subseteq Payment
<1>1. [ref |-> ref, invoice |-> i, amount |-> n] \in Payment
  BY DEF Payment
<1> QED BY <1>1 DEF PayFor

LEMMA LinkedType ==
  ASSUME NEW r, r.seen \in Subscription, NEW e, e.sub \in Invoices
  PROVE  Linked(r, e) \in Subscription
<1> DEFINE s == r.seen
<1>1. ASSUME NEW t \in Subscription
      PROVE  [t EXCEPT !.link = e.sub, !.status = "active"] \in Subscription
  BY DEF Subscription, SubscriptionStatus
<1> QED BY <1>1 DEF Linked

LEMMA ReportedType ==
  ASSUME NEW s \in Subscription, NEW e \in Event, e.type \in {"failed", "updated", "deleted"},
         Begun(e.state)
  PROVE  Reported(e, s) \in Subscription
<1>1. /\ e.state.status \in StripeStatus /\ e.state.plan \in Plans
      /\ e.state.atEnd \in BOOLEAN
  BY DEF Event, StripeSubscription, Begun
<1>2. LocalStatus(e.state.status) \in SubscriptionStatus
  BY <1>1 DEF LocalStatus, StripeStatus, SubscriptionStatus
<1>3. CASE e.type = "failed"
  BY <1>3 DEF Reported, Subscription, SubscriptionStatus
<1>4. CASE e.type = "updated"
  BY <1>1, <1>2, <1>4 DEF Reported, Subscription
<1>5. CASE e.type = "deleted"
  BY <1>5 DEF Reported, Subscription, SubscriptionStatus
<1> QED BY <1>3, <1>4, <1>5

(* A webhook handler that loaded an event it can find in the log.          *)
LEMMA HookParts ==
  ASSUME TypeOK, Logged, Hooks, NEW h \in Handlers, req[h].op = "hook"
  PROVE  /\ req[h].event \in DOMAIN log /\ log[req[h].event].type # "completed"
         /\ log[req[h].event] \in Event
         /\ req[h].seen \in Subscription /\ req[h].found \in SUBSET Invoices
         /\ req[h].event \in Nat
<1>1. req[h] \in Request
  BY DEF TypeOK
<1>2. req[h].event \in DOMAIN log /\ log[req[h].event].type # "completed"
  BY DEF Hooks
<1>3. log[req[h].event] \in Event
  BY <1>2 DEF TypeOK
<1> QED BY <1>1, <1>2, <1>3, RequestParts

LEMMA HookType ==
  ASSUME TypeOK, Logged, Hooks, NEW h \in Handlers, Hooking(h)
  PROVE  TypeOK'
<1> DEFINE r == req[h]
           e == log[r.event]
           p == <<e.sub, e.period>>
<1>1. r.op = "hook" /\ sub \in Subscription
  BY DEF TypeOK, Hooking, HookReport, HookSettle, HookMirror, HookRenew
<1>2. /\ r.event \in DOMAIN log /\ e.type # "completed" /\ e \in Event
      /\ r.seen \in Subscription /\ r.found \in SUBSET Invoices
  BY <1>1, HookParts
<1>3. /\ e.sub \in Invoices /\ Begun(e.state) /\ p \in StripeInvoices
      /\ e.type \in {"paid", "failed", "updated", "deleted"} /\ Charged(e) \in Nat
  BY <1>2, EventParts
<1>4. req' \in [Handlers -> Request] /\ processed' \subseteq DOMAIN log
  BY <1>2, IdleType
     DEF Hooking, HookReport, HookSettle, HookMirror, HookRenew, Finish, TypeOK
<1>5. Linked(r, e) \in Subscription
  BY <1>2, <1>3, LinkedType
<1>6. PaidRef(e) \in PaymentRefs
  BY <1>3 DEF PaidRef, PaymentRefs, StripeRefs
<1>7. CASE HookReport(h)
  <2>1. Reported(e, r.seen) \in Subscription
    BY <1>2, <1>3, <1>7, ReportedType DEF HookReport
  <2>2. sub' \in Subscription
    BY <1>1, <1>2, <1>7, <2>1, MergeType DEF HookReport
  <2> QED BY <1>4, <1>7, <2>2 DEF HookReport, TypeOK, stripeVars
<1>8. CASE HookSettle(h)
  <2>1. PICK i \in r.found :
          /\ inv' = [inv EXCEPT ![i] = [Settled(inv[i]) EXCEPT !.stripe = p]]
          /\ PayFor(PaidRef(e), i, Charged(e))
          /\ sub' = Merge(r.seen, Activated(Linked(r, e), inv[i].plan))
    BY <1>2, <1>8 DEF HookSettle, TypeOK
  <2>2. i \in Invoices /\ inv[i] \in Invoice
    BY <1>2 DEF TypeOK
  <2>3. inv' \in [Invoices -> Invoice]
    BY <1>3, <2>1, <2>2, SettledType DEF TypeOK
  <2>4. payments' \subseteq Payment
    BY <1>3, <1>6, <2>1, <2>2, PayForType DEF TypeOK
  <2>5. sub' \in Subscription
    <3>1. inv[i].plan \in Plans \union {None}
      BY <2>2 DEF Invoice
    <3> QED BY <1>1, <1>2, <1>5, <2>1, <3>1, ActivatedType, MergeType
  <2> QED BY <1>4, <1>8, <2>3, <2>4, <2>5 DEF HookSettle, TypeOK, stripeVars
<1>9. CASE HookMirror(h)
  <2>1. PICK i \in Invoices :
          /\ inv' = [inv EXCEPT ![i] =
                       [Settled(OpenInvoice(None, Charged(e))) EXCEPT !.stripe = p]]
          /\ PayFor(PaidRef(e), i, Charged(e))
    BY <1>9 DEF HookMirror
  <2>2. inv' \in [Invoices -> Invoice]
    <3>1. OpenInvoice(None, Charged(e)) \in Invoice
      BY <1>3, OpenInvoiceType
    <3>2. [Settled(OpenInvoice(None, Charged(e))) EXCEPT !.stripe = p] \in Invoice
      BY <1>3, <3>1, SettledType
    <3> QED BY <2>1, <3>2 DEF TypeOK
  <2>3. payments' \subseteq Payment
    BY <1>3, <1>6, <2>1, PayForType DEF TypeOK
  <2>4. sub' \in Subscription
    BY <1>1, <1>2, <1>5, <1>9, MergeType DEF HookMirror
  <2> QED BY <1>4, <1>9, <2>2, <2>3, <2>4 DEF HookMirror, TypeOK, stripeVars
<1>10. CASE HookRenew(h)
  <2>1. sub' \in Subscription
    BY <1>1, <1>2, <1>5, <1>10, MergeType DEF HookRenew
  <2> QED BY <1>4, <1>10, <2>1 DEF HookRenew, TypeOK, stripeVars
<1> QED BY <1>7, <1>8, <1>9, <1>10 DEF Hooking

LEMMA HookOnceType ==
  ASSUME TypeOK, Logged, NEW h \in Handlers, Completing(h)
  PROVE  TypeOK'
<1>0. PICK k \in DOMAIN log : HookCompleted(h, k) \/ HookIgnore(h, k)
  BY DEF Completing
<1>1. processed' \subseteq DOMAIN log
  BY <1>0 DEF HookCompleted, HookIgnore, TypeOK
<1>2. CASE HookIgnore(h, k)
  BY <1>1, <1>2 DEF HookIgnore, TypeOK, stripeVars
<1>3. CASE HookCompleted(h, k)
  <2> DEFINE i == log[k].sub
             row == inv[i]
             first == Snapshot("paid", i, log[k].state, 0)
  <2>1. i \in Invoices /\ row \in Invoice /\ sub \in Subscription
    BY EventParts DEF TypeOK
  <2>2. <<i, 0>> \in StripeInvoices
    BY <2>1, BillingAssumption DEF StripeInvoices
  <2>3. Charged(first) \in Nat
    BY <2>1 DEF Charged, Snapshot, TypeOK, Session
  <2>4. inv' \in [Invoices -> Invoice]
    <3>1. /\ [Settled(row) EXCEPT !.stripe = <<i, 0>>] \in Invoice
          /\ [row EXCEPT !.stripe = <<i, 0>>] \in Invoice
      BY <2>1, <2>2, SettledType
    <3>2. \/ inv' = [inv EXCEPT ![i] = [Settled(row) EXCEPT !.stripe = <<i, 0>>]]
          \/ inv' = [inv EXCEPT ![i] = [row EXCEPT !.stripe = <<i, 0>>]]
      BY <1>3, <2>1 DEF HookCompleted, TypeOK
    <3>3. \E v \in Invoice : inv' = [inv EXCEPT ![i] = v]
      BY <3>1, <3>2
    <3> QED BY <2>1, <3>3 DEF TypeOK
  <2>5. payments' \subseteq Payment
    <3>1. PayFor(<<"checkout", i>>, i, Charged(first)) \/ UNCHANGED payments
      BY <1>3 DEF HookCompleted
    <3>2. <<"checkout", i>> \in PaymentRefs
      BY <2>1 DEF PaymentRefs, StripeRefs
    <3> QED BY <2>1, <2>3, <3>1, <3>2, PayForType DEF TypeOK
  <2>6. sub' \in Subscription
    <3>1. \E s \in {sub, Activated(sub, row.plan)} : sub' = [s EXCEPT !.link = i]
      BY <1>3 DEF HookCompleted
    <3>2. Activated(sub, row.plan) \in Subscription
      BY <2>1, ActivatedType DEF Invoice
    <3>3. \A s \in Subscription : [s EXCEPT !.link = i] \in Subscription
      BY <2>1 DEF Subscription
    <3> QED BY <2>1, <3>1, <3>2, <3>3
  <2> QED BY <1>1, <1>3, <2>4, <2>5, <2>6 DEF HookCompleted, TypeOK, stripeVars
<1> QED BY <1>0, <1>2, <1>3

(* The sequences of events Stripe emits at once.                           *)
Types == {<<"completed", "paid">>, <<"paid", "completed">>, <<"paid", "updated">>,
          <<"failed", "updated">>, <<"deleted">>, <<"updated">>}

LEMMA TypesType ==
  ASSUME NEW types \in Types
  PROVE  types \in Seq({"completed", "paid", "failed", "updated", "deleted"})
<1> DEFINE names == {"completed", "paid", "failed", "updated", "deleted"}
<1>1. \A a, b \in names : <<a>> \in Seq(names) /\ <<a, b>> \in Seq(names)
  <2> HIDE DEF names
  <2> QED OBVIOUS
<1>2. /\ "completed" \in names /\ "paid" \in names /\ "failed" \in names
      /\ "updated" \in names /\ "deleted" \in names
  OBVIOUS
<1> HIDE DEF names
<1>3. types \in Seq(names)
  BY <1>1, <1>2 DEF Types
<1> QED BY <1>3 DEF names

(* Every step at Stripe that emits events does this.                       *)
Emits(i, s, n, types) == log' = Emit(types, i, s, n) /\ stripe' = [stripe EXCEPT ![i] = s]

LEMMA EmitsType ==
  ASSUME TypeOK, NEW i \in Invoices, NEW s \in StripeSubscription,
         NEW n \in 0..PeriodBound, NEW types \in Types, Emits(i, s, n, types),
         UNCHANGED processed
  PROVE  /\ log' \in Seq(Event) /\ processed' \subseteq DOMAIN log'
         /\ stripe' \in [Invoices -> StripeSubscription]
<1>1. types \in Seq({"completed", "paid", "failed", "updated", "deleted"})
  BY TypesType
<1>2. log \in Seq(Event)
  BY DEF TypeOK
<1>3. log' \in Seq(Event) /\ Len(log') = Len(log) + Len(types)
  BY <1>1, <1>2, EmitType DEF Emits
<1>4. Len(log) \in Nat /\ Len(types) \in Nat
  BY <1>1, <1>2
<1>5. DOMAIN log \subseteq DOMAIN log'
  BY <1>2, <1>3, <1>4
<1> QED BY <1>3, <1>5 DEF Emits, TypeOK

EmittedSome ==
  \E j \in Invoices, s \in StripeSubscription, n \in 0..PeriodBound, types \in Types :
    /\ Emits(j, s, n, types)
    /\ Begun(s)
    /\ stripe[j].status # "none" \/ sessions[j].state = "open"

LEMMA StripeStepEmits ==
  ASSUME TypeOK, Planned, Links, Hooks, Emitting
  PROVE  EmittedSome
<1>1. \A i \in Invoices :
        /\ stripe[i] \in StripeSubscription /\ sessions[i] \in Session
        /\ period[i] \in 0..PeriodBound
  BY DEF TypeOK
<1>2. ASSUME NEW i \in Invoices, StripePay(i) PROVE EmittedSome
  <2> DEFINE s == [status |-> "active", plan |-> sessions[i].plan, atEnd |-> FALSE]
  <2>1. sessions[i].plan \in Plans /\ sessions[i].state = "open"
    BY <1>1, <1>2 DEF StripePay, Planned, Session
  <2>2. s \in StripeSubscription /\ Begun(s)
    BY <2>1, BillingAssumption DEF StripeSubscription, StripeStatus, Begun
  <2>3. 0 \in 0..PeriodBound
    BY BillingAssumption
  <2>4. \E types \in Types : Emits(i, s, 0, types)
    BY <1>2 DEF StripePay, Emits, Types
  <2> HIDE DEF s
  <2> QED BY <2>1, <2>2, <2>3, <2>4 DEF EmittedSome
<1>3. ASSUME NEW i \in Invoices, NEW s \in StripeSubscription, NEW types \in Types, NEW n \in 0..PeriodBound,
             StripeChange(i, s, types, n), stripe[i].status # "none", Begun(s)
      PROVE  EmittedSome
  <2>1. Emits(i, s, n, types)
    BY <1>3 DEF StripeChange, Emits
  <2> QED BY <1>3, <2>1 DEF EmittedSome
<1>4. \A i \in Invoices : stripe[i].status # "none" => stripe[i].plan \in Plans
  BY <1>1 DEF Planned, StripeSubscription
<1>5. ASSUME NEW i \in Invoices, StripeRenew(i) PROVE EmittedSome
  <2> DEFINE s == [stripe[i] EXCEPT !.status = "active"]
  <2>1. stripe[i].status # "none" /\ period[i] + 1 \in 0..PeriodBound
    BY <1>1, <1>5, BillingAssumption DEF StripeRenew, Live
  <2>2. s \in StripeSubscription /\ Begun(s)
    BY <1>1, <1>4, <2>1, BillingAssumption DEF StripeSubscription, StripeStatus, Begun
  <2>3. StripeChange(i, s, <<"paid", "updated">>, period[i] + 1)
    BY <1>5 DEF StripeRenew
  <2> HIDE DEF s
  <2> QED BY <1>3, <2>1, <2>2, <2>3 DEF Types
<1>6. ASSUME NEW i \in Invoices, StripeFail(i) PROVE EmittedSome
  <2> DEFINE s == [stripe[i] EXCEPT !.status = "past_due"]
  <2>1. stripe[i].status # "none"
    BY <1>6 DEF StripeFail
  <2>2. s \in StripeSubscription /\ Begun(s)
    BY <1>1, <1>4, <2>1, BillingAssumption DEF StripeSubscription, StripeStatus, Begun
  <2>3. StripeChange(i, s, <<"failed", "updated">>, period[i])
    BY <1>6 DEF StripeFail
  <2> HIDE DEF s
  <2> QED BY <1>1, <1>3, <2>1, <2>2, <2>3 DEF Types
<1>7. ASSUME NEW i \in Invoices, StripeEnd(i) PROVE EmittedSome
  <2> DEFINE s == [stripe[i] EXCEPT !.status = "canceled", !.atEnd = FALSE]
  <2>1. stripe[i].status # "none"
    BY <1>7 DEF StripeEnd, Live
  <2>2. s \in StripeSubscription /\ Begun(s)
    BY <1>1, <1>4, <2>1, BillingAssumption DEF StripeSubscription, StripeStatus, Begun
  <2>3. StripeChange(i, s, <<"deleted">>, period[i])
    BY <1>7 DEF StripeEnd
  <2> HIDE DEF s
  <2> QED BY <1>1, <1>3, <2>1, <2>2, <2>3 DEF Types
<1>8. ASSUME NEW i \in Invoices, NEW p \in Plans, StripePortal(i, p) PROVE EmittedSome
  <2> DEFINE s == [stripe[i] EXCEPT !.plan = p]
  <2>1. stripe[i].status = "active"
    BY <1>8 DEF StripePortal
  <2>2. s \in StripeSubscription /\ Begun(s)
    BY <1>1, <2>1, BillingAssumption DEF StripeSubscription, StripeStatus, Begun
  <2>3. StripeChange(i, s, <<"updated">>, period[i])
    BY <1>8 DEF StripePortal
  <2> HIDE DEF s
  <2> QED BY <1>1, <1>3, <2>1, <2>2, <2>3 DEF Types
<1>9. ASSUME NEW h \in Handlers, CancelStripe(h) PROVE EmittedSome
  <2> DEFINE j == req[h].seen.link
             s == [stripe[j] EXCEPT !.atEnd = req[h].value]
  <2>1. req[h] \in Request /\ req[h].op = "cancel" /\ ~req[h].told
    BY <1>9 DEF CancelStripe, TypeOK
  <2>2. req[h].seen \in Subscription /\ req[h].value \in BOOLEAN
    BY <2>1, RequestParts
  <2>3. j \in Invoices /\ stripe[j].status # "none"
    BY <2>1, <2>2 DEF Hooks, Links, Linkable, Subscription
  <2>4. stripe[j] \in StripeSubscription /\ stripe[j].plan # None
    BY <2>3 DEF TypeOK, Planned
  <2>5. s \in StripeSubscription /\ Begun(s)
    BY <2>2, <2>3, <2>4 DEF StripeSubscription, Begun
  <2>6. Emits(j, s, 0, <<"updated">>)
    BY <1>9 DEF CancelStripe, Emits
  <2>7. 0 \in 0..PeriodBound /\ <<"updated">> \in Types
    BY BillingAssumption DEF Types
  <2> HIDE DEF j, s
  <2> QED BY <2>3, <2>5, <2>6, <2>7 DEF EmittedSome
<1> QED BY <1>2, <1>5, <1>6, <1>7, <1>8, <1>9 DEF Emitting

(* The requests an emitting step leaves are the same but for one answer.   *)
Told(h) == req' = [req EXCEPT ![h] = [req[h] EXCEPT !.told = TRUE]]

LEMMA EmittingFrame ==
  ASSUME TypeOK, Emitting
  PROVE  /\ UNCHANGED <<env, sub, inv, payments, price, customer, processed>>
         /\ \/ UNCHANGED req
            \/ \E h \in Handlers : req[h].op = "cancel" /\ Told(h)
         /\ \/ UNCHANGED sessions
            \/ \E i \in Invoices : /\ sessions[i].state = "open"
                                   /\ sessions' = [sessions EXCEPT ![i].state = "paid"]
         /\ \/ UNCHANGED period
            \/ \E i \in Invoices, n \in 0..PeriodBound : period' = [period EXCEPT ![i] = n]
<1>1. \A i \in Invoices : period[i] \in 0..PeriodBound
  BY DEF TypeOK
<1>2. ASSUME NEW i \in Invoices, period[i] < PeriodBound PROVE period[i] + 1 \in 0..PeriodBound
  BY <1>1, <1>2, BillingAssumption
<1>3. CASE \E i \in Invoices : StripePay(i)
  BY <1>3 DEF StripePay
<1>4. ASSUME NEW i \in Invoices, NEW s, NEW types, NEW n \in 0..PeriodBound,
             StripeChange(i, s, types, n)
      PROVE  /\ UNCHANGED <<env, sub, inv, payments, price, customer, processed, req, sessions>>
             /\ period' = [period EXCEPT ![i] = n]
  BY <1>4 DEF StripeChange
<1>5. CASE \/ \E i \in Invoices : StripeRenew(i) \/ StripeFail(i) \/ StripeEnd(i)
           \/ \E i \in Invoices, p \in Plans : StripePortal(i, p)
  <2>1. \E i \in Invoices, n \in 0..PeriodBound :
          \E t, types : StripeChange(i, t, types, n)
    BY <1>1, <1>2, <1>5 DEF StripeRenew, StripeFail, StripeEnd, StripePortal
  <2>2. PICK i \in Invoices, n \in 0..PeriodBound :
          \E t, types : StripeChange(i, t, types, n)
    BY <2>1
  <2>3. PICK t, types : StripeChange(i, t, types, n)
    BY <2>2
  <2>4. /\ UNCHANGED <<env, sub, inv, payments, price, customer, processed, req, sessions>>
        /\ period' = [period EXCEPT ![i] = n]
    BY <1>4, <2>3
  <2> QED BY <2>4
<1>6. CASE \E h \in Handlers : CancelStripe(h)
  BY <1>6 DEF CancelStripe, TypeOK, Told
<1> QED BY <1>3, <1>5, <1>6 DEF Emitting

LEMMA StripeType ==
  ASSUME TypeOK, Planned, Links, Hooks, Emitting
  PROVE  TypeOK'
<1>1. UNCHANGED <<env, sub, inv, payments, price, customer, processed>>
  BY EmittingFrame
<1>2. /\ log' \in Seq(Event) /\ processed' \subseteq DOMAIN log'
      /\ stripe' \in [Invoices -> StripeSubscription]
  BY <1>1, StripeStepEmits, EmitsType DEF EmittedSome
<1>3. period' \in [Invoices -> 0..PeriodBound]
  BY EmittingFrame DEF TypeOK
<1>4. sessions' \in [Invoices -> Session]
  <2>1. ASSUME NEW i \in Invoices, sessions' = [sessions EXCEPT ![i].state = "paid"]
        PROVE  sessions' \in [Invoices -> Session]
    <3>1. sessions[i] \in Session
      BY DEF TypeOK
    <3>2. [sessions[i] EXCEPT !.state = "paid"] \in Session
      BY <3>1 DEF Session
    <3> QED BY <2>1, <3>2 DEF TypeOK
  <2> QED BY <2>1, EmittingFrame DEF TypeOK
<1>5. req' \in [Handlers -> Request]
  <2>1. ASSUME NEW h \in Handlers, req[h].op = "cancel", Told(h)
        PROVE  req' \in [Handlers -> Request]
    <3>1. req[h] \in Request
      BY DEF TypeOK
    <3>2. [req[h] EXCEPT !.told = TRUE] \in Request
      BY <2>1, <3>1 DEF Request
    <3> QED BY <2>1, <3>2 DEF TypeOK, Told
  <2> QED BY <2>1, EmittingFrame DEF TypeOK
<1> QED BY <1>1, <1>2, <1>3, <1>4, <1>5 DEF TypeOK

LEMMA ExpireType ==
  ASSUME TypeOK, Expiring
  PROVE  TypeOK'
<1>1. NoSession \in Session
  BY DEF NoSession, Session
<1>2. sessions' \in [Invoices -> Session]
  BY <1>1 DEF Expiring, StripeExpire, TypeOK
<1> QED BY <1>2 DEF Expiring, StripeExpire, TypeOK

-----------------------------------------------------------------------------
(* What the steps leave alone.                                             *)

LEMMA OthersKept ==
  ASSUME TypeOK, NEW h \in Handlers,
         \/ Reading(h) \/ Dropping(h) \/ Changing(h) \/ Checking(h) \/ Booking(h)
         \/ Hooking(h) \/ Completing(h),
         NEW g \in Handlers, g # h
  PROVE  req'[g] = req[g]
<1>1. CASE Reading(h)
  BY <1>1 DEF Reading, ChangeRead, CheckoutRead, PayRead, VoidRead, CancelRead, HookRead, TypeOK
<1>2. CASE Dropping(h) \/ Changing(h) \/ Booking(h) \/ Hooking(h)
  BY <1>2 DEF Dropping, CheckoutRefused, PayConflict, Abandon, Changing, ChangeFree,
              ChangeInvoice, CancelCommit, Booking, PayCommit, VoidCommit, Hooking, HookReport,
              HookSettle, HookMirror, HookRenew, Finish, TypeOK
<1>3. CASE Checking(h)
  BY <1>3 DEF Checking, CheckoutCustomer, CheckoutSession, CheckoutCommit, Finish, TypeOK
<1>4. CASE Completing(h)
  BY <1>4 DEF Completing, HookCompleted, HookIgnore
<1> QED BY <1>1, <1>2, <1>3, <1>4

LEMMA Finished ==
  ASSUME TypeOK, NEW h \in Handlers,
         Dropping(h) \/ Changing(h) \/ Booking(h) \/ Hooking(h)
  PROVE  req'[h].op = "idle"
<1>1. CASE Dropping(h)
  <2>1. Finish(h)
    BY <1>1 DEF Dropping, CheckoutRefused, PayConflict, Abandon
  <2> QED BY <2>1 DEF Finish, Idle, TypeOK
<1>2. CASE Changing(h)
  <2>1. Finish(h)
    BY <1>2 DEF Changing, ChangeFree, ChangeInvoice, CancelCommit
  <2> QED BY <2>1 DEF Finish, Idle, TypeOK
<1>3. CASE Booking(h)
  <2>1. Finish(h)
    BY <1>3 DEF Booking, PayCommit, VoidCommit
  <2> QED BY <2>1 DEF Finish, Idle, TypeOK
<1>4. CASE Hooking(h)
  <2>1. Finish(h)
    BY <1>4 DEF Hooking, HookReport, HookSettle, HookMirror, HookRenew
  <2> QED BY <2>1 DEF Finish, Idle, TypeOK
<1> QED BY <1>1, <1>2, <1>3, <1>4

LEMMA CheckingKept ==
  ASSUME TypeOK, NEW h \in Handlers, Checking(h)
  PROVE  /\ req[h].op = "checkout"
         /\ \/ req'[h].op = "idle" /\ SaveInvoice(h)
            \/ /\ req'[h].op = "checkout" /\ req'[h].invoice = req[h].invoice
               /\ \/ req'[h].fresh = req[h].fresh /\ UNCHANGED <<inv, sub>>
                  \/ req'[h].fresh = FALSE /\ SaveInvoice(h)
<1>1. req[h].op = "checkout"
  BY DEF Checking, CheckoutCustomer, CheckoutSession, CheckoutCommit
<1>2. CASE CheckoutCommit(h)
  BY <1>1, <1>2 DEF CheckoutCommit, Finish, Idle, TypeOK
<1>3. req[h] \in [op : {"checkout"}, plan : Plans, price : Nat, invoice : Invoices,
                  fresh : BOOLEAN, locked : BOOLEAN, session : BOOLEAN]
  BY <1>1 DEF TypeOK, Request
<1>4. CASE CheckoutCustomer(h)
  <2>1. req'[h] = [req[h] EXCEPT !.fresh = FALSE, !.locked = FALSE]
    BY <1>4 DEF CheckoutCustomer, TypeOK
  <2>2. /\ req'[h].op = "checkout" /\ req'[h].invoice = req[h].invoice
        /\ req'[h].fresh = FALSE
    BY <1>3, <2>1
  <2> QED BY <1>1, <1>4, <2>2 DEF CheckoutCustomer
<1>5. CASE CheckoutSession(h)
  <2>1. req'[h] = [req[h] EXCEPT !.session = TRUE]
    BY <1>5 DEF CheckoutSession, TypeOK
  <2>2. /\ req'[h].op = "checkout" /\ req'[h].invoice = req[h].invoice
        /\ req'[h].fresh = req[h].fresh
    BY <1>3, <2>1
  <2> QED BY <1>1, <1>5, <2>2 DEF CheckoutSession
<1> QED BY <1>2, <1>4, <1>5 DEF Checking

(* Rows of invoices: Fresh is one nobody has referred to yet.              *)
Fresh(i) ==
  /\ ~Exists(i)
  /\ \A g \in Handlers : req[g].op = "checkout" => req[g].invoice # i

LEMMA UnusedFresh ==
  ASSUME NEW i \in Invoices, Unused(i)
  PROVE  Fresh(i)
  BY DEF Unused, Fresh, Exists

LEMMA SavedRow ==
  ASSUME TypeOK, NEW h \in Handlers, req[h].op = "checkout", SaveInvoice(h)
  PROVE  \/ UNCHANGED <<inv, sub>> /\ ~req[h].fresh
         \/ /\ req[h].fresh
            /\ \A j \in Invoices : j # req[h].invoice => inv'[j] = inv[j]
            /\ inv'[req[h].invoice].status = "open"
            /\ inv'[req[h].invoice].plan = req[h].plan
            /\ inv'[req[h].invoice].stripe = None
            /\ sub' = [sub EXCEPT !.pending = req[h].plan]
<1>1. req[h].invoice \in Invoices /\ req[h].fresh \in BOOLEAN
  BY RequestParts DEF TypeOK
<1>2. \A p \in Plans, n \in Nat :
        /\ OpenInvoice(p, n).status = "open" /\ OpenInvoice(p, n).plan = p
        /\ OpenInvoice(p, n).stripe = None
  BY DEF OpenInvoice, Absent
<1>3. req[h].plan \in Plans /\ req[h].price \in Nat
  BY RequestParts DEF TypeOK
<1>4. CASE ~req[h].fresh
  BY <1>4 DEF SaveInvoice
<1>5. CASE req[h].fresh
  <2>1. inv' = [inv EXCEPT ![req[h].invoice] = OpenInvoice(req[h].plan, req[h].price)]
        /\ sub' = [sub EXCEPT !.pending = req[h].plan]
    BY <1>5 DEF SaveInvoice
  <2> QED BY <1>1, <1>2, <1>3, <1>5, <2>1 DEF TypeOK
<1> QED BY <1>1, <1>4, <1>5

(* What each of the steps that write an invoice makes of it.               *)
LEMMA BookedRow ==
  ASSUME TypeOK, PaysFit, TargetsExist, NEW h \in Handlers, Booking(h)
  PROVE  /\ req[h].invoice \in Invoices
         /\ \A j \in Invoices : j # req[h].invoice => inv'[j] = inv[j]
         /\ inv'[req[h].invoice].plan = inv[req[h].invoice].plan
         /\ inv'[req[h].invoice].stripe = inv[req[h].invoice].stripe
         /\ Exists(req[h].invoice)
         /\ inv'[req[h].invoice].status # "absent"
         /\ ~InvoiceLocked(h, req[h].invoice)
<1> DEFINE i == req[h].invoice
<1>1. req[h].op \in {"pay", "void"} /\ i \in Invoices
  BY RequestParts DEF Booking, PayCommit, VoidCommit, TypeOK
<1>2. inv[i] \in Invoice /\ Exists(i)
  BY <1>1 DEF TypeOK, TargetsExist, Targets
<1>3. \A r \in Invoice, n \in Nat : /\ Received(r, n).plan = r.plan
                                    /\ Received(r, n).stripe = r.stripe
                                    /\ Received(r, n).status # "absent"
  BY DEF Received, Invoice
<1>4. \A r \in Invoice : /\ Voided(r).plan = r.plan /\ Voided(r).stripe = r.stripe
                         /\ Voided(r).status # "absent"
  BY DEF Voided, Invoice
<1>5. CASE PayCommit(h)
  <2>1. req[h].amount \in Nat /\ ~InvoiceLocked(h, i)
    BY <1>5, RequestParts DEF PayCommit, PaysFit, TypeOK
  <2>2. inv' = [inv EXCEPT ![i] = Received(inv[i], req[h].amount)]
    BY <1>5 DEF PayCommit
  <2> QED BY <1>1, <1>2, <1>3, <2>1, <2>2 DEF TypeOK
<1>6. CASE VoidCommit(h)
  <2>1. ~InvoiceLocked(h, i) /\ (inv' = inv \/ inv' = [inv EXCEPT ![i] = Voided(inv[i])])
    BY <1>6 DEF VoidCommit
  <2>2. Exists(i)
    BY <1>2
  <2> QED BY <1>1, <1>2, <1>4, <2>1 DEF TypeOK, Exists
<1> QED BY <1>5, <1>6 DEF Booking

LEMMA HookedRow ==
  ASSUME TypeOK, Logged, Hooks, TargetsExist, NEW h \in Handlers, Hooking(h)
  PROVE  \/ UNCHANGED inv
         \/ \E i \in Invoices :
              /\ Fresh(i) \/ (i \in req[h].found /\ Exists(i) /\ ~InvoiceLocked(h, i))
              /\ \A j \in Invoices : j # i => inv'[j] = inv[j]
              /\ inv'[i].status = "paid"
<1> DEFINE r == req[h]
           e == log[r.event]
           p == <<e.sub, e.period>>
<1>1. r.op = "hook"
  BY DEF Hooking, HookReport, HookSettle, HookMirror, HookRenew
<1>2. r.found \in SUBSET Invoices /\ e \in Event
  BY <1>1, HookParts
<1>3. \A s : \A x \in Invoice : [Settled(x) EXCEPT !.stripe = s].status = "paid"
  BY DEF Settled, Invoice
<1>4. CASE HookReport(h) \/ HookRenew(h)
  BY <1>4 DEF HookReport, HookRenew
<1>5. CASE HookSettle(h)
  <2>1. PICK i \in r.found : /\ ~InvoiceLocked(h, i)
                             /\ inv' = [inv EXCEPT ![i] = [Settled(inv[i]) EXCEPT !.stripe = p]]
    BY <1>2, <1>5 DEF HookSettle, TypeOK
  <2>2. i \in Invoices /\ Exists(i) /\ inv[i] \in Invoice
    BY <1>1, <1>2 DEF TargetsExist, Targets, TypeOK
  <2> QED BY <1>3, <2>1, <2>2 DEF TypeOK
<1>6. CASE HookMirror(h)
  <2> DEFINE row == OpenInvoice(None, Charged(e))
  <2>1. PICK i \in Invoices : /\ Unused(i)
                              /\ inv' = [inv EXCEPT ![i] = [Settled(row) EXCEPT !.stripe = p]]
    BY <1>6 DEF HookMirror
  <2>2. row \in Invoice
    BY <1>1, HookParts, EventParts, OpenInvoiceType
  <2> HIDE DEF row
  <2> QED BY <1>3, <2>1, <2>2, UnusedFresh DEF TypeOK
<1> QED BY <1>4, <1>5, <1>6 DEF Hooking

LEMMA CompletedRow ==
  ASSUME TypeOK, Logged, EventsExist, NEW h \in Handlers, NEW k \in DOMAIN log,
         HookCompleted(h, k)
  PROVE  LET i == log[k].sub IN
         /\ i \in Invoices /\ Exists(i) /\ ~InvoiceLocked(h, i)
         /\ \A j \in Invoices : j # i => inv'[j] = inv[j]
         /\ inv'[i].status = IF inv[i].status = "open" THEN "paid" ELSE inv[i].status
<1> DEFINE i == log[k].sub
<1>1. i \in Invoices /\ Exists(i) /\ inv[i] \in Invoice
  BY EventParts DEF EventsExist, TypeOK
<1>2. \A s : \A x \in Invoice : /\ [Settled(x) EXCEPT !.stripe = s].status = "paid"
                                /\ [x EXCEPT !.stripe = s].status = x.status
  BY DEF Settled, Invoice
<1> DEFINE v == [IF inv[i].status = "open" THEN Settled(inv[i]) ELSE inv[i] EXCEPT
                   !.stripe = <<i, 0>>]
<1>3. inv' = [inv EXCEPT ![i] = v]
  BY <1>1 DEF HookCompleted, TypeOK
<1>4. ~InvoiceLocked(h, i)
  BY DEF HookCompleted
<1>5. v.status = IF inv[i].status = "open" THEN "paid" ELSE inv[i].status
  BY <1>1, <1>2
<1> HIDE DEF v
<1>6. /\ \A j \in Invoices : j # i => inv'[j] = inv[j]
      /\ inv'[i].status = IF inv[i].status = "open" THEN "paid" ELSE inv[i].status
  BY <1>1, <1>3, <1>5 DEF TypeOK
<1> QED BY <1>1, <1>4, <1>6

-----------------------------------------------------------------------------
(* Every step keeps the invariant.                                         *)

Acts(h) ==
  \/ Reading(h) \/ Dropping(h) \/ Changing(h) \/ Checking(h) \/ Booking(h)
  \/ Hooking(h) \/ Completing(h)

(* The row a plan change or a charge creates.                              *)
LEMMA ChangedRow ==
  ASSUME TypeOK, NEW h \in Handlers, Changing(h)
  PROVE  \/ UNCHANGED inv
         \/ ChangeInvoice(h) /\ \E i \in Invoices :
              /\ Fresh(i)
              /\ \A j \in Invoices : j # i => inv'[j] = inv[j]
              /\ inv'[i].status = "open" /\ inv'[i].plan = req[h].plan /\ inv'[i].stripe = None
<1>1. CASE ChangeFree(h) \/ CancelCommit(h)
  BY <1>1 DEF ChangeFree, CancelCommit
<1>2. CASE ChangeInvoice(h)
  <2>1. PICK i \in Invoices :
          Unused(i) /\ inv' = [inv EXCEPT ![i] = OpenInvoice(req[h].plan, req[h].price)]
    BY <1>2 DEF ChangeInvoice
  <2> DEFINE row == OpenInvoice(req[h].plan, req[h].price)
  <2>2. row.status = "open" /\ row.plan = req[h].plan /\ row.stripe = None
    BY DEF OpenInvoice, Absent
  <2>3. inv' = [inv EXCEPT ![i] = row]
    BY <2>1
  <2> HIDE DEF row
  <2> QED BY <1>2, <2>1, <2>2, <2>3, UnusedFresh DEF TypeOK
<1> QED BY <1>1, <1>2 DEF Changing

LEMMA AdministeredRow ==
  ASSUME TypeOK, Administering
  PROVE  /\ UNCHANGED <<env, sub, payments, customer, processed, req, stripeVars>>
         /\ \/ UNCHANGED inv
            \/ \E i \in Invoices :
                 /\ Fresh(i)
                 /\ \A j \in Invoices : j # i => inv'[j] = inv[j]
                 /\ inv'[i].status = "open" /\ inv'[i].stripe = None
<1>1. ASSUME NEW i \in Invoices, NEW amount \in Prices, Charge(i, amount)
      PROVE  /\ Fresh(i)
             /\ \A j \in Invoices : j # i => inv'[j] = inv[j]
             /\ inv'[i].status = "open" /\ inv'[i].stripe = None
  <2>1. Unused(i) /\ inv' = [inv EXCEPT ![i] = OpenInvoice(None, amount)]
    BY <1>1 DEF Charge
  <2>2. OpenInvoice(None, amount).status = "open" /\ OpenInvoice(None, amount).stripe = None
    BY DEF OpenInvoice, Absent
  <2> QED BY <2>1, <2>2, UnusedFresh DEF TypeOK
<1> QED BY <1>1 DEF Administering, Charge, Reprice

(* Rows other requests have locked, or reserved, are left alone.           *)
LEMMA LockedKept ==
  ASSUME Invariant, NEW h \in Handlers, Acts(h), NEW i \in Invoices, InvoiceLocked(h, i)
  PROVE  inv'[i] = inv[i]
<1> USE DEF Invariant
<1>1. inv[i].status = "open" /\ ~Fresh(i)
  BY DEF InvoiceLocked, PaysFit, Fresh, Exists
<1>2. CASE Reading(h) \/ Dropping(h)
  BY <1>2 DEF Reading, ChangeRead, CheckoutRead, PayRead, VoidRead, CancelRead, HookRead,
              Dropping, CheckoutRefused, PayConflict, Abandon
<1>3. CASE Changing(h)
  BY <1>1, <1>3, ChangedRow
<1>4. CASE Checking(h)
  <2>1. req[h].op = "checkout" /\ (UNCHANGED inv \/ SaveInvoice(h))
    BY <1>4, CheckingKept
  <2>2. req[h].fresh => ~Exists(req[h].invoice)
    BY <2>1 DEF Reserved
  <2> QED BY <1>1, <2>1, <2>2, SavedRow DEF Exists
<1>5. CASE Booking(h)
  BY <1>5, BookedRow
<1>6. CASE Hooking(h)
  BY <1>1, <1>6, HookedRow
<1>7. CASE Completing(h)
  <2>1. PICK k \in DOMAIN log : HookCompleted(h, k) \/ HookIgnore(h, k)
    BY <1>7 DEF Completing
  <2>2. CASE HookIgnore(h, k)
    BY <2>2 DEF HookIgnore
  <2> QED BY <2>1, <2>2, CompletedRow
<1> QED BY <1>2, <1>3, <1>4, <1>5, <1>6, <1>7 DEF Acts

(* Invoices never vanish; one appears only under an unused identifier or   *)
(* under the one its Checkout reserved.                                    *)
LEMMA Appearing ==
  ASSUME Invariant, Next, NEW i \in Invoices
  PROVE  /\ Exists(i) => Exists(i)'
         /\ Exists(i)' => \/ Exists(i) \/ Fresh(i)
                          \/ \E h \in Handlers : /\ Checking(h) /\ req[h].fresh
                                                 /\ req[h].invoice = i /\ SaveInvoice(h)
<1> USE DEF Invariant
<1>1. CASE UNCHANGED inv
  BY <1>1 DEF Exists
<1>2. CASE Emitting \/ Expiring
  BY <1>1, <1>2, EmittingFrame DEF Expiring, StripeExpire
<1>3. CASE Administering
  BY <1>1, <1>3, AdministeredRow DEF Exists
<1>4. ASSUME NEW h \in Handlers, Reading(h) \/ Dropping(h) PROVE UNCHANGED inv
  BY <1>4 DEF Reading, ChangeRead, CheckoutRead, PayRead, VoidRead, CancelRead, HookRead,
              Dropping, CheckoutRefused, PayConflict, Abandon
<1>5. CASE \E h \in Handlers : Changing(h)
  BY <1>1, <1>5, ChangedRow DEF Exists
<1>6. CASE \E h \in Handlers : Checking(h)
  <2>1. PICK h \in Handlers : Checking(h)
    BY <1>6
  <2>2. req[h].op = "checkout" /\ (UNCHANGED inv \/ SaveInvoice(h))
    BY <2>1, CheckingKept
  <2> QED BY <1>1, <2>1, <2>2, SavedRow DEF Exists
<1>7. CASE \E h \in Handlers : Booking(h)
  BY <1>7, BookedRow DEF Exists
<1>8. CASE \E h \in Handlers : Hooking(h)
  BY <1>1, <1>8, HookedRow DEF Exists
<1>9. CASE \E h \in Handlers : Completing(h)
  <2>1. PICK h \in Handlers, k \in DOMAIN log : HookCompleted(h, k) \/ HookIgnore(h, k)
    BY <1>9 DEF Completing
  <2>2. CASE HookIgnore(h, k)
    BY <1>1, <2>2 DEF HookIgnore
  <2>3. CASE HookCompleted(h, k)
    BY <2>3, CompletedRow DEF Exists
  <2> QED BY <2>1, <2>2, <2>3
<1> QED
  BY <1>1, <1>2, <1>3, <1>4, <1>5, <1>6, <1>7, <1>8, <1>9, NextClasses

LEMMA EmittingRequests ==
  ASSUME TypeOK, Emitting \/ Expiring, NEW g \in Handlers
  PROVE  /\ req'[g].op = req[g].op
         /\ req[g].op # "cancel" => req'[g] = req[g]
         /\ req'[g] = req[g] \/ req'[g].seen = req[g].seen
         /\ req[g].op = "cancel" => /\ req'[g].seen = req[g].seen
                                    /\ req'[g] = req[g] \/ req'[g].told
<1>1. UNCHANGED req \/ \E h \in Handlers : req[h].op = "cancel" /\ Told(h)
  BY EmittingFrame DEF Expiring, StripeExpire
<1>2. ASSUME NEW h \in Handlers, req[h].op = "cancel", Told(h)
      PROVE  /\ \A f \in Handlers : f # h => req'[f] = req[f]
             /\ req'[h].op = "cancel" /\ req'[h].seen = req[h].seen /\ req'[h].told
  <2>1. req[h] \in Request /\ req'[h] = [req[h] EXCEPT !.told = TRUE]
    BY <1>2 DEF Told, TypeOK
  <2>2. req[h] \in [op : {"cancel"}, value : BOOLEAN, told : BOOLEAN, seen : Subscription]
    BY <1>2, <2>1 DEF Request
  <2> QED BY <1>2, <2>1, <2>2 DEF Told, TypeOK
<1> QED BY <1>1, <1>2

LEMMA PaysFitKept ==
  ASSUME Invariant, Next
  PROVE  PaysFit'
<1> USE DEF Invariant
<1>1. ASSUME \A g \in Handlers : req'[g].op = "pay" =>
               req'[g] = req[g] /\ inv'[req[g].invoice] = inv[req[g].invoice]
      PROVE  PaysFit'
  BY <1>1 DEF PaysFit, InvoiceLocked
<1>2. CASE Emitting \/ Expiring
  <2>1. UNCHANGED inv
    BY <1>2, EmittingFrame DEF Expiring, StripeExpire
  <2>2. \A g \in Handlers : req'[g].op = "pay" => req'[g] = req[g]
    BY <1>2, EmittingRequests
  <2> QED BY <1>1, <2>1, <2>2
<1>3. CASE Administering
  <2>1. ASSUME NEW g \in Handlers, req'[g].op = "pay"
        PROVE  req'[g] = req[g] /\ inv'[req[g].invoice] = inv[req[g].invoice]
    <3>1. req'[g] = req[g]
      BY <1>3, AdministeredRow
    <3>2. req[g].invoice \in Invoices /\ inv[req[g].invoice].status = "open"
      BY <2>1, <3>1, RequestParts DEF PaysFit, TypeOK
    <3> QED BY <1>3, <3>1, <3>2, AdministeredRow DEF Fresh, Exists
  <2> QED BY <1>1, <2>1
<1>4. ASSUME NEW h \in Handlers, Acts(h) PROVE PaysFit'
  <2>1. ASSUME NEW g \in Handlers, g # h, req'[g].op = "pay"
        PROVE  req'[g] = req[g] /\ inv'[req[g].invoice] = inv[req[g].invoice]
    <3>1. req'[g] = req[g]
      BY <1>4, <2>1, OthersKept DEF Acts
    <3>2. req[g].invoice \in Invoices /\ InvoiceLocked(h, req[g].invoice)
      BY <2>1, <3>1, RequestParts DEF InvoiceLocked, TypeOK
    <3> QED BY <1>4, <3>1, <3>2, LockedKept
  <2>2. CASE req'[h].op # "pay"
    BY <1>1, <2>1, <2>2
  <2>3. CASE UNCHANGED <<req, inv>>
    BY <2>3, <1>1
  <2>4. ASSUME NEW i \in Invoices, NEW amount \in Nat, NEW ref \in Refs, PayRead(h, i, amount, ref)
        PROVE  PaysFit'
    <3>1. /\ UNCHANGED inv
          /\ req'[h] = [op |-> "pay", invoice |-> i, amount |-> amount, ref |-> ref,
                        seen |-> sub]
          /\ ~InvoiceLocked(h, i)
          /\ inv[i].status = "open" /\ ~(amount > inv[i].due)
      BY <2>4 DEF PayRead, PayReply, TypeOK
    <3>2. inv[i].due \in Nat
      BY DEF TypeOK, Invoice
    <3>3. \A g \in Handlers : g # h => req'[g] = req[g]
      BY <1>4, OthersKept DEF Acts
    <3> QED BY <3>1, <3>2, <3>3 DEF PaysFit, InvoiceLocked
  <2>5. CASE Reading(h) /\ ~\E i \in Invoices, amount \in Nat, ref \in Refs : PayRead(h, i, amount, ref)
    <3>1. req'[h].op # "pay"
      BY <2>5 DEF Reading, ChangeRead, CheckoutRead, VoidRead, CancelRead, HookRead, TypeOK
    <3> QED BY <2>2, <3>1
  <2>6. CASE Dropping(h) \/ Changing(h) \/ Booking(h) \/ Hooking(h)
    BY <2>2, <2>6, Finished
  <2>7. CASE Checking(h)
    BY <2>2, <2>7, CheckingKept
  <2>8. CASE Completing(h)
    <3>1. UNCHANGED req
      BY <2>8 DEF Completing, HookCompleted, HookIgnore
    <3>2. \A g \in Handlers : req[g].op = "pay" => inv'[req[g].invoice] = inv[req[g].invoice]
      <4>1. req[h] = Idle
        BY <2>8 DEF Completing, HookCompleted, HookIgnore, Deliverable, Free
      <4> QED BY <2>1, <3>1, <4>1 DEF Idle
    <3> QED BY <1>1, <3>1, <3>2
  <2> QED BY <1>4, <2>4, <2>5, <2>6, <2>7, <2>8 DEF Acts
<1> QED BY <1>2, <1>3, <1>4, NextClasses DEF Acts

LEMMA ReservedKept ==
  ASSUME Invariant, Next
  PROVE  Reserved'
<1> USE DEF Invariant
<1>1. \A g \in Handlers : req[g].op = "checkout" =>
        req[g].invoice \in Invoices /\ req[g].fresh \in BOOLEAN
  BY RequestParts DEF TypeOK
<1>2. ASSUME \A g \in Handlers : req'[g].op = "checkout" => req'[g] = req[g],
             ~\E h \in Handlers : Checking(h)
      PROVE  Reserved'
  <2>1. \A g \in Handlers : req'[g].op = "checkout" =>
          (Exists(req[g].invoice) <=> inv'[req[g].invoice].status # "absent")
    <3>1. ASSUME NEW g \in Handlers, req'[g].op = "checkout"
          PROVE  Exists(req[g].invoice) <=> inv'[req[g].invoice].status # "absent"
      <4>1. req[g].op = "checkout" /\ req[g].invoice \in Invoices
        BY <1>1, <1>2, <3>1
      <4>2. \A i \in Invoices : Fresh(i) => i # req[g].invoice
        BY <4>1 DEF Fresh
      <4>3. \A i \in Invoices : i = req[g].invoice => (Exists(i) <=> Exists(i)')
        BY <1>2, <4>2, Appearing
      <4> QED BY <4>1, <4>3 DEF Exists
    <3> QED BY <3>1
  <2> QED BY <1>1, <1>2, <2>1 DEF Reserved, Exists
<1>3. CASE Emitting \/ Expiring
  <2>1. UNCHANGED inv
    BY <1>3, EmittingFrame DEF Expiring, StripeExpire
  <2>2. \A g \in Handlers : req'[g].op = "checkout" => req'[g] = req[g]
    BY <1>3, EmittingRequests
  <2> QED BY <2>1, <2>2 DEF Reserved, Exists
<1>4. CASE Administering
  <2>1. UNCHANGED req
    BY <1>4, AdministeredRow
  <2>2. \A g \in Handlers : req[g].op = "checkout" =>
          (Exists(req[g].invoice) <=> inv'[req[g].invoice].status # "absent")
    BY <1>1, <1>4, AdministeredRow DEF Fresh, Exists
  <2> QED BY <2>1, <2>2 DEF Reserved, Exists
<1>5. ASSUME NEW h \in Handlers, Checking(h) PROVE Reserved'
  <2>1. \A g \in Handlers : g # h => req'[g] = req[g]
    BY <1>5, OthersKept
  <2>2. /\ req[h].op = "checkout"
        /\ \/ req'[h].op = "idle" /\ SaveInvoice(h)
           \/ /\ req'[h].op = "checkout" /\ req'[h].invoice = req[h].invoice
              /\ \/ req'[h].fresh = req[h].fresh /\ UNCHANGED <<inv, sub>>
                 \/ req'[h].fresh = FALSE /\ SaveInvoice(h)
    BY <1>5, CheckingKept
  <2>3. CASE UNCHANGED inv
    <3>1. SaveInvoice(h) => ~req[h].fresh
      BY <2>2, <2>3, <1>1, SavedRow DEF Reserved, Exists
    <3> QED BY <1>1, <2>1, <2>2, <2>3, <3>1 DEF Reserved, Exists
  <2>4. CASE SaveInvoice(h) /\ ~UNCHANGED inv
    <3>1. /\ req[h].fresh /\ inv'[req[h].invoice].status # "absent"
          /\ \A j \in Invoices : j # req[h].invoice => inv'[j] = inv[j]
      BY <2>2, <2>4, SavedRow
    <3>2. \A g \in Handlers : g # h /\ req[g].op = "checkout" =>
            req[g].invoice # req[h].invoice
      BY <2>2, <3>1 DEF Reserved
    <3>3. req'[h].op = "checkout" =>
            ~req'[h].fresh /\ req'[h].invoice = req[h].invoice
      BY <2>2, <2>4
    <3>4. ASSUME NEW g \in Handlers, g # h, req[g].op = "checkout"
          PROVE  /\ inv'[req[g].invoice] = inv[req[g].invoice]
                 /\ req[g].fresh => \A f \in Handlers \ {g} :
                      req'[f].op = "checkout" => req'[f].invoice # req[g].invoice
      BY <1>1, <2>1, <3>1, <3>2, <3>3, <3>4 DEF Reserved
    <3> QED BY <2>1, <3>1, <3>3, <3>4 DEF Reserved, Exists
  <2> QED BY <2>2, <2>3, <2>4
<1>6. ASSUME NEW h \in Handlers, Reading(h) PROVE Reserved'
  <2>1. \A g \in Handlers : g # h => req'[g] = req[g]
    BY <1>6, OthersKept
  <2>2. UNCHANGED inv /\ req[h] = Idle
    BY <1>6 DEF Reading, ChangeRead, CheckoutRead, PayRead, VoidRead, CancelRead, HookRead,
                Deliverable, Free
  <2>3. ASSUME NEW p \in Plans, NEW i \in Invoices, CheckoutRead(h, p, i) PROVE Reserved'
    <3>1. /\ req'[h].op = "checkout" /\ req'[h].invoice = i
          /\ req'[h].fresh <=> sub.pending = None
      BY <2>3 DEF CheckoutRead, TypeOK
    <3>2. CASE sub.pending = None
      <4>1. Fresh(i)
        BY <2>3, <3>2, UnusedFresh DEF CheckoutRead, InvoiceFor
      <4> QED BY <2>1, <2>2, <3>1, <3>2, <4>1 DEF Reserved, Fresh, Exists, Idle
    <3>3. CASE sub.pending # None
      <4>1. Exists(i)
        BY <2>3, <3>3 DEF CheckoutRead, InvoiceFor, Exists
      <4> QED BY <2>1, <2>2, <3>1, <3>3, <4>1 DEF Reserved, Exists, Idle
    <3> QED BY <3>2, <3>3
  <2>4. CASE ~\E p \in Plans, i \in Invoices : CheckoutRead(h, p, i)
    <3>1. req'[h].op # "checkout"
      BY <1>6, <2>4 DEF Reading, ChangeRead, PayRead, VoidRead, CancelRead, HookRead, TypeOK
    <3> QED BY <2>1, <2>2, <3>1 DEF Reserved, Exists
  <2> QED BY <2>3, <2>4
<1>7. ASSUME NEW h \in Handlers,
             Dropping(h) \/ Changing(h) \/ Booking(h) \/ Hooking(h) \/ Completing(h),
             ~\E g \in Handlers : Checking(g)
      PROVE  Reserved'
  <2>1. \A g \in Handlers : g # h => req'[g] = req[g]
    BY <1>7, OthersKept
  <2>2. req'[h].op = "idle" \/ req'[h] = req[h]
    BY <1>7, Finished DEF Completing, HookCompleted, HookIgnore
  <2>3. \A g \in Handlers : req'[g].op = "checkout" => req'[g] = req[g]
    BY <2>1, <2>2
  <2> QED BY <1>2, <1>7, <2>3
<1> QED BY <1>3, <1>4, <1>5, <1>6, <1>7, NextClasses

(* The invoices a webhook finds.                                           *)
LEMMA MirrorsExist ==
  ASSUME Invariant, NEW k \in DOMAIN log, NEW i \in Mirrors(log[k])
  PROVE  i \in Invoices /\ Exists(i)
<1> USE DEF Invariant
<1>0. log[k].sub \in Invoices /\ log[k].period \in 0..PeriodBound
  BY EventParts
<1>1. log[k].sub \in Invoices /\ Exists(log[k].sub) /\ log[k].period \in Nat
  BY <1>0 DEF EventsExist
<1>2. <<log[k].sub, log[k].period>> # None
  BY <1>1, BillingAssumption
<1> QED BY <1>1, <1>2 DEF Mirrors, RowsExist

LEMMA TargetsKept ==
  ASSUME Invariant, Next
  PROVE  TargetsExist'
<1> USE DEF Invariant
<1>1. \A g \in Handlers : Targets(req[g]) \subseteq Invoices
  BY RequestParts DEF Targets, TypeOK
<1>2. ASSUME NEW g \in Handlers, req'[g] = req[g] \/ Targets(req'[g]) = {}
      PROVE  \A i \in Targets(req'[g]) : Exists(i)'
  BY <1>1, <1>2, Appearing DEF TargetsExist
<1>3. CASE Emitting \/ Expiring
  <2>1. \A g \in Handlers : req'[g] = req[g] \/ Targets(req'[g]) = {}
    BY <1>3, EmittingRequests DEF Targets
  <2> QED BY <1>2, <2>1 DEF TargetsExist
<1>4. CASE Administering
  BY <1>2, <1>4, AdministeredRow DEF TargetsExist
<1>5. ASSUME NEW h \in Handlers, Acts(h), \A i \in Targets(req'[h]) : Exists(i)'
      PROVE  TargetsExist'
  <2>1. \A g \in Handlers : g # h => req'[g] = req[g]
    BY <1>5, OthersKept DEF Acts
  <2> QED BY <1>2, <1>5, <2>1 DEF TargetsExist
<1>6. ASSUME NEW h \in Handlers,
             \/ Dropping(h) \/ Changing(h) \/ Checking(h) \/ Booking(h) \/ Hooking(h)
             \/ Completing(h)
      PROVE  TargetsExist'
  <2>1. req'[h] = req[h] \/ Targets(req'[h]) = {}
    BY <1>6, Finished, CheckingKept
       DEF Completing, HookCompleted, HookIgnore, Targets
  <2> QED BY <1>2, <1>5, <1>6, <2>1 DEF Acts
<1>7. ASSUME NEW h \in Handlers, Reading(h) PROVE TargetsExist'
  <2>1. UNCHANGED inv
    BY <1>7 DEF Reading, ChangeRead, CheckoutRead, PayRead, VoidRead, CancelRead, HookRead
  <2>2. ASSUME NEW k \in DOMAIN log, HookRead(h, k)
        PROVE  \A i \in Targets(req'[h]) : Exists(i)'
    <3>1. req'[h].op = "hook" /\ req'[h].found \subseteq Mirrors(log[k])
      BY <2>2 DEF HookRead, TypeOK
    <3> QED BY <2>1, <3>1, MirrorsExist DEF Targets, Exists
  <2>3. ASSUME NEW i \in Invoices,
               VoidRead(h, i) \/ \E amount \in Nat, ref \in Refs : PayRead(h, i, amount, ref)
        PROVE  \A j \in Targets(req'[h]) : Exists(j)'
    <3>1. req'[h].op \in {"pay", "void"} /\ req'[h].invoice = i /\ inv[i].status = "open"
      BY <2>3 DEF VoidRead, PayRead, PayReply, TypeOK
    <3> QED BY <2>1, <3>1 DEF Targets, Exists
  <2>4. CASE \/ \E p \in Plans : ChangeRead(h, p)
             \/ \E p \in Plans, i \in Invoices : CheckoutRead(h, p, i)
             \/ \E value \in BOOLEAN : CancelRead(h, value)
    <3>1. req'[h].op \in {"change", "checkout", "cancel"}
      BY <2>4 DEF ChangeRead, CheckoutRead, CancelRead, TypeOK
    <3>2. Targets(req'[h]) = {}
      BY <3>1 DEF Targets
    <3> QED BY <1>5, <1>7, <3>2 DEF Acts
  <2> QED BY <1>5, <1>7, <2>2, <2>3, <2>4 DEF Reading, Acts
<1> QED BY <1>3, <1>4, <1>6, <1>7, NextClasses

(* What an emitting step adds: events of one subscription that exists.     *)
LEMMA EmittedEvents ==
  ASSUME Invariant, Emitting
  PROVE  \E j \in Invoices, s \in StripeSubscription :
           /\ Begun(s) /\ Exists(j)
           /\ stripe'[j] = s /\ \A i \in Invoices : i # j => stripe'[i] = stripe[i]
           /\ \A k \in DOMAIN log : k \in DOMAIN log' /\ log'[k] = log[k]
           /\ \A k \in DOMAIN log' : k \in DOMAIN log \/ (log'[k].sub = j /\ log'[k].state = s)
<1> USE DEF Invariant
<1>1. PICK j \in Invoices, s \in StripeSubscription, n \in 0..PeriodBound, types \in Types :
        /\ Emits(j, s, n, types)
        /\ Begun(s)
        /\ stripe[j].status # "none" \/ sessions[j].state = "open"
  BY StripeStepEmits DEF EmittedSome
<1>2. types \in Seq({"completed", "paid", "failed", "updated", "deleted"})
  BY TypesType
<1>3. log \in Seq(Event) /\ log' = Emit(types, j, s, n)
  BY <1>1 DEF TypeOK, Emits
<1>4. /\ log' \in Seq(Event)
      /\ Len(log') = Len(log) + Len(types)
      /\ \A k \in DOMAIN log : log'[k] = log[k]
      /\ \A k \in DOMAIN log' \ DOMAIN log : log'[k].sub = j /\ log'[k].state = s
  BY <1>2, <1>3, EmitType
<1>5. \A k \in DOMAIN log : k \in DOMAIN log'
  <2>1. Len(log) \in Nat /\ Len(types) \in Nat
    BY <1>2, <1>3
  <2> QED BY <1>3, <1>4, <2>1
<1>6. stripe'[j] = s /\ \A i \in Invoices : i # j => stripe'[i] = stripe[i]
  BY <1>1 DEF Emits, TypeOK
<1>7. Exists(j)
  BY <1>1 DEF RowsExist
<1> QED BY <1>1, <1>4, <1>5, <1>6, <1>7

(* Otherwise nothing happens at Stripe but to its sessions.                *)
LEMMA StripeKept ==
  ASSUME TypeOK, Administering \/ Expiring \/ \E h \in Handlers : Acts(h)
  PROVE  UNCHANGED <<stripe, log>>
<1>1. CASE Administering
  BY <1>1, AdministeredRow DEF stripeVars
<1>2. CASE Expiring
  BY <1>2 DEF Expiring, StripeExpire
<1>3. ASSUME NEW h \in Handlers, Reading(h) \/ Dropping(h)
      PROVE  UNCHANGED <<stripe, log>>
  BY <1>3 DEF Reading, ChangeRead, CheckoutRead, PayRead, VoidRead, CancelRead, HookRead,
              Dropping, CheckoutRefused, PayConflict, Abandon, stripeVars
<1>4. ASSUME NEW h \in Handlers, Changing(h) \/ Checking(h) \/ Booking(h)
      PROVE  UNCHANGED <<stripe, log>>
  BY <1>4 DEF Changing, ChangeFree, ChangeInvoice, CancelCommit, Checking, CheckoutCustomer,
              CheckoutSession, CheckoutCommit, Booking, PayCommit, VoidCommit, stripeVars
<1>5. ASSUME NEW h \in Handlers, Hooking(h) \/ Completing(h)
      PROVE  UNCHANGED <<stripe, log>>
  BY <1>5 DEF Hooking, HookReport, HookSettle, HookMirror, HookRenew, Completing,
              HookCompleted, HookIgnore, stripeVars
<1> QED BY <1>1, <1>2, <1>3, <1>4, <1>5 DEF Acts

LEMMA StepSplit ==
  ASSUME TypeOK, Next
  PROVE  Emitting \/ Administering \/ Expiring \/ \E h \in Handlers : Acts(h)
  BY NextClasses DEF Acts

(* A session opens when its invoice has been written.                      *)
LEMMA SessionsKept ==
  ASSUME Invariant, Next, NEW i \in Invoices
  PROVE  /\ sessions'[i].state \in {"open", "paid"} =>
              sessions[i].state \in {"open", "paid"} \/ Exists(i)'
         /\ sessions'[i].state # "none" => sessions'[i].plan # None
<1> USE DEF Invariant
<1>1. sessions[i] \in Session /\ (sessions[i].state # "none" => sessions[i].plan # None)
  BY DEF TypeOK, Planned
<1>2. CASE UNCHANGED sessions
  BY <1>1, <1>2
<1>3. CASE Emitting
  <2>1. ASSUME NEW j \in Invoices, sessions[j].state = "open",
               sessions' = [sessions EXCEPT ![j].state = "paid"], j = i
        PROVE  /\ sessions'[i].plan = sessions[i].plan
    BY <1>1, <2>1 DEF TypeOK, Session
  <2>2. ASSUME NEW j \in Invoices, sessions[j].state = "open",
               sessions' = [sessions EXCEPT ![j].state = "paid"], j # i
        PROVE  sessions'[i] = sessions[i]
    BY <2>2 DEF TypeOK
  <2> QED BY <1>1, <1>2, <1>3, <2>1, <2>2, EmittingFrame
<1>4. CASE Expiring
  <2>1. PICK j \in Invoices : sessions' = [sessions EXCEPT ![j] = NoSession]
    BY <1>4 DEF Expiring, StripeExpire
  <2> QED BY <1>1, <2>1 DEF TypeOK, NoSession
<1>5. CASE Administering
  BY <1>2, <1>5, AdministeredRow DEF stripeVars
<1>6. ASSUME NEW h \in Handlers, CheckoutSession(h), ~UNCHANGED sessions
      PROVE  /\ sessions'[i] = sessions[i]
                \/ (sessions'[i].state = "created" /\ sessions'[i].plan # None)
  <2>1. req[h].invoice \in Invoices /\ req[h].plan \in Plans
    BY <1>6, RequestParts DEF CheckoutSession, TypeOK
  <2>2. sessions' = [sessions EXCEPT ![req[h].invoice] =
                       [state |-> "created", plan |-> req[h].plan, amount |-> req[h].price]]
    BY <1>6 DEF CheckoutSession
  <2> QED BY <2>1, <2>2, BillingAssumption DEF TypeOK
<1>7. ASSUME NEW h \in Handlers, CheckoutCommit(h), ~UNCHANGED sessions
      PROVE  \/ sessions'[i] = sessions[i]
             \/ Exists(i)' /\ sessions'[i].plan = sessions[i].plan /\ sessions[i].state # "none"
  <2>1. req[h].op = "checkout" /\ req[h].invoice \in Invoices /\ req[h].fresh \in BOOLEAN
    BY <1>7, RequestParts DEF CheckoutCommit, TypeOK
  <2>2. /\ sessions' = [sessions EXCEPT ![req[h].invoice].state = "open"]
        /\ sessions[req[h].invoice].state = "created" /\ SaveInvoice(h)
    BY <1>7 DEF CheckoutCommit
  <2>3. CASE i # req[h].invoice
    BY <2>1, <2>2, <2>3 DEF TypeOK
  <2>4. CASE i = req[h].invoice
    <3>1. sessions'[i].plan = sessions[i].plan /\ sessions[i].state # "none"
      BY <1>1, <2>2, <2>4 DEF TypeOK, Session
    <3>2. inv'[i].status # "absent"
      BY <2>1, <2>2, <2>4, SavedRow DEF Reserved, Exists
    <3> QED BY <3>1, <3>2 DEF Exists
  <2> QED BY <2>3, <2>4
<1>8. ASSUME NEW h \in Handlers, Acts(h), ~CheckoutSession(h), ~CheckoutCommit(h)
      PROVE  UNCHANGED sessions
  <2>1. CASE Reading(h) \/ Dropping(h)
    BY <2>1 DEF Reading, ChangeRead, CheckoutRead, PayRead, VoidRead, CancelRead, HookRead,
                Dropping, CheckoutRefused, PayConflict, Abandon, stripeVars
  <2>2. CASE Changing(h) \/ Checking(h) \/ Booking(h)
    BY <1>8, <2>2 DEF Changing, ChangeFree, ChangeInvoice, CancelCommit, Checking,
                CheckoutCustomer, Booking, PayCommit, VoidCommit, stripeVars
  <2>3. CASE Hooking(h) \/ Completing(h)
    BY <2>3 DEF Hooking, HookReport, HookSettle, HookMirror, HookRenew, Completing,
                HookCompleted, HookIgnore, stripeVars
  <2> QED BY <1>8, <2>1, <2>2, <2>3 DEF Acts
<1> QED BY <1>1, <1>2, <1>3, <1>4, <1>5, <1>6, <1>7, <1>8, StepSplit

(* An invoice gets the id of a Stripe invoice only when it exists.         *)
LEMMA NumberedRows ==
  ASSUME Invariant, Next, NEW i \in Invoices, inv'[i].stripe # None
  PROVE  inv[i].stripe # None \/ Exists(i)'
<1> USE DEF Invariant
<1>1. CASE UNCHANGED inv
  BY <1>1
<1>2. CASE Emitting \/ Expiring
  BY <1>1, <1>2, EmittingFrame DEF Expiring, StripeExpire
<1>3. CASE Administering
  BY <1>1, <1>3, AdministeredRow
<1>4. ASSUME NEW h \in Handlers, Reading(h) \/ Dropping(h) PROVE UNCHANGED inv
  BY <1>4 DEF Reading, ChangeRead, CheckoutRead, PayRead, VoidRead, CancelRead, HookRead,
              Dropping, CheckoutRefused, PayConflict, Abandon
<1>5. CASE \E h \in Handlers : Changing(h)
  BY <1>1, <1>5, ChangedRow
<1>6. CASE \E h \in Handlers : Checking(h)
  <2>1. PICK h \in Handlers : Checking(h)
    BY <1>6
  <2>2. req[h].op = "checkout" /\ (UNCHANGED inv \/ SaveInvoice(h))
    BY <2>1, CheckingKept
  <2> QED BY <1>1, <2>1, <2>2, SavedRow
<1>7. CASE \E h \in Handlers : Booking(h)
  BY <1>7, BookedRow
<1>8. CASE \E h \in Handlers : Hooking(h)
  BY <1>1, <1>8, HookedRow DEF Exists
<1>9. CASE \E h \in Handlers : Completing(h)
  <2>1. PICK h \in Handlers, k \in DOMAIN log : HookCompleted(h, k) \/ HookIgnore(h, k)
    BY <1>9 DEF Completing
  <2>2. CASE HookIgnore(h, k)
    BY <1>1, <2>2 DEF HookIgnore
  <2>3. CASE HookCompleted(h, k)
    BY <2>3, CompletedRow DEF Exists
  <2> QED BY <2>1, <2>2, <2>3
<1> QED BY <1>1, <1>2, <1>3, <1>4, <1>5, <1>6, <1>7, <1>8, <1>9, NextClasses

LEMMA StripeLinksKept ==
  ASSUME Invariant, Next
  PROVE  RowsExist' /\ EventsExist' /\ Planned' /\ Logged'
<1> USE DEF Invariant
<1>1. CASE Emitting
  <2>1. PICK j \in Invoices, s \in StripeSubscription :
           /\ Begun(s) /\ Exists(j)
           /\ stripe'[j] = s /\ \A i \in Invoices : i # j => stripe'[i] = stripe[i]
           /\ \A k \in DOMAIN log : k \in DOMAIN log' /\ log'[k] = log[k]
           /\ \A k \in DOMAIN log' : k \in DOMAIN log \/ (log'[k].sub = j /\ log'[k].state = s)
    BY <1>1, EmittedEvents
  <2>2. UNCHANGED inv
    BY <1>1, EmittingFrame
  <2>3. \A k \in DOMAIN log : log[k].sub \in Invoices
    BY EventParts
  <2>4. RowsExist'
    BY <2>1, <2>2, SessionsKept DEF RowsExist, Exists
  <2>5. EventsExist'
    BY <2>1, <2>2 DEF EventsExist, Exists
  <2>6. Planned'
    BY <2>1, SessionsKept DEF Planned, Begun
  <2>7. Logged'
    BY <2>1, <2>3 DEF Logged, Begun
  <2> QED BY <2>4, <2>5, <2>6, <2>7
<1>2. CASE UNCHANGED <<stripe, log>>
  <2>1. \A k \in DOMAIN log : log[k].sub \in Invoices
    BY EventParts
  <2>2. \A i \in Invoices : Exists(i) => Exists(i)'
    BY Appearing
  <2>3. RowsExist'
    BY <1>2, <2>2, SessionsKept, NumberedRows DEF RowsExist
  <2>4. EventsExist'
    BY <1>2, <2>1, <2>2 DEF EventsExist, Exists
  <2>5. Planned'
    BY <1>2, SessionsKept DEF Planned
  <2>6. Logged'
    BY <1>2 DEF Logged
  <2> QED BY <2>3, <2>4, <2>5, <2>6
<1> QED BY <1>1, <1>2, StepSplit, StripeKept

LEMMA MergedFields ==
  ASSUME NEW s, NEW t
  PROVE  /\ Merge(s, t).link = sub.link \/ Merge(s, t).link = t.link
         /\ Merge(s, t).pending = IF t.pending = s.pending THEN sub.pending ELSE t.pending
         /\ Merge(s, t).plan = IF t.plan = s.plan THEN sub.plan ELSE t.plan
  BY DEF Merge, Column

LEMMA ActivatedFields ==
  ASSUME NEW s \in Subscription, NEW p \in Plans \union {None}
  PROVE  /\ Activated(s, p).link = s.link
         /\ Activated(s, p).pending = IF p = None THEN s.pending ELSE None
         /\ Activated(s, p).plan = IF p = None THEN s.plan ELSE p
  BY DEF Activated, Subscription

LEMMA LinkedFields ==
  ASSUME NEW r, NEW e, r.seen \in Subscription
  PROVE  /\ Linked(r, e).link = e.sub /\ Linked(r, e).pending = r.seen.pending
         /\ Linked(r, e).plan = r.seen.plan
<1>1. \A i : \A t \in Subscription :
        /\ [t EXCEPT !.link = i, !.status = "active"].link = i
        /\ [t EXCEPT !.link = i, !.status = "active"].pending = t.pending
        /\ [t EXCEPT !.link = i, !.status = "active"].plan = t.plan
  BY DEF Subscription
<1> QED BY <1>1 DEF Linked

LEMMA ReportedFields ==
  ASSUME NEW s \in Subscription, NEW e, e.type \in {"failed", "updated", "deleted"}
  PROVE  /\ Reported(e, s).link = s.link
         /\ Reported(e, s).pending = s.pending \/ Reported(e, s).pending = None
         /\ \/ Reported(e, s).plan = s.plan
            \/ e.type = "updated" /\ Reported(e, s).plan = e.state.plan
<1>1. CASE e.type = "failed"
  BY <1>1 DEF Reported, Subscription
<1>2. CASE e.type = "updated"
  BY <1>2 DEF Reported, Subscription
<1>3. CASE e.type = "deleted"
  BY <1>3 DEF Reported, Subscription
<1> QED BY <1>1, <1>2, <1>3

(* What a request that has an event to report does to the subscription.    *)
LEMMA HookedSubscription ==
  ASSUME Invariant, NEW h \in Handlers, Hooking(h)
  PROVE  LET r == req[h]
             e == log[r.event]
         IN
         \E t \in Subscription :
           /\ sub' = Merge(r.seen, t)
           /\ t.link = r.seen.link \/ t.link = e.sub
           /\ \/ HookReport(h) /\ (t.pending = r.seen.pending \/ t.pending = None)
                 /\ (t.plan = r.seen.plan \/ (e.type = "updated" /\ t.plan = e.state.plan))
              \/ (HookMirror(h) \/ HookRenew(h))
                 /\ t.pending = r.seen.pending /\ t.plan = r.seen.plan
              \/ HookSettle(h) /\ \E i \in r.found :
                   /\ inv'[i].status = "paid" /\ inv'[i].due = 0 /\ inv'[i].plan = inv[i].plan
                   /\ \A j \in Invoices : j # i => inv'[j] = inv[j]
                   /\ t.pending = IF inv[i].plan = None THEN r.seen.pending ELSE None
                   /\ t.plan = IF inv[i].plan = None THEN r.seen.plan ELSE inv[i].plan
<1> USE DEF Invariant
<1> DEFINE r == req[h]
           e == log[r.event]
           p == <<e.sub, e.period>>
<1>1. r.op = "hook"
  BY DEF Hooking, HookReport, HookSettle, HookMirror, HookRenew
<1>2. /\ r.event \in DOMAIN log /\ e.type # "completed" /\ e \in Event
      /\ r.seen \in Subscription /\ r.found \in SUBSET Invoices
  BY <1>1, HookParts
<1>3. /\ e.sub \in Invoices /\ Begun(e.state)
      /\ e.type \in {"paid", "failed", "updated", "deleted"}
  BY <1>2, EventParts
<1>4. Linked(r, e) \in Subscription
  BY <1>2, <1>3, LinkedType
<1>5. CASE HookReport(h)
  <2>1. e.type \in {"failed", "updated", "deleted"} /\ sub' = Merge(r.seen, Reported(e, r.seen))
    BY <1>3, <1>5 DEF HookReport
  <2>2. Reported(e, r.seen) \in Subscription
    BY <1>2, <1>3, <2>1, ReportedType
  <2> QED BY <1>2, <1>5, <2>1, <2>2, ReportedFields
<1>6. CASE HookMirror(h) \/ HookRenew(h)
  <2>1. sub' = Merge(r.seen, Linked(r, e))
    BY <1>6 DEF HookMirror, HookRenew
  <2> QED BY <1>2, <1>4, <1>6, <2>1, LinkedFields
<1>7. CASE HookSettle(h)
  <2>1. PICK i \in r.found :
          /\ inv' = [inv EXCEPT ![i] = [Settled(inv[i]) EXCEPT !.stripe = p]]
          /\ sub' = Merge(r.seen, Activated(Linked(r, e), inv[i].plan))
    BY <1>2, <1>7 DEF HookSettle, TypeOK
  <2>2. i \in Invoices /\ inv[i] \in Invoice
    BY <1>2 DEF TypeOK
  <2>3. \A s : \A x \in Invoice : /\ [Settled(x) EXCEPT !.stripe = s].status = "paid"
                                  /\ [Settled(x) EXCEPT !.stripe = s].due = 0
                                  /\ [Settled(x) EXCEPT !.stripe = s].plan = x.plan
    BY DEF Settled, Invoice
  <2>4. /\ inv'[i].status = "paid" /\ inv'[i].due = 0 /\ inv'[i].plan = inv[i].plan
        /\ \A j \in Invoices : j # i => inv'[j] = inv[j]
    BY <2>1, <2>2, <2>3 DEF TypeOK
  <2> DEFINE t == Activated(Linked(r, e), inv[i].plan)
  <2>5. inv[i].plan \in Plans \union {None}
    BY <2>2 DEF Invoice
  <2>6. /\ t \in Subscription /\ t.link = e.sub
        /\ t.pending = IF inv[i].plan = None THEN r.seen.pending ELSE None
        /\ t.plan = IF inv[i].plan = None THEN r.seen.plan ELSE inv[i].plan
    BY <1>2, <1>4, <2>5, ActivatedType, ActivatedFields, LinkedFields
  <2> HIDE DEF t
  <2>7. sub' = Merge(r.seen, t)
    BY <2>1 DEF t
  <2> QED BY <1>7, <2>4, <2>6, <2>7
<1> QED BY <1>5, <1>6, <1>7 DEF Hooking

LEMMA CompletedSubscription ==
  ASSUME Invariant, NEW h \in Handlers, NEW k \in DOMAIN log, HookCompleted(h, k)
  PROVE  LET i == log[k].sub IN
         /\ sub'.link = i
         /\ inv'[i].plan = inv[i].plan
         /\ inv[i].status = "open" => inv'[i].due = 0
         /\ \/ sub'.pending = sub.pending /\ sub'.plan = sub.plan
            \/ /\ inv[i].status = "open" /\ inv[i].plan # None
               /\ sub'.pending = None /\ sub'.plan = inv[i].plan
         /\ inv[i].status = "open" /\ inv[i].plan # None => sub'.pending = None
<1> USE DEF Invariant
<1> DEFINE i == log[k].sub
           open == inv[i].status = "open"
           s == IF open THEN Activated(sub, inv[i].plan) ELSE sub
           v == [IF open THEN Settled(inv[i]) ELSE inv[i] EXCEPT !.stripe = <<i, 0>>]
<1>1. i \in Invoices /\ inv[i] \in Invoice /\ sub \in Subscription
  BY EventParts DEF TypeOK
<1>2. inv[i].plan \in Plans \union {None}
  BY <1>1 DEF Invoice
<1>3. /\ s \in Subscription
      /\ s.pending = IF open /\ inv[i].plan # None THEN None ELSE sub.pending
      /\ s.plan = IF open /\ inv[i].plan # None THEN inv[i].plan ELSE sub.plan
  BY <1>1, <1>2, ActivatedType, ActivatedFields
<1>4. sub' = [s EXCEPT !.link = i]
  BY DEF HookCompleted
<1>5. inv' = [inv EXCEPT ![i] = v]
  BY <1>1 DEF HookCompleted, TypeOK
<1>6. v.plan = inv[i].plan /\ (open => v.due = 0)
  <2>1. \A n : \A x \in Invoice : /\ [Settled(x) EXCEPT !.stripe = n].plan = x.plan
                                  /\ [Settled(x) EXCEPT !.stripe = n].due = 0
                                  /\ [x EXCEPT !.stripe = n].plan = x.plan
    BY DEF Settled, Invoice
  <2> QED BY <1>1, <2>1
<1> HIDE DEF s, v
<1>7. inv'[i] = v
  BY <1>1, <1>5 DEF TypeOK
<1>8. sub'.link = i /\ sub'.pending = s.pending /\ sub'.plan = s.plan
  BY <1>3, <1>4 DEF Subscription
<1> QED BY <1>3, <1>6, <1>7, <1>8

LEMMA BookedSubscription ==
  ASSUME Invariant, NEW h \in Handlers, Booking(h)
  PROVE  LET row == inv[req[h].invoice] IN
         /\ sub'.link = sub.link \/ sub'.link = req[h].seen.link
         /\ \/ UNCHANGED sub /\ (row.plan = None \/ inv'[req[h].invoice].status = row.status)
            \/ /\ row.plan # None
               /\ sub'.pending = IF req[h].seen.pending = None THEN sub.pending ELSE None
               /\ \/ sub'.plan = sub.plan
                  \/ /\ sub'.plan = row.plan /\ req[h].op = "pay"
                     /\ inv'[req[h].invoice].status = "paid"
                     /\ inv'[req[h].invoice].due = 0
<1> USE DEF Invariant
<1> DEFINE r == req[h]
           row == inv[r.invoice]
<1>1. r.seen \in Subscription /\ r.invoice \in Invoices /\ sub \in Subscription
  BY RequestParts DEF Booking, PayCommit, VoidCommit, TypeOK
<1>2. row \in Invoice /\ row.plan \in Plans \union {None}
  BY <1>1 DEF TypeOK, Invoice
<1>3. CASE PayCommit(h)
  <2>1. r.amount \in Nat /\ r.op = "pay" /\ row.status = "open"
    BY <1>3, RequestParts DEF PayCommit, TypeOK, PaysFit
  <2>2. inv'[r.invoice] = Received(row, r.amount)
    BY <1>1, <1>3 DEF PayCommit, TypeOK
  <2>3. CASE Completes(row, r.amount) /\ row.plan # None
    <3>1. sub' = Merge(r.seen, Activated(r.seen, row.plan))
      BY <1>3, <2>3 DEF PayCommit
    <3>2. Received(row, r.amount).status = "paid" /\ Received(row, r.amount).due = 0
      BY <1>2, <2>1, <2>3 DEF Received, Completes, Invoice
    <3>3. /\ Activated(r.seen, row.plan).link = r.seen.link
          /\ Activated(r.seen, row.plan).pending = None
          /\ Activated(r.seen, row.plan).plan = row.plan
      BY <1>1, <1>2, <2>3, ActivatedFields
    <3>4. /\ sub'.link = sub.link \/ sub'.link = r.seen.link
          /\ sub'.pending = IF r.seen.pending = None THEN sub.pending ELSE None
          /\ sub'.plan = sub.plan \/ sub'.plan = row.plan
      BY <3>1, <3>3, MergedFields
    <3> QED BY <2>1, <2>2, <2>3, <3>2, <3>4
  <2>4. CASE ~(Completes(row, r.amount) /\ row.plan # None)
    <3>1. UNCHANGED sub
      BY <1>3, <2>4 DEF PayCommit
    <3>2. ~Completes(row, r.amount) => Received(row, r.amount).status = "open"
      BY <1>2 DEF Received, Invoice
    <3> QED BY <2>1, <2>2, <2>4, <3>1, <3>2
  <2> QED BY <2>3, <2>4
<1>4. CASE VoidCommit(h)
  <2> DEFINE t == [r.seen EXCEPT !.pending = None]
  <2>1. t.pending = None /\ t.link = r.seen.link /\ t.plan = r.seen.plan
    BY <1>1 DEF Subscription
  <2>2. Voided(row).plan = row.plan
    BY <1>2 DEF Voided, Invoice
  <2>3. CASE UNCHANGED <<inv, sub>>
    BY <2>3
  <2>4. CASE ~UNCHANGED <<inv, sub>>
    <3>1. sub' = IF row.plan = None THEN sub ELSE Merge(r.seen, t)
      BY <1>4, <2>2, <2>4 DEF VoidCommit
    <3> HIDE DEF t
    <3> QED BY <2>1, <3>1, MergedFields
  <2> QED BY <2>3, <2>4
<1> QED BY <1>3, <1>4 DEF Booking

LEMMA ChangedSubscription ==
  ASSUME Invariant, NEW h \in Handlers, Changing(h)
  PROVE  /\ sub'.link = sub.link \/ sub'.link = req[h].seen.link
         /\ \/ sub'.pending = sub.pending
            \/ sub'.pending = None
            \/ ChangeInvoice(h) /\ sub'.pending = req[h].plan
         /\ \/ sub'.plan = sub.plan
            \/ ChangeFree(h) /\ sub'.plan = req[h].plan
<1> USE DEF Invariant
<1> DEFINE r == req[h]
<1>1. r.seen \in Subscription /\ sub \in Subscription
  BY RequestParts DEF Changing, ChangeFree, ChangeInvoice, CancelCommit, TypeOK
<1>2. CASE ChangeFree(h)
  <2>1. r.plan \in Plans /\ sub' = Merge(r.seen, Activated(r.seen, r.plan))
    BY <1>2, RequestParts DEF ChangeFree, TypeOK
  <2>2. r.plan # None
    BY <2>1, BillingAssumption
  <2>3. /\ Activated(r.seen, r.plan).link = r.seen.link
        /\ Activated(r.seen, r.plan).pending = None
        /\ Activated(r.seen, r.plan).plan = r.plan
    BY <1>1, <2>1, <2>2, ActivatedFields
  <2> QED BY <1>2, <2>1, <2>3, MergedFields
<1>3. CASE ChangeInvoice(h)
  <2> DEFINE t == [r.seen EXCEPT !.pending = r.plan]
  <2>1. t.pending = r.plan /\ t.link = r.seen.link /\ t.plan = r.seen.plan
    BY <1>1 DEF Subscription
  <2>2. sub' = Merge(r.seen, t)
    BY <1>3 DEF ChangeInvoice
  <2> HIDE DEF t
  <2> QED BY <1>3, <2>1, <2>2, MergedFields
<1>4. CASE CancelCommit(h)
  <2> DEFINE t == [r.seen EXCEPT !.cancelling = r.value]
  <2>1. t.pending = r.seen.pending /\ t.link = r.seen.link /\ t.plan = r.seen.plan
    BY <1>1 DEF Subscription
  <2>2. sub' = Merge(r.seen, t)
    BY <1>4 DEF CancelCommit
  <2> HIDE DEF t
  <2> QED BY <2>1, <2>2, MergedFields
<1> QED BY <1>2, <1>3, <1>4 DEF Changing

(* What a request remembers of the subscription it loaded.                 *)
Remembers == {"change", "pay", "void", "cancel", "hook"}

LEMMA Loaded ==
  ASSUME TypeOK, NEW h \in Handlers, Reading(h), req'[h].op \in Remembers
  PROVE  req'[h].seen = sub
  BY DEF Reading, ChangeRead, CheckoutRead, PayRead, VoidRead, CancelRead, HookRead, TypeOK,
         Remembers

LEMMA ReadingKept ==
  ASSUME NEW h \in Handlers, Reading(h)
  PROVE  UNCHANGED <<env, sub, inv, payments, price, customer, processed, stripeVars>>
  BY DEF Reading, ChangeRead, CheckoutRead, PayRead, VoidRead, CancelRead, HookRead

LEMMA DroppingKept ==
  ASSUME NEW h \in Handlers, Dropping(h)
  PROVE  UNCHANGED <<env, sub, inv, payments, price, customer, processed, stripeVars>>
  BY DEF Dropping, CheckoutRefused, PayConflict, Abandon

LEMMA LinksKept ==
  ASSUME Invariant, Next
  PROVE  Links'
<1> USE DEF Invariant
<1> DEFINE Started(i) == stripe'[i].status # "none"
<1>1. \A i \in Invoices : stripe[i].status # "none" => Started(i)
  <2>1. CASE Emitting
    BY <2>1, EmittedEvents DEF Begun
  <2> QED BY <2>1, StepSplit, StripeKept
<1>2. ASSUME NEW s \in Subscription, Linkable(s)
      PROVE  s.link # None => s.link \in Invoices /\ Started(s.link)
  BY <1>1, <1>2 DEF Linkable, Subscription
<1>3. sub \in Subscription /\ \A g \in Handlers : req[g].op \in Remembers => req[g].seen \in Subscription
  BY RequestParts DEF TypeOK, Remembers
<1>4. /\ sub.link # None => Started(sub.link)
      /\ \A g \in Handlers : req[g].op \in Remembers /\ req[g].seen.link # None =>
           Started(req[g].seen.link)
  BY <1>2, <1>3 DEF Links, Remembers
<1>5. \A k \in DOMAIN log : Started(log[k].sub)
  BY <1>1, EventParts DEF Logged
<1> HIDE DEF Started
<1>6. ASSUME \A g \in Handlers : req'[g].op \in Remembers =>
               \/ req[g].op \in Remembers /\ req'[g].seen = req[g].seen
               \/ req'[g].seen = sub,
             sub'.link # None => Started(sub'.link)
      PROVE  Links'
  <2>1. (Linkable(sub))'
    BY <1>6 DEF Linkable, Started
  <2>2. ASSUME NEW g \in Handlers, req'[g].op \in Remembers
        PROVE  req'[g].seen.link # None => stripe'[req'[g].seen.link].status # "none"
    BY <1>4, <1>6, <2>2 DEF Started
  <2> QED BY <2>1, <2>2 DEF Links, Linkable, Remembers
<1>7. CASE Emitting \/ Expiring
  <2>1. UNCHANGED sub
    BY <1>7, EmittingFrame DEF Expiring, StripeExpire
  <2>2. ASSUME NEW g \in Handlers
        PROVE  req'[g].op = req[g].op /\ (req'[g] = req[g] \/ req'[g].seen = req[g].seen)
    BY <1>7, EmittingRequests
  <2>3. \A g \in Handlers : req'[g].op \in Remembers =>
          req[g].op \in Remembers /\ req'[g].seen = req[g].seen
    BY <2>2
  <2> QED BY <1>4, <1>6, <2>1, <2>3
<1>8. CASE Administering
  BY <1>4, <1>6, <1>8, AdministeredRow
<1>9. ASSUME NEW h \in Handlers, Acts(h)
      PROVE  Links'
  <2>1. \A g \in Handlers : g # h => req'[g] = req[g]
    BY <1>9, OthersKept DEF Acts
  <2>2. \A g \in Handlers : req'[g].op \in Remembers =>
          \/ req[g].op \in Remembers /\ req'[g].seen = req[g].seen
          \/ req'[g].seen = sub
    <3>1. CASE Reading(h)
      BY <2>1, <3>1, Loaded
    <3>2. CASE Dropping(h) \/ Changing(h) \/ Checking(h) \/ Booking(h) \/ Hooking(h)
      <4>1. req'[h].op \notin Remembers
        BY <3>2, Finished, CheckingKept DEF Remembers
      <4> QED BY <2>1, <4>1
    <3>3. CASE Completing(h)
      BY <3>3 DEF Completing, HookCompleted, HookIgnore
    <3> QED BY <1>9, <3>1, <3>2, <3>3 DEF Acts
  <2>3. sub'.link # None => Started(sub'.link)
    <3>1. CASE Reading(h) \/ Dropping(h)
      BY <1>4, <3>1, ReadingKept, DroppingKept
    <3>2. CASE Changing(h)
      <4>1. req[h].op \in Remembers
        BY <3>2 DEF Changing, ChangeFree, ChangeInvoice, CancelCommit, Remembers
      <4> QED BY <1>4, <3>2, <4>1, ChangedSubscription
    <3>3. CASE Checking(h)
      <4>1. req[h].op = "checkout" /\ (UNCHANGED sub \/ SaveInvoice(h))
        BY <3>3, CheckingKept
      <4>2. sub'.link = sub.link
        BY <1>3, <4>1, SavedRow DEF Subscription
      <4> QED BY <1>4, <4>2
    <3>4. CASE Booking(h)
      <4>1. req[h].op \in Remembers
        BY <3>4 DEF Booking, PayCommit, VoidCommit, Remembers
      <4> QED BY <1>4, <3>4, <4>1, BookedSubscription
    <3>5. CASE Hooking(h)
      <4>1. req[h].op = "hook"
        BY <3>5 DEF Hooking, HookReport, HookSettle, HookMirror, HookRenew
      <4>2. req[h].event \in DOMAIN log
        BY <4>1 DEF Hooks
      <4>3. \/ sub'.link = sub.link \/ sub'.link = req[h].seen.link
            \/ sub'.link = log[req[h].event].sub
        BY <3>5, HookedSubscription, MergedFields
      <4> QED BY <1>4, <1>5, <4>1, <4>2, <4>3 DEF Remembers
    <3>6. CASE Completing(h)
      <4>1. PICK k \in DOMAIN log : HookCompleted(h, k) \/ HookIgnore(h, k)
        BY <3>6 DEF Completing
      <4>2. CASE HookCompleted(h, k)
        BY <1>5, <4>2, CompletedSubscription
      <4>3. CASE HookIgnore(h, k)
        BY <1>4, <4>3 DEF HookIgnore
      <4> QED BY <4>1, <4>2, <4>3
    <3> QED BY <1>9, <3>1, <3>2, <3>3, <3>4, <3>5, <3>6 DEF Acts
  <2> QED BY <1>6, <2>2, <2>3
<1> QED BY <1>7, <1>8, <1>9, StepSplit

LEMMA HooksKept ==
  ASSUME Invariant, Next
  PROVE  Hooks'
<1> USE DEF Invariant
<1>1. \A k \in DOMAIN log : k \in DOMAIN log' /\ log'[k] = log[k]
  <2>1. CASE Emitting
    BY <2>1, EmittedEvents
  <2> QED BY <2>1, StepSplit, StripeKept
<1> DEFINE Sound(r) == /\ r.op = "cancel" /\ ~r.told => r.seen.link # None
                       /\ r.op = "hook" => /\ r.event \in DOMAIN log'
                                           /\ log'[r.event].type # "completed"
<1>2. \A g \in Handlers : Sound(req[g])
  BY <1>1 DEF Hooks
<1>3. ASSUME NEW g \in Handlers, Emitting \/ Expiring PROVE Sound(req'[g])
  BY <1>2, <1>3, EmittingRequests
<1>4. ASSUME NEW g \in Handlers, Administering PROVE Sound(req'[g])
  BY <1>2, <1>4, AdministeredRow
<1>5. ASSUME NEW h \in Handlers, Acts(h), NEW g \in Handlers PROVE Sound(req'[g])
  <2>1. CASE g # h
    BY <1>2, <1>5, <2>1, OthersKept DEF Acts
  <2>2. CASE Reading(h) /\ g = h
    <3>1. ASSUME NEW k \in DOMAIN log, HookRead(h, k)
          PROVE  req'[h].op = "hook" /\ req'[h].event = k /\ log[k].type # "completed"
      BY <3>1 DEF HookRead, TypeOK
    <3>2. ASSUME NEW value \in BOOLEAN, CancelRead(h, value)
          PROVE  req'[h].op = "cancel" /\ req'[h].seen = sub /\ (req'[h].told <=> sub.link = None)
      BY <3>2 DEF CancelRead, TypeOK
    <3>3. CASE \/ \E p \in Plans : ChangeRead(h, p)
               \/ \E p \in Plans, i \in Invoices : CheckoutRead(h, p, i)
               \/ \E i \in Invoices, amount \in Nat, ref \in Refs : PayRead(h, i, amount, ref)
               \/ \E i \in Invoices : VoidRead(h, i)
      <4>1. req'[h].op \in {"change", "checkout", "pay", "void"}
        BY <3>3 DEF ChangeRead, CheckoutRead, PayRead, VoidRead, TypeOK
      <4> QED BY <2>2, <4>1
    <3> QED BY <1>1, <2>2, <3>1, <3>2, <3>3 DEF Reading
  <2>3. CASE (Dropping(h) \/ Changing(h) \/ Checking(h) \/ Booking(h) \/ Hooking(h)) /\ g = h
    <3>1. req'[h].op \in {"idle", "checkout"}
      BY <2>3, Finished, CheckingKept
    <3> QED BY <2>3, <3>1
  <2>4. CASE Completing(h)
    BY <1>2, <2>4 DEF Completing, HookCompleted, HookIgnore
  <2> QED BY <1>5, <2>1, <2>2, <2>3, <2>4 DEF Acts
<1>6. \A g \in Handlers : Sound(req'[g])
  <2> HIDE DEF Sound
  <2> QED BY <1>3, <1>4, <1>5, StepSplit
<1> QED BY <1>6 DEF Hooks

(* A pending change keeps its witness.                                     *)
LEMMA PendingKept ==
  ASSUME Invariant, Next
  PROVE  Pending'
<1> USE DEF Invariant
<1> SUFFICES ASSUME sub'.pending # None PROVE \E i \in Invoices : Witness(i)'
  BY DEF Pending
<1> DEFINE Clears(r) == r.op \in {"pay", "void", "hook"} => r.seen.pending # None
<1>1. \A i \in Invoices : Witness(i) => Exists(i)
  BY DEF Witness, Exists
<1>2. \A g \in Handlers : Targets(req[g]) # {} => req[g].op \in {"pay", "void", "hook"}
  BY DEF Targets
(* The old witness remains one ...                                         *)
<1>3. ASSUME NEW i \in Invoices, Witness(i), sub'.pending = sub.pending,
             inv'[i].status = "open", inv'[i].plan = inv[i].plan,
             \A g \in Handlers : i \in Targets(req'[g]) =>
               \/ i \in Targets(req[g]) /\ req'[g].seen = req[g].seen
               \/ req'[g].seen = sub
      PROVE  Witness(i)'
  BY <1>3 DEF Witness
(* ... or a new invoice, which no request can be about to settle.          *)
<1>4. ASSUME NEW h \in Handlers, Acts(h), Targets(req'[h]) = {}, NEW i \in Invoices, ~Exists(i),
             inv'[i].status = "open", inv'[i].plan = sub'.pending
      PROVE  Witness(i)'
  <2>1. ASSUME NEW g \in Handlers PROVE i \notin Targets(req'[g])
    <3>1. CASE g = h
      BY <1>4, <3>1
    <3>2. CASE g # h
      BY <1>4, <3>2, OthersKept DEF Acts, TargetsExist
    <3> QED BY <3>1, <3>2
  <2> QED BY <1>4, <2>1 DEF Witness
<1>5. sub.pending # None => \E i \in Invoices : Witness(i)
  BY DEF Pending
<1>6. CASE Emitting \/ Expiring
  <2>1. UNCHANGED <<inv, sub>>
    BY <1>6, EmittingFrame DEF Expiring, StripeExpire
  <2>2. \A g \in Handlers : Targets(req'[g]) = {} \/ req'[g] = req[g]
    BY <1>6, EmittingRequests DEF Targets
  <2> QED BY <1>3, <1>5, <2>1, <2>2 DEF Witness
<1>7. CASE Administering
  <2>1. UNCHANGED <<sub, req>>
    BY <1>7, AdministeredRow
  <2>2. PICK i \in Invoices : Witness(i)
    BY <1>5, <2>1
  <2>3. inv'[i] = inv[i]
    BY <1>1, <1>7, <2>2, AdministeredRow DEF Fresh
  <2> QED BY <1>3, <2>1, <2>2, <2>3 DEF Witness
<1>8. ASSUME NEW h \in Handlers, Reading(h) PROVE \E i \in Invoices : Witness(i)'
  <2>1. UNCHANGED <<inv, sub>>
    BY <1>8, ReadingKept
  <2>2. PICK i \in Invoices : Witness(i)
    BY <1>5, <2>1
  <2>3. \A g \in Handlers : i \in Targets(req'[g]) =>
          \/ i \in Targets(req[g]) /\ req'[g].seen = req[g].seen
          \/ req'[g].seen = sub
    <3>1. Targets(req'[h]) # {} => req'[h].op \in Remembers
      BY DEF Targets, Remembers
    <3> QED BY <1>8, <3>1, Loaded, OthersKept
  <2> QED BY <1>3, <2>1, <2>2, <2>3 DEF Witness
<1>9. ASSUME NEW h \in Handlers, Dropping(h) \/ Changing(h) \/ Checking(h) \/ Booking(h) \/ Hooking(h)
      PROVE  /\ Targets(req'[h]) = {}
             /\ \A g \in Handlers, i \in Invoices : i \in Targets(req'[g]) =>
                  i \in Targets(req[g]) /\ req'[g].seen = req[g].seen
  <2>1. req'[h].op \in {"idle", "checkout"}
    BY <1>9, Finished, CheckingKept
  <2>2. Targets(req'[h]) = {}
    BY <2>1 DEF Targets
  <2> QED BY <1>9, <2>2, OthersKept
<1>10. ASSUME NEW h \in Handlers, Dropping(h) PROVE \E i \in Invoices : Witness(i)'
  <2>1. UNCHANGED <<inv, sub>>
    BY <1>10, DroppingKept
  <2> QED BY <1>3, <1>5, <1>9, <1>10, <2>1 DEF Witness
<1>11. ASSUME NEW h \in Handlers, Changing(h) PROVE \E i \in Invoices : Witness(i)'
  <2>1. CASE sub'.pending = sub.pending
    <3>1. PICK i \in Invoices : Witness(i)
      BY <1>5, <2>1
    <3>2. inv'[i] = inv[i]
      BY <1>1, <1>11, <3>1, ChangedRow DEF Fresh
    <3> QED BY <1>3, <1>9, <1>11, <2>1, <3>1, <3>2 DEF Witness
  <2>2. CASE sub'.pending # sub.pending
    <3>1. ChangeInvoice(h) /\ sub'.pending = req[h].plan
      BY <1>11, <2>2, ChangedSubscription
    <3>2. ~UNCHANGED inv
      <4>1. PICK i \in Invoices : /\ Unused(i)
                                  /\ inv' = [inv EXCEPT ![i] = OpenInvoice(req[h].plan, req[h].price)]
        BY <3>1 DEF ChangeInvoice
      <4>2. OpenInvoice(req[h].plan, req[h].price).status = "open"
        BY DEF OpenInvoice, Absent
      <4> QED BY <4>1, <4>2 DEF Unused, TypeOK
    <3>3. PICK i \in Invoices : /\ Fresh(i) /\ inv'[i].status = "open"
                                /\ inv'[i].plan = req[h].plan
      BY <1>11, <3>2, ChangedRow
    <3> QED BY <1>4, <1>9, <1>11, <3>1, <3>3 DEF Fresh, Acts
  <2> QED BY <2>1, <2>2
<1>12. ASSUME NEW h \in Handlers, Checking(h) PROVE \E i \in Invoices : Witness(i)'
  <2>1. req[h].op = "checkout" /\ (UNCHANGED <<inv, sub>> \/ SaveInvoice(h))
    BY <1>12, CheckingKept
  <2>2. CASE UNCHANGED <<inv, sub>>
    BY <1>3, <1>5, <1>9, <1>12, <2>2 DEF Witness
  <2>3. CASE SaveInvoice(h) /\ ~UNCHANGED <<inv, sub>>
    <3>1. /\ req[h].fresh /\ inv'[req[h].invoice].status = "open"
          /\ inv'[req[h].invoice].plan = req[h].plan
          /\ sub' = [sub EXCEPT !.pending = req[h].plan]
      BY <2>1, <2>3, SavedRow
    <3>2. req[h].invoice \in Invoices /\ sub'.pending = req[h].plan
      BY <2>1, <3>1, RequestParts DEF TypeOK, Subscription
    <3>3. ~Exists(req[h].invoice)
      BY <2>1, <3>1 DEF Reserved
    <3> QED BY <1>4, <1>9, <1>12, <3>1, <3>2, <3>3 DEF Acts
  <2> QED BY <2>1, <2>2, <2>3
<1>13. ASSUME NEW h \in Handlers, Booking(h) PROVE \E i \in Invoices : Witness(i)'
  <2>1. req[h].op \in {"pay", "void"} /\ Targets(req[h]) = {req[h].invoice}
    BY <1>13 DEF Booking, PayCommit, VoidCommit, Targets
  <2>2. sub'.pending = sub.pending
    BY <1>13, BookedSubscription
  <2>3. PICK i \in Invoices : Witness(i)
    BY <1>5, <2>2
  <2>4. inv[i].plan # None
    BY <2>2, <2>3 DEF Witness
  <2>5. inv'[i].status = "open" /\ inv'[i].plan = inv[i].plan
    <3>1. CASE i # req[h].invoice
      BY <1>13, <2>3, <3>1, BookedRow DEF Witness
    <3>2. CASE i = req[h].invoice
      <4>1. req[h].seen.pending # None
        BY <2>1, <2>3, <3>2 DEF Witness
      <4>2. inv'[i].status = inv[i].status
        BY <1>13, <2>4, <3>2, <4>1, BookedSubscription
      <4> QED BY <1>13, <2>3, <3>2, <4>2, BookedRow DEF Witness
    <3> QED BY <3>1, <3>2
  <2> QED BY <1>3, <1>9, <1>13, <2>2, <2>3, <2>5
<1>14. ASSUME NEW h \in Handlers, Hooking(h) PROVE \E i \in Invoices : Witness(i)'
  <2> DEFINE r == req[h]
  <2>1. r.op = "hook" /\ Targets(r) = r.found
    BY <1>14 DEF Hooking, HookReport, HookSettle, HookMirror, HookRenew, Targets
  <2>2. PICK t \in Subscription :
           /\ sub' = Merge(r.seen, t)
           /\ \/ HookReport(h) /\ (t.pending = r.seen.pending \/ t.pending = None)
              \/ (HookMirror(h) \/ HookRenew(h)) /\ t.pending = r.seen.pending
              \/ HookSettle(h) /\ \E i \in r.found :
                   /\ \A j \in Invoices : j # i => inv'[j] = inv[j]
                   /\ t.pending = IF inv[i].plan = None THEN r.seen.pending ELSE None
    BY <1>14, HookedSubscription
  <2>3. sub'.pending = IF t.pending = r.seen.pending THEN sub.pending ELSE t.pending
    BY <2>2, MergedFields
  <2>4. sub'.pending = sub.pending
    BY <2>2, <2>3
  <2>5. PICK i \in Invoices : Witness(i)
    BY <1>5, <2>4
  <2>6. inv[i].plan # None /\ (i \in r.found => r.seen.pending # None)
    BY <2>1, <2>4, <2>5 DEF Witness
  <2>7. inv'[i] = inv[i]
    <3>1. CASE HookReport(h) \/ HookRenew(h)
      BY <3>1 DEF HookReport, HookRenew
    <3>2. CASE HookMirror(h)
      <4>1. PICK j \in Invoices : Unused(j) /\ \E row : inv' = [inv EXCEPT ![j] = row]
        BY <3>2 DEF HookMirror
      <4> QED BY <1>1, <2>5, <4>1, UnusedFresh DEF Fresh, TypeOK
    <3>3. CASE HookSettle(h) /\ ~HookReport(h) /\ ~HookMirror(h) /\ ~HookRenew(h)
      <4>1. PICK j \in r.found :
              /\ \A m \in Invoices : m # j => inv'[m] = inv[m]
              /\ t.pending = IF inv[j].plan = None THEN r.seen.pending ELSE None
        BY <2>2, <3>3
      <4>2. i # j
        BY <2>3, <2>4, <2>6, <4>1
      <4> QED BY <4>1, <4>2
    <3> QED BY <1>14, <3>1, <3>2, <3>3 DEF Hooking
  <2> QED BY <1>3, <1>9, <1>14, <2>4, <2>5, <2>7 DEF Witness
<1>15. ASSUME NEW h \in Handlers, Completing(h) PROVE \E i \in Invoices : Witness(i)'
  <2>1. PICK k \in DOMAIN log : HookCompleted(h, k) \/ HookIgnore(h, k)
    BY <1>15 DEF Completing
  <2>2. UNCHANGED req
    BY <2>1 DEF HookCompleted, HookIgnore
  <2>3. CASE HookIgnore(h, k)
    <3>1. UNCHANGED <<inv, sub>>
      BY <2>3 DEF HookIgnore
    <3> QED BY <1>3, <1>5, <2>2, <3>1 DEF Witness
  <2>4. CASE HookCompleted(h, k)
    <3> DEFINE j == log[k].sub
    <3>1. /\ sub'.pending = sub.pending
          /\ ~(inv[j].status = "open" /\ inv[j].plan # None)
      BY <2>4, CompletedSubscription
    <3>2. PICK i \in Invoices : Witness(i)
      BY <1>5, <3>1
    <3>3. i # j
      BY <3>1, <3>2 DEF Witness
    <3>4. inv'[i] = inv[i]
      BY <2>4, <3>3, CompletedRow
    <3> QED BY <1>3, <2>2, <3>1, <3>2, <3>4 DEF Witness
  <2> QED BY <2>1, <2>3, <2>4
<1> QED
  BY <1>6, <1>7, <1>8, <1>10, <1>11, <1>12, <1>13, <1>14, <1>15, NextClasses

LEMMA NextType ==
  ASSUME Invariant, Next
  PROVE  TypeOK'
  BY NextClasses, ReadType, PlanStepType, CheckoutType, AdminType, HookType, HookOnceType,
     StripeType, RowType, ExpireType
     DEF Invariant

LEMMA InitInvariant == Init => Invariant
<1> SUFFICES ASSUME Init PROVE Invariant
  OBVIOUS
<1>1. TypeOK
  <2>1. sub \in Subscription
    BY BillingAssumption DEF Init, Subscription, SubscriptionStatus
  <2>2. inv \in [Invoices -> Invoice]
    BY DEF Init, Invoice, Absent
  <2>3. price \in [Plans -> Nat]
    BY BillingAssumption DEF Init
  <2>4. req \in [Handlers -> Request]
    BY IdleType DEF Init
  <2>5. sessions \in [Invoices -> Session]
    BY DEF Init, Session, NoSession
  <2>6. stripe \in [Invoices -> StripeSubscription]
    BY DEF Init, StripeSubscription, NoStripe
  <2>7. period \in [Invoices -> 0..PeriodBound]
    BY BillingAssumption DEF Init
  <2>8. log \in Seq(Event)
    BY DEF Init
  <2> QED
    BY <2>1, <2>2, <2>3, <2>4, <2>5, <2>6, <2>7, <2>8 DEF Init, TypeOK
<1>2. \A h \in Handlers : req[h].op = "idle"
  BY DEF Init, Idle
<1>3. PaysFit /\ Reserved /\ TargetsExist /\ Hooks
  BY <1>2 DEF PaysFit, Reserved, TargetsExist, Targets, Hooks
<1>4. RowsExist
  BY DEF Init, RowsExist, Absent, NoSession, NoStripe
<1>5. EventsExist /\ Logged
  BY DEF Init, EventsExist, Logged
<1>6. Planned
  BY DEF Init, Planned, NoSession, NoStripe
<1>7. Links /\ Pending
  BY <1>2 DEF Init, Links, Linkable, Pending
<1> QED
  BY <1>1, <1>3, <1>4, <1>5, <1>6, <1>7 DEF Invariant

LEMMA StutterInvariant ==
  ASSUME Invariant, UNCHANGED vars
  PROVE  Invariant'
  BY DEF Invariant, vars, stripeVars, TypeOK, PaysFit, InvoiceLocked, Reserved, Exists,
         TargetsExist, RowsExist, EventsExist, Planned, Logged, Links, Linkable, Hooks,
         Pending, Witness

(* In every behaviour an invoice being paid is open and locked by its      *)
(* payment, identifiers are used once, links lead to what exists, and a    *)
(* pending plan change has an invoice whose settlement will clear it.      *)
THEOREM BillingInvariant == Spec => []Invariant
<1>1. Init => Invariant
  BY InitInvariant
<1>2. Invariant /\ [Next]_vars => Invariant'
  <2> SUFFICES ASSUME Invariant, [Next]_vars PROVE Invariant'
    OBVIOUS
  <2>1. CASE Next
    BY <2>1, NextType, PaysFitKept, ReservedKept, TargetsKept, StripeLinksKept, LinksKept,
       HooksKept, PendingKept
       DEF Invariant
  <2>2. CASE UNCHANGED vars
    BY <2>2, StutterInvariant
  <2> QED BY <2>1, <2>2
<1> QED BY <1>1, <1>2, PTL DEF Spec

(* Every variable of the model has its type; in particular no amount ever  *)
(* becomes negative, however payments, voids and webhooks interleave.      *)
THEOREM BillingTypeCorrect == Spec => []TypeOK
<1>1. Invariant => TypeOK
  BY DEF Invariant
<1> QED BY <1>1, BillingInvariant, PTL

(* A pending plan change can always be paid, so a company is never locked  *)
(* out of changing its plan (change_plan, create_checkout).                *)
THEOREM PendingPayableHolds == Spec => []PendingPayable
<1>1. Invariant => PendingPayable
  BY DEF Invariant, Pending, Witness, PendingPayable
<1> QED BY <1>1, BillingInvariant, PTL

-----------------------------------------------------------------------------
(* What is behind the plan in use.                                         *)

PaidUp(i, p) == inv[i].status = "paid" /\ inv[i].plan = p /\ inv[i].due = 0
Justified(p) ==
  \/ p = FirstPlan \/ price[p] = 0
  \/ \E i \in Invoices : PaidUp(i, p)
  \/ \E k \in processed : log[k].type = "updated" /\ log[k].state.plan = p

(* Unless invoices are voided the plan in use is justified; a change that  *)
(* was found free when it was read still is when it commits.               *)
PlanI ==
  "void" \notin env.operations =>
    /\ \A h \in Handlers : req[h].op # "void"
    /\ \A h \in Handlers : req[h].op = "change" /\ req[h].price = 0 => price[req[h].plan] = 0
    /\ Justified(sub.plan)

(* No step changes the environment; prices that are 0 stay 0, events stay  *)
(* handled, and the log only grows.                                        *)
LEMMA NothingUndone ==
  ASSUME Invariant, Next
  PROVE  /\ env' = env
         /\ \A p \in Plans : price[p] = 0 => price'[p] = 0
         /\ \A k \in processed : k \in processed' /\ k \in DOMAIN log
         /\ \A k \in DOMAIN log : k \in DOMAIN log' /\ log'[k] = log[k]
<1> USE DEF Invariant
<1>1. processed \subseteq DOMAIN log
  BY DEF TypeOK
<1>2. \A k \in DOMAIN log : k \in DOMAIN log' /\ log'[k] = log[k]
  <2>1. CASE Emitting
    BY <2>1, EmittedEvents
  <2> QED BY <2>1, StepSplit, StripeKept
<1>3. CASE Emitting \/ Expiring
  BY <1>1, <1>2, <1>3, EmittingFrame DEF Expiring, StripeExpire
<1>4. CASE Administering
  <2>1. \A p \in Plans : price[p] = 0 => price'[p] = 0
    BY <1>4 DEF Administering, Charge, Reprice, TypeOK
  <2> QED BY <1>1, <1>2, <1>4, <2>1, AdministeredRow
<1>5. ASSUME NEW h \in Handlers, Acts(h)
      PROVE  env' = env /\ price' = price /\ processed \subseteq processed'
  <2>1. CASE Reading(h) \/ Dropping(h)
    BY <2>1, ReadingKept, DroppingKept
  <2>2. CASE Changing(h) \/ Checking(h) \/ Booking(h)
    BY <2>2 DEF Changing, ChangeFree, ChangeInvoice, CancelCommit, Checking, CheckoutCustomer,
                CheckoutSession, CheckoutCommit, Booking, PayCommit, VoidCommit
  <2>3. CASE Hooking(h) \/ Completing(h)
    BY <2>3 DEF Hooking, HookReport, HookSettle, HookMirror, HookRenew, Completing,
                HookCompleted, HookIgnore
  <2> QED BY <1>5, <2>1, <2>2, <2>3 DEF Acts
<1> QED BY <1>1, <1>2, <1>3, <1>4, <1>5, StepSplit

(* A paid invoice stays paid and keeps its plan, unless it is voided.      *)
LEMMA PaidKept ==
  ASSUME Invariant, Next, \A h \in Handlers : req[h].op # "void",
         NEW i \in Invoices, inv[i].status = "paid"
  PROVE  inv'[i].status = "paid" /\ inv'[i].plan = inv[i].plan /\ inv'[i].due \in {inv[i].due, 0}
<1> USE DEF Invariant
<1>0. Exists(i) /\ ~Fresh(i)
  BY DEF Exists, Fresh
<1>1. CASE Emitting \/ Expiring
  BY <1>1, EmittingFrame DEF Expiring, StripeExpire
<1>2. CASE Administering
  BY <1>0, <1>2, AdministeredRow
<1>3. ASSUME NEW h \in Handlers, Reading(h) \/ Dropping(h) PROVE inv' = inv
  BY <1>3, ReadingKept, DroppingKept
<1>4. ASSUME NEW h \in Handlers, Changing(h) PROVE inv'[i] = inv[i]
  BY <1>0, <1>4, ChangedRow
<1>5. ASSUME NEW h \in Handlers, Checking(h) PROVE inv'[i] = inv[i]
  <2>1. req[h].op = "checkout" /\ (UNCHANGED inv \/ SaveInvoice(h))
    BY <1>5, CheckingKept
  <2>2. UNCHANGED inv \/ (req[h].fresh /\ \A j \in Invoices : j # req[h].invoice => inv'[j] = inv[j])
    BY <2>1, SavedRow
  <2> QED BY <1>0, <2>1, <2>2 DEF Reserved
<1>6. ASSUME NEW h \in Handlers, Booking(h) PROVE inv'[i] = inv[i]
  <2>1. req[h].op = "pay"
    BY <1>6 DEF Booking, PayCommit, VoidCommit
  <2>2. req[h].invoice # i
    BY <2>1 DEF PaysFit
  <2> QED BY <1>6, <2>2, BookedRow
<1>7. ASSUME NEW h \in Handlers, Hooking(h)
      PROVE  \/ inv'[i] = inv[i]
             \/ inv'[i].status = "paid" /\ inv'[i].due = 0 /\ inv'[i].plan = inv[i].plan
  <2>1. CASE HookReport(h) \/ HookRenew(h)
    BY <2>1 DEF HookReport, HookRenew
  <2>2. CASE HookMirror(h)
    <3>1. PICK j \in Invoices : Fresh(j) /\ \E v : inv' = [inv EXCEPT ![j] = v]
      BY <2>2, UnusedFresh DEF HookMirror
    <3> QED BY <1>0, <3>1 DEF TypeOK
  <2>3. CASE HookSettle(h)
    <3>1. ~HookReport(h) /\ ~HookMirror(h) /\ ~HookRenew(h)
      BY <2>3 DEF HookReport, HookSettle, HookMirror, HookRenew
    <3>2. \E j \in req[h].found :
            /\ inv'[j].status = "paid" /\ inv'[j].due = 0 /\ inv'[j].plan = inv[j].plan
            /\ \A l \in Invoices : l # j => inv'[l] = inv[l]
      BY ONLY Invariant, <1>7, <3>1, HookedSubscription
    <3> QED BY <3>2
  <2> QED BY <1>7, <2>1, <2>2, <2>3 DEF Hooking
<1>8. ASSUME NEW h \in Handlers, Completing(h)
      PROVE  inv'[i].status = "paid" /\ inv'[i].plan = inv[i].plan /\ inv'[i].due = inv[i].due
  <2>1. PICK k \in DOMAIN log : HookCompleted(h, k) \/ HookIgnore(h, k)
    BY <1>8 DEF Completing
  <2>2. CASE HookIgnore(h, k)
    BY <2>2 DEF HookIgnore
  <2>3. CASE HookCompleted(h, k) /\ log[k].sub # i
    BY <2>3, CompletedRow
  <2>4. CASE HookCompleted(h, k) /\ log[k].sub = i
    <3>1. inv' = [inv EXCEPT ![i] = [inv[i] EXCEPT !.stripe = <<i, 0>>]]
      BY <2>4 DEF HookCompleted, TypeOK
    <3>2. inv[i] \in Invoice
      BY DEF TypeOK
    <3>3. inv'[i] = [inv[i] EXCEPT !.stripe = <<i, 0>>]
      BY <3>1 DEF TypeOK
    <3> QED BY <3>2, <3>3 DEF Invoice
  <2> QED BY <2>1, <2>2, <2>3, <2>4
<1>9. ASSUME NEW h \in Handlers, Acts(h)
      PROVE  inv'[i].status = "paid" /\ inv'[i].plan = inv[i].plan /\ inv'[i].due \in {inv[i].due, 0}
  BY <1>3, <1>4, <1>5, <1>6, <1>7, <1>8, <1>9 DEF Acts
<1> QED BY <1>1, <1>2, <1>9, StepSplit

LEMMA JustifiedKept ==
  ASSUME Invariant, Next, \A h \in Handlers : req[h].op # "void",
         NEW p \in Plans, Justified(p)
  PROVE  Justified(p)'
<1>1. \A i \in Invoices : PaidUp(i, p) => PaidUp(i, p)'
  BY PaidKept DEF PaidUp
<1>2. \A k \in processed : k \in processed' /\ log'[k] = log[k]
  BY NothingUndone
<1>3. price[p] = 0 => price'[p] = 0
  BY NothingUndone
<1> QED BY <1>1, <1>2, <1>3 DEF Justified

(* The plan a step puts into use is justified.                             *)
LEMMA JustifiedAnew ==
  ASSUME Invariant, PlanI, "void" \notin env.operations, Next
  PROVE  sub'.plan = sub.plan \/ Justified(sub.plan)'
<1> USE DEF Invariant
<1>0. Justified(sub.plan) /\ sub \in Subscription
  BY DEF PlanI, TypeOK
<1>1. CASE Emitting \/ Expiring \/ Administering
  BY <1>1, EmittingFrame, AdministeredRow DEF Expiring, StripeExpire
<1>2. ASSUME NEW h \in Handlers, Reading(h) \/ Dropping(h) PROVE sub' = sub
  BY <1>2, ReadingKept, DroppingKept
<1>3. ASSUME NEW h \in Handlers, Changing(h)
      PROVE  sub'.plan = sub.plan \/ Justified(sub.plan)'
  <2>1. CASE ChangeFree(h) /\ sub'.plan = req[h].plan
    <3>1. price[req[h].plan] = 0 /\ price' = price
      BY <2>1 DEF ChangeFree, PlanI
    <3> QED BY <2>1, <3>1 DEF Justified
  <2> QED BY <1>3, <2>1, ChangedSubscription
<1>4. ASSUME NEW h \in Handlers, Checking(h) PROVE sub'.plan = sub.plan
  <2>1. req[h].op = "checkout" /\ (UNCHANGED sub \/ SaveInvoice(h))
    BY <1>4, CheckingKept
  <2> QED BY <1>0, <2>1, SavedRow DEF Subscription
<1>5. ASSUME NEW h \in Handlers, Booking(h)
      PROVE  sub'.plan = sub.plan \/ Justified(sub.plan)'
  <2>1. req[h].invoice \in Invoices /\ inv'[req[h].invoice].plan = inv[req[h].invoice].plan
    BY <1>5, BookedRow
  <2> QED BY <1>5, <2>1, BookedSubscription DEF Justified, PaidUp
<1>6. ASSUME NEW h \in Handlers, Hooking(h)
      PROVE  sub'.plan = sub.plan \/ Justified(sub.plan)'
  <2>1. req[h].op = "hook"
    BY <1>6 DEF Hooking, HookReport, HookSettle, HookMirror, HookRenew
  <2>2. req[h].event \in DOMAIN log /\ req[h].found \subseteq Invoices
    BY <2>1, HookParts
  <2>3. req[h].event \in processed' /\ log' = log
    BY <1>6 DEF Hooking, HookReport, HookSettle, HookMirror, HookRenew, stripeVars
  <2>4. PICK t \in Subscription :
          /\ sub' = Merge(req[h].seen, t)
          /\ \/ t.plan = req[h].seen.plan
             \/ log[req[h].event].type = "updated" /\ t.plan = log[req[h].event].state.plan
             \/ \E i \in req[h].found :
                  /\ inv'[i].status = "paid" /\ inv'[i].due = 0 /\ inv'[i].plan = inv[i].plan
                  /\ t.plan = IF inv[i].plan = None THEN req[h].seen.plan ELSE inv[i].plan
    BY <1>6, HookedSubscription
  <2>5. sub'.plan = IF t.plan = req[h].seen.plan THEN sub.plan ELSE t.plan
    BY <2>4, MergedFields
  <2> QED BY <2>2, <2>3, <2>4, <2>5 DEF Justified, PaidUp
<1>7. ASSUME NEW h \in Handlers, Completing(h)
      PROVE  sub'.plan = sub.plan \/ Justified(sub.plan)'
  <2>1. PICK k \in DOMAIN log : HookCompleted(h, k) \/ HookIgnore(h, k)
    BY <1>7 DEF Completing
  <2>2. CASE HookIgnore(h, k)
    BY <2>2 DEF HookIgnore
  <2>3. CASE HookCompleted(h, k)
    <3>1. /\ log[k].sub \in Invoices
          /\ inv'[log[k].sub].status = IF inv[log[k].sub].status = "open" THEN "paid"
                                       ELSE inv[log[k].sub].status
      BY <2>3, CompletedRow
    <3>2. /\ inv'[log[k].sub].plan = inv[log[k].sub].plan
          /\ inv[log[k].sub].status = "open" => inv'[log[k].sub].due = 0
          /\ \/ sub'.plan = sub.plan
             \/ inv[log[k].sub].status = "open" /\ sub'.plan = inv[log[k].sub].plan
      BY <2>3, CompletedSubscription
    <3> QED BY <3>1, <3>2 DEF Justified, PaidUp
  <2> QED BY <2>1, <2>2, <2>3
<1>8. ASSUME NEW h \in Handlers, Acts(h)
      PROVE  sub'.plan = sub.plan \/ Justified(sub.plan)'
  BY <1>2, <1>3, <1>4, <1>5, <1>6, <1>7, <1>8 DEF Acts
<1> QED BY <1>1, <1>8, StepSplit

(* The requests of the next state are old ones, or new ones about prices   *)
(* and subscriptions as they are.                                          *)
LEMMA NewRequests ==
  ASSUME Invariant, Next, NEW g \in Handlers
  PROVE  \/ req'[g] = req[g]
         \/ req'[g].op = "idle"
         \/ req[g].op = "checkout" /\ req'[g].op = "checkout" /\ Checking(g)
         \/ req[g].op = "cancel" /\ req'[g].op = "cancel"
         \/ Reading(g)
<1> USE DEF Invariant
<1>1. CASE Emitting \/ Expiring
  BY <1>1, EmittingRequests
<1>2. CASE Administering
  BY <1>2, AdministeredRow
<1>3. ASSUME NEW h \in Handlers, Acts(h), g # h PROVE req'[g] = req[g]
  BY <1>3, OthersKept DEF Acts
<1>4. CASE Dropping(g) \/ Changing(g) \/ Booking(g) \/ Hooking(g)
  BY <1>4, Finished
<1>5. CASE Checking(g)
  BY <1>5, CheckingKept
<1>6. CASE Completing(g)
  BY <1>6 DEF Completing, HookCompleted, HookIgnore
<1> QED BY <1>1, <1>2, <1>3, <1>4, <1>5, <1>6, StepSplit DEF Acts

LEMMA PlanKept ==
  ASSUME Invariant, PlanI, Next
  PROVE  PlanI'
<1> USE DEF Invariant
<1> SUFFICES ASSUME "void" \notin env'.operations PROVE
      /\ \A h \in Handlers : req'[h].op # "void"
      /\ \A h \in Handlers :
           req'[h].op = "change" /\ req'[h].price = 0 => price'[req'[h].plan] = 0
      /\ Justified(sub.plan)'
  BY DEF PlanI
<1>1. /\ "void" \notin env.operations
      /\ \A h \in Handlers : req[h].op # "void"
      /\ \A h \in Handlers : req[h].op = "change" /\ req[h].price = 0 => price[req[h].plan] = 0
      /\ Justified(sub.plan) /\ sub.plan \in Plans
  BY NothingUndone DEF PlanI, TypeOK, Subscription
<1>2. ASSUME NEW g \in Handlers, Reading(g)
      PROVE  /\ req'[g].op # "void" /\ price' = price
             /\ req'[g].op = "change" => req'[g].price = price[req'[g].plan]
  <2>1. ASSUME NEW p \in Plans, ChangeRead(g, p)
        PROVE  req'[g].op = "change" /\ req'[g].price = price[req'[g].plan]
    BY <2>1 DEF ChangeRead, TypeOK
  <2>2. CASE \/ \E p \in Plans, i \in Invoices : CheckoutRead(g, p, i)
             \/ \E i \in Invoices, amount \in Nat, ref \in Refs : PayRead(g, i, amount, ref)
             \/ \E value \in BOOLEAN : CancelRead(g, value)
             \/ \E k \in DOMAIN log : HookRead(g, k)
    <3>1. req'[g].op \in {"checkout", "pay", "cancel", "hook"}
      BY <2>2 DEF CheckoutRead, PayRead, CancelRead, HookRead, TypeOK
    <3> QED BY <1>2, <3>1, ReadingKept
  <2>3. ~\E i \in Invoices : VoidRead(g, i)
    BY <1>1 DEF VoidRead
  <2> QED BY <1>2, <2>1, <2>2, <2>3, ReadingKept DEF Reading
<1>3. ASSUME NEW g \in Handlers
      PROVE  /\ req'[g].op # "void"
             /\ req'[g].op = "change" /\ req'[g].price = 0 => price'[req'[g].plan] = 0
  <2>1. CASE req'[g] = req[g]
    <3>1. req[g].op = "change" => req[g].plan \in Plans
      BY RequestParts DEF TypeOK
    <3> QED BY <1>1, <2>1, <3>1, NothingUndone
  <2> QED BY <1>2, <2>1, NewRequests
<1>4. Justified(sub.plan)'
  <2>1. Justified(sub.plan)' \/ sub'.plan # sub.plan
    <3>1. PICK p \in Plans : p = sub.plan
      BY <1>1
    <3>2. Justified(p)'
      BY <1>1, <3>1, JustifiedKept
    <3> QED BY <3>1, <3>2 DEF Justified, PaidUp
  <2> QED BY <1>1, <2>1, JustifiedAnew
<1> QED BY <1>3, <1>4

(* With payments, Checkouts and webhooks interleaved in any order, and     *)
(* prices changing meanwhile, a plan is in use only when it was the first  *)
(* one, is free, was paid in full, or is what Stripe reported; only        *)
(* voiding invoices can break this.                                        *)
THEOREM PlanPaidForHolds == Spec => []PlanPaidFor
<1>1. Init => PlanI
  <2> SUFFICES ASSUME Init PROVE PlanI
    OBVIOUS
  <2>1. sub.plan = FirstPlan
    BY DEF Init
  <2>2. \A h \in Handlers : req[h].op = "idle"
    BY DEF Init, Idle
  <2> QED BY <2>1, <2>2 DEF PlanI, Justified
<1>2. Invariant /\ PlanI /\ [Next]_vars => PlanI'
  <2>1. ASSUME PlanI, UNCHANGED vars PROVE PlanI'
    BY <2>1 DEF vars, stripeVars, PlanI, Justified, PaidUp
  <2> QED BY <2>1, PlanKept
<1>3. PlanI => PlanPaidFor
  BY DEF PlanI, PlanPaidFor, Justified, PaidUp
<1> QED BY <1>1, <1>2, <1>3, BillingInvariant, PTL DEF Spec

-----------------------------------------------------------------------------
(* The company that buys its plans at Stripe.                              *)

(* A Checkout holds its new invoice until it has written it.  The company  *)
(* is calm when a new Checkout may begin; an invoice is alive while it may *)
(* still be paid, is being charged for, or its end is not yet reported.    *)
Holds(h) == req[h].op = "checkout" /\ req[h].fresh
Calm == sub.pending = None /\ (sub.link = None \/ sub.status \in Ended)
Deleted(k) == log[k].type = "deleted"
Alive(i) ==
  \/ inv[i].status = "open"
  \/ \E h \in Handlers : Holds(h) /\ req[h].invoice = i
  \/ stripe[i].status \in Live
  \/ \E k \in DOMAIN log \ processed : Deleted(k) /\ log[k].sub = i

(* Only Checkouts, cancellations and webhooks are served, one webhook at a *)
(* time: what it read of the subscription is still so, but for the pending *)
(* plan and the flag a cancellation writes.                                *)
OneAtATime ==
  /\ \A h \in Handlers : req[h].op \in {"idle", "checkout", "cancel", "hook"}
  /\ \A g, h \in Handlers : req[g].op = "hook" /\ req[h].op = "hook" => g = h
  /\ \A h \in Handlers : req[h].op = "hook" =>
       /\ req[h].seen.link = sub.link /\ req[h].seen.status = sub.status
       /\ req[h].seen.plan = sub.plan

(* Invoices, sessions and Stripe subscriptions belong together.            *)
Matches(s, p, amount) == s.state # "none" => s.plan = p /\ s.amount = amount
Sale(i) ==
  /\ inv[i].status # "void"
  /\ inv[i].status = "open" =>
       inv[i].plan # None /\ inv[i].due = price[inv[i].plan] /\ inv[i].stripe = None
  /\ inv[i].status = "paid" /\ inv[i].plan # None => stripe[i].status # "none"
  /\ stripe[i].status # "none" => sessions[i].state = "paid" /\ inv[i].plan # None
  /\ Exists(i) /\ inv[i].plan = None => sessions[i].state = "none"
  /\ Exists(i) /\ inv[i].plan # None =>
       Matches(sessions[i], inv[i].plan, price[inv[i].plan])
  /\ env.metadata /\ inv[i].stripe # None => inv[i].stripe[1] = i
  /\ stripe[i].status \in {"none", "canceled"} \union Live
Sales == \A i \in Invoices : Sale(i)
LinkPaid == sub.link # None => inv[sub.link].status = "paid"

(* What a Checkout and a webhook being served know.                        *)
Order(h) ==
  LET r == req[h] IN
  /\ r.price = price[r.plan]
  /\ r.session => /\ sessions[r.invoice].state # "none"
                  /\ Matches(sessions[r.invoice], r.plan, r.price)
  /\ ~r.fresh => inv[r.invoice].plan = r.plan
  /\ r.fresh => r.locked /\ (~r.session => sessions[r.invoice].state = "none")
Orders == \A h \in Handlers : req[h].op = "checkout" => Order(h)
Report(h) ==
  LET r == req[h]
      e == log[r.event]
  IN
  /\ e.type # "paid" => sub.link = e.sub
  /\ e.type = "paid" /\ r.settles => env.metadata /\ r.found = {e.sub}
  /\ e.type = "paid" /\ ~r.settles => inv[e.sub].status = "paid"
  /\ e.type = "paid" /\ env.metadata => r.found # {}
  /\ r.event \notin processed
Reports == \A h \in Handlers : req[h].op = "hook" => Report(h)

(* A Stripe subscription ends once, and no update reports an end.          *)
Endings ==
  /\ \A k \in DOMAIN log :
       /\ log[k].type = "updated" => log[k].state.status \in Live
       /\ Deleted(k) => stripe[log[k].sub].status = "canceled"
  /\ \A k, l \in DOMAIN log : Deleted(k) /\ Deleted(l) /\ log[k].sub = log[l].sub => k = l

(* At most one invoice is alive; a Checkout holds one only while the       *)
(* company is calm, and then it is the only one alive.                     *)
OneAlive ==
  /\ \A i, j \in Invoices : Alive(i) /\ Alive(j) => i = j
  /\ \A h \in Handlers : Holds(h) => Calm
  /\ Calm => \A i \in Invoices : Alive(i) => \E h \in Handlers : Holds(h) /\ req[h].invoice = i

QuietParts ==
  OneAtATime /\ Sales /\ LinkPaid /\ Orders /\ Reports /\ Endings /\ OneAlive
Quiet == CheckoutOnly => QuietParts
Shop == Invariant /\ CheckoutOnly /\ QuietParts

(* The steps that happen then.                                             *)
Beginning(h) == \E p \in Plans, i \in Invoices : CheckoutRead(h, p, i)
Reacting(h) == \E k \in DOMAIN log : HookRead(h, k)
Asking(h) == (\E value \in BOOLEAN : CancelRead(h, value)) \/ CancelCommit(h)
Passing(h) == Dropping(h) \/ Asking(h)
Selling == Emitting

LEMMA ShopSteps ==
  ASSUME Shop, Next
  PROVE  \/ \E h \in Handlers :
              \/ Beginning(h) \/ Reacting(h) \/ Passing(h) \/ Checking(h)
              \/ Hooking(h) \/ Completing(h)
         \/ Selling \/ Expiring
<1>1. /\ TypeOK
      /\ \A o \in {"change", "pay", "charge", "void", "reprice"} : o \notin env.operations
      /\ \A h \in Handlers : req[h].op \in {"idle", "checkout", "cancel", "hook"}
  BY DEF Shop, Invariant, CheckoutOnly, QuietParts, OneAtATime
<1>2. CASE Emitting
  BY <1>2 DEF Selling
<1>3. CASE Administering
  BY <1>1, <1>3 DEF Administering, Charge, Reprice
<1>4. ASSUME NEW h \in Handlers, Reading(h) PROVE Beginning(h) \/ Reacting(h) \/ Passing(h)
  BY <1>1, <1>4 DEF Reading, ChangeRead, PayRead, VoidRead, Beginning, Reacting, Passing, Asking
<1>5. ASSUME NEW h \in Handlers, Changing(h) \/ Booking(h) PROVE Passing(h)
  BY <1>1, <1>5 DEF Changing, ChangeFree, ChangeInvoice, Booking, PayCommit, VoidCommit, Passing,
                    Asking
<1> QED BY <1>1, <1>2, <1>3, <1>4, <1>5, StepSplit DEF Acts, Passing

(* The parts of a Checkout: the new invoice is written by the first commit.*)
Keeps(h, new) ==
  /\ new.op = "checkout" /\ new.invoice = req[h].invoice
  /\ new.plan = req[h].plan /\ new.price = req[h].price
Saved(h) ==
  LET r == req[h]
      i == r.invoice
  IN
  /\ \A j \in Invoices : j # i => inv'[j] = inv[j]
  /\ IF r.fresh
     THEN /\ inv'[i].status = "open" /\ inv'[i].plan = r.plan
          /\ inv'[i].due = r.price /\ inv'[i].stripe = None
          /\ sub' = [sub EXCEPT !.pending = r.plan]
     ELSE UNCHANGED <<inv, sub>>
CustomerMove(h) ==
  /\ ~req[h].session /\ Saved(h) /\ UNCHANGED sessions
  /\ Keeps(h, req'[h]) /\ ~req'[h].fresh /\ ~req'[h].session
SessionMove(h) ==
  LET r == req[h]
      i == r.invoice
  IN
  /\ ~r.session /\ UNCHANGED <<inv, sub>>
  /\ IF sessions[i].state = "none"
     THEN sessions'[i] = [state |-> "created", plan |-> r.plan, amount |-> r.price]
     ELSE sessions'[i] = sessions[i] /\ Matches(sessions[i], r.plan, r.price)
  /\ Keeps(h, req'[h]) /\ req'[h].session
  /\ req'[h].fresh = r.fresh /\ req'[h].locked = r.locked
CommitMove(h) ==
  LET i == req[h].invoice IN
  /\ req[h].session /\ Saved(h) /\ req'[h].op = "idle"
  /\ \/ sessions'[i] = sessions[i]
     \/ /\ sessions[i].state = "created" /\ sessions'[i].state = "open"
        /\ sessions'[i].plan = sessions[i].plan /\ sessions'[i].amount = sessions[i].amount

LEMMA SavedMove ==
  ASSUME TypeOK, NEW h \in Handlers, req[h].op = "checkout", SaveInvoice(h)
  PROVE  Saved(h)
<1>1. req[h].invoice \in Invoices /\ req[h].fresh \in BOOLEAN
  BY RequestParts DEF TypeOK
<1>2. /\ OpenInvoice(req[h].plan, req[h].price).status = "open"
      /\ OpenInvoice(req[h].plan, req[h].price).plan = req[h].plan
      /\ OpenInvoice(req[h].plan, req[h].price).due = req[h].price
      /\ OpenInvoice(req[h].plan, req[h].price).stripe = None
  BY DEF OpenInvoice, Absent
<1>3. CASE ~req[h].fresh
  BY <1>3 DEF SaveInvoice, Saved
<1>4. CASE req[h].fresh
  <2> DEFINE v == OpenInvoice(req[h].plan, req[h].price)
  <2>1. inv' = [inv EXCEPT ![req[h].invoice] = v]
        /\ sub' = [sub EXCEPT !.pending = req[h].plan]
    BY <1>4 DEF SaveInvoice
  <2> HIDE DEF v
  <2>2. inv'[req[h].invoice] = v /\ \A j \in Invoices : j # req[h].invoice => inv'[j] = inv[j]
    BY <1>1, <2>1 DEF TypeOK
  <2> QED BY <1>2, <1>4, <2>1, <2>2 DEF Saved, v
<1> QED BY <1>3, <1>4

LEMMA CheckingMoves ==
  ASSUME TypeOK, NEW h \in Handlers, Checking(h)
  PROVE  /\ req[h].op = "checkout" /\ req[h].invoice \in Invoices /\ req[h].plan \in Plans
         /\ req[h].fresh \in BOOLEAN
         /\ \A g \in Handlers : g # h => req'[g] = req[g]
         /\ \A j \in Invoices : j # req[h].invoice => sessions'[j] = sessions[j]
         /\ UNCHANGED <<env, price, processed, stripe, log>>
         /\ CustomerMove(h) \/ SessionMove(h) \/ CommitMove(h)
<1> DEFINE r == req[h]
           i == r.invoice
<1>1. r \in Request /\ r.op = "checkout"
  BY DEF TypeOK, Checking, CheckoutCustomer, CheckoutSession, CheckoutCommit
<1>2. /\ r.plan \in Plans /\ r.price \in Nat /\ i \in Invoices
      /\ r.fresh \in BOOLEAN /\ r.locked \in BOOLEAN /\ r.session \in BOOLEAN
  BY <1>1, RequestParts
<1>3. r \in [op : {"checkout"}, plan : Plans, price : Nat, invoice : Invoices,
             fresh : BOOLEAN, locked : BOOLEAN, session : BOOLEAN]
  BY <1>1 DEF Request
<1>4. \A g \in Handlers : g # h => req'[g] = req[g]
  BY OthersKept
<1>5. UNCHANGED <<env, price, processed, stripe, log>>
  BY DEF Checking, CheckoutCustomer, CheckoutSession, CheckoutCommit, stripeVars
<1>6. CASE CheckoutCustomer(h)
  <2>1. ~r.session /\ SaveInvoice(h) /\ UNCHANGED sessions
    BY <1>6 DEF CheckoutCustomer, stripeVars
  <2>2. req'[h] = [r EXCEPT !.fresh = FALSE, !.locked = FALSE]
    BY <1>6 DEF CheckoutCustomer, TypeOK
  <2>3. Keeps(h, req'[h]) /\ ~req'[h].fresh /\ ~req'[h].session
    BY <1>3, <2>1, <2>2 DEF Keeps
  <2>4. CustomerMove(h)
    BY <1>1, <2>1, <2>3, SavedMove DEF CustomerMove
  <2> QED BY <1>1, <1>2, <1>4, <1>5, <2>1, <2>4
<1>7. CASE CheckoutSession(h)
  <2>1. ~r.session /\ UNCHANGED <<inv, sub>> /\ SameSession(h)
    BY <1>7 DEF CheckoutSession
  <2>2. req'[h] = [r EXCEPT !.session = TRUE]
    BY <1>7 DEF CheckoutSession, TypeOK
  <2>3. /\ Keeps(h, req'[h]) /\ req'[h].session
        /\ req'[h].fresh = r.fresh /\ req'[h].locked = r.locked
    BY <1>3, <2>2 DEF Keeps
  <2>4. /\ \A j \in Invoices : j # i => sessions'[j] = sessions[j]
        /\ IF sessions[i].state = "none"
           THEN sessions'[i] = [state |-> "created", plan |-> r.plan, amount |-> r.price]
           ELSE sessions'[i] = sessions[i]
    BY <1>2, <1>7 DEF CheckoutSession, TypeOK
  <2>5. SessionMove(h)
    BY <2>1, <2>3, <2>4 DEF SessionMove, SameSession, Matches
  <2> QED BY <1>1, <1>2, <1>4, <1>5, <2>4, <2>5
<1>8. CASE CheckoutCommit(h)
  <2>1. r.session /\ SaveInvoice(h) /\ req'[h].op = "idle"
    BY <1>8 DEF CheckoutCommit, Finish, Idle, TypeOK
  <2>2. \/ sessions' = sessions
        \/ sessions[i].state = "created" /\ sessions' = [sessions EXCEPT ![i].state = "open"]
    BY <1>8 DEF CheckoutCommit
  <2>3. sessions[i] \in Session
    BY <1>2 DEF TypeOK
  <2>4. /\ [sessions[i] EXCEPT !.state = "open"].state = "open"
        /\ [sessions[i] EXCEPT !.state = "open"].plan = sessions[i].plan
        /\ [sessions[i] EXCEPT !.state = "open"].amount = sessions[i].amount
    BY <2>3 DEF Session
  <2>5. /\ \A j \in Invoices : j # i => sessions'[j] = sessions[j]
        /\ \/ sessions'[i] = sessions[i]
           \/ /\ sessions[i].state = "created"
              /\ sessions'[i] = [sessions[i] EXCEPT !.state = "open"]
    BY <1>2, <2>2 DEF TypeOK
  <2>6. CommitMove(h)
    BY <1>1, <2>1, <2>4, <2>5, SavedMove DEF CommitMove
  <2> QED BY <1>1, <1>2, <1>4, <1>5, <2>5, <2>6
<1> QED BY <1>6, <1>7, <1>8 DEF Checking

(* A webhook finds the subscription as it read it.                         *)
LEMMA MergeAsSeen ==
  ASSUME NEW s, NEW t, s.link = sub.link, s.status = sub.status
  PROVE  Merge(s, t).link = t.link /\ Merge(s, t).status = t.status
  BY DEF Merge, Column

LEMMA ActiveStatus ==
  ASSUME NEW r, NEW e, r.seen \in Subscription, e.sub \in Invoices, NEW p
  PROVE  /\ Linked(r, e).status = "active" /\ Linked(r, e).link = e.sub
         /\ Activated(Linked(r, e), p).status = "active"
         /\ Activated(Linked(r, e), p).link = e.sub
<1>1. \A t \in Subscription : /\ [t EXCEPT !.link = e.sub, !.status = "active"].status = "active"
                              /\ [t EXCEPT !.link = e.sub, !.status = "active"].link = e.sub
  BY DEF Subscription
<1>2. Linked(r, e) \in Subscription /\ Linked(r, e).status = "active" /\ Linked(r, e).link = e.sub
  BY <1>1, LinkedType DEF Linked
<1>3. ASSUME NEW t \in Subscription, t.status = "active", t.link = e.sub
      PROVE  Activated(t, p).status = "active" /\ Activated(t, p).link = e.sub
  BY <1>3 DEF Activated, Subscription
<1> QED BY <1>2, <1>3

LEMMA NoHolder ==
  ASSUME Shop, NEW h \in Handlers, ~SubLocked(h), req[h].op # "checkout"
  PROVE  \A g \in Handlers : ~Holds(g)
  BY DEF Shop, QuietParts, Orders, Order, SubLocked, Holds

(* The invoice a webhook books a payment on: a new one, or the one whose   *)
(* Checkout started the Stripe subscription.                               *)
Billed(e, i) ==
  /\ inv'[i].status = "paid" /\ inv'[i].stripe = <<e.sub, e.period>>
  /\ \A j \in Invoices : j # i => inv'[j] = inv[j]
MirrorMove(e) ==
  \E i \in Invoices :
    /\ e.type = "paid" /\ ~env.metadata
    /\ Fresh(i) /\ sessions[i].state = "none"
    /\ Billed(e, i) /\ inv'[i].plan = None
SettleMove(e) ==
  /\ e.type = "paid" /\ env.metadata
  /\ Billed(e, e.sub) /\ inv'[e.sub].plan = inv[e.sub].plan

LEMMA HookingMoves ==
  ASSUME Shop, NEW h \in Handlers, Hooking(h)
  PROVE  LET k == req[h].event
             e == log[k]
         IN
         /\ req[h].op = "hook" /\ req'[h].op = "idle"
         /\ k \in DOMAIN log /\ k \notin processed /\ e.sub \in Invoices
         /\ e.type \in {"paid", "failed", "updated", "deleted"}
         /\ \A g \in Handlers : ~Holds(g) /\ (g # h => req'[g] = req[g])
         /\ UNCHANGED <<env, price, sessions, stripe, log>>
         /\ processed' = processed \union {k}
         /\ \/ UNCHANGED inv /\ (e.type = "paid" => ~req[h].settles /\ req[h].found # {})
            \/ MirrorMove(e) \/ SettleMove(e)
         /\ sub'.link = e.sub
         /\ IF e.type = "deleted" THEN sub'.status = "cancelled"
            ELSE sub'.status \in {"active", "past_due"}
<1> USE DEF Shop, QuietParts, Invariant
<1> DEFINE r == req[h]
           k == r.event
           e == log[k]
<1>1. /\ r.op = "hook" /\ k \in DOMAIN log /\ e \in Event /\ r.seen \in Subscription
      /\ r.found \subseteq Invoices /\ e.type # "completed"
  BY HookParts DEF Hooking, HookReport, HookSettle, HookMirror, HookRenew
<1>2. /\ Report(h)
      /\ r.seen.link = sub.link /\ r.seen.status = sub.status
  BY <1>1 DEF Reports, OneAtATime
<1>3. /\ e.sub \in Invoices /\ e.type \in {"paid", "failed", "updated", "deleted"}
      /\ e.state \in StripeSubscription /\ Begun(e.state)
      /\ <<e.sub, e.period>> \in StripeInvoices
  BY <1>1, EventParts
<1>4. req'[h].op = "idle" /\ \A g \in Handlers : g # h => req'[g] = req[g]
  BY OthersKept, Finished
<1>5. /\ ~SubLocked(h) /\ UNCHANGED <<env, price, sessions, stripe, log>>
      /\ processed' = processed \union {k}
  BY DEF Hooking, HookReport, HookSettle, HookMirror, HookRenew, stripeVars
<1>6. \A g \in Handlers : ~Holds(g)
  BY <1>1, <1>5, NoHolder
<1> HIDE DEF e, k, r
<1>7. CASE HookReport(h)
  <2>1. e.type # "paid" /\ UNCHANGED inv /\ sub' = Merge(r.seen, Reported(e, r.seen))
    BY <1>7 DEF HookReport, r, k, e
  <2>2. e.type = "updated" => e.state.status \in Live
    BY <1>1 DEF Endings, e
  <2>3. e.sub = sub.link
    BY <1>2, <2>1 DEF Report, r, k, e
  <2>4. /\ Reported(e, r.seen).link = r.seen.link
        /\ e.type = "failed" => Reported(e, r.seen).status = "past_due"
        /\ e.type = "deleted" => Reported(e, r.seen).status = "cancelled"
        /\ e.type = "updated" => Reported(e, r.seen).status = LocalStatus(e.state.status)
    <3>1. CASE e.type = "failed"
      BY <1>1, <3>1 DEF Reported, Subscription
    <3>2. CASE e.type = "updated"
      BY <1>1, <3>2 DEF Reported, Subscription
    <3>3. CASE e.type = "deleted"
      BY <1>1, <3>3 DEF Reported, Subscription
    <3> QED BY <1>3, <2>1, <3>1, <3>2, <3>3
  <2>5. \A s \in Live : LocalStatus(s) \in {"active", "past_due"}
    BY DEF Live, LocalStatus
  <2>6. sub'.link = e.sub /\ sub'.status = Reported(e, r.seen).status
    BY <1>2, <2>1, <2>3, <2>4, MergeAsSeen DEF r
  <2> QED BY <1>1, <1>3, <1>2, <1>4, <1>5, <1>6, <2>1, <2>2, <2>4, <2>5, <2>6 DEF r, k, e, Report
<1>8. CASE HookRenew(h)
  <2>1. e.type = "paid" /\ ~r.settles /\ r.found # {} /\ UNCHANGED inv /\ sub' = Merge(r.seen, Linked(r, e))
    BY <1>8 DEF HookRenew, r, k, e
  <2>2. sub'.link = e.sub /\ sub'.status = "active"
    BY <1>1, <1>2, <1>3, <2>1, MergeAsSeen, ActiveStatus DEF r
  <2> QED BY <1>1, <1>3, <1>2, <1>4, <1>5, <1>6, <2>1, <2>2 DEF r, k, e, Report
<1>9. CASE HookMirror(h)
  <2>1. e.type = "paid" /\ r.found = {} /\ sub' = Merge(r.seen, Linked(r, e))
    BY <1>9 DEF HookMirror, r, k, e
  <2>2. sub'.link = e.sub /\ sub'.status = "active"
    BY <1>1, <1>2, <1>3, <2>1, MergeAsSeen, ActiveStatus DEF r
  <2>3. ~env.metadata
    BY <1>2, <2>1 DEF Report, r, k, e
  <2>4. PICK i \in Invoices :
          /\ Unused(i)
          /\ inv' = [inv EXCEPT ![i] = [Settled(OpenInvoice(None, Charged(e))) EXCEPT
                                          !.stripe = <<e.sub, e.period>>]]
    BY <1>9 DEF HookMirror, r, k, e
  <2> DEFINE v == [Settled(OpenInvoice(None, Charged(e))) EXCEPT !.stripe = <<e.sub, e.period>>]
  <2>5. v.status = "paid" /\ v.plan = None /\ v.stripe = <<e.sub, e.period>>
    BY DEF Settled, OpenInvoice, Absent
  <2> HIDE DEF v
  <2>6. inv'[i] = v /\ \A j \in Invoices : j # i => inv'[j] = inv[j]
    BY <2>4 DEF TypeOK, v
  <2>7. MirrorMove(e)
    <3>1. Fresh(i) /\ sessions[i].state = "none"
      BY <2>4, UnusedFresh DEF Unused, NoSession
    <3>2. Billed(e, i) /\ inv'[i].plan = None
      BY <2>5, <2>6 DEF Billed
    <3> QED BY <2>1, <2>3, <3>1, <3>2 DEF MirrorMove
  <2> QED BY <1>1, <1>3, <1>2, <1>4, <1>5, <1>6, <2>1, <2>2, <2>7 DEF r, k, e, Report
<1>10. CASE HookSettle(h)
  <2>1. e.type = "paid" /\ r.settles
    BY <1>10 DEF HookSettle, r, k, e
  <2>2. r.found = {e.sub}
    BY <1>2, <2>1 DEF Report, r, k, e
  <2>3. /\ inv' = [inv EXCEPT ![e.sub] = [Settled(inv[e.sub]) EXCEPT !.stripe = <<e.sub, e.period>>]]
        /\ sub' = Merge(r.seen, Activated(Linked(r, e), inv[e.sub].plan))
    BY <1>3, <1>10, <2>2 DEF HookSettle, TypeOK, r, k, e
  <2>4. sub'.link = e.sub /\ sub'.status = "active"
    BY <1>1, <1>2, <1>3, <2>3, MergeAsSeen, ActiveStatus DEF r
  <2> DEFINE v == [Settled(inv[e.sub]) EXCEPT !.stripe = <<e.sub, e.period>>]
  <2>5. v.status = "paid" /\ v.plan = inv[e.sub].plan /\ v.stripe = <<e.sub, e.period>>
    <3>1. inv[e.sub] \in Invoice
      BY <1>3 DEF TypeOK
    <3> QED BY <3>1 DEF Settled, Invoice
  <2> HIDE DEF v
  <2>6. inv'[e.sub] = v /\ \A j \in Invoices : j # e.sub => inv'[j] = inv[j]
    BY <1>3, <2>3 DEF TypeOK, v
  <2>7. env.metadata
    BY <1>2, <2>1 DEF Report, r, k, e
  <2>8. SettleMove(e)
    BY <2>1, <2>5, <2>6, <2>7 DEF SettleMove, Billed
  <2> QED BY <1>1, <1>3, <1>2, <1>4, <1>5, <1>6, <2>1, <2>4, <2>8 DEF r, k, e, Report
<1> QED BY <1>7, <1>8, <1>9, <1>10 DEF Hooking

LEMMA CompletingMoves ==
  ASSUME Shop, NEW h \in Handlers, NEW k \in DOMAIN log, HookCompleted(h, k)
  PROVE  LET i == log[k].sub IN
         /\ i \in Invoices /\ Exists(i) /\ k \notin processed /\ log[k].type = "completed"
         /\ \A g \in Handlers : ~Holds(g) /\ req[g].op # "hook"
         /\ UNCHANGED <<env, price, req, sessions, stripe, log>>
         /\ processed' = processed \union {k}
         /\ \A j \in Invoices : j # i => inv'[j] = inv[j]
         /\ inv'[i].status = "paid" /\ inv'[i].plan = inv[i].plan
         /\ inv'[i].stripe = <<i, 0>>
         /\ sub'.link = i
         /\ \/ sub'.status = "active"
            \/ /\ inv[i].status = "paid"
               /\ sub'.status = sub.status /\ sub'.pending = sub.pending
<1> USE DEF Shop, QuietParts, Invariant
<1> DEFINE i == log[k].sub
<1>1. /\ i \in Invoices /\ Exists(i) /\ \A j \in Invoices : j # i => inv'[j] = inv[j]
      /\ inv'[i].status = IF inv[i].status = "open" THEN "paid" ELSE inv[i].status
  BY CompletedRow
<1>2. inv'[i].plan = inv[i].plan /\ sub'.link = i
  BY CompletedSubscription
<1>3. inv[i] \in Invoice /\ sub \in Subscription
  BY <1>1 DEF TypeOK
<1>4. inv[i].status \in {"open", "paid"} /\ (inv[i].status = "open" => inv[i].plan # None)
  BY <1>1, <1>3 DEF Sales, Sale, Exists, Invoice
<1>5. /\ req[h] = Idle /\ \A g \in Handlers \ {h} : req[g].op \notin {"pay", "hook"}
      /\ k \notin processed /\ log[k].type = "completed" /\ ~SubLocked(h)
      /\ UNCHANGED <<env, price, req, sessions, stripe, log>>
      /\ processed' = processed \union {k}
  BY DEF HookCompleted, Deliverable, Free, Apart, CheckoutOnly, stripeVars
<1>6. req[h].op = "idle"
  BY <1>5 DEF Idle
<1>7. \A g \in Handlers : ~Holds(g) /\ req[g].op # "hook"
  BY <1>5, <1>6, NoHolder
<1>8. inv'[i].stripe = <<i, 0>>
  <2>1. \A s : \A x \in Invoice : /\ [Settled(x) EXCEPT !.stripe = s].stripe = s
                                  /\ [x EXCEPT !.stripe = s].stripe = s
    BY DEF Settled, Invoice
  <2>2. inv' = [inv EXCEPT ![i] = [IF inv[i].status = "open" THEN Settled(inv[i]) ELSE inv[i]
                                     EXCEPT !.stripe = <<i, 0>>]]
    BY <1>1 DEF HookCompleted, TypeOK
  <2>3. \/ inv'[i] = [Settled(inv[i]) EXCEPT !.stripe = <<i, 0>>]
        \/ inv'[i] = [inv[i] EXCEPT !.stripe = <<i, 0>>]
    BY <1>1, <2>2 DEF TypeOK
  <2> QED BY <1>3, <2>1, <2>3
<1>9. CASE inv[i].status = "open"
  <2>1. sub' = [Activated(sub, inv[i].plan) EXCEPT !.link = i]
    BY <1>9 DEF HookCompleted
  <2>2. inv[i].plan \in Plans \union {None}
    BY <1>3 DEF Invoice
  <2>3. Activated(sub, inv[i].plan) \in Subscription /\ Activated(sub, inv[i].plan).status = "active"
    <3>1. Activated(sub, inv[i].plan).status = "active"
      BY <1>3, <1>4, <1>9 DEF Activated, Subscription
    <3> QED BY <1>3, <2>2, <3>1, ActivatedType
  <2>4. sub'.status = "active"
    BY <2>1, <2>3 DEF Subscription
  <2> QED BY <1>1, <1>2, <1>5, <1>7, <1>8, <1>9, <2>4
<1>10. CASE inv[i].status = "paid"
  <2>1. sub' = [sub EXCEPT !.link = i]
    BY <1>10 DEF HookCompleted
  <2>2. sub'.status = sub.status /\ sub'.pending = sub.pending
    BY <1>3, <2>1 DEF Subscription
  <2> QED BY <1>1, <1>2, <1>5, <1>7, <1>8, <1>10, <2>2
<1> QED BY <1>4, <1>9, <1>10

LEMMA IgnoringMoves ==
  ASSUME Shop, NEW h \in Handlers, NEW k \in DOMAIN log, HookIgnore(h, k)
  PROVE  /\ k \notin processed /\ log[k].type # "completed" /\ ~Finds(log[k])
         /\ \A g \in Handlers : req[g].op # "hook"
         /\ UNCHANGED <<env, sub, inv, price, req, sessions, stripe, log>>
         /\ processed' = processed \union {k}
<1>1. /\ req[h] = Idle /\ \A g \in Handlers \ {h} : req[g].op \notin {"pay", "hook"}
      /\ k \notin processed /\ log[k].type # "completed" /\ ~Finds(log[k])
      /\ UNCHANGED <<env, sub, inv, price, req, sessions, stripe, log>>
      /\ processed' = processed \union {k}
  BY DEF HookIgnore, Deliverable, Free, Apart, CheckoutOnly, stripeVars, Shop
<1>2. req[h].op = "idle"
  BY <1>1 DEF Idle
<1> QED BY <1>1, <1>2

(* The invoice of a Checkout that pays for a pending change is the one of  *)
(* the change: no other is open.                                           *)
LEMMA BeginningMoves ==
  ASSUME Shop, NEW h \in Handlers, Beginning(h)
  PROVE  LET r == req'[h]
             i == r.invoice
         IN
         /\ req[h].op = "idle" /\ r.op = "checkout" /\ i \in Invoices
         /\ \A g \in Handlers : g # h => req'[g] = req[g] /\ ~Holds(g)
         /\ UNCHANGED <<env, sub, inv, price, processed, sessions, stripe, log>>
         /\ r.price = price[r.plan] /\ r.locked /\ ~r.session
         /\ IF r.fresh THEN Calm /\ Fresh(i) /\ sessions[i].state = "none"
            ELSE inv[i].status = "open" /\ inv[i].plan = r.plan
<1> USE DEF Shop, QuietParts, Invariant
<1>1. PICK p \in Plans, i \in Invoices : CheckoutRead(h, p, i)
  BY DEF Beginning
<1> DEFINE new == [op |-> "checkout", plan |-> p, price |-> price[p], invoice |-> i,
                   fresh |-> sub.pending = None, locked |-> TRUE, session |-> FALSE]
<1>2. req'[h] = new /\ \A g \in Handlers : g # h => req'[g] = req[g]
  BY <1>1 DEF CheckoutRead, TypeOK
<1>3. /\ new.op = "checkout" /\ new.plan = p /\ new.price = price[p] /\ new.invoice = i
      /\ new.locked /\ ~new.session
      /\ new.fresh <=> sub.pending = None
  OBVIOUS
<1> HIDE DEF new
<1>4. /\ req[h] = Idle /\ ~SubLocked(h) /\ CanCheckout(p) /\ InvoiceFor(p, i)
      /\ UNCHANGED <<env, sub, inv, price, processed, sessions, stripe, log>>
  BY <1>1 DEF CheckoutRead, Free, stripeVars
<1>5. req[h].op = "idle"
  BY <1>4 DEF Idle
<1>6. \A g \in Handlers : ~Holds(g)
  BY <1>4, <1>5, NoHolder
<1>7. CASE sub.pending = None
  <2>1. Calm
    BY <1>4, <1>7 DEF Calm, CanCheckout, Ended
  <2>2. Fresh(i) /\ sessions[i].state = "none"
    BY <1>4, <1>7, UnusedFresh DEF InvoiceFor, Unused, NoSession
  <2> QED BY <1>2, <1>3, <1>4, <1>5, <1>6, <1>7, <2>1, <2>2
<1>8. CASE sub.pending # None
  <2>1. inv[i].status = "open" /\ sub.pending = p
    BY <1>4, <1>8 DEF InvoiceFor
  <2>2. PICK w \in Invoices : inv[w].status = "open" /\ inv[w].plan = sub.pending
    BY <1>8 DEF Pending, Witness
  <2>3. w = i
    BY <2>1, <2>2 DEF OneAlive, Alive
  <2> QED BY <1>2, <1>3, <1>4, <1>5, <1>6, <1>8, <2>1, <2>2, <2>3
<1> QED BY <1>7, <1>8

(* What a webhook knows when it has read its event.                        *)
LEMMA ReactingMoves ==
  ASSUME Shop, NEW h \in Handlers, Reacting(h)
  PROVE  /\ req[h].op = "idle" /\ req'[h].op = "hook"
         /\ req'[h].seen = sub /\ Report(h)'
         /\ req'[h].event \in DOMAIN log
         /\ \A g \in Handlers : req[g].op # "hook" /\ (g # h => req'[g] = req[g])
         /\ UNCHANGED <<env, sub, inv, price, processed, sessions, stripe, log>>
<1> USE DEF Shop, QuietParts, Invariant
<1>1. PICK k \in DOMAIN log : HookRead(h, k)
  BY DEF Reacting
<1> DEFINE e == log[k]
           found == IF e.type = "paid" THEN Mirrors(e) ELSE {}
           settles == \E i \in found : inv[i].status = "open"
           new == [op |-> "hook", event |-> k, seen |-> sub, found |-> found,
                   settles |-> settles]
<1>2. req'[h] = new /\ \A g \in Handlers : g # h => req'[g] = req[g]
  BY <1>1 DEF HookRead, TypeOK
<1>3. /\ new.op = "hook" /\ new.event = k /\ new.seen = sub /\ new.found = found
      /\ new.settles <=> settles
  OBVIOUS
<1>4. /\ req[h] = Idle /\ \A g \in Handlers \ {h} : req[g].op \notin {"pay", "hook"}
      /\ k \notin processed /\ Finds(e)
      /\ UNCHANGED <<env, sub, inv, price, processed, sessions, stripe, log>>
  BY <1>1 DEF HookRead, Deliverable, Free, Apart, CheckoutOnly, stripeVars
<1>5. req[h].op = "idle"
  BY <1>4 DEF Idle
<1> HIDE DEF new
<1>6. e.sub \in Invoices /\ Exists(e.sub) /\ e.period \in 0..PeriodBound
  BY EventParts DEF EventsExist
<1>7. ASSUME env.metadata, e.type = "paid" PROVE found = {e.sub}
  <2>1. \A i \in Invoices : inv[i].stripe = <<e.sub, e.period>> => i = e.sub
    <3>1. ASSUME NEW i \in Invoices, inv[i].stripe = <<e.sub, e.period>>
          PROVE  i = e.sub
      <4>1. inv[i].stripe # None
        BY <1>6, <3>1, BillingAssumption
      <4>2. inv[i].stripe[1] = i
        BY <1>7, <4>1 DEF Sales, Sale
      <4> QED BY <3>1, <4>2
    <3> QED BY <3>1
  <2> QED BY <1>6, <1>7, <2>1 DEF Mirrors
<1>8. ASSUME ~env.metadata, e.type = "paid" PROVE ~settles
  <2>1. ASSUME NEW i \in found PROVE inv[i].status # "open"
    <3>1. i \in Invoices /\ inv[i].stripe = <<e.sub, e.period>>
      BY <1>8, <2>1 DEF Mirrors
    <3>2. inv[i].stripe # None
      BY <1>6, <3>1, BillingAssumption
    <3> QED BY <3>1, <3>2 DEF Sales, Sale
  <2> QED BY <2>1
<1>9. ASSUME e.type = "paid", ~settles PROVE inv[e.sub].status = "paid"
  <2>1. CASE env.metadata
    <3>1. inv[e.sub].status # "open"
      BY <1>7, <1>9, <2>1
    <3>2. inv[e.sub] \in Invoice
      BY <1>6 DEF TypeOK
    <3> QED BY <1>6, <3>1, <3>2 DEF Sales, Sale, Exists, Invoice
  <2>2. CASE ~env.metadata
    <3>1. sub.link = e.sub /\ e.sub # None
      BY <1>4, <1>6, <2>2, BillingAssumption DEF Finds
    <3> QED BY <3>1 DEF LinkPaid
  <2> QED BY <2>1, <2>2
<1> HIDE DEF found, settles
<1>10. e.type # "paid" => sub.link = e.sub
  BY <1>4 DEF Finds
<1>11. Report(h)'
  <2>1. /\ e.type = "paid" /\ settles => env.metadata /\ found = {e.sub}
        /\ e.type = "paid" /\ env.metadata => found # {}
    BY <1>7, <1>8
  <2> QED BY <1>2, <1>3, <1>4, <1>9, <1>10, <2>1 DEF Report
<1> QED BY <1>1, <1>2, <1>3, <1>4, <1>5, <1>11

(* The events an emission appends.                                         *)
LEMMA AppendedEvents ==
  ASSUME TypeOK, NEW i \in Invoices, NEW n \in 0..PeriodBound,
         NEW s \in StripeSubscription, NEW types \in Types,
         log' = Emit(types, i, s, n)
  PROVE  /\ Len(log) \in Nat /\ DOMAIN log = 1..Len(log)
         /\ DOMAIN log' = 1..(Len(log) + Len(types)) /\ Len(types) \in Nat
         /\ \A k \in DOMAIN log : k \in DOMAIN log' /\ log'[k] = log[k]
         /\ \A k \in DOMAIN log' \ DOMAIN log :
              /\ k - Len(log) \in 1..Len(types)
              /\ log'[k] = Snapshot(types[k - Len(log)], i, s, n)
<1>1. types \in Seq({"completed", "paid", "failed", "updated", "deleted"})
  BY TypesType
<1>2. log \in Seq(Event) /\ Len(log) \in Nat /\ DOMAIN log = 1..Len(log)
  BY DEF TypeOK
<1>3. Len(types) \in Nat /\ DOMAIN types = 1..Len(types)
  BY <1>1
<1>4. log' \in Seq(Event) /\ Len(log') = Len(log) + Len(types) /\ \A k \in DOMAIN log : log'[k] = log[k]
  BY <1>1, <1>2, EmitType
<1> DEFINE new == [k \in DOMAIN types |-> Snapshot(types[k], i, s, n)]
<1>5. new \in Seq(Event) /\ Len(new) = Len(types)
  <2>1. \A k \in 1..Len(types) : Snapshot(types[k], i, s, n) \in Event
    BY <1>1 DEF Snapshot, Event
  <2>2. new = [k \in 1..Len(types) |-> Snapshot(types[k], i, s, n)]
    BY <1>3
  <2> QED BY <1>3, <2>1, <2>2
<1>6. \A k \in 1..Len(types) : new[k] = Snapshot(types[k], i, s, n)
  BY <1>3
<1>7. log' = log \o new
  BY DEF Emit
<1> HIDE DEF new
<1>8. \A k \in (Len(log) + 1)..(Len(log) + Len(new)) : log'[k] = new[k - Len(log)]
  BY <1>2, <1>5, <1>7
<1>9. DOMAIN log' = 1..(Len(log) + Len(types))
  BY <1>4
<1>10. ASSUME NEW k \in DOMAIN log', k \notin DOMAIN log
       PROVE  /\ k - Len(log) \in 1..Len(types)
              /\ log'[k] = Snapshot(types[k - Len(log)], i, s, n)
  <2>1. k \in (Len(log) + 1)..(Len(log) + Len(new)) /\ k - Len(log) \in 1..Len(types)
    BY <1>2, <1>3, <1>5, <1>9, <1>10
  <2> QED BY <1>6, <1>8, <2>1
<1> QED BY <1>2, <1>3, <1>4, <1>9, <1>10

(* What Stripe does: it starts a subscription when a session is paid,      *)
(* charges for another period or fails to, changes the plan or the flag,   *)
(* or ends the subscription.                                               *)
Bought(i) == [status |-> "active", plan |-> sessions[i].plan, atEnd |-> FALSE]
Advances(s, e, t) ==
  /\ e.type # "updated" => t.plan = s.plan /\ t.atEnd = s.atEnd
  /\ e.type = "paid" => t.status = "active" /\ e.period > 0
  /\ e.type = "failed" => t.status = "past_due"
Starts(i) ==
  /\ sessions[i].state = "open" /\ sessions'[i].state = "paid"
  /\ sessions'[i].plan = sessions[i].plan /\ sessions'[i].amount = sessions[i].amount
  /\ \A j \in Invoices : j # i => sessions'[j] = sessions[j]
  /\ stripe'[i].status = "active" /\ stripe'[i] = Bought(i)
  /\ \A k \in DOMAIN log' \ DOMAIN log :
       log'[k].type \in {"completed", "paid"} /\ log'[k].period = 0
  /\ \E k \in DOMAIN log' : log'[k].type = "completed" /\ log'[k].sub = i
Continues(i) ==
  /\ stripe[i].status \in Live /\ stripe'[i].status \in Live
  /\ UNCHANGED sessions
  /\ \A k \in DOMAIN log' \ DOMAIN log :
       log'[k].type \in {"paid", "failed", "updated"} /\ Advances(stripe[i], log'[k], stripe'[i])
Ends(i) ==
  /\ stripe[i].status \in Live /\ stripe'[i].status = "canceled"
  /\ stripe'[i].plan = stripe[i].plan /\ ~stripe'[i].atEnd
  /\ UNCHANGED sessions
  /\ \A k \in DOMAIN log' \ DOMAIN log : k = Len(log) + 1 /\ log'[k].type = "deleted"
  /\ Len(log) + 1 \in DOMAIN log' \ DOMAIN log
Appends(i) ==
  /\ Len(log) \in Nat /\ DOMAIN log = 1..Len(log)
  /\ \E n \in Nat : DOMAIN log' = 1..n /\ n > Len(log)
  /\ \A k \in DOMAIN log : k \in DOMAIN log' /\ log'[k] = log[k]
  /\ \A k \in DOMAIN log' \ DOMAIN log :
       k > Len(log) /\ log'[k].sub = i /\ log'[k].state = stripe'[i]

Extended(i, s, n, types) ==
  /\ Appends(i) /\ stripe'[i] = s
  /\ \A j \in Invoices : j # i => stripe'[j] = stripe[j]
  /\ DOMAIN log' = 1..(Len(log) + Len(types))
  /\ \A k \in DOMAIN log' \ DOMAIN log :
       /\ k - Len(log) \in 1..Len(types)
       /\ log'[k].type = types[k - Len(log)] /\ log'[k].period = n

OnlyCancels ==
  \A g \in Handlers : req'[g] = req[g] \/ (req[g].op = "cancel" /\ req'[g].op = "cancel")

LEMMA SellingMoves ==
  ASSUME Shop, Selling
  PROVE  /\ UNCHANGED <<env, sub, inv, price, processed>> /\ OnlyCancels
         /\ \E i \in Invoices :
              /\ \A j \in Invoices : j # i => stripe'[j] = stripe[j]
              /\ Appends(i)
              /\ Starts(i) \/ Continues(i) \/ Ends(i)
<1> USE DEF Shop, Invariant
<1>1. UNCHANGED <<env, sub, inv, price, processed>>
  BY DEF Selling, Emitting, StripePay, StripeRenew, StripeFail, StripeEnd, StripePortal,
         StripeChange, CancelStripe
<1>0. OnlyCancels
  <2>1. ASSUME NEW h \in Handlers, CancelStripe(h) PROVE OnlyCancels
    <3>1. req[h] \in Request /\ req[h].op = "cancel"
      BY <2>1 DEF CancelStripe, TypeOK
    <3>2. [req[h] EXCEPT !.told = TRUE].op = "cancel"
      BY <3>1 DEF Request
    <3> QED BY <2>1, <3>1, <3>2 DEF CancelStripe, TypeOK, OnlyCancels
  <2>2. ASSUME NEW i \in Invoices,
               \/ StripePay(i) \/ StripeRenew(i) \/ StripeFail(i) \/ StripeEnd(i)
               \/ \E p \in Plans : StripePortal(i, p)
        PROVE  UNCHANGED req
    BY <2>2 DEF StripePay, StripeRenew, StripeFail, StripeEnd, StripePortal, StripeChange
  <2> QED BY <2>1, <2>2 DEF Selling, Emitting, OnlyCancels
<1>2. PICK i \in Invoices :
        \/ StripePay(i) \/ StripeRenew(i) \/ StripeFail(i) \/ StripeEnd(i)
        \/ \E p \in Plans : StripePortal(i, p)
        \/ \E h \in Handlers : CancelStripe(h) /\ i = req[h].seen.link
  <2>1. ASSUME NEW h \in Handlers, CancelStripe(h) PROVE req[h].seen.link \in Invoices
    <3>1. req[h].op = "cancel" /\ ~req[h].told
      BY <2>1 DEF CancelStripe
    <3>2. req[h].seen \in Subscription /\ req[h].seen.link # None
      BY <3>1, RequestParts DEF TypeOK, Hooks
    <3> QED BY <3>2 DEF Subscription
  <2> QED BY <2>1 DEF Selling, Emitting
<1>3. /\ stripe[i] \in StripeSubscription /\ sessions[i] \in Session /\ period[i] \in 0..PeriodBound
  BY DEF TypeOK
<1>4. ASSUME NEW s \in StripeSubscription, NEW n \in 0..PeriodBound, NEW types \in Types,
             log' = Emit(types, i, s, n), stripe' = [stripe EXCEPT ![i] = s]
      PROVE  Extended(i, s, n, types)
  <2>1. stripe'[i] = s /\ \A j \in Invoices : j # i => stripe'[j] = stripe[j]
    BY <1>4 DEF TypeOK
  <2>2. /\ Len(log) \in Nat /\ DOMAIN log = 1..Len(log)
        /\ DOMAIN log' = 1..(Len(log) + Len(types)) /\ Len(types) \in Nat
        /\ \A k \in DOMAIN log : k \in DOMAIN log' /\ log'[k] = log[k]
        /\ \A k \in DOMAIN log' \ DOMAIN log :
             /\ k - Len(log) \in 1..Len(types)
             /\ log'[k] = Snapshot(types[k - Len(log)], i, s, n)
    BY <1>4, AppendedEvents
  <2>3. \A k \in DOMAIN log' \ DOMAIN log :
          /\ log'[k].sub = i /\ log'[k].state = s /\ log'[k].period = n
          /\ log'[k].type = types[k - Len(log)]
    BY <2>2 DEF Snapshot
  <2>4. \A k \in DOMAIN log' \ DOMAIN log : k > Len(log)
    BY <2>2
  <2>5. Len(types) > 0
    <3>1. /\ Len(<<"completed", "paid">>) = 2 /\ Len(<<"paid", "completed">>) = 2
          /\ Len(<<"paid", "updated">>) = 2 /\ Len(<<"failed", "updated">>) = 2
          /\ Len(<<"deleted">>) = 1 /\ Len(<<"updated">>) = 1
      OBVIOUS
    <3>2. Len(types) = 2 \/ Len(types) = 1
      BY <3>1, Zenon DEF Types
    <3>3. 2 > 0 /\ 1 > 0
      OBVIOUS
    <3> QED BY <3>2, <3>3, Zenon
  <2>6. Len(log) + Len(types) \in Nat /\ Len(log) + Len(types) > Len(log)
    BY <2>2, <2>5
  <2>7. Appends(i)
    BY <2>1, <2>2, <2>3, <2>4, <2>6 DEF Appends
  <2> QED BY <2>1, <2>2, <2>3, <2>7 DEF Extended
<1>5. CASE StripePay(i)
  <2> DEFINE s == [status |-> "active", plan |-> sessions[i].plan, atEnd |-> FALSE]
  <2>1. sessions[i].plan \in Plans /\ sessions[i].state = "open"
    BY <1>3, <1>5 DEF StripePay, Planned, Session
  <2>2. s \in StripeSubscription /\ s.status = "active" /\ s = Bought(i)
    BY <2>1 DEF StripeSubscription, StripeStatus, Bought
  <2>3. stripe' = [stripe EXCEPT ![i] = s]
    BY <1>5 DEF StripePay
  <2>4. PICK types \in {<<"completed", "paid">>, <<"paid", "completed">>} : log' = Emit(types, i, s, 0)
    BY <1>5 DEF StripePay
  <2> HIDE DEF s
  <2>5. types \in Types /\ 0 \in 0..PeriodBound
    BY BillingAssumption DEF Types
  <2>6. /\ Appends(i) /\ stripe'[i] = s
        /\ \A j \in Invoices : j # i => stripe'[j] = stripe[j]
        /\ DOMAIN log' = 1..(Len(log) + Len(types))
        /\ \A k \in DOMAIN log' \ DOMAIN log :
             /\ k - Len(log) \in 1..Len(types)
             /\ log'[k].type = types[k - Len(log)] /\ log'[k].period = 0
    BY <1>4, <2>2, <2>3, <2>4, <2>5 DEF Extended
  <2>7. Len(types) = 2 /\ \A k \in 1..2 : types[k] \in {"completed", "paid"}
    OBVIOUS
  <2>8. \A k \in DOMAIN log' \ DOMAIN log :
          log'[k].type \in {"completed", "paid"} /\ log'[k].period = 0
    BY <2>6, <2>7
  <2>9. \E k \in DOMAIN log' : log'[k].type = "completed" /\ log'[k].sub = i
    <3>1. PICK k \in 1..2 : types[k] = "completed"
      BY <2>4
    <3>2. Len(log) + k \in DOMAIN log' \ DOMAIN log /\ (Len(log) + k) - Len(log) = k
      BY <2>6, <2>7 DEF Appends
    <3> QED BY <2>6, <3>1, <3>2 DEF Appends
  <2>10. sessions' = [sessions EXCEPT ![i].state = "paid"]
    BY <1>5 DEF StripePay
  <2>11. /\ sessions'[i].state = "paid"
         /\ sessions'[i].plan = sessions[i].plan /\ sessions'[i].amount = sessions[i].amount
         /\ \A j \in Invoices : j # i => sessions'[j] = sessions[j]
    BY <1>3, <2>10 DEF TypeOK, Session
  <2>12. Starts(i)
    BY <2>1, <2>2, <2>6, <2>8, <2>9, <2>11 DEF Starts
  <2> QED BY <1>0, <1>1, <2>6, <2>12
<1>6. CASE StripeRenew(i) \/ StripeFail(i)
  <2>1. PICK status \in Live, n \in 0..PeriodBound,
             types \in {<<"paid", "updated">>, <<"failed", "updated">>} :
          /\ StripeChange(i, [stripe[i] EXCEPT !.status = status], types, n)
          /\ IF types = <<"paid", "updated">> THEN status = "active" /\ n > 0
             ELSE status = "past_due"
    <3>1. ASSUME StripeRenew(i)
          PROVE  /\ period[i] + 1 \in 0..PeriodBound /\ period[i] + 1 > 0
                 /\ StripeChange(i, [stripe[i] EXCEPT !.status = "active"],
                                 <<"paid", "updated">>, period[i] + 1)
      BY <1>3, <3>1, BillingAssumption DEF StripeRenew
    <3>2. ASSUME StripeFail(i)
          PROVE  StripeChange(i, [stripe[i] EXCEPT !.status = "past_due"],
                              <<"failed", "updated">>, period[i])
      BY <3>2 DEF StripeFail
    <3>3. "active" \in Live /\ "past_due" \in Live
          /\ <<"paid", "updated">> # <<"failed", "updated">>
      BY DEF Live
    <3> QED BY <1>3, <1>6, <3>1, <3>2, <3>3
  <2> DEFINE s == [stripe[i] EXCEPT !.status = status]
  <2>2. /\ s \in StripeSubscription /\ s.status = status
        /\ s.plan = stripe[i].plan /\ s.atEnd = stripe[i].atEnd
    BY <1>3 DEF StripeSubscription, StripeStatus, Live
  <2>3. log' = Emit(types, i, s, n) /\ stripe' = [stripe EXCEPT ![i] = s] /\ UNCHANGED sessions
    BY <2>1 DEF StripeChange
  <2> HIDE DEF s
  <2>4. types \in Types
    BY DEF Types
  <2>5. /\ Appends(i) /\ stripe'[i] = s
        /\ \A j \in Invoices : j # i => stripe'[j] = stripe[j]
        /\ \A k \in DOMAIN log' \ DOMAIN log :
             /\ k - Len(log) \in 1..Len(types) /\ log'[k].type = types[k - Len(log)]
             /\ log'[k].period = n
    <3>1. Extended(i, s, n, types)
      BY <1>4, <2>2, <2>3, <2>4
    <3> QED BY <3>1 DEF Extended
  <2>6. /\ Len(types) = 2 /\ \A k \in 1..2 : types[k] \in {"paid", "failed", "updated"}
        /\ \A k \in 1..2 : types[k] = "paid" => types = <<"paid", "updated">>
        /\ \A k \in 1..2 : types[k] = "failed" => types # <<"paid", "updated">>
    OBVIOUS
  <2>7. stripe[i].status \in Live
    BY <1>6 DEF StripeRenew, StripeFail, Live
  <2>9. ASSUME NEW k \in DOMAIN log' \ DOMAIN log
        PROVE  /\ log'[k].type \in {"paid", "failed", "updated"}
               /\ Advances(stripe[i], log'[k], stripe'[i])
    <3>1. PICK m \in 1..2 : log'[k].type = types[m] /\ log'[k].period = n
      BY <2>5, <2>6
    <3> QED BY <2>1, <2>2, <2>5, <2>6, <3>1 DEF Advances
  <2>8. Continues(i)
    BY <2>2, <2>3, <2>5, <2>7, <2>9 DEF Continues
  <2> QED BY <1>0, <1>1, <2>5, <2>8
<1>7. CASE StripeEnd(i)
  <2> DEFINE s == [stripe[i] EXCEPT !.status = "canceled", !.atEnd = FALSE]
             types == <<"deleted">>
  <2>1. /\ s \in StripeSubscription /\ s.status = "canceled"
        /\ s.plan = stripe[i].plan /\ ~s.atEnd
    BY <1>3 DEF StripeSubscription, StripeStatus
  <2>2. log' = Emit(types, i, s, period[i]) /\ stripe' = [stripe EXCEPT ![i] = s]
        /\ UNCHANGED sessions /\ stripe[i].status \in Live
    BY <1>7 DEF StripeEnd, StripeChange
  <2>3. types \in Types /\ Len(types) = 1 /\ types[1] = "deleted"
    BY DEF Types
  <2> HIDE DEF s, types
  <2>4. /\ Appends(i) /\ stripe'[i] = s
        /\ \A j \in Invoices : j # i => stripe'[j] = stripe[j]
        /\ DOMAIN log' = 1..(Len(log) + Len(types))
        /\ \A k \in DOMAIN log' \ DOMAIN log :
             k - Len(log) \in 1..Len(types) /\ log'[k].type = types[k - Len(log)]
    <3>1. Extended(i, s, period[i], types)
      BY <1>3, <1>4, <2>1, <2>2, <2>3
    <3> QED BY <3>1 DEF Extended
  <2>5. \A k \in DOMAIN log' \ DOMAIN log : k = Len(log) + 1 /\ log'[k].type = "deleted"
    BY <2>3, <2>4 DEF Appends
  <2>6. Len(log) + 1 \in DOMAIN log' \ DOMAIN log
    BY <2>3, <2>4 DEF Appends
  <2>7. Ends(i)
    BY <2>1, <2>2, <2>4, <2>5, <2>6 DEF Ends
  <2> QED BY <1>0, <1>1, <2>4, <2>7
<1>8. ASSUME NEW s \in StripeSubscription, NEW n \in 0..PeriodBound,
             stripe[i].status \in Live, s.status \in Live, UNCHANGED sessions,
             log' = Emit(<<"updated">>, i, s, n), stripe' = [stripe EXCEPT ![i] = s]
      PROVE  Appends(i) /\ Continues(i) /\ \A j \in Invoices : j # i => stripe'[j] = stripe[j]
  <2> DEFINE types == <<"updated">>
  <2>1. types \in Types /\ Len(types) = 1 /\ \A k \in 1..1 : types[k] = "updated"
    BY DEF Types
  <2> HIDE DEF types
  <2>2. Extended(i, s, n, types)
    BY <1>4, <1>8, <2>1 DEF types
  <2>3. \A k \in DOMAIN log' \ DOMAIN log : log'[k].type = "updated"
    BY <2>1, <2>2 DEF Extended
  <2> QED BY <1>8, <2>2, <2>3 DEF Extended, Continues, Advances
<1>9. ASSUME NEW p \in Plans, StripePortal(i, p)
      PROVE  Appends(i) /\ Continues(i) /\ \A j \in Invoices : j # i => stripe'[j] = stripe[j]
  <2> DEFINE s == [stripe[i] EXCEPT !.plan = p]
  <2>1. s \in StripeSubscription /\ s.status \in Live /\ stripe[i].status \in Live
    BY <1>3, <1>9 DEF StripePortal, StripeSubscription, Live
  <2>2. log' = Emit(<<"updated">>, i, s, period[i]) /\ stripe' = [stripe EXCEPT ![i] = s]
        /\ UNCHANGED sessions
    BY <1>9 DEF StripePortal, StripeChange
  <2> HIDE DEF s
  <2> QED BY <1>3, <1>8, <2>1, <2>2
<1>10. ASSUME NEW h \in Handlers, CancelStripe(h), i = req[h].seen.link
       PROVE  Appends(i) /\ Continues(i) /\ \A j \in Invoices : j # i => stripe'[j] = stripe[j]
  <2> DEFINE s == [stripe[i] EXCEPT !.atEnd = req[h].value]
  <2>1. /\ req[h].op = "cancel" /\ stripe[i].status # "canceled"
        /\ log' = Emit(<<"updated">>, i, s, 0) /\ stripe' = [stripe EXCEPT ![i] = s]
        /\ UNCHANGED sessions
    BY <1>10 DEF CancelStripe
  <2>2. req[h].value \in BOOLEAN
    BY <2>1, RequestParts DEF TypeOK
  <2>3. stripe[i].status # "none"
    BY <1>10, <2>1, BillingAssumption DEF Links, Linkable
  <2>4. stripe[i].status \in Live
    BY <2>1, <2>3 DEF QuietParts, Sales, Sale
  <2>5. s \in StripeSubscription /\ s.status = stripe[i].status
    BY <1>3, <2>2 DEF StripeSubscription
  <2>6. 0 \in 0..PeriodBound
    BY BillingAssumption
  <2> HIDE DEF s
  <2> QED BY <1>8, <2>1, <2>4, <2>5, <2>6
<1> QED BY <1>0, <1>1, <1>2, <1>5, <1>6, <1>7, <1>9, <1>10

LEMMA ExpiringMoves ==
  ASSUME TypeOK, Expiring
  PROVE  /\ UNCHANGED <<env, sub, inv, price, processed, req, stripe, log>>
         /\ \E i \in Invoices :
              /\ sessions[i].state \in {"created", "open"} /\ sessions'[i].state = "none"
              /\ \A j \in Invoices : j # i => sessions'[j] = sessions[j]
              /\ \A h \in Handlers : req[h].op = "checkout" => req[h].invoice # i
<1>1. PICK i \in Invoices : StripeExpire(i)
  BY DEF Expiring
<1> QED BY <1>1 DEF StripeExpire, TypeOK, NoSession

(* A dropped request changes nothing but itself, a cancellation the flag.  *)
AsItWas ==
  /\ sub'.link = sub.link /\ sub'.status = sub.status
  /\ sub'.plan = sub.plan /\ sub'.pending = sub.pending

LEMMA PassingMoves ==
  ASSUME TypeOK, NEW h \in Handlers, Passing(h)
  PROVE  /\ UNCHANGED <<env, inv, price, processed, sessions, stripe, log>> /\ AsItWas
         /\ req'[h].op \in {"idle", "cancel"} /\ \A g \in Handlers : g # h => req'[g] = req[g]
<1>1. CASE Dropping(h)
  BY <1>1, DroppingKept, Finished, OthersKept DEF stripeVars, AsItWas
<1>2. ASSUME NEW value \in BOOLEAN, CancelRead(h, value)
      PROVE  /\ UNCHANGED <<env, sub, inv, price, processed, sessions, stripe, log>>
             /\ req'[h].op = "cancel" /\ \A g \in Handlers : g # h => req'[g] = req[g]
  BY <1>2 DEF CancelRead, stripeVars, TypeOK
<1>3. CASE CancelCommit(h)
  <2>1. /\ UNCHANGED <<env, inv, price, processed, sessions, stripe, log>>
        /\ sub' = Merge(req[h].seen, [req[h].seen EXCEPT !.cancelling = req[h].value])
        /\ req[h].op = "cancel"
    BY <1>3 DEF CancelCommit, stripeVars
  <2>2. req[h].seen \in Subscription
    BY <2>1, RequestParts DEF TypeOK
  <2>3. AsItWas
    BY <2>1, <2>2 DEF Merge, Column, Subscription, AsItWas
  <2>4. Changing(h)
    BY <1>3 DEF Changing
  <2> QED BY <2>1, <2>3, <2>4, Finished, OthersKept
<1> QED BY <1>1, <1>2, <1>3 DEF Passing, Asking, AsItWas

LEMMA SavedSubscription ==
  ASSUME sub \in Subscription, NEW h, Saved(h)
  PROVE  /\ sub'.link = sub.link /\ sub'.status = sub.status /\ sub'.plan = sub.plan
         /\ sub'.cancelling = sub.cancelling
         /\ sub'.pending = IF req[h].fresh THEN req[h].plan ELSE sub.pending
<1>1. CASE req[h].fresh
  BY <1>1 DEF Saved, Subscription
<1>2. CASE ~req[h].fresh
  BY <1>2 DEF Saved
<1> QED BY <1>1, <1>2

(* What the moves of a Checkout make of the subscription.                  *)
LEMMA CheckingSubscription ==
  ASSUME TypeOK, NEW h \in Handlers, Checking(h)
  PROVE  /\ sub'.link = sub.link /\ sub'.status = sub.status /\ sub'.plan = sub.plan
         /\ sub'.cancelling = sub.cancelling
         /\ req'[h].op \in {"idle", "checkout"}
<1>1. sub \in Subscription
  BY DEF TypeOK
<1>2. CustomerMove(h) \/ SessionMove(h) \/ CommitMove(h)
  BY CheckingMoves
<1>3. Saved(h) \/ UNCHANGED sub
  BY <1>2 DEF CustomerMove, SessionMove, CommitMove
<1>4. req'[h].op \in {"idle", "checkout"}
  BY <1>2 DEF CustomerMove, SessionMove, CommitMove, Keeps
<1> QED BY <1>1, <1>3, <1>4, SavedSubscription

LEMMA OneAtATimeKept ==
  ASSUME Shop, Next
  PROVE  OneAtATime'
<1> USE DEF Shop, QuietParts, Invariant
<1> DEFINE AsIs(r) == r.seen.link = sub'.link /\ r.seen.status = sub'.status
                      /\ r.seen.plan = sub'.plan
<1>1. /\ \A h \in Handlers : req[h].op \in {"idle", "checkout", "cancel", "hook"}
      /\ \A g, h \in Handlers : req[g].op = "hook" /\ req[h].op = "hook" => g = h
  BY DEF OneAtATime
<1>2. ASSUME /\ \A h \in Handlers : req'[h].op \in {"idle", "checkout", "cancel", "hook"}
             /\ \A g, h \in Handlers : req'[g].op = "hook" /\ req'[h].op = "hook" => g = h
             /\ \A h \in Handlers : req'[h].op = "hook" => AsIs(req'[h])
      PROVE  OneAtATime'
  BY <1>2 DEF OneAtATime
<1>3. ASSUME sub'.link = sub.link, sub'.status = sub.status, sub'.plan = sub.plan
      PROVE  \A h \in Handlers : req[h].op = "hook" => AsIs(req[h])
  BY <1>3 DEF OneAtATime
<1> HIDE DEF AsIs
<1>4. CASE Selling \/ Expiring
  <2>1. OnlyCancels /\ sub' = sub
    BY <1>4, SellingMoves, ExpiringMoves DEF OnlyCancels
  <2> QED BY <1>1, <1>2, <1>3, <2>1 DEF OnlyCancels
<1>5. ASSUME NEW h \in Handlers, Beginning(h) \/ Passing(h) \/ Checking(h)
      PROVE  OneAtATime'
  <2>1. /\ sub'.link = sub.link /\ sub'.status = sub.status /\ sub'.plan = sub.plan
    BY <1>5, BeginningMoves, PassingMoves, CheckingSubscription DEF AsItWas
  <2>2. req'[h].op \in {"idle", "checkout", "cancel"} /\ \A g \in Handlers : g # h => req'[g] = req[g]
    BY <1>5, BeginningMoves, PassingMoves, CheckingSubscription, CheckingMoves
  <2> QED BY <1>1, <1>2, <1>3, <2>1, <2>2
<1>6. ASSUME NEW h \in Handlers, Reacting(h) PROVE OneAtATime'
  <2>1. /\ req'[h].op = "hook" /\ AsIs(req'[h])
        /\ \A g \in Handlers : req[g].op # "hook" /\ (g # h => req'[g] = req[g])
    BY <1>6, ReactingMoves DEF AsIs
  <2> QED BY <1>1, <1>2, <2>1
<1>7. ASSUME NEW h \in Handlers, Hooking(h) PROVE OneAtATime'
  <2>1. /\ req[h].op = "hook" /\ req'[h].op = "idle"
        /\ \A g \in Handlers : g # h => req'[g] = req[g]
    BY <1>7, HookingMoves
  <2> QED BY <1>1, <1>2, <2>1
<1>8. ASSUME NEW h \in Handlers, Completing(h) PROVE OneAtATime'
  <2>1. req' = req /\ \A g \in Handlers : req[g].op # "hook"
    BY <1>8, CompletingMoves, IgnoringMoves DEF Completing
  <2> QED BY <1>1, <1>2, <2>1
<1> QED BY <1>4, <1>5, <1>6, <1>7, <1>8, ShopSteps

(* The requests of the next state, as the invariant tells them apart.      *)
LEMMA ShopRequests ==
  ASSUME Shop, Next, NEW g \in Handlers
  PROVE  \/ req'[g] = req[g]
         \/ req'[g].op \in {"idle", "cancel"}
         \/ Beginning(g) \/ Reacting(g)
         \/ Checking(g) /\ (CustomerMove(g) \/ SessionMove(g))
<1> USE DEF Shop, Invariant
<1>1. CASE Selling \/ Expiring
  BY <1>1, SellingMoves, ExpiringMoves DEF OnlyCancels
<1>2. ASSUME NEW h \in Handlers,
             Beginning(h) \/ Reacting(h) \/ Passing(h) \/ Checking(h) \/ Hooking(h), h # g
      PROVE  req'[g] = req[g]
  BY <1>2, BeginningMoves, ReactingMoves, PassingMoves, CheckingMoves, HookingMoves
<1>3. ASSUME NEW h \in Handlers, Completing(h) PROVE req'[g] = req[g]
  BY <1>3, CompletingMoves, IgnoringMoves DEF Completing
<1>4. CASE Passing(g) \/ Hooking(g)
  BY <1>4, PassingMoves, HookingMoves
<1>5. CASE Checking(g)
  <2>1. CustomerMove(g) \/ SessionMove(g) \/ CommitMove(g)
    BY <1>5, CheckingMoves
  <2> QED BY <1>5, <2>1 DEF CommitMove
<1> QED BY <1>1, <1>2, <1>3, <1>4, <1>5, ShopSteps

(* The rows of the next state: an invoice is kept, opened by its Checkout, *)
(* paid, or new and mirrors what Stripe charged.                           *)
OpenedRow(h, i) ==
  /\ req[h].op = "checkout" /\ req[h].fresh /\ req[h].invoice = i /\ ~Exists(i)
  /\ CustomerMove(h) \/ CommitMove(h)
  /\ inv'[i].status = "open" /\ inv'[i].plan = req[h].plan
  /\ inv'[i].due = req[h].price /\ inv'[i].stripe = None
PaidRow(i) ==
  /\ Exists(i) /\ inv'[i].status = "paid" /\ inv'[i].plan = inv[i].plan
  /\ stripe[i].status # "none"
  /\ \E n \in Nat : inv'[i].stripe = <<i, n>>
MirroredRow(i) ==
  /\ ~Exists(i) /\ inv'[i].status = "paid" /\ inv'[i].plan = None
  /\ sessions[i].state = "none" /\ ~env.metadata

LEMMA ShopRows ==
  ASSUME Shop, Next, NEW i \in Invoices
  PROVE  \/ inv'[i] = inv[i]
         \/ PaidRow(i) /\ UNCHANGED <<sessions, stripe>>
         \/ MirroredRow(i) /\ UNCHANGED <<sessions, stripe>>
         \/ \E h \in Handlers : Checking(h) /\ OpenedRow(h, i)
<1> USE DEF Shop, QuietParts, Invariant
<1>1. CASE Selling \/ Expiring
  BY <1>1, SellingMoves, ExpiringMoves
<1>2. ASSUME NEW h \in Handlers, Beginning(h) \/ Reacting(h) \/ Passing(h)
      PROVE  inv'[i] = inv[i]
  BY <1>2, BeginningMoves, ReactingMoves, PassingMoves
<1>3. ASSUME NEW h \in Handlers, Checking(h)
      PROVE  inv'[i] = inv[i] \/ OpenedRow(h, i)
  <2>1. /\ req[h].op = "checkout" /\ req[h].fresh \in BOOLEAN
        /\ CustomerMove(h) \/ SessionMove(h) \/ CommitMove(h)
    BY <1>3, CheckingMoves
  <2>2. req[h].fresh => ~Exists(req[h].invoice)
    BY <2>1 DEF Reserved
  <2>3. CASE SessionMove(h)
    BY <2>3 DEF SessionMove
  <2>4. CASE CustomerMove(h) \/ CommitMove(h)
    <3>1. Saved(h)
      BY <2>4 DEF CustomerMove, CommitMove
    <3>2. CASE ~req[h].fresh \/ req[h].invoice # i
      BY <3>1, <3>2 DEF Saved
    <3>3. CASE req[h].fresh /\ req[h].invoice = i
      BY <2>1, <2>2, <2>4, <3>1, <3>3 DEF Saved, OpenedRow
    <3> QED BY <2>1, <3>2, <3>3
  <2> QED BY <2>1, <2>3, <2>4
<1>4. ASSUME NEW h \in Handlers, Hooking(h)
      PROVE  \/ inv'[i] = inv[i]
             \/ PaidRow(i) /\ UNCHANGED <<sessions, stripe>>
             \/ MirroredRow(i) /\ UNCHANGED <<sessions, stripe>>
  <2> DEFINE e == log[req[h].event]
  <2>1. /\ req[h].event \in DOMAIN log
        /\ UNCHANGED inv \/ MirrorMove(e) \/ SettleMove(e)
        /\ UNCHANGED <<sessions, stripe>>
    BY <1>4, HookingMoves
  <2>2. /\ e.sub \in Invoices /\ Exists(e.sub) /\ stripe[e.sub].status # "none"
        /\ e.period \in Nat
    <3>1. e.sub \in Invoices /\ e.period \in 0..PeriodBound
      BY <2>1, EventParts
    <3>2. Exists(e.sub) /\ stripe[e.sub].status # "none"
      BY <2>1 DEF EventsExist, Logged
    <3> QED BY <3>1, <3>2
  <2> HIDE DEF e
  <2>3. CASE MirrorMove(e)
    BY <2>1, <2>3 DEF MirrorMove, Billed, MirroredRow, Fresh
  <2>4. CASE SettleMove(e)
    BY <2>1, <2>2, <2>4 DEF SettleMove, Billed, PaidRow
  <2> QED BY <2>1, <2>3, <2>4
<1>5. ASSUME NEW h \in Handlers, NEW k \in DOMAIN log, HookCompleted(h, k)
      PROVE  inv'[i] = inv[i] \/ (PaidRow(i) /\ UNCHANGED <<sessions, stripe>>)
  <2>1. stripe[log[k].sub].status # "none"
    BY DEF Logged
  <2> QED BY <1>5, <2>1, CompletingMoves DEF PaidRow
<1>6. ASSUME NEW h \in Handlers, NEW k \in DOMAIN log, HookIgnore(h, k)
      PROVE  inv'[i] = inv[i]
  BY <1>6, IgnoringMoves
<1> QED BY <1>1, <1>2, <1>3, <1>4, <1>5, <1>6, ShopSteps DEF Completing

LEMMA ShopPrices ==
  ASSUME Shop, Next
  PROVE  UNCHANGED <<env, price>>
<1> USE DEF Shop, Invariant
<1>1. CASE Selling \/ Expiring
  BY <1>1, SellingMoves, ExpiringMoves
<1>2. ASSUME NEW h \in Handlers,
             \/ Beginning(h) \/ Reacting(h) \/ Passing(h)
             \/ Checking(h) \/ Hooking(h) \/ Completing(h)
      PROVE  UNCHANGED <<env, price>>
  BY <1>2, BeginningMoves, ReactingMoves, PassingMoves, CheckingMoves, HookingMoves,
     CompletingMoves, IgnoringMoves DEF Completing
<1> QED BY <1>1, <1>2, ShopSteps

(* Stripe changes while no row does, and a session when nothing else does, *)
(* when it is paid, or with its Checkout.                                  *)
Expired(i) ==
  /\ sessions[i].state \in {"created", "open"} /\ sessions'[i].state = "none"
  /\ \A h \in Handlers : req[h].op = "checkout" => req[h].invoice # i

LEMMA ShopStripe ==
  ASSUME Shop, Next, NEW i \in Invoices
  PROVE  \/ stripe'[i] = stripe[i]
         \/ /\ Starts(i) \/ Continues(i) \/ Ends(i)
            /\ UNCHANGED <<inv, sub, processed>>
<1> USE DEF Shop, Invariant
<1>1. CASE Selling
  BY <1>1, SellingMoves
<1>2. CASE Expiring
  BY <1>2, ExpiringMoves
<1>3. ASSUME NEW h \in Handlers,
             \/ Beginning(h) \/ Reacting(h) \/ Passing(h)
             \/ Checking(h) \/ Hooking(h) \/ Completing(h)
      PROVE  stripe' = stripe
  BY <1>3, BeginningMoves, ReactingMoves, PassingMoves, CheckingMoves, HookingMoves,
     CompletingMoves, IgnoringMoves DEF Completing
<1> QED BY <1>1, <1>2, <1>3, ShopSteps

LEMMA ShopSessions ==
  ASSUME Shop, Next, NEW i \in Invoices
  PROVE  \/ sessions'[i] = sessions[i]
         \/ Starts(i) /\ UNCHANGED inv
         \/ Expired(i) /\ UNCHANGED <<inv, req, stripe>>
         \/ \E h \in Handlers :
              /\ req[h].op = "checkout" /\ req[h].invoice = i /\ UNCHANGED stripe
              /\ Checking(h) /\ (CommitMove(h) \/ SessionMove(h))
<1> USE DEF Shop, Invariant
<1>1. CASE Selling
  BY <1>1, SellingMoves DEF Starts, Continues, Ends
<1>2. CASE Expiring
  BY <1>2, ExpiringMoves DEF Expired
<1>3. ASSUME NEW h \in Handlers,
             Beginning(h) \/ Reacting(h) \/ Passing(h) \/ Hooking(h) \/ Completing(h)
      PROVE  sessions' = sessions
  BY <1>3, BeginningMoves, ReactingMoves, PassingMoves, HookingMoves,
     CompletingMoves, IgnoringMoves DEF Completing
<1>4. ASSUME NEW h \in Handlers, Checking(h), sessions'[i] # sessions[i]
      PROVE  /\ req[h].op = "checkout" /\ req[h].invoice = i /\ UNCHANGED stripe
             /\ CommitMove(h) \/ SessionMove(h)
  <2>1. /\ req[h].op = "checkout" /\ UNCHANGED stripe
        /\ \A j \in Invoices : j # req[h].invoice => sessions'[j] = sessions[j]
        /\ CustomerMove(h) \/ SessionMove(h) \/ CommitMove(h)
    BY <1>4, CheckingMoves
  <2>2. ~CustomerMove(h)
    BY <1>4 DEF CustomerMove
  <2> QED BY <1>4, <2>1, <2>2
<1> QED BY <1>1, <1>2, <1>3, <1>4, ShopSteps

LEMMA SalesKept ==
  ASSUME Shop, Next
  PROVE  Sales'
<1> USE DEF Shop, QuietParts, Invariant
<1> SUFFICES ASSUME NEW i \in Invoices PROVE Sale(i)'
  BY DEF Sales
<1>1. Sale(i) /\ UNCHANGED <<env, price>>
  BY ShopPrices DEF Sales
<1>2. /\ stripe[i].status # "none" => Exists(i)
      /\ sessions[i].state \in {"open", "paid"} => Exists(i)
  BY DEF RowsExist
<1>3. "none" \notin Live
  BY DEF Live
<1>4. ASSUME NEW h \in Handlers, req[h].op = "checkout"
      PROVE  /\ Order(h) /\ req[h].plan # None /\ req[h].fresh \in BOOLEAN
             /\ IF req[h].fresh THEN ~Exists(req[h].invoice) ELSE Exists(req[h].invoice)
  <2>1. req[h].plan \in Plans /\ req[h].fresh \in BOOLEAN
    BY <1>4, RequestParts DEF TypeOK
  <2>2. IF req[h].fresh THEN ~Exists(req[h].invoice) ELSE Exists(req[h].invoice)
    BY <1>4 DEF Reserved
  <2> QED BY <1>4, <2>1, <2>2, BillingAssumption DEF Orders
<1>5. CASE PaidRow(i) /\ UNCHANGED <<sessions, stripe>>
  BY <1>1, <1>5 DEF Sale, PaidRow, Exists
<1>6. CASE MirroredRow(i) /\ UNCHANGED <<sessions, stripe>>
  BY <1>1, <1>2, <1>6 DEF Sale, MirroredRow, Exists
<1>7. ASSUME NEW h \in Handlers, Checking(h), OpenedRow(h, i)
      PROVE  Sale(i)'
  <2>1. /\ req[h].op = "checkout" /\ req[h].fresh /\ req[h].invoice = i /\ ~Exists(i)
        /\ inv'[i].status = "open" /\ inv'[i].plan = req[h].plan
        /\ inv'[i].due = req[h].price /\ inv'[i].stripe = None
    BY <1>7 DEF OpenedRow
  <2>2. Order(h) /\ req[h].plan # None /\ stripe' = stripe
    BY <1>4, <1>7, <2>1, CheckingMoves
  <2>3. stripe[i].status = "none"
    BY <1>2, <2>1
  <2>4. Matches(sessions'[i], req[h].plan, req[h].price)
    BY <1>7, <2>1, <2>2 DEF OpenedRow, CustomerMove, CommitMove, Order, Matches
  <2> QED BY <1>1, <2>1, <2>2, <2>3, <2>4 DEF Sale, Exists, Order
<1>8. CASE inv'[i] = inv[i]
  <2>1. CASE sessions'[i] = sessions[i] /\ stripe'[i] = stripe[i]
    BY <1>1, <1>8, <2>1 DEF Sale, Exists
  <2>2. CASE Starts(i)
    BY <1>1, <1>2, <1>8, <2>2 DEF Sale, Starts, Exists, Matches, Live
  <2>3. CASE Expired(i) /\ UNCHANGED stripe
    BY <1>1, <1>8, <2>3 DEF Sale, Expired, Exists, Matches
  <2>4. ASSUME NEW h \in Handlers, req[h].op = "checkout", req[h].invoice = i,
               UNCHANGED stripe, CommitMove(h)
        PROVE  Sale(i)'
    BY <1>1, <1>8, <2>4 DEF CommitMove, Sale, Exists, Matches
  <2>5. ASSUME NEW h \in Handlers, req[h].op = "checkout", req[h].invoice = i,
               UNCHANGED stripe, SessionMove(h)
        PROVE  Sale(i)'
    <3>1. Order(h) /\ req[h].plan # None /\ (Exists(i) => inv[i].plan = req[h].plan)
      BY <1>4, <2>5 DEF Order
    <3> QED BY <1>1, <1>8, <2>5, <3>1 DEF SessionMove, Order, Sale, Exists, Matches
  <2>6. CASE Continues(i) \/ Ends(i)
    BY <1>1, <1>3, <1>8, <2>6 DEF Continues, Ends, Sale, Exists
  <2> QED BY <2>1, <2>2, <2>3, <2>4, <2>5, <2>6, ShopStripe, ShopSessions
<1> QED BY <1>5, <1>6, <1>7, <1>8, ShopRows

LEMMA LinkPaidKept ==
  ASSUME Shop, Next
  PROVE  LinkPaid'
<1> USE DEF Shop, QuietParts, Invariant
<1>0. \A h \in Handlers : req[h].op # "void"
  BY DEF OneAtATime
<1>1. sub.link # None => sub.link \in Invoices /\ inv'[sub.link].status = "paid"
  BY <1>0, PaidKept DEF LinkPaid, TypeOK, Subscription
<1>2. ASSUME sub'.link = sub.link PROVE LinkPaid'
  BY <1>1, <1>2 DEF LinkPaid
<1>3. CASE Selling \/ Expiring
  BY <1>2, <1>3, SellingMoves, ExpiringMoves
<1>4. ASSUME NEW h \in Handlers, Beginning(h) \/ Reacting(h) \/ Passing(h) \/ Checking(h)
      PROVE  sub'.link = sub.link
  BY <1>4, BeginningMoves, ReactingMoves, PassingMoves, CheckingSubscription DEF AsItWas
<1>5. ASSUME NEW h \in Handlers, Hooking(h) PROVE LinkPaid'
  <2> DEFINE e == log[req[h].event]
  <2>1. /\ req[h].op = "hook" /\ e.sub \in Invoices /\ sub'.link = e.sub
        /\ \/ UNCHANGED inv /\ (e.type = "paid" => ~req[h].settles)
           \/ MirrorMove(e) \/ SettleMove(e)
    BY <1>5, HookingMoves
  <2>2. Report(h)
    BY <2>1 DEF Reports
  <2> HIDE DEF e
  <2>3. CASE SettleMove(e)
    BY <2>1, <2>3 DEF SettleMove, Billed, LinkPaid
  <2>4. CASE e.type # "paid"
    BY <1>2, <2>1, <2>2, <2>4 DEF Report, e
  <2>5. CASE e.type = "paid" /\ ~SettleMove(e)
    <3>1. inv[e.sub].status = "paid" \/ MirrorMove(e)
      BY <2>1, <2>2, <2>5 DEF Report, e
    <3>2. CASE inv[e.sub].status = "paid"
      BY <1>0, <2>1, <3>2, PaidKept DEF LinkPaid
    <3>3. CASE MirrorMove(e)
      <4>1. ~env.metadata
        BY <3>3 DEF MirrorMove
      <4>2. ~req[h].settles
        BY <2>2, <2>5, <4>1 DEF Report, e
      <4>3. inv[e.sub].status = "paid"
        BY <2>2, <2>5, <4>2 DEF Report, e
      <4> QED BY <1>0, <2>1, <4>3, PaidKept DEF LinkPaid
    <3> QED BY <3>1, <3>2, <3>3
  <2> QED BY <2>3, <2>4, <2>5
<1>6. ASSUME NEW h \in Handlers, Completing(h) PROVE LinkPaid'
  <2>1. ASSUME NEW k \in DOMAIN log, HookCompleted(h, k) PROVE LinkPaid'
    BY <2>1, CompletingMoves DEF LinkPaid
  <2>2. ASSUME NEW k \in DOMAIN log, HookIgnore(h, k) PROVE LinkPaid'
    BY <1>2, <2>2, IgnoringMoves
  <2> QED BY <1>6, <2>1, <2>2 DEF Completing
<1> QED BY <1>2, <1>3, <1>4, <1>5, <1>6, ShopSteps

LEMMA OrdersKept ==
  ASSUME Shop, Next
  PROVE  Orders'
<1> USE DEF Shop, QuietParts, Invariant
<1> SUFFICES ASSUME NEW g \in Handlers, req'[g].op = "checkout" PROVE Order(g)'
  BY DEF Orders
<1>0. UNCHANGED price
  BY ShopPrices
<1>1. CASE Beginning(g)
  <2>1. /\ UNCHANGED <<inv, price, sessions>>
        /\ req'[g].price = price[req'[g].plan] /\ req'[g].locked /\ ~req'[g].session
        /\ IF req'[g].fresh THEN sessions[req'[g].invoice].state = "none"
           ELSE inv[req'[g].invoice].plan = req'[g].plan
    BY <1>1, BeginningMoves
  <2> QED BY <2>1 DEF Order
<1>2. ASSUME req[g].op = "checkout"
      PROVE  /\ Order(g) /\ req[g].invoice \in Invoices /\ req[g].fresh \in BOOLEAN
             /\ ~req[g].fresh => inv'[req[g].invoice].plan = req[g].plan
  <2>1. Order(g) /\ req[g].invoice \in Invoices /\ req[g].fresh \in BOOLEAN
    BY <1>2, RequestParts DEF Orders, TypeOK
  <2>2. ASSUME ~req[g].fresh
        PROVE  inv'[req[g].invoice].plan = inv[req[g].invoice].plan
    <3>1. Exists(req[g].invoice)
      BY <1>2, <2>2 DEF Reserved
    <3> QED BY <2>1, <3>1, ShopRows DEF PaidRow, MirroredRow, OpenedRow
  <2> QED BY <2>1, <2>2 DEF Order
<1>3. CASE Checking(g) /\ CustomerMove(g)
  <2>1. req[g].op = "checkout"
    BY <1>3, CheckingMoves
  <2>2. inv'[req[g].invoice].plan = req[g].plan
    BY <1>2, <1>3, <2>1 DEF CustomerMove, Saved
  <2> QED BY <1>0, <1>2, <1>3, <2>1, <2>2 DEF CustomerMove, Keeps, Order
<1>4. CASE Checking(g) /\ SessionMove(g)
  <2>1. req[g].op = "checkout"
    BY <1>4, CheckingMoves
  <2>2. /\ Keeps(g, req'[g]) /\ req'[g].session
        /\ req'[g].fresh = req[g].fresh /\ req'[g].locked = req[g].locked
    BY <1>4 DEF SessionMove
  <2>3. /\ sessions'[req[g].invoice].state # "none"
        /\ Matches(sessions'[req[g].invoice], req[g].plan, req[g].price)
    BY <1>4 DEF SessionMove, Matches
  <2> QED BY <1>0, <1>2, <2>1, <2>2, <2>3 DEF Keeps, Order
<1>5. CASE req'[g] = req[g]
  <2> DEFINE i == req[g].invoice
  <2>1. /\ req[g].op = "checkout" /\ Order(g) /\ i \in Invoices
        /\ ~req[g].fresh => inv'[i].plan = req[g].plan
    BY <1>2, <1>5
  <2>2. ASSUME NEW h \in Handlers, req[h].op = "checkout", req[h].invoice = i,
               CommitMove(h) \/ SessionMove(h)
        PROVE  h # g
    BY <1>5, <2>1, <2>2 DEF CommitMove, SessionMove
  <2>3. ASSUME req[g].session
        PROVE  /\ sessions'[i].state # "none"
               /\ Matches(sessions'[i], req[g].plan, req[g].price)
    <3>1. sessions[i].state # "none" /\ Matches(sessions[i], req[g].plan, req[g].price)
      BY <2>1, <2>3 DEF Order
    <3>2. \/ sessions'[i] = sessions[i]
          \/ /\ sessions'[i].state \in {"open", "paid"}
             /\ sessions'[i].plan = sessions[i].plan /\ sessions'[i].amount = sessions[i].amount
      <4>1. ASSUME NEW h \in Handlers, req[h].invoice = i, CommitMove(h) \/ SessionMove(h)
            PROVE  \/ sessions'[i] = sessions[i]
                   \/ /\ sessions'[i].state = "open"
                      /\ sessions'[i].plan = sessions[i].plan
                      /\ sessions'[i].amount = sessions[i].amount
        BY <3>1, <4>1 DEF CommitMove, SessionMove
      <4>2. CASE Starts(i)
        BY <4>2 DEF Starts
      <4>3. ~Expired(i)
        BY <2>1 DEF Expired
      <4> QED BY <2>1, <4>1, <4>2, <4>3, ShopSessions
    <3> QED BY <3>1, <3>2 DEF Matches
  <2>4. ASSUME req[g].fresh, ~req[g].session
        PROVE  sessions'[i].state = "none"
    <3>1. sessions[i].state = "none"
      BY <2>1, <2>4 DEF Order
    <3>2. \A h \in Handlers : h # g /\ req[h].op = "checkout" => req[h].invoice # i
      BY <2>1, <2>4 DEF Reserved
    <3> QED BY <2>1, <2>2, <3>1, <3>2, ShopSessions DEF Starts, Expired
  <2> QED BY <1>0, <1>5, <2>1, <2>3, <2>4 DEF Order
<1>6. ~Reacting(g)
  BY ReactingMoves
<1> QED BY <1>1, <1>3, <1>4, <1>5, <1>6, ShopRequests

LEMMA ReportsKept ==
  ASSUME Shop, Next
  PROVE  Reports'
<1> USE DEF Shop, QuietParts, Invariant
<1> SUFFICES ASSUME NEW g \in Handlers, req'[g].op = "hook" PROVE Report(g)'
  BY DEF Reports
<1>1. CASE Reacting(g)
  BY <1>1, ReactingMoves
<1>2. CASE req'[g] = req[g] /\ ~Reacting(g)
  <2> DEFINE r == req[g]
             e == log[r.event]
  <2>1. r.op = "hook" /\ Report(g) /\ r.event \in DOMAIN log /\ UNCHANGED env
    BY <1>2, ShopPrices DEF Reports, Hooks
  <2>2. e.sub \in Invoices /\ log'[r.event] = e
    BY <2>1, EventParts, NothingUndone
  <2>3. \A h \in Handlers : req[h].op = "hook" => h = g
    BY <2>1 DEF OneAtATime
  <2>4. sub'.link = sub.link /\ processed' = processed
    <3>1. CASE Selling \/ Expiring
      BY <3>1, SellingMoves, ExpiringMoves
    <3>2. ASSUME NEW h \in Handlers, Beginning(h) \/ Passing(h) \/ Checking(h)
          PROVE  sub'.link = sub.link /\ processed' = processed
      BY <3>2, BeginningMoves, PassingMoves, CheckingMoves, CheckingSubscription DEF AsItWas
    <3>3. ASSUME NEW h \in Handlers, Reacting(h) \/ Hooking(h) PROVE FALSE
      BY <1>2, <2>1, <2>3, <3>3, ReactingMoves, HookingMoves
    <3>4. ASSUME NEW h \in Handlers, Completing(h) PROVE FALSE
      BY <2>1, <3>4, CompletingMoves, IgnoringMoves DEF Completing
    <3> QED BY <3>1, <3>2, <3>3, <3>4, ShopSteps
  <2>5. inv[e.sub].status = "paid" => inv'[e.sub].status = "paid"
    <3>1. \A h \in Handlers : req[h].op # "void"
      BY DEF OneAtATime
    <3> QED BY <2>2, <3>1, PaidKept
  <2> HIDE DEF e
  <2>6. /\ e.type # "paid" => sub'.link = e.sub
        /\ e.type = "paid" /\ r.settles => env.metadata /\ r.found = {e.sub}
        /\ e.type = "paid" /\ ~r.settles => inv'[e.sub].status = "paid"
        /\ e.type = "paid" /\ env.metadata => r.found # {}
        /\ r.event \notin processed'
    BY <2>1, <2>4, <2>5 DEF Report, e
  <2> QED BY <1>2, <2>1, <2>2, <2>6 DEF Report
<1> QED BY <1>1, <1>2, ShopRequests, BeginningMoves DEF CustomerMove, SessionMove, Keeps

LEMMA EndingsKept ==
  ASSUME Shop, Next
  PROVE  Endings'
<1> USE DEF Shop, QuietParts, Invariant
<1>1. CASE Selling
  <2>1. PICK i \in Invoices :
          /\ \A j \in Invoices : j # i => stripe'[j] = stripe[j]
          /\ Appends(i)
          /\ Starts(i) \/ Continues(i) \/ Ends(i)
    BY <1>1, SellingMoves
  <2>2. stripe[i].status # "canceled"
    <3>1. Sale(i)
      BY DEF Sales
    <3> QED BY <2>1, <3>1 DEF Starts, Continues, Ends, Live, Sale
  <2>3. ASSUME NEW k \in DOMAIN log
        PROVE  /\ k \in DOMAIN log' /\ log'[k] = log[k] /\ log[k].sub \in Invoices
               /\ log[k].type = "updated" => log[k].state.status \in Live
               /\ log[k].type = "deleted" =>
                    log[k].sub # i /\ stripe'[log[k].sub].status = "canceled"
    BY <2>1, <2>2, EventParts DEF Appends, Endings, Deleted
  <2>4. ASSUME NEW k \in DOMAIN log', k \notin DOMAIN log
        PROVE  /\ log'[k].sub = i
               /\ log'[k].type = "updated" => log'[k].state.status \in Live
               /\ log'[k].type = "deleted" => k = Len(log) + 1 /\ stripe'[i].status = "canceled"
    BY <2>1, <2>4 DEF Appends, Starts, Continues, Ends
  <2> QED BY <2>3, <2>4 DEF Endings, Deleted
<1>2. CASE ~Selling
  <2>1. UNCHANGED <<stripe, log>>
    <3>1. ASSUME NEW h \in Handlers,
                 \/ Beginning(h) \/ Reacting(h) \/ Passing(h)
                 \/ Checking(h) \/ Hooking(h) \/ Completing(h)
          PROVE  UNCHANGED <<stripe, log>>
      BY <3>1, BeginningMoves, ReactingMoves, PassingMoves, CheckingMoves, HookingMoves,
         CompletingMoves, IgnoringMoves DEF Completing
    <3> QED BY <1>2, <3>1, ShopSteps, ExpiringMoves
  <2> QED BY <2>1 DEF Endings, Deleted
<1> QED BY <1>1, <1>2

(* Nothing comes alive, and who holds an invoice held it before.           *)
LEMMA StillOne ==
  ASSUME Shop,
         \A i \in Invoices : Alive(i)' => Alive(i),
         \A h \in Handlers : ~Holds(h)',
         Calm' => \A i \in Invoices : ~Alive(i)'
  PROVE  OneAlive'
  BY DEF Shop, QuietParts, OneAlive

LEMMA SameHolders ==
  ASSUME Shop, AsItWas,
         \A i \in Invoices : Alive(i)' => Alive(i),
         \A h \in Handlers : /\ Holds(h)' <=> Holds(h)
                             /\ Holds(h) => req'[h].invoice = req[h].invoice
  PROVE  OneAlive'
  BY DEF Shop, QuietParts, OneAlive, Calm, AsItWas

LEMMA OneAliveKept ==
  ASSUME Shop, Next
  PROVE  OneAlive'
<1> USE DEF Shop, QuietParts, Invariant
<1>1. CASE Selling
  <2>1. UNCHANGED <<env, sub, inv, price, processed>> /\ OnlyCancels
    BY <1>1, SellingMoves
  <2>2. PICK i \in Invoices :
          /\ \A j \in Invoices : j # i => stripe'[j] = stripe[j]
          /\ Appends(i)
          /\ Starts(i) \/ Continues(i) \/ Ends(i)
    BY <1>1, SellingMoves
  <2>3. Alive(i)
    <3>1. CASE Starts(i)
      <4>1. Exists(i) /\ Sale(i) /\ inv[i] \in Invoice /\ sessions[i].state = "open"
        BY <3>1 DEF Starts, RowsExist, Sales, TypeOK
      <4>2. inv[i].status = "open"
        BY <4>1 DEF Sale, Exists, Invoice
      <4> QED BY <4>2 DEF Alive
    <3>2. CASE Continues(i) \/ Ends(i)
      BY <3>2 DEF Continues, Ends, Alive
    <3> QED BY <2>2, <3>1, <3>2
  <2>4. ASSUME NEW j \in Invoices, Alive(j)' PROVE Alive(j)
    <3>1. CASE j = i
      BY <2>3, <3>1
    <3>2. CASE j # i
      <4>1. ASSUME NEW k \in DOMAIN log' \ processed', log'[k].type = "deleted", log'[k].sub = j
            PROVE  k \in DOMAIN log \ processed /\ log[k].type = "deleted" /\ log[k].sub = j
        BY <2>1, <2>2, <3>2, <4>1 DEF Appends
      <4> QED BY <2>1, <2>2, <2>4, <3>2, <4>1 DEF Alive, Holds, Deleted, OnlyCancels
    <3> QED BY <3>1, <3>2
  <2> QED BY <2>1, <2>4, SameHolders DEF Holds, OnlyCancels, AsItWas
<1>2. CASE Expiring
  <2>1. UNCHANGED <<env, sub, inv, price, processed, req, stripe, log>>
    BY <1>2, ExpiringMoves
  <2>2. \A j \in Invoices : Alive(j)' => Alive(j)
    BY <2>1 DEF Alive, Holds, Deleted
  <2> QED BY <2>1, <2>2, SameHolders DEF Holds, AsItWas
<1>3. ASSUME NEW h \in Handlers, Reacting(h) PROVE OneAlive'
  <2>1. /\ UNCHANGED <<sub, inv, processed, stripe, log>>
        /\ req[h].op = "idle" /\ req'[h].op = "hook"
        /\ \A g \in Handlers : g # h => req'[g] = req[g]
    BY <1>3, ReactingMoves
  <2>2. \A g \in Handlers : /\ Holds(g)' <=> Holds(g)
                            /\ Holds(g) => req'[g].invoice = req[g].invoice
    BY <2>1 DEF Holds
  <2>3. \A j \in Invoices : Alive(j)' => Alive(j)
    BY <2>1, <2>2 DEF Alive, Deleted
  <2> QED BY <2>1, <2>2, <2>3, SameHolders DEF AsItWas
<1>4. ASSUME NEW h \in Handlers, Beginning(h) PROVE OneAlive'
  <2>1. /\ UNCHANGED <<sub, inv, processed, stripe, log>>
        /\ req[h].op = "idle" /\ req'[h].op = "checkout" /\ req'[h].invoice \in Invoices
        /\ \A g \in Handlers : g # h => req'[g] = req[g] /\ ~Holds(g)
        /\ req'[h].fresh => Calm
    BY <1>4, BeginningMoves
  <2>2. ASSUME NEW g \in Handlers
        PROVE  ~Holds(g) /\ (Holds(g)' => g = h /\ req'[h].fresh)
    BY <2>1, <2>2 DEF Holds
  <2>3. Calm' <=> Calm
    BY <2>1 DEF Calm
  <2>4. CASE req'[h].fresh
    <3>1. \A j \in Invoices : ~Alive(j)
      BY <2>1, <2>2, <2>4 DEF OneAlive
    <3>2. \A j \in Invoices : Alive(j)' => j = req'[h].invoice
      BY <2>1, <2>2, <3>1 DEF Alive, Deleted
    <3>3. Holds(h)'
      BY <2>1, <2>4 DEF Holds
    <3> QED BY <2>1, <2>2, <2>3, <2>4, <3>2, <3>3 DEF OneAlive
  <2>5. CASE ~req'[h].fresh
    <3>1. \A j \in Invoices : Alive(j)' => Alive(j)
      BY <2>1, <2>2, <2>5 DEF Alive, Deleted
    <3> QED BY <2>1, <2>2, <2>5, <3>1, SameHolders DEF AsItWas
  <2> QED BY <2>4, <2>5
<1>5. ASSUME NEW h \in Handlers, Passing(h) PROVE OneAlive'
  <2>1. /\ UNCHANGED <<inv, processed, stripe, log>> /\ AsItWas
        /\ req'[h].op \in {"idle", "cancel"} /\ \A g \in Handlers : g # h => req'[g] = req[g]
    BY <1>5, PassingMoves
  <2>2. \A g \in Handlers : /\ Holds(g)' <=> Holds(g) /\ g # h
                            /\ g # h => req'[g].invoice = req[g].invoice
    BY <2>1 DEF Holds
  <2>3. \A j \in Invoices : Alive(j)' => Alive(j)
    BY <2>1, <2>2 DEF Alive, Deleted
  <2>4. CASE ~Holds(h)
    BY <2>1, <2>2, <2>3, <2>4, SameHolders DEF AsItWas
  <2>5. CASE Holds(h)
    <3> DEFINE i == req[h].invoice
    <3>1. req[h].op = "checkout" /\ req[h].fresh /\ i \in Invoices /\ ~Exists(i)
      BY <2>5, RequestParts DEF Holds, Reserved, TypeOK
    <3>2. /\ inv[i].status # "open" /\ stripe[i].status \notin Live
          /\ \A k \in DOMAIN log : log[k].sub # i
      BY <3>1 DEF Exists, RowsExist, EventsExist, Live
    <3>3. ASSUME NEW j \in Invoices, Alive(j)' PROVE j = i
      BY <2>3, <2>5, <3>1, <3>3 DEF OneAlive, Alive
    <3>4. \A j \in Invoices : Alive(j)' => \E g \in Handlers : Holds(g)' /\ req'[g].invoice = j
      BY <2>1, <3>2, <3>3 DEF Alive
    <3>5. \A g \in Handlers : Holds(g)' => Calm'
      BY <2>1, <2>2 DEF OneAlive, Calm, AsItWas
    <3> QED BY <3>3, <3>4, <3>5 DEF OneAlive
  <2> QED BY <2>4, <2>5
<1>6. ASSUME NEW h \in Handlers, Checking(h) PROVE OneAlive'
  <2> DEFINE i == req[h].invoice
  <2>1. /\ req[h].op = "checkout" /\ i \in Invoices /\ req[h].plan \in Plans
        /\ req[h].fresh \in BOOLEAN
        /\ \A g \in Handlers : g # h => req'[g] = req[g]
        /\ UNCHANGED <<processed, stripe, log>>
        /\ CustomerMove(h) \/ SessionMove(h) \/ CommitMove(h)
    BY <1>6, CheckingMoves
  <2>2. CASE UNCHANGED <<inv, sub>> /\ (Holds(h)' <=> Holds(h))
             /\ (Holds(h) => req'[h].invoice = i)
    <3>1. \A g \in Handlers : /\ Holds(g)' <=> Holds(g)
                              /\ Holds(g) => req'[g].invoice = req[g].invoice
      BY <2>1, <2>2 DEF Holds
    <3>2. \A j \in Invoices : Alive(j)' => Alive(j)
      BY <2>1, <2>2, <3>1 DEF Alive, Deleted
    <3> QED BY <2>2, <3>1, <3>2, SameHolders DEF AsItWas
  <2>3. CASE req[h].fresh /\ (CustomerMove(h) \/ CommitMove(h))
    <3>1. Saved(h) /\ ~Holds(h)'
      BY <2>3 DEF CustomerMove, CommitMove, Holds
    <3>2. /\ \A j \in Invoices : j # i => inv'[j] = inv[j]
          /\ sub'.pending # None
      <4>1. sub \in Subscription
        BY DEF TypeOK
      <4> QED BY <2>1, <2>3, <3>1, <4>1, SavedSubscription, BillingAssumption DEF Saved
    <3>3. Alive(i) /\ Holds(h)
      BY <2>1, <2>3 DEF Alive, Holds
    <3>4. ASSUME NEW g \in Handlers, Holds(g)' PROVE FALSE
      <4>1. g # h /\ Holds(g)
        BY <2>1, <3>1, <3>4 DEF Holds
      <4>2. req[g].invoice \in Invoices /\ req[g].op = "checkout"
        BY <4>1, RequestParts DEF Holds, TypeOK
      <4>3. req[g].invoice # i
        BY <2>1, <2>3, <4>1, <4>2 DEF Reserved
      <4>4. Alive(req[g].invoice)
        BY <4>1 DEF Alive
      <4> QED BY <2>1, <3>3, <4>2, <4>3, <4>4 DEF OneAlive
    <3>5. ASSUME NEW j \in Invoices, Alive(j)' PROVE Alive(j)
      BY <2>1, <3>2, <3>3, <3>4, <3>5 DEF Alive, Deleted
    <3>6. ~Calm'
      BY <3>2 DEF Calm
    <3> QED BY <3>4, <3>5, <3>6, StillOne
  <2>4. CASE SessionMove(h)
    <3>1. /\ UNCHANGED <<inv, sub>> /\ req'[h].op = "checkout"
          /\ req'[h].invoice = i /\ req'[h].fresh = req[h].fresh
      BY <2>4 DEF SessionMove, Keeps
    <3>2. (Holds(h)' <=> Holds(h)) /\ (Holds(h) => req'[h].invoice = i)
      BY <2>1, <3>1 DEF Holds
    <3> QED BY <2>2, <3>1, <3>2
  <2>5. CASE ~req[h].fresh /\ (CustomerMove(h) \/ CommitMove(h))
    BY <2>2, <2>5 DEF CustomerMove, CommitMove, Saved, Holds
  <2> QED BY <2>1, <2>3, <2>4, <2>5
<1>7. ASSUME NEW h \in Handlers, Hooking(h) PROVE OneAlive'
  <2>0. PICK k, e : k = req[h].event /\ e = log[k]
    OBVIOUS
  <2>1. /\ req[h].op = "hook" /\ req'[h].op = "idle"
        /\ k \in DOMAIN log /\ k \notin processed /\ e.sub \in Invoices
        /\ \A g \in Handlers : ~Holds(g) /\ (g # h => req'[g] = req[g])
        /\ UNCHANGED <<stripe, log>>
        /\ processed' = processed \union {k}
        /\ UNCHANGED inv \/ MirrorMove(e) \/ SettleMove(e)
        /\ sub'.link = e.sub
        /\ IF e.type = "deleted" THEN sub'.status = "cancelled"
           ELSE sub'.status \in {"active", "past_due"}
    BY <1>7, <2>0, HookingMoves
  <2>2. \A g \in Handlers : ~Holds(g)'
    BY <2>1 DEF Holds
  <2>3. ASSUME NEW j \in Invoices PROVE inv'[j].status = "open" => inv[j].status = "open"
    BY <2>1 DEF MirrorMove, SettleMove, Billed
  <2>4. \A j \in Invoices : Alive(j)' => Alive(j)
    BY <2>1, <2>2, <2>3 DEF Alive, Deleted
  <2>5. CASE e.type # "deleted"
    <3>1. ~Calm'
      BY <2>1, <2>5, BillingAssumption DEF Calm, Ended
    <3> QED BY <2>2, <2>4, <3>1, StillOne
  <2>6. CASE e.type = "deleted"
    <3>1. PICK i \in Invoices : i = e.sub
      BY <2>1
    <3>2. Alive(i) /\ UNCHANGED inv
      BY <2>0, <2>1, <2>6, <3>1 DEF Alive, Deleted, MirrorMove, SettleMove
    <3>3. sub.link = i
      BY <2>0, <2>1, <2>6, <3>1 DEF Reports, Report
    <3>4. inv'[i].status = "paid"
      BY <3>2, <3>3, BillingAssumption DEF LinkPaid
    <3>5. /\ stripe'[i].status = "canceled"
          /\ \A l \in DOMAIN log : Deleted(l) /\ log[l].sub = i => l = k
      BY <2>0, <2>1, <2>6, <3>1 DEF Endings, Deleted
    <3>6. ~\E l \in DOMAIN log' \ processed' : Deleted(l)' /\ log'[l].sub = i
      BY <2>1, <3>5 DEF Deleted
    <3>7. ~Alive(i)'
      BY <2>2, <3>4, <3>5, <3>6 DEF Alive, Live
    <3>8. \A j \in Invoices : ~Alive(j)'
      BY <2>4, <3>2, <3>7 DEF OneAlive
    <3> QED BY <2>2, <2>4, <3>8, StillOne
  <2> QED BY <2>5, <2>6
<1>8. ASSUME NEW h \in Handlers, NEW k \in DOMAIN log, HookCompleted(h, k)
      PROVE  OneAlive'
  <2> DEFINE i == log[k].sub
  <2>1. /\ i \in Invoices /\ \A g \in Handlers : ~Holds(g)
        /\ UNCHANGED <<req, stripe, log>> /\ processed' = processed \union {k}
        /\ \A j \in Invoices : j # i => inv'[j] = inv[j]
        /\ inv'[i].status = "paid" /\ sub'.link = i
        /\ \/ sub'.status = "active"
           \/ sub'.status = sub.status /\ sub'.pending = sub.pending
    BY <1>8, CompletingMoves
  <2>2. \A g \in Handlers : ~Holds(g)'
    BY <2>1 DEF Holds
  <2>3. \A j \in Invoices : Alive(j)' => Alive(j)
    BY <2>1, <2>2 DEF Alive, Deleted
  <2>4. Calm' => Calm
    BY <2>1, BillingAssumption DEF Calm, Ended
  <2>5. Calm => \A j \in Invoices : ~Alive(j)
    BY <2>1 DEF OneAlive
  <2> QED BY <2>2, <2>3, <2>4, <2>5, StillOne
<1>9. ASSUME NEW h \in Handlers, NEW k \in DOMAIN log, HookIgnore(h, k)
      PROVE  OneAlive'
  <2>1. UNCHANGED <<sub, inv, req, stripe, log>> /\ processed' = processed \union {k}
    BY <1>9, IgnoringMoves
  <2>2. \A j \in Invoices : Alive(j)' => Alive(j)
    BY <2>1 DEF Alive, Holds, Deleted
  <2> QED BY <2>1, <2>2, SameHolders DEF Holds, AsItWas
<1> QED BY <1>1, <1>2, <1>3, <1>4, <1>5, <1>6, <1>7, <1>8, <1>9, ShopSteps DEF Completing

LEMMA QuietKept ==
  ASSUME Invariant, Quiet, Next
  PROVE  Quiet'
<1>1. CheckoutOnly' => CheckoutOnly
  BY NothingUndone DEF CheckoutOnly
<1>2. ASSUME CheckoutOnly PROVE QuietParts'
  <2>1. Shop
    BY <1>2 DEF Quiet, Shop
  <2> QED
    BY <2>1, OneAtATimeKept, SalesKept, LinkPaidKept, OrdersKept, ReportsKept, EndingsKept,
       OneAliveKept DEF QuietParts
<1> QED BY <1>1, <1>2 DEF Quiet

LEMMA InitQuiet == Init => Quiet
<1> SUFFICES ASSUME Init PROVE QuietParts
  BY DEF Quiet
<1>1. /\ \A i \in Invoices : /\ inv[i] = Absent /\ sessions[i] = NoSession
                             /\ stripe[i] = NoStripe
      /\ \A h \in Handlers : req[h] = Idle
      /\ log = <<>> /\ processed = {} /\ sub.link = None /\ sub.pending = None
  BY DEF Init
<1>2. DOMAIN log = {} /\ \A h \in Handlers : req[h].op = "idle"
  BY <1>1 DEF Idle
<1>3. \A i \in Invoices : /\ ~Exists(i) /\ inv[i].status = "absent"
                          /\ inv[i].stripe = None /\ stripe[i].status = "none"
  BY <1>1 DEF Exists, Absent, NoStripe
<1>4. Sales
  BY <1>3 DEF Sales, Sale
<1>5. \A i \in Invoices : ~Alive(i)
  BY <1>2, <1>3 DEF Alive, Holds, Live
<1> QED BY <1>1, <1>2, <1>4, <1>5
        DEF QuietParts, OneAtATime, LinkPaid, Orders, Reports, Endings, OneAlive, Holds, Calm

LEMMA StutterQuiet ==
  ASSUME Quiet, UNCHANGED vars
  PROVE  Quiet'
<1>1. UNCHANGED <<env, sub, inv, price, sessions, stripe, log, processed, req>>
  BY DEF vars, stripeVars
<1> QED BY <1>1
        DEF Quiet, CheckoutOnly, QuietParts, OneAtATime, Sales, Sale, Exists, LinkPaid, Orders,
            Order, Reports, Report, Endings, OneAlive, Alive, Holds, Calm, Deleted

(* Whatever the order of requests, crashes and expired sessions, what a    *)
(* company that buys at Stripe owes belongs together.                      *)
THEOREM BillingQuiet == Spec => []Quiet
<1>1. Invariant /\ Quiet /\ [Next]_vars => Quiet'
  BY QuietKept, StutterQuiet
<1> QED BY <1>1, InitQuiet, BillingInvariant, PTL DEF Spec

(* stripe_service.py create_checkout: a company that buys its plans at     *)
(* Stripe never has two subscriptions that charge it.                      *)
THEOREM OneStripeSubscriptionHolds == Spec => []OneStripeSubscription
<1>1. Quiet => OneStripeSubscription
  BY DEF Quiet, QuietParts, OneAlive, Alive, OneStripeSubscription
<1> QED BY <1>1, BillingQuiet, PTL

(* stripe_service.py create_checkout: nor two open invoices for a plan     *)
(* change, although the lock is released in between.                       *)
THEOREM OneChangeOpenHolds == Spec => []OneChangeOpen
<1>1. Quiet => OneChangeOpen
  BY DEF Quiet, QuietParts, OneAlive, Alive, OneChangeOpen
<1> QED BY <1>1, BillingQuiet, PTL

(* stripe_service.py handle_checkout_completed: a session that can be paid *)
(* is one whose payment the webhook accepts.                               *)
THEOREM SessionsMatchHolds == Spec => []SessionsMatch
<1>1. Invariant /\ Quiet => SessionsMatch
  <2> SUFFICES ASSUME Invariant, QuietParts,
                      NEW i \in Invoices, sessions[i].state = "open"
               PROVE  Completable(i)
    BY DEF Quiet, SessionsMatch
  <2>1. Exists(i)
    BY DEF Invariant, RowsExist
  <2>2. Sale(i) /\ inv[i].plan # None
    BY <2>1 DEF QuietParts, Sales, Sale
  <2> QED BY <2>1, <2>2 DEF Sale, Completable, Matches, Exists
<1> QED BY <1>1, BillingInvariant, BillingQuiet, PTL

-----------------------------------------------------------------------------
(* The webhooks of a company that buys its plans at Stripe, in order.      *)
InTurn == CheckoutOnly /\ "reorder" \notin env.faults
Begins(k, i) == log[k].type = "completed" /\ log[k].sub = i
Renews(k) == log[k].type = "paid" /\ log[k].period > 0
UpNext(k) ==
  /\ k \in DOMAIN log \ processed
  /\ \A j \in DOMAIN log : j < k => j \in processed
Served(i) ==
  \/ stripe[i].status \in Live
  \/ \E k \in DOMAIN log \ processed : Deleted(k) /\ log[k].sub = i

(* Events are handled in the order of the log.  A Stripe subscription      *)
(* begins with a completed Checkout, renews after it, and nothing is heard *)
(* of it after its end.                                                    *)
Turns ==
  /\ \A k \in processed, j \in DOMAIN log : j < k => j \in processed
  /\ \A k \in DOMAIN log : Renews(k) => \E j \in DOMAIN log : j < k /\ Begins(j, log[k].sub)
  /\ \A k, l \in DOMAIN log : Deleted(k) /\ k < l => log[l].sub # log[k].sub
  /\ \A i \in Invoices : /\ stripe[i].status \in {"none", "canceled"} \union Live
                         /\ stripe[i].status # "none" => \E k \in DOMAIN log : Begins(k, i)
                         /\ stripe[i].status = "canceled" =>
                              \E k \in DOMAIN log : Deleted(k) /\ log[k].sub = i

(* A completed Checkout has paid its invoice; the company is linked to the *)
(* Stripe subscription it paid for while that is still served; a webhook   *)
(* being handled is the next one.                                          *)
Honoured == \A k \in processed, i \in Invoices : Begins(k, i) => inv[i].status = "paid"
Bound(i) == inv[i].status = "paid" /\ inv[i].plan # None
Follow == \A i \in Invoices : Served(i) /\ Bound(i) => sub.link = i
AllNext == \A h \in Handlers : req[h].op = "hook" => UpNext(req[h].event)

TurnParts == Turns /\ Honoured /\ Follow /\ AllNext
Ordered == InTurn => TurnParts
InOrder == Shop /\ InTurn /\ TurnParts

LEMMA LogNumbers ==
  ASSUME TypeOK
  PROVE  /\ Len(log) \in Nat /\ DOMAIN log = 1..Len(log)
         /\ processed \subseteq DOMAIN log
  BY DEF TypeOK

(* The log grows by what happens at Stripe, and by nothing else.           *)
Happens(i) ==
  /\ UNCHANGED <<env, sub, inv, price, processed>> /\ OnlyCancels
  /\ \A j \in Invoices : j # i => stripe'[j] = stripe[j]
  /\ Appends(i)
  /\ Starts(i) \/ Continues(i) \/ Ends(i)

LEMMA ShopLog ==
  ASSUME Shop, Next
  PROVE  \/ UNCHANGED <<log, stripe>>
         \/ \E i \in Invoices : Happens(i)
<1> USE DEF Shop, Invariant
<1>1. CASE Selling
  BY <1>1, SellingMoves DEF Happens
<1>2. CASE Expiring
  BY <1>2, ExpiringMoves
<1>3. ASSUME NEW h \in Handlers,
             \/ Beginning(h) \/ Reacting(h) \/ Passing(h)
             \/ Checking(h) \/ Hooking(h) \/ Completing(h)
      PROVE  UNCHANGED <<log, stripe>>
  BY <1>3, BeginningMoves, ReactingMoves, PassingMoves, CheckingMoves, HookingMoves,
     CompletingMoves, IgnoringMoves DEF Completing
<1> QED BY <1>1, <1>2, <1>3, ShopSteps

(* What a webhook knows when it has read its event, and its event is next. *)
LEMMA Delivered ==
  ASSUME TypeOK, InTurn, NEW h, NEW k, Deliverable(h, k)
  PROVE  UpNext(k)
<1>1. k \in DOMAIN log \ processed /\ \A j \in 1..(k - 1) : j \in processed
  BY DEF Deliverable, InTurn
<1> QED BY <1>1, LogNumbers DEF UpNext

LEMMA ReactingNext ==
  ASSUME TypeOK, InTurn, NEW h \in Handlers, Reacting(h)
  PROVE  UpNext(req[h].event)'
<1>1. PICK k \in DOMAIN log : HookRead(h, k)
  BY DEF Reacting
<1> DEFINE e == log[k]
           found == IF e.type = "paid" THEN Mirrors(e) ELSE {}
           settles == \E i \in found : inv[i].status = "open"
           new == [op |-> "hook", event |-> k, seen |-> sub, found |-> found,
                   settles |-> settles]
<1>2. req'[h] = new
  BY <1>1 DEF HookRead, TypeOK
<1>3. new.event = k
  OBVIOUS
<1> HIDE DEF new
<1>4. UpNext(k) /\ UNCHANGED <<processed, log>>
  BY <1>1, Delivered DEF HookRead, stripeVars
<1> QED BY <1>2, <1>3, <1>4 DEF UpNext

LEMMA EventNumbers ==
  ASSUME InOrder, NEW k \in DOMAIN log
  PROVE  log[k].sub \in Invoices /\ log[k].period \in Nat
<1>1. log[k].sub \in Invoices /\ log[k].period \in 0..PeriodBound
  BY EventParts DEF InOrder, Shop, Invariant
<1> QED BY <1>1

(* A Stripe subscription whose events are not all handled is served.       *)
LEMMA StillServed ==
  ASSUME InOrder, NEW k, UpNext(k), ~Deleted(k)
  PROVE  Served(log[k].sub)
<1> USE DEF InOrder, Shop, Invariant, TurnParts
<1>1. k \in DOMAIN log /\ log[k].sub \in Invoices /\ stripe[log[k].sub].status # "none"
  BY EventParts DEF UpNext, Logged
<1> DEFINE i == log[k].sub
<1>2. CASE stripe[i].status = "canceled"
  <2>1. PICK l \in DOMAIN log : Deleted(l) /\ log[l].sub = i
    BY <1>1, <1>2 DEF Turns
  <2>2. ~(l < k) /\ l # k
    BY <1>1, <2>1 DEF Turns
  <2>3. k < l
    BY <1>1, <2>1, <2>2, LogNumbers
  <2>4. l \notin processed
    BY <1>1, <2>3 DEF Turns, UpNext
  <2> QED BY <2>1, <2>4 DEF Served
<1>3. CASE stripe[i].status \in Live
  BY <1>3 DEF Served
<1> QED BY <1>1, <1>2, <1>3 DEF Turns

(* A webhook that is being handled and not finished stays the next.        *)
LEMMA StaysNext ==
  ASSUME InOrder, Next, NEW h \in Handlers, req'[h].op = "hook", req'[h] = req[h]
  PROVE  /\ UNCHANGED processed /\ sub'.link = sub.link
         /\ UpNext(req[h].event) /\ UpNext(req[h].event)'
<1> USE DEF InOrder, Shop, QuietParts, Invariant, TurnParts
<1>1. PICK k : k = req[h].event
  OBVIOUS
<1>2. req[h].op = "hook" /\ UpNext(k) /\ k \in DOMAIN log
  BY <1>1 DEF AllNext, UpNext
<1>3. UNCHANGED processed /\ sub'.link = sub.link
  <2>1. CASE Selling \/ Expiring
    BY <2>1, SellingMoves, ExpiringMoves
  <2>2. ASSUME NEW g \in Handlers, Beginning(g) \/ Reacting(g) \/ Passing(g) \/ Checking(g)
        PROVE  UNCHANGED processed /\ sub'.link = sub.link
    BY <2>2, BeginningMoves, ReactingMoves, PassingMoves, CheckingMoves,
       CheckingSubscription DEF AsItWas
  <2>3. ASSUME NEW g \in Handlers, Hooking(g) PROVE FALSE
    <3>1. g = h
      BY <1>2, <2>3, HookingMoves DEF OneAtATime
    <3> QED BY <1>2, <2>3, <3>1, HookingMoves
  <2>4. ASSUME NEW g \in Handlers, Completing(g) PROVE FALSE
    BY <1>2, <2>4, CompletingMoves, IgnoringMoves DEF Completing
  <2> QED BY <2>1, <2>2, <2>3, <2>4, ShopSteps
<1>4. k \in DOMAIN log' /\ k \notin processed'
  BY <1>2, <1>3, NothingUndone DEF UpNext
<1>5. ASSUME NEW j \in DOMAIN log', j < k PROVE j \in processed'
  <2>1. DOMAIN log' = 1..Len(log') /\ DOMAIN log = 1..Len(log) /\ Len(log) \in Nat
        /\ Len(log') \in Nat
    BY LogNumbers, NextType DEF TypeOK
  <2>2. j \in DOMAIN log
    BY <1>2, <1>5, <2>1
  <2> QED BY <1>2, <1>3, <1>5, <2>2 DEF UpNext
<1> QED BY <1>1, <1>2, <1>3, <1>4, <1>5 DEF UpNext

LEMMA AllNextKept ==
  ASSUME InOrder, Next
  PROVE  AllNext'
<1> USE DEF InOrder, Shop, Invariant
<1> SUFFICES ASSUME NEW h \in Handlers, req'[h].op = "hook" PROVE UpNext(req[h].event)'
  BY DEF AllNext
<1>1. CASE Reacting(h)
  BY <1>1, ReactingNext
<1>2. CASE req'[h] = req[h]
  BY <1>2, StaysNext DEF UpNext
<1>3. CASE Checking(h) /\ (CustomerMove(h) \/ SessionMove(h))
  BY <1>3 DEF CustomerMove, SessionMove, Keeps
<1> QED BY <1>1, <1>2, <1>3, BeginningMoves, ShopRequests

(* One event is handled at a time: the next.  Only a payment links the     *)
(* company to another Stripe subscription.                                 *)
Handles(k) ==
  /\ UpNext(k) /\ processed' = processed \union {k}
  /\ UNCHANGED <<log, stripe>>
Heeds(k) == log[k].type # "completed" /\ sub'.link = sub.link
Relinks(k) == log[k].type \in {"completed", "paid"} /\ sub'.link = log[k].sub

LEMMA EventsHandled ==
  ASSUME InOrder, Next
  PROVE  \/ UNCHANGED processed /\ sub'.link = sub.link
         \/ \E k : Handles(k) /\ (Heeds(k) \/ Relinks(k))
<1> USE DEF InOrder, Shop, Invariant, TurnParts
<1>1. CASE Selling \/ Expiring
  BY <1>1, SellingMoves, ExpiringMoves
<1>2. ASSUME NEW h \in Handlers, Beginning(h) \/ Reacting(h) \/ Passing(h)
      PROVE  UNCHANGED processed /\ sub'.link = sub.link
  BY <1>2, BeginningMoves, ReactingMoves, PassingMoves DEF AsItWas
<1>3. ASSUME NEW h \in Handlers, Checking(h)
      PROVE  UNCHANGED processed /\ sub'.link = sub.link
  BY <1>3, CheckingMoves, CheckingSubscription
<1>4. ASSUME NEW h \in Handlers, Hooking(h)
      PROVE  Handles(req[h].event) /\ (Heeds(req[h].event) \/ Relinks(req[h].event))
  <2>1. req[h].op = "hook" /\ Report(h)
    BY <1>4, HookingMoves DEF Reports, QuietParts
  <2> QED BY <1>4, <2>1, HookingMoves DEF Handles, Heeds, Relinks, AllNext, Report
<1>5. ASSUME NEW h \in Handlers, NEW k \in DOMAIN log, HookCompleted(h, k)
      PROVE  Handles(k) /\ Relinks(k)
  <2>1. UpNext(k)
    BY <1>5, Delivered DEF HookCompleted
  <2> QED BY <1>5, <2>1, CompletingMoves DEF Handles, Relinks
<1>6. ASSUME NEW h \in Handlers, NEW k \in DOMAIN log, HookIgnore(h, k)
      PROVE  Handles(k) /\ Heeds(k)
  <2>1. UpNext(k)
    BY <1>6, Delivered DEF HookIgnore
  <2> QED BY <1>6, <2>1, IgnoringMoves DEF Handles, Heeds
<1> QED BY <1>1, <1>2, <1>3, <1>4, <1>5, <1>6, ShopSteps DEF Completing

LEMMA HonouredKept ==
  ASSUME InOrder, Next
  PROVE  Honoured'
<1> USE DEF InOrder, Shop, QuietParts, Invariant, TurnParts
<1> SUFFICES ASSUME NEW k \in processed', NEW i \in Invoices, Begins(k, i)'
             PROVE  inv'[i].status = "paid"
  BY DEF Honoured
<1>0. \A h \in Handlers : req[h].op # "void"
  BY DEF OneAtATime
<1>1. Begins(k, i) /\ k \in DOMAIN log
  BY NothingUndone, EventsHandled DEF Handles, UpNext, Begins, TypeOK
<1>2. CASE k \in processed
  BY <1>0, <1>1, <1>2, PaidKept DEF Honoured
<1>3. CASE k \notin processed
  <2>1. CASE Selling \/ Expiring
    BY <1>3, <2>1, SellingMoves, ExpiringMoves
  <2>2. ASSUME NEW h \in Handlers, Beginning(h) \/ Reacting(h) \/ Passing(h) \/ Checking(h)
        PROVE  FALSE
    BY <1>3, <2>2, BeginningMoves, ReactingMoves, PassingMoves, CheckingMoves
  <2>3. ASSUME NEW h \in Handlers, Hooking(h) PROVE FALSE
    BY <1>1, <1>3, <2>3, HookingMoves DEF Begins
  <2>4. ASSUME NEW h \in Handlers, NEW l \in DOMAIN log, HookCompleted(h, l)
        PROVE  inv'[i].status = "paid"
    BY <1>1, <1>3, <2>4, CompletingMoves DEF Begins
  <2>5. ASSUME NEW h \in Handlers, NEW l \in DOMAIN log, HookIgnore(h, l) PROVE FALSE
    BY <1>1, <1>3, <2>5, IgnoringMoves DEF Begins
  <2> QED BY <2>1, <2>2, <2>3, <2>4, <2>5, ShopSteps DEF Completing
<1> QED BY <1>2, <1>3

(* An invoice that is paid now links the company.                          *)
LEMMA PaidNow ==
  ASSUME Shop, Next, NEW i \in Invoices,
         inv[i].status # "paid", inv'[i].status = "paid", inv'[i].plan # None
  PROVE  sub'.link = i
<1> USE DEF Shop, QuietParts, Invariant
<1>1. CASE Selling \/ Expiring
  BY <1>1, SellingMoves, ExpiringMoves
<1>2. ASSUME NEW h \in Handlers, Beginning(h) \/ Reacting(h) \/ Passing(h) PROVE FALSE
  BY <1>2, BeginningMoves, ReactingMoves, PassingMoves
<1>3. ASSUME NEW h \in Handlers, Checking(h) PROVE FALSE
  <2>1. CustomerMove(h) \/ SessionMove(h) \/ CommitMove(h)
    BY <1>3, CheckingMoves
  <2> QED BY <2>1 DEF CustomerMove, SessionMove, CommitMove, Saved
<1>4. ASSUME NEW h \in Handlers, Hooking(h) PROVE sub'.link = i
  <2>1. PICK e : /\ UNCHANGED inv \/ MirrorMove(e) \/ SettleMove(e)
                 /\ sub'.link = e.sub
    BY <1>4, HookingMoves
  <2> QED BY <2>1 DEF MirrorMove, SettleMove, Billed
<1>5. ASSUME NEW h \in Handlers, NEW k \in DOMAIN log, HookCompleted(h, k) PROVE sub'.link = i
  BY <1>5, CompletingMoves
<1>6. ASSUME NEW h \in Handlers, NEW k \in DOMAIN log, HookIgnore(h, k) PROVE FALSE
  BY <1>6, IgnoringMoves
<1> QED BY <1>1, <1>2, <1>3, <1>4, <1>5, <1>6, ShopSteps DEF Completing

LEMMA FollowKept ==
  ASSUME InOrder, Next
  PROVE  Follow'
<1> USE DEF InOrder, Shop, QuietParts, Invariant, TurnParts
<1> SUFFICES ASSUME NEW i \in Invoices, Served(i)',
                    inv'[i].status = "paid", inv'[i].plan # None
             PROVE  sub'.link = i
  BY DEF Follow, Bound
<1>0. \A h \in Handlers : req[h].op # "void"
  BY DEF OneAtATime
<1>1. CASE inv[i].status # "paid"
  BY <1>1, PaidNow
<1>2. ASSUME inv[i].status = "paid", UNCHANGED <<log, stripe>> PROVE sub'.link = i
  <2>1. Served(i) /\ Bound(i)
    BY <1>0, <1>2, NothingUndone, PaidKept DEF Served, Deleted, Bound
  <2>2. CASE UNCHANGED processed /\ sub'.link = sub.link
    BY <2>1, <2>2 DEF Follow
  <2>3. ASSUME NEW n, Handles(n), Heeds(n) PROVE sub'.link = i
    BY <2>1, <2>3 DEF Follow, Heeds
  <2>4. ASSUME NEW n, Handles(n), Relinks(n) PROVE sub'.link = i
    <3>1. Served(log[n].sub) /\ log[n].sub \in Invoices
      BY <2>4, StillServed, EventNumbers DEF Handles, Relinks, UpNext, Deleted
    <3>2. \A j \in Invoices : Served(j) => Alive(j)
      BY DEF Served, Alive
    <3> QED BY <2>1, <2>4, <3>1, <3>2 DEF OneAlive, Relinks
  <2> QED BY <2>2, <2>3, <2>4, EventsHandled
<1>3. ASSUME inv[i].status = "paid", NEW m \in Invoices, Happens(m) PROVE sub'.link = i
  <2>1. UNCHANGED <<sub, inv, processed>> /\ Bound(i)
    BY <1>3 DEF Happens, Bound
  <2>2. CASE i = m
    <3>1. stripe[i].status # "none"
      BY <2>1 DEF Sales, Sale, Bound
    <3>2. stripe[i].status \in Live
      BY <1>3, <2>2, <3>1 DEF Happens, Starts, Continues, Ends, Sales, Sale
    <3> QED BY <2>1, <3>2 DEF Follow, Served
  <2>3. CASE i # m
    <3>1. Served(i)
      BY <1>3, <2>1, <2>3 DEF Happens, Appends, Served, Deleted
    <3> QED BY <2>1, <3>1 DEF Follow
  <2> QED BY <2>2, <2>3
<1> QED BY <1>1, <1>2, <1>3, ShopLog

LEMMA TurnsKept ==
  ASSUME InOrder, Next
  PROVE  Turns'
<1>0. processed \subseteq DOMAIN log /\ DOMAIN log = 1..Len(log) /\ Len(log) \in Nat
  BY LogNumbers DEF InOrder, Shop, Invariant
<1>1. CASE UNCHANGED <<log, stripe>>
  <2>1. ASSUME NEW k \in processed', NEW j \in DOMAIN log, j < k PROVE j \in processed'
    BY <2>1, EventsHandled DEF Handles, UpNext, Turns, InOrder, TurnParts
  <2> QED BY <1>1, <2>1 DEF Turns, Renews, Begins, Deleted, InOrder, TurnParts
<1>2. ASSUME NEW m \in Invoices, Happens(m) PROVE Turns'
  <2>1. /\ UNCHANGED processed /\ \A j \in Invoices : j # m => stripe'[j] = stripe[j]
        /\ \A k \in DOMAIN log : k \in DOMAIN log' /\ log'[k] = log[k]
        /\ \A k \in DOMAIN log' \ DOMAIN log : k > Len(log) /\ log'[k].sub = m
        /\ \E n \in Nat : DOMAIN log' = 1..n
        /\ Starts(m) \/ Continues(m) \/ Ends(m)
    BY <1>2 DEF Happens, Appends
  <2>2. \A j \in DOMAIN log', k \in DOMAIN log : j < k => j \in DOMAIN log
    BY <1>0, <2>1
  <2>3. \A k \in processed', j \in DOMAIN log' : j < k => j \in processed'
    BY <1>0, <2>1, <2>2 DEF Turns, InOrder, TurnParts
  <2>4. ASSUME NEW k \in DOMAIN log', Renews(k)'
        PROVE  \E j \in DOMAIN log' : j < k /\ Begins(j, log[k].sub)'
    <3>1. CASE k \in DOMAIN log
      <4>1. Renews(k)
        BY <2>1, <2>4, <3>1 DEF Renews
      <4>2. PICK j \in DOMAIN log : j < k /\ Begins(j, log[k].sub)
        BY <3>1, <4>1 DEF Turns, InOrder, TurnParts
      <4> QED BY <2>1, <3>1, <4>2 DEF Begins
    <3>2. CASE k \notin DOMAIN log
      <4>1. Continues(m)
        BY <2>1, <2>4, <3>2 DEF Starts, Ends, Renews
      <4>2. PICK j \in DOMAIN log : Begins(j, m)
        BY <4>1 DEF Continues, Live, Turns, InOrder, TurnParts
      <4>3. j < k
        BY <1>0, <2>1, <2>4, <3>2
      <4> QED BY <2>1, <2>4, <3>2, <4>2, <4>3 DEF Begins
    <3> QED BY <3>1, <3>2
  <2>5. ASSUME NEW k \in DOMAIN log', NEW l \in DOMAIN log', Deleted(k)', k < l
        PROVE  log'[l].sub # log'[k].sub
    <3>1. CASE k \in DOMAIN log /\ l \in DOMAIN log
      BY <2>1, <2>5, <3>1 DEF Turns, Deleted, InOrder, TurnParts
    <3>2. CASE k \in DOMAIN log /\ l \notin DOMAIN log
      <4>1. stripe[log[k].sub].status = "canceled"
        BY <2>1, <2>5, <3>2 DEF Endings, Deleted, InOrder, Shop, QuietParts
      <4>2. stripe[m].status # "canceled"
        BY <2>1 DEF Starts, Continues, Ends, Live, Sales, Sale, InOrder, Shop, QuietParts
      <4> QED BY <2>1, <2>5, <3>2, <4>1, <4>2
    <3>3. CASE k \notin DOMAIN log
      <4>1. l \notin DOMAIN log
        BY <1>0, <2>1, <2>5, <3>3
      <4>2. Ends(m)
        BY <2>1, <2>5, <3>3 DEF Starts, Continues, Deleted
      <4> QED BY <1>0, <2>5, <3>3, <4>1, <4>2 DEF Ends
    <3> QED BY <3>1, <3>2, <3>3
  <2>6. ASSUME NEW i \in Invoices
        PROVE  /\ stripe'[i].status \in {"none", "canceled"} \union Live
               /\ stripe'[i].status # "none" => \E k \in DOMAIN log' : Begins(k, i)'
               /\ stripe'[i].status = "canceled" =>
                    \E k \in DOMAIN log' : Deleted(k)' /\ log'[k].sub = i
    <3>1. /\ stripe[i].status \in {"none", "canceled"} \union Live
          /\ stripe[i].status # "none" => \E k \in DOMAIN log' : Begins(k, i)'
          /\ stripe[i].status = "canceled" =>
               \E k \in DOMAIN log' : Deleted(k)' /\ log'[k].sub = i
      BY <2>1 DEF Turns, Begins, Deleted, InOrder, TurnParts
    <3>2. CASE i # m
      BY <2>1, <3>1, <3>2
    <3>3. CASE i = m /\ Starts(m)
      BY <3>3 DEF Starts, Live, Begins
    <3>4. CASE i = m /\ Continues(m)
      BY <3>1, <3>4 DEF Continues, Live
    <3>5. CASE i = m /\ Ends(m)
      BY <2>1, <3>1, <3>5 DEF Ends, Live, Deleted
    <3> QED BY <2>1, <3>2, <3>3, <3>4, <3>5
  <2> QED BY <2>3, <2>4, <2>5, <2>6 DEF Turns
<1> QED BY <1>1, <1>2, ShopLog DEF InOrder

LEMMA OrderedKept ==
  ASSUME Invariant, Quiet, Ordered, Next
  PROVE  Ordered'
<1>1. InTurn' => InTurn
  BY NothingUndone DEF InTurn, CheckoutOnly
<1>2. ASSUME InTurn PROVE TurnParts'
  <2>1. InOrder
    BY <1>2 DEF Quiet, Shop, Ordered, InOrder, InTurn
  <2> QED BY <2>1, TurnsKept, HonouredKept, FollowKept, AllNextKept DEF TurnParts
<1> QED BY <1>1, <1>2 DEF Ordered

LEMMA InitOrdered == Init => Ordered
<1> SUFFICES ASSUME Init PROVE TurnParts
  BY DEF Ordered
<1>1. /\ \A i \in Invoices : inv[i] = Absent /\ stripe[i] = NoStripe
      /\ \A h \in Handlers : req[h] = Idle
      /\ log = <<>> /\ processed = {}
  BY DEF Init
<1>2. /\ DOMAIN log = {} /\ \A h \in Handlers : req[h].op = "idle"
      /\ \A i \in Invoices : inv[i].plan = None /\ stripe[i].status = "none"
  BY <1>1 DEF Idle, Absent, NoStripe
<1> QED BY <1>1, <1>2 DEF TurnParts, Turns, Honoured, Follow, Served, Bound, AllNext, Live

LEMMA StutterOrdered ==
  ASSUME Ordered, UNCHANGED vars
  PROVE  Ordered'
<1>1. UNCHANGED <<env, sub, inv, stripe, log, processed, req>>
  BY DEF vars, stripeVars
<1>2. InTurn' <=> InTurn
  BY <1>1 DEF InTurn, CheckoutOnly
<1>3. Turns' <=> Turns
  BY <1>1 DEF Turns, Renews, Begins, Deleted
<1>4. (Follow' <=> Follow) /\ (Honoured' <=> Honoured)
  BY <1>1 DEF Follow, Served, Bound, Begins, Deleted, Honoured
<1>5. AllNext' <=> AllNext
  BY <1>1 DEF AllNext, UpNext
<1> QED BY <1>2, <1>3, <1>4, <1>5 DEF Ordered, TurnParts

(* stripe_service.py process_event: webhooks that come in order keep the   *)
(* company linked to the Stripe subscription it paid for.                  *)
THEOREM BillingOrdered == Spec => []Ordered
<1>1. Invariant /\ Quiet /\ Ordered /\ [Next]_vars => Ordered'
  BY OrderedKept, StutterOrdered
<1> QED BY <1>1, InitOrdered, BillingInvariant, BillingQuiet, PTL DEF Spec

-----------------------------------------------------------------------------
(* Renewals, when the invoices of Stripe do not carry the metadata.        *)
Unnamed == InTurn /\ ~env.metadata
Mirrored(e, i) == inv[i].stripe = <<e.sub, e.period>> /\ inv[i].status = "paid"

(* The invoice of a plan change only carries the first Stripe invoice, so  *)
(* the mirror of a renewal is not overwritten; a webhook being handled     *)
(* found no invoice but that mirror.                                       *)
Booked == \A i \in Invoices : inv[i].plan # None => inv[i].stripe \in {None, <<i, 0>>}
MirrorsKept == \A k \in processed : Renews(k) => \E i \in Invoices : Mirrored(log[k], i)
Heard(h) ==
  LET e == log[req[h].event] IN
  /\ sub.link = e.sub
  /\ e.type = "paid" => ~req[h].settles /\ \A i \in req[h].found : Mirrored(e, i)
AllHeard == \A h \in Handlers : req[h].op = "hook" => Heard(h)

RenewingParts == Booked /\ MirrorsKept /\ AllHeard
Renewing == Unnamed => RenewingParts
Renewals == InOrder /\ ~env.metadata /\ RenewingParts

LEMMA ReactingInTurn ==
  ASSUME Shop, Unnamed, NEW h \in Handlers, Reacting(h)
  PROVE  Heard(h)'
<1> USE DEF Shop, QuietParts, Invariant
<1>1. PICK k \in DOMAIN log : HookRead(h, k)
  BY DEF Reacting
<1> DEFINE e == log[k]
           found == IF e.type = "paid" THEN Mirrors(e) ELSE {}
           settles == \E i \in found : inv[i].status = "open"
           new == [op |-> "hook", event |-> k, seen |-> sub, found |-> found,
                   settles |-> settles]
<1>2. req'[h] = new
  BY <1>1 DEF HookRead, TypeOK
<1>3. new.event = k /\ new.found = found /\ (new.settles <=> settles)
  OBVIOUS
<1> HIDE DEF new
<1>4. Finds(e) /\ UNCHANGED <<env, sub, inv, processed, log>>
  BY <1>1 DEF HookRead, stripeVars
<1>5. e.sub \in Invoices /\ e.period \in 0..PeriodBound
  BY EventParts
<1>6. sub.link = e.sub
  BY <1>4 DEF Finds, Unnamed
<1>7. ASSUME e.type = "paid", NEW i \in found PROVE Mirrored(e, i) /\ inv[i].status # "open"
  <2>1. i \in Invoices /\ inv[i].stripe = <<e.sub, e.period>>
    BY <1>7 DEF Mirrors, Unnamed
  <2>2. inv[i].stripe # None
    BY <1>5, <2>1, BillingAssumption
  <2>3. inv[i].status = "paid"
    BY <2>1, <2>2 DEF Sales, Sale, RowsExist, Exists, TypeOK, Invoice
  <2> QED BY <2>1, <2>3 DEF Mirrored
<1>8. e.type = "paid" => ~settles /\ \A i \in found : Mirrored(e, i)
  BY <1>7
<1> HIDE DEF found, settles
<1> QED BY <1>2, <1>3, <1>4, <1>6, <1>8 DEF Heard, Mirrored

(* What becomes of a row while webhooks come in order.                     *)
CompletedRowOf(i) ==
  /\ inv'[i].plan = inv[i].plan /\ inv'[i].stripe = <<i, 0>> /\ inv'[i].status = "paid"
  /\ Exists(i) /\ stripe[i].status # "none" /\ \A g \in Handlers : req[g].op # "hook"
NewRowOf(i) ==
  ~Exists(i) /\ (inv'[i].stripe = None \/ inv'[i].plan = None)

LEMMA RowsInTurn ==
  ASSUME Renewals, Next, NEW i \in Invoices
  PROVE  inv'[i] = inv[i] \/ CompletedRowOf(i) \/ NewRowOf(i)
<1> USE DEF Renewals, InOrder, Shop, QuietParts, Invariant
<1>1. CASE Selling \/ Expiring
  BY <1>1, SellingMoves, ExpiringMoves
<1>2. ASSUME NEW h \in Handlers, Beginning(h) \/ Reacting(h) \/ Passing(h)
      PROVE  inv'[i] = inv[i]
  BY <1>2, BeginningMoves, ReactingMoves, PassingMoves
<1>3. ASSUME NEW h \in Handlers, Checking(h)
      PROVE  inv'[i] = inv[i] \/ NewRowOf(i)
  <2>1. /\ req[h].op = "checkout" /\ req[h].fresh \in BOOLEAN
        /\ CustomerMove(h) \/ SessionMove(h) \/ CommitMove(h)
    BY <1>3, CheckingMoves
  <2>2. req[h].fresh => ~Exists(req[h].invoice)
    BY <2>1 DEF Reserved
  <2>3. UNCHANGED inv \/ Saved(h)
    BY <2>1 DEF CustomerMove, SessionMove, CommitMove
  <2>4. CASE Saved(h)
    BY <2>1, <2>2, <2>4 DEF Saved, NewRowOf
  <2> QED BY <2>3, <2>4
<1>4. ASSUME NEW h \in Handlers, Hooking(h)
      PROVE  inv'[i] = inv[i] \/ NewRowOf(i)
  <2>1. PICK e : UNCHANGED inv \/ MirrorMove(e) \/ SettleMove(e)
    BY <1>4, HookingMoves
  <2>2. ~SettleMove(e)
    BY DEF SettleMove
  <2> QED BY <2>1, <2>2 DEF MirrorMove, Billed, NewRowOf, Fresh
<1>5. ASSUME NEW h \in Handlers, NEW k \in DOMAIN log, HookCompleted(h, k)
      PROVE  inv'[i] = inv[i] \/ CompletedRowOf(i)
  <2>1. stripe[log[k].sub].status # "none"
    BY DEF Logged
  <2> QED BY <1>5, <2>1, CompletingMoves DEF CompletedRowOf
<1>6. ASSUME NEW h \in Handlers, NEW k \in DOMAIN log, HookIgnore(h, k)
      PROVE  inv'[i] = inv[i]
  BY <1>6, IgnoringMoves
<1> QED BY <1>1, <1>2, <1>3, <1>4, <1>5, <1>6, ShopSteps DEF Completing

LEMMA BookedKept ==
  ASSUME Renewals, Next
  PROVE  Booked'
<1> SUFFICES ASSUME NEW i \in Invoices, inv'[i].plan # None PROVE inv'[i].stripe \in {None, <<i, 0>>}
  BY DEF Booked
<1> QED BY RowsInTurn DEF CompletedRowOf, NewRowOf, Renewals, RenewingParts, Booked

LEMMA MirrorStays ==
  ASSUME Renewals, Next, NEW i \in Invoices, NEW e, e.sub \in Invoices, e.period \in Nat,
         Mirrored(e, i),
         e.period > 0 \/ \E g \in Handlers : req[g].op = "hook"
  PROVE  inv'[i].stripe = <<e.sub, e.period>> /\ inv'[i].status = "paid"
<1> USE DEF Renewals, InOrder, Shop, QuietParts, Invariant, TurnParts, RenewingParts
<1>1. inv[i].stripe = <<e.sub, e.period>> /\ inv[i].status = "paid"
  BY DEF Mirrored
<1>2. ~NewRowOf(i)
  BY <1>1 DEF NewRowOf, Exists
<1>3. ASSUME CompletedRowOf(i) PROVE FALSE
  <2>1. inv[i].plan # None /\ stripe[i].status # "none"
    BY <1>3 DEF CompletedRowOf, Sales, Sale
  <2>2. inv[i].stripe = None \/ inv[i].stripe = <<i, 0>>
    BY <2>1 DEF Booked
  <2>3. <<e.sub, e.period>> # None
    BY BillingAssumption
  <2>4. e.period = 0
    BY <1>1, <2>2, <2>3
  <2> QED BY <1>3, <2>4 DEF CompletedRowOf
<1> QED BY <1>1, <1>2, <1>3, RowsInTurn

LEMMA RenewalBooked ==
  ASSUME Renewals, Next, NEW k \in DOMAIN log, k \in processed' \ processed, Renews(k)
  PROVE  \E i \in Invoices : /\ inv'[i].stripe = <<log[k].sub, log[k].period>>
                            /\ inv'[i].status = "paid"
<1>1. log[k].sub \in Invoices /\ log[k].period \in Nat
  BY EventNumbers DEF Renewals
<1> USE DEF Renewals, InOrder, Shop, QuietParts, Invariant, TurnParts, RenewingParts, Renews
<1>2. CASE Selling \/ Expiring
  BY <1>2, SellingMoves, ExpiringMoves
<1>3. ASSUME NEW h \in Handlers,
             Beginning(h) \/ Reacting(h) \/ Passing(h) \/ Checking(h)
      PROVE  FALSE
  BY <1>3, BeginningMoves, ReactingMoves, PassingMoves, CheckingMoves
<1>4. ASSUME NEW h \in Handlers, Hooking(h)
      PROVE  \E i \in Invoices : /\ inv'[i].stripe = <<log[k].sub, log[k].period>>
                                /\ inv'[i].status = "paid"
  <2>1. /\ req[h].op = "hook" /\ k = req[h].event
        /\ \/ UNCHANGED inv /\ ~req[h].settles /\ req[h].found # {}
           \/ MirrorMove(log[k]) \/ SettleMove(log[k])
    BY <1>4, HookingMoves
  <2>2. CASE UNCHANGED inv /\ req[h].found # {}
    <3>1. PICK i \in req[h].found : TRUE
      BY <2>2
    <3>2. i \in Invoices /\ Mirrored(log[k], i)
      BY <2>1, <3>1, HookParts DEF AllHeard, Heard
    <3> QED BY <2>2, <3>2 DEF Mirrored
  <2>3. CASE MirrorMove(log[k])
    BY <2>3 DEF MirrorMove, Billed
  <2>4. ~SettleMove(log[k])
    BY DEF SettleMove
  <2> QED BY <2>1, <2>2, <2>3, <2>4
<1>5. ASSUME NEW h \in Handlers, NEW l \in DOMAIN log, HookCompleted(h, l) PROVE FALSE
  BY <1>5, CompletingMoves
<1>6. ASSUME NEW h \in Handlers, NEW l \in DOMAIN log, HookIgnore(h, l) PROVE FALSE
  <2>1. l = k /\ ~Finds(log[k])
    BY <1>6, IgnoringMoves
  <2>2. UpNext(k)
    BY <1>6, <2>1, Delivered DEF HookIgnore
  <2>3. Served(log[k].sub)
    BY <2>2, StillServed DEF Deleted
  <2>4. \E j \in processed : Begins(j, log[k].sub)
    BY <2>2 DEF Turns, UpNext
  <2>6. Bound(log[k].sub)
    BY <1>1, <2>4 DEF Honoured, Logged, Sales, Sale, Bound
  <2>5. sub.link = log[k].sub
    BY <1>1, <2>3, <2>6 DEF Follow
  <2> QED BY <2>1, <2>5 DEF Finds
<1> QED BY <1>2, <1>3, <1>4, <1>5, <1>6, ShopSteps DEF Completing

LEMMA MirrorsKeptOn ==
  ASSUME Renewals, Next
  PROVE  MirrorsKept'
<1> SUFFICES ASSUME NEW k \in processed', Renews(k)'
             PROVE  (\E i \in Invoices : Mirrored(log[k], i))'
  BY DEF MirrorsKept
<1>1. k \in DOMAIN log /\ log'[k] = log[k]
  BY NothingUndone, EventsHandled DEF Handles, UpNext, TypeOK, Renewals, InOrder, Shop, Invariant
<1>2. Renews(k) /\ log[k].sub \in Invoices /\ log[k].period \in Nat
  BY <1>1, EventNumbers DEF Renews, Renewals
<1>3. CASE k \in processed
  <2>1. PICK i \in Invoices : Mirrored(log[k], i)
    BY <1>2, <1>3 DEF MirrorsKept, Renewals, RenewingParts
  <2>2. PICK e : e = log[k]
    OBVIOUS
  <2>3. inv'[i].stripe = <<e.sub, e.period>> /\ inv'[i].status = "paid"
    BY <1>2, <2>1, <2>2, MirrorStays DEF Renews
  <2> QED BY <1>1, <2>2, <2>3 DEF Mirrored
<1>4. CASE k \notin processed
  <2>1. PICK i \in Invoices : /\ inv'[i].stripe = <<log[k].sub, log[k].period>>
                              /\ inv'[i].status = "paid"
    BY <1>1, <1>2, <1>4, RenewalBooked
  <2> QED BY <1>1, <2>1 DEF Mirrored
<1> QED BY <1>3, <1>4

LEMMA AllHeardKept ==
  ASSUME Renewals, Next
  PROVE  AllHeard'
<1> USE DEF Renewals, InOrder, Shop, QuietParts, Invariant, RenewingParts
<1> SUFFICES ASSUME NEW h \in Handlers, req'[h].op = "hook" PROVE Heard(h)'
  BY DEF AllHeard
<1>1. CASE Reacting(h)
  BY <1>1, ReactingInTurn DEF Unnamed
<1>2. CASE req'[h] = req[h]
  <2>1. PICK k, e : k = req[h].event /\ e = log[k]
    OBVIOUS
  <2>2. /\ req[h].op = "hook" /\ sub.link = e.sub
        /\ e.type = "paid" => ~req[h].settles /\ \A i \in req[h].found : Mirrored(e, i)
    BY <1>2, <2>1 DEF AllHeard, Heard
  <2>3. k \in DOMAIN log /\ sub'.link = sub.link
    BY <1>2, <2>1, StaysNext DEF UpNext
  <2>4. /\ log'[k] = e /\ e.sub \in Invoices
        /\ e.period \in Nat /\ req[h].found \subseteq Invoices
    BY <2>1, <2>2, <2>3, EventNumbers, HookParts, NothingUndone
  <2>5. ASSUME e.type = "paid", NEW i \in req[h].found
        PROVE  inv'[i].stripe = <<e.sub, e.period>> /\ inv'[i].status = "paid"
    BY <2>2, <2>4, <2>5, MirrorStays
  <2> QED BY <1>2, <2>1, <2>2, <2>3, <2>4, <2>5 DEF Heard, Mirrored
<1>3. CASE Checking(h) /\ (CustomerMove(h) \/ SessionMove(h))
  BY <1>3 DEF CustomerMove, SessionMove, Keeps
<1>4. ~Beginning(h)
  BY BeginningMoves
<1> QED BY <1>1, <1>2, <1>3, <1>4, ShopRequests

LEMMA RenewingKept ==
  ASSUME Invariant, Quiet, Ordered, Renewing, Next
  PROVE  Renewing'
<1>1. Unnamed' => Unnamed
  BY NothingUndone DEF Unnamed, InTurn, CheckoutOnly
<1>2. ASSUME Unnamed PROVE RenewingParts'
  <2>1. Renewals
    BY <1>2 DEF Quiet, Shop, Ordered, Renewing, Renewals, InOrder, Unnamed, InTurn
  <2> QED BY <2>1, BookedKept, MirrorsKeptOn, AllHeardKept DEF RenewingParts
<1> QED BY <1>1, <1>2 DEF Renewing

LEMMA InitRenewing == Init => Renewing
<1> SUFFICES ASSUME Init PROVE RenewingParts
  BY DEF Renewing
<1>1. /\ \A i \in Invoices : inv[i] = Absent
      /\ \A h \in Handlers : req[h] = Idle
      /\ processed = {}
  BY DEF Init
<1>2. /\ \A h \in Handlers : req[h].op = "idle"
      /\ \A i \in Invoices : inv[i].plan = None
  BY <1>1 DEF Idle, Absent
<1> QED BY <1>1, <1>2 DEF RenewingParts, Booked, MirrorsKept, AllHeard

LEMMA StutterRenewing ==
  ASSUME Renewing, UNCHANGED vars
  PROVE  Renewing'
<1>1. UNCHANGED <<env, sub, inv, log, processed, req>>
  BY DEF vars, stripeVars
<1>2. Unnamed' <=> Unnamed
  BY <1>1 DEF Unnamed, InTurn, CheckoutOnly
<1>3. (Booked' <=> Booked) /\ (MirrorsKept' <=> MirrorsKept)
  BY <1>1 DEF Booked, MirrorsKept, Renews, Mirrored
<1>4. AllHeard' <=> AllHeard
  BY <1>1 DEF AllHeard, Heard, Mirrored
<1> QED BY <1>2, <1>3, <1>4 DEF Renewing, RenewingParts

(* README 1175 "Successful renewal invoices and payments are mirrored into *)
(* the local billing history": while webhooks come in order and Stripe's   *)
(* invoices do not carry the metadata.                                     *)
THEOREM RenewalsMirroredHolds == Spec => []RenewalsMirrored
<1>1. Invariant /\ Quiet /\ Ordered /\ Renewing /\ [Next]_vars => Renewing'
  BY RenewingKept, StutterRenewing
<1>2. Invariant /\ Renewing => RenewalsMirrored
  <2> SUFFICES ASSUME Invariant, RenewingParts, NEW k \in processed, Renews(k)
               PROVE  \E i \in Invoices :
                        inv[i].stripe = <<log[k].sub, log[k].period>> /\ inv[i].status = "paid"
    BY DEF Renewing, Unnamed, InTurn, RenewalsMirrored, AllRenewalsMirrored, Renews
  <2> QED BY DEF RenewingParts, MirrorsKept, Mirrored
<1> QED BY <1>1, <1>2, InitRenewing, BillingInvariant, BillingQuiet, BillingOrdered, PTL DEF Spec
-----------------------------------------------------------------------------
(* The subscription row and Stripe, when requests too come one at a time.  *)
Steady == InTurn /\ "parallel" \notin env.faults

(* Whoever is served knows the row as it is, and a webhook that found an   *)
(* open invoice settles an open one.                                       *)
OneBusy == \A g, h \in Handlers : req[g] # Idle /\ req[h] # Idle => g = h
SeenNow == \A h \in Handlers : req[h].op \in {"hook", "cancel"} => req[h].seen = sub
Settling ==
  \A h \in Handlers :
    req[h].op = "hook" /\ req[h].settles => inv[log[req[h].event].sub].status = "open"

(* The log tells the life of every Stripe subscription: it starts with     *)
(* what was bought, every event changes what its type says, and the last   *)
(* one carries the subscription as it is.                                  *)
LastOf(k, S) == \A l \in S : log[l].sub = log[k].sub => l <= k
Agrees == \A k \in DOMAIN log : LastOf(k, DOMAIN log) => log[k].state = stripe[log[k].sub]
Shape(e) ==
  /\ e.type = "paid" => e.state.status = "active"
  /\ e.type = "failed" => e.state.status = "past_due"
  /\ e.type = "deleted" => e.state.status = "canceled" /\ ~e.state.atEnd
  /\ e.type = "completed" \/ (e.type = "paid" /\ e.period = 0) => e.state = Bought(e.sub)
Shapes == \A k \in DOMAIN log : Shape(log[k])
Succeeds(s, type, t) ==
  /\ type # "updated" => t.plan = s.plan
  /\ type \notin {"updated", "deleted"} => t.atEnd = s.atEnd
  /\ type = "completed" => t = s
Chain ==
  \A j, k \in DOMAIN log :
    /\ j < k /\ log[j].sub = log[k].sub
    /\ \A l \in DOMAIN log : j < l /\ l < k => log[l].sub # log[k].sub
    => Succeeds(log[j].state, log[k].type, log[k].state)

(* The row says what the last event handled of its Stripe subscription     *)
(* says; only the flag may be ahead of it or behind, and then an event     *)
(* that carries the flag is still to come.                                 *)
ToCome(i) ==
  \E l \in DOMAIN log \ processed : log[l].sub = i /\ log[l].type \in {"updated", "deleted"}
Warned ==
  \A h \in Handlers :
    req[h].op = "cancel" /\ req[h].told /\ sub.link # None => ToCome(sub.link)
Says(k) ==
  /\ sub.plan = log[k].state.plan /\ sub.status = LocalStatus(log[k].state.status)
  /\ sub.cancelling = log[k].state.atEnd \/ ToCome(log[k].sub)
RowSays ==
  sub.link # None =>
    \E k \in processed : log[k].sub = sub.link /\ LastOf(k, processed) /\ Says(k)

SteadyParts ==
  OneBusy /\ SeenNow /\ Settling /\ Agrees /\ Shapes /\ Chain /\ Warned /\ RowSays
Agreeing == Steady => SteadyParts
InStep == InOrder /\ Steady /\ SteadyParts

Serving(h) ==
  \/ Beginning(h) \/ Reacting(h) \/ Passing(h) \/ Checking(h) \/ Hooking(h) \/ Completing(h)

LEMMA OneServed ==
  ASSUME InStep, NEW h \in Handlers, Serving(h)
  PROVE  \A g \in Handlers : g # h => req[g] = Idle /\ req'[g] = Idle
<1> USE DEF InStep, InOrder, Shop, Invariant, SteadyParts
<1>1. \A g \in Handlers : g # h => req'[g] = req[g]
  BY BeginningMoves, ReactingMoves, PassingMoves, CheckingMoves, HookingMoves,
     CompletingMoves, IgnoringMoves DEF Serving, Completing
<1>2. "parallel" \notin env.faults
  BY DEF Steady
<1>3. CASE req[h] # Idle
  BY <1>1, <1>3 DEF OneBusy
<1>4. CASE req[h].op = "idle"
  <2>1. ~Checking(h) /\ ~Hooking(h)
    BY <1>4, CheckingMoves, HookingMoves
  <2>2. CASE Beginning(h) \/ Reacting(h)
    BY <1>1, <1>2, <2>2 DEF Beginning, CheckoutRead, Reacting, HookRead, Deliverable, Free
  <2>3. CASE Completing(h)
    BY <1>1, <1>2, <2>3 DEF Completing, HookCompleted, HookIgnore, Deliverable, Free
  <2>4. ASSUME NEW value \in BOOLEAN, CancelRead(h, value)
        PROVE  \A g \in Handlers : req[g] = Idle
    BY <1>2, <2>4 DEF CancelRead, Free
  <2>5. ~CancelCommit(h)
    BY <1>4 DEF CancelCommit
  <2>6. CASE Dropping(h)
    <3>1. req[h] # Idle
      BY <2>6 DEF Dropping, CheckoutRefused, PayConflict, Abandon, Idle
    <3> QED BY <1>1, <3>1 DEF OneBusy
  <2> QED BY <1>1, <2>1, <2>2, <2>3, <2>4, <2>5, <2>6 DEF Serving, Passing, Asking
<1> QED BY <1>3, <1>4 DEF Idle

(* A request changes while something happens at Stripe only when it is a   *)
(* cancellation that tells Stripe.                                         *)
Telling(h) ==
  /\ CancelStripe(h) /\ req[h].op = "cancel"
  /\ req'[h].op = "cancel" /\ req'[h].seen = req[h].seen /\ req'[h].told

LEMMA SellingRequests ==
  ASSUME TypeOK, Selling, NEW g \in Handlers
  PROVE  req'[g] = req[g] \/ Telling(g)
<1>1. ASSUME NEW h \in Handlers, CancelStripe(h) PROVE req'[g] = req[g] \/ Telling(g)
  <2>1. req[h] \in Request /\ req[h].op = "cancel"
    BY <1>1 DEF CancelStripe, TypeOK
  <2> DEFINE new == [req[h] EXCEPT !.told = TRUE]
  <2>2. new.op = "cancel" /\ new.seen = req[h].seen /\ new.told
    BY <2>1 DEF Request
  <2>3. req' = [req EXCEPT ![h] = new]
    BY <1>1 DEF CancelStripe
  <2> HIDE DEF new
  <2>4. req'[h] = new /\ (g # h => req'[g] = req[g])
    BY <2>3 DEF TypeOK
  <2> QED BY <1>1, <2>1, <2>2, <2>4 DEF Telling
<1>2. ASSUME NEW i \in Invoices,
             \/ StripePay(i) \/ StripeRenew(i) \/ StripeFail(i) \/ StripeEnd(i)
             \/ \E p \in Plans : StripePortal(i, p)
      PROVE  UNCHANGED req
  BY <1>2 DEF StripePay, StripeRenew, StripeFail, StripeEnd, StripePortal, StripeChange
<1> QED BY <1>1, <1>2 DEF Selling, Emitting

LEMMA OneBusyKept ==
  ASSUME InStep, Next
  PROVE  OneBusy'
<1> USE DEF InStep, InOrder, Shop, Invariant, SteadyParts
<1>1. CASE Selling
  <2>1. \A g \in Handlers : req'[g] # Idle => req[g] # Idle
    BY <1>1, SellingRequests DEF Telling, Idle
  <2> QED BY <2>1 DEF OneBusy
<1>2. CASE Expiring
  BY <1>2, ExpiringMoves DEF OneBusy
<1>3. ASSUME NEW h \in Handlers, Serving(h) PROVE OneBusy'
  BY <1>3, OneServed DEF OneBusy
<1> QED BY <1>1, <1>2, <1>3, ShopSteps DEF Serving

(* What a cancellation or a webhook knows when it begins or goes on.       *)
LEMMA AskingReads ==
  ASSUME TypeOK, NEW h \in Handlers, NEW value \in BOOLEAN, CancelRead(h, value)
  PROVE  /\ req'[h].seen = sub /\ UNCHANGED sub
         /\ req'[h].told <=> sub.link = None
<1> DEFINE new == [op |-> "cancel", value |-> value, told |-> sub.link = None, seen |-> sub]
<1>1. req'[h] = new
  BY DEF CancelRead, TypeOK
<1>2. new.seen = sub /\ (new.told <=> sub.link = None)
  OBVIOUS
<1> QED BY <1>1, <1>2 DEF CancelRead

(* Who is still being served, or has just begun.                           *)
LEMMA StillBusy ==
  ASSUME InStep, Next, NEW g \in Handlers, req'[g].op \in {"hook", "cancel"}
  PROVE  \/ req'[g] = req[g] /\ (Selling \/ Expiring)
         \/ Selling /\ Telling(g)
         \/ Reacting(g)
         \/ \E value \in BOOLEAN : CancelRead(g, value)
<1> USE DEF InStep, InOrder, Shop, Invariant, SteadyParts
<1>0. Idle.op = "idle"
  BY DEF Idle
<1>1. CASE Selling
  BY <1>1, SellingRequests
<1>2. CASE Expiring
  BY <1>2, ExpiringMoves
<1>3. ASSUME NEW h \in Handlers, Serving(h), h # g PROVE FALSE
  BY <1>0, <1>3, OneServed
<1>4. CASE Serving(g)
  <2>1. ~Beginning(g) /\ ~Checking(g) /\ ~Hooking(g)
    BY BeginningMoves, CheckingSubscription, HookingMoves
  <2>2. ~Completing(g)
    <3>1. ASSUME Completing(g) PROVE req[g] = Idle /\ UNCHANGED req
      BY <3>1 DEF Completing, HookCompleted, HookIgnore, Deliverable, Free
    <3> QED BY <1>0, <3>1
  <2>3. ~Dropping(g) /\ ~CancelCommit(g)
    BY Finished DEF Changing
  <2> QED BY <1>4, <2>1, <2>2, <2>3 DEF Serving, Passing, Asking
<1> QED BY <1>1, <1>2, <1>3, <1>4, ShopSteps DEF Serving

LEMMA SeenNowKept ==
  ASSUME InStep, Next
  PROVE  SeenNow'
<1> USE DEF InStep, InOrder, Shop, Invariant, SteadyParts
<1> SUFFICES ASSUME NEW g \in Handlers, req'[g].op \in {"hook", "cancel"}
             PROVE  req'[g].seen = sub'
  BY DEF SeenNow
<1>1. CASE Selling
  <2>1. UNCHANGED sub /\ (req'[g] = req[g] \/ Telling(g))
    BY <1>1, SellingMoves, SellingRequests
  <2> QED BY <2>1 DEF Telling, SeenNow
<1>2. CASE req'[g] = req[g] /\ Expiring
  BY <1>2, ExpiringMoves DEF SeenNow
<1>3. CASE Reacting(g)
  BY <1>3, ReactingMoves
<1>4. ASSUME NEW value \in BOOLEAN, CancelRead(g, value) PROVE req'[g].seen = sub'
  BY <1>4, AskingReads
<1> QED BY <1>1, <1>2, <1>3, <1>4, StillBusy

LEMMA SettlingKept ==
  ASSUME InStep, Next
  PROVE  Settling'
<1> USE DEF InStep, InOrder, Shop, QuietParts, Invariant, SteadyParts
<1> SUFFICES ASSUME NEW g \in Handlers, req'[g].op = "hook", req'[g].settles
             PROVE  inv'[log'[req'[g].event].sub].status = "open"
  BY DEF Settling
<1>1. CASE req'[g] = req[g] /\ (Selling \/ Expiring)
  <2>1. UNCHANGED inv
    BY <1>1, SellingMoves, ExpiringMoves
  <2>2. req[g].event \in DOMAIN log
    BY <1>1 DEF Hooks
  <2>3. log'[req[g].event] = log[req[g].event]
    BY <2>2, NothingUndone
  <2> QED BY <1>1, <2>1, <2>3 DEF Settling
<1>2. CASE Reacting(g)
  <2>1. PICK k \in DOMAIN log : HookRead(g, k)
    BY <1>2 DEF Reacting
  <2> DEFINE e == log[k]
             found == IF e.type = "paid" THEN Mirrors(e) ELSE {}
             settles == \E i \in found : inv[i].status = "open"
             new == [op |-> "hook", event |-> k, seen |-> sub, found |-> found,
                     settles |-> settles]
  <2>2. req'[g] = new
    BY <2>1 DEF HookRead, TypeOK
  <2>3. new.event = k /\ new.found = found /\ (new.settles <=> settles)
    OBVIOUS
  <2> HIDE DEF new
  <2>4. Report(g)' /\ UNCHANGED <<inv, log>>
    BY <1>2, ReactingMoves
  <2>5. settles /\ e.type = "paid"
    BY <2>2, <2>3
  <2> HIDE DEF found, settles
  <2>6. found = {e.sub}
    BY <2>2, <2>3, <2>4, <2>5 DEF Report
  <2> QED BY <2>2, <2>3, <2>4, <2>5, <2>6 DEF settles
<1>3. ~Telling(g) /\ \A value \in BOOLEAN : ~CancelRead(g, value)
  <2>1. ASSUME NEW value \in BOOLEAN, CancelRead(g, value) PROVE Passing(g)
    BY <2>1 DEF Passing, Asking
  <2> QED BY <2>1, PassingMoves DEF Telling
<1> QED BY <1>1, <1>2, <1>3, StillBusy

(* The log and what it tells.                                              *)
LEMMA LogGrows ==
  ASSUME Shop, NEW m \in Invoices, Happens(m), NEW k \in DOMAIN log'
  PROVE  /\ Len(log) \in Nat /\ DOMAIN log = 1..Len(log) /\ k \in Nat
         /\ k \in DOMAIN log => log'[k] = log[k] /\ k <= Len(log)
         /\ k \notin DOMAIN log => k > Len(log) /\ log'[k].sub = m /\ log'[k].state = stripe'[m]
  BY DEF Happens, Appends

LEMMA AgreesKept ==
  ASSUME InStep, Next
  PROVE  Agrees'
<1> USE DEF InStep, InOrder, SteadyParts
<1>1. CASE UNCHANGED <<log, stripe>>
  BY <1>1 DEF Agrees, LastOf
<1>2. ASSUME NEW m \in Invoices, Happens(m) PROVE Agrees'
  <2> SUFFICES ASSUME NEW k \in DOMAIN log',
                      \A l \in DOMAIN log' : log'[l].sub = log'[k].sub => l <= k
               PROVE  log'[k].state = stripe'[log'[k].sub]
    BY DEF Agrees, LastOf
  <2>1. CASE k \notin DOMAIN log
    BY <1>2, <2>1, LogGrows
  <2>2. CASE k \in DOMAIN log
    <3>1. PICK n \in Nat : DOMAIN log' = 1..n /\ n > Len(log)
      BY <1>2 DEF Happens, Appends
    <3>2. n \in DOMAIN log' /\ n \notin DOMAIN log /\ log'[n].sub = m
      BY <1>2, <3>1, LogGrows
    <3>3. log'[k] = log[k] /\ k <= Len(log) /\ k \in Nat /\ Len(log) \in Nat
      BY <1>2, <2>2, LogGrows
    <3>4. log[k].sub # m
      BY <3>1, <3>2, <3>3
    <3>5. LastOf(k, DOMAIN log)
      BY <1>2, <3>3, LogGrows DEF LastOf, Happens, Appends
    <3>6. log[k].sub \in Invoices
      BY <2>2, EventNumbers
    <3> QED BY <1>2, <2>2, <3>3, <3>4, <3>5, <3>6 DEF Agrees, Happens
  <2> QED BY <2>1, <2>2
<1> QED BY <1>1, <1>2, ShopLog

(* What was bought is what the session says, before and after.             *)
LEMMA BoughtKept ==
  ASSUME Shop, Next, NEW i \in Invoices, stripe[i].status # "none"
  PROVE  Bought(i)' = Bought(i)
<1> USE DEF Shop, QuietParts, Invariant
<1>1. sessions[i].state = "paid"
  BY DEF Sales, Sale
<1>2. sessions'[i].plan = sessions[i].plan
  <2>1. CASE Starts(i)
    BY <2>1 DEF Starts
  <2>2. ~Expired(i)
    BY <1>1 DEF Expired
  <2>3. ASSUME NEW h \in Handlers, req[h].invoice = i, CommitMove(h) \/ SessionMove(h)
        PROVE  sessions'[i].plan = sessions[i].plan
    <3>1. CASE CommitMove(h)
      BY <2>3, <3>1 DEF CommitMove
    <3>2. CASE SessionMove(h)
      BY <1>1, <2>3, <3>2 DEF SessionMove
    <3> QED BY <2>3, <3>1, <3>2
  <2> QED BY <2>1, <2>2, <2>3, ShopSessions
<1> QED BY <1>2 DEF Bought

LEMMA ShapesKept ==
  ASSUME InStep, Next
  PROVE  Shapes'
<1> USE DEF InStep, InOrder, Shop, Invariant, SteadyParts
<1> SUFFICES ASSUME NEW k \in DOMAIN log' PROVE Shape(log[k])'
  BY DEF Shapes
<1>1. CASE k \in DOMAIN log
  <2>1. log'[k] = log[k] /\ Shape(log[k])
    BY <1>1, NothingUndone DEF Shapes
  <2>2. log[k].sub \in Invoices /\ stripe[log[k].sub].status # "none"
    BY <1>1, EventNumbers DEF Logged
  <2>3. Bought(log[k].sub)' = Bought(log'[k].sub)
    BY <2>1, <2>2, BoughtKept
  <2> QED BY <2>1, <2>3 DEF Shape
<1>2. CASE k \notin DOMAIN log
  <2>1. PICK m \in Invoices : Happens(m)
    BY <1>2, ShopLog
  <2>2. log'[k].sub = m /\ log'[k].state = stripe'[m]
    BY <1>2, <2>1, LogGrows
  <2>3. CASE Starts(m)
    <3>1. Bought(m)' = Bought(m)
      BY <2>3 DEF Starts, Bought
    <3>2. stripe'[m].status = "active" /\ stripe'[m] = Bought(m)
          /\ log'[k].type \in {"completed", "paid"}
      BY <1>2, <2>3 DEF Starts
    <3> QED BY <2>2, <3>1, <3>2 DEF Shape
  <2>4. CASE Continues(m)
    BY <1>2, <2>2, <2>4 DEF Continues, Advances, Shape
  <2>5. CASE Ends(m)
    BY <1>2, <2>2, <2>5 DEF Ends, Shape
  <2> QED BY <2>1, <2>3, <2>4, <2>5 DEF Happens
<1> QED BY <1>1, <1>2

LEMMA ChainKept ==
  ASSUME InStep, Next
  PROVE  Chain'
<1> USE DEF InStep, InOrder, Shop, Invariant, SteadyParts
<1>1. CASE UNCHANGED <<log, stripe>>
  BY <1>1 DEF Chain
<1>2. ASSUME NEW m \in Invoices, Happens(m) PROVE Chain'
  <2> SUFFICES ASSUME NEW j \in DOMAIN log', NEW k \in DOMAIN log',
                      j < k, log'[j].sub = log'[k].sub,
                      \A l \in DOMAIN log' : j < l /\ l < k => log'[l].sub # log'[k].sub
               PROVE  Succeeds(log'[j].state, log'[k].type, log'[k].state)
    BY DEF Chain
  <2>0. /\ Len(log) \in Nat /\ DOMAIN log = 1..Len(log) /\ j \in Nat /\ k \in Nat
        /\ \A l \in DOMAIN log : l \in DOMAIN log' /\ log'[l] = log[l]
    BY <1>2, LogGrows DEF Happens, Appends
  <2>1. CASE k \in DOMAIN log
    <3>1. j \in DOMAIN log
      BY <2>0, <2>1, <1>2, LogGrows
    <3> QED BY <2>0, <2>1, <3>1 DEF Chain
  <2>2. CASE j \notin DOMAIN log /\ k \notin DOMAIN log
    <3>1. log'[j].state = log'[k].state
      BY <1>2, <2>2, LogGrows
    <3> QED BY <3>1 DEF Succeeds
  <2>3. CASE j \in DOMAIN log /\ k \notin DOMAIN log
    <3>1. /\ log'[k].sub = m /\ log'[k].state = stripe'[m] /\ k > Len(log)
          /\ log'[j] = log[j] /\ log[j].sub = m
      BY <1>2, <2>0, <2>3, LogGrows
    <3>2. ASSUME NEW l \in DOMAIN log, log[l].sub = log[j].sub PROVE l <= j
      <4>1. l < k /\ log'[l].sub = log'[k].sub /\ l \in DOMAIN log' /\ l \in Nat
        BY <2>0, <3>1, <3>2
      <4> QED BY <2>0, <4>1
    <3>3. log[j].state = stripe[m]
      BY <2>3, <3>1, <3>2 DEF Agrees, LastOf
    <3>4. stripe[m].status # "none"
      BY <2>3, <3>1 DEF Logged
    <3>5. ~Starts(m)
      BY <3>4 DEF Starts, QuietParts, Sales, Sale
    <3>6. CASE Continues(m)
      BY <2>3, <3>1, <3>3, <3>6 DEF Continues, Advances, Succeeds
    <3>7. CASE Ends(m)
      BY <2>3, <3>1, <3>3, <3>7 DEF Ends, Succeeds
    <3> QED BY <1>2, <3>5, <3>6, <3>7 DEF Happens
  <2> QED BY <2>1, <2>2, <2>3
<1> QED BY <1>1, <1>2, ShopLog

LEMMA TellingWarns ==
  ASSUME InStep, Next, NEW h \in Handlers, Telling(h)
  PROVE  ToCome(sub.link)'
<1> USE DEF InStep, InOrder, Shop, Invariant, SteadyParts
<1> DEFINE i == req[h].seen.link
           s == [stripe[i] EXCEPT !.atEnd = req[h].value]
           types == <<"updated">>
<1>1. /\ req[h].op = "cancel" /\ ~req[h].told
      /\ log' = Emit(types, i, s, 0) /\ UNCHANGED <<sub, processed>>
  BY DEF Telling, CancelStripe
<1>2. i = sub.link /\ i # None /\ i \in Invoices
  <2>1. i = sub.link /\ i # None
    BY <1>1 DEF SeenNow, Hooks
  <2> QED BY <2>1 DEF TypeOK, Subscription
<1>3. s \in StripeSubscription
  <2>1. req[h].value \in BOOLEAN /\ stripe[i] \in StripeSubscription
    BY <1>1, <1>2, RequestParts DEF TypeOK
  <2> QED BY <2>1 DEF StripeSubscription
<1>4. types \in Types /\ Len(types) = 1 /\ types[1] = "updated" /\ 0 \in 0..PeriodBound
  BY BillingAssumption DEF Types
<1> HIDE DEF s, types, i
<1>5. PICK a \in Invoices, b \in StripeSubscription, c \in Types, z \in 0..PeriodBound :
        a = i /\ b = s /\ c = types /\ z = 0
  BY <1>2, <1>3, <1>4
<1>6. log' = Emit(c, a, b, z) /\ Len(c) = 1 /\ c[1] = "updated"
  BY <1>1, <1>4, <1>5
<1>7. /\ Len(log) \in Nat /\ DOMAIN log = 1..Len(log)
      /\ DOMAIN log' = 1..(Len(log) + Len(c)) /\ Len(c) \in Nat
      /\ \A k \in DOMAIN log : k \in DOMAIN log' /\ log'[k] = log[k]
      /\ \A k \in DOMAIN log' \ DOMAIN log :
           /\ k - Len(log) \in 1..Len(c)
           /\ log'[k] = Snapshot(c[k - Len(log)], a, b, z)
  <2>1. TypeOK /\ log' = Emit(c, a, b, z)
    BY <1>6
  <2> HIDE DEF InStep
  <2> QED BY <2>1, AppendedEvents
<1>8. PICK k : k = Len(log) + 1
  OBVIOUS
<1>9. k \in DOMAIN log' /\ k \notin DOMAIN log /\ k - Len(log) = 1
  <2>1. Len(log) \in Nat /\ DOMAIN log = 1..Len(log) /\ DOMAIN log' = 1..(Len(log) + 1)
    BY <1>6, <1>7
  <2> QED BY <1>8, <2>1
<1>10. log'[k].sub = a /\ log'[k].type = "updated"
  BY <1>6, <1>7, <1>9 DEF Snapshot
<1>11. k \notin processed'
  BY <1>1, <1>9 DEF TypeOK
<1> QED BY <1>1, <1>2, <1>5, <1>9, <1>10, <1>11 DEF ToCome

LEMMA WarnedKept ==
  ASSUME InStep, Next
  PROVE  Warned'
<1> USE DEF InStep, InOrder, Shop, Invariant, SteadyParts
<1> SUFFICES ASSUME NEW h \in Handlers, req'[h].op = "cancel", req'[h].told, sub'.link # None
             PROVE  ToCome(sub.link)'
  BY DEF Warned
<1>1. CASE req'[h] = req[h] /\ (Selling \/ Expiring)
  <2>1. UNCHANGED <<sub, processed>>
    BY <1>1, SellingMoves, ExpiringMoves
  <2>2. ToCome(sub.link)
    BY <1>1, <2>1 DEF Warned
  <2> QED BY <2>1, <2>2, NothingUndone DEF ToCome
<1>2. CASE Selling /\ Telling(h)
  BY <1>2, TellingWarns
<1>3. ~Reacting(h)
  BY ReactingMoves
<1>4. ASSUME NEW value \in BOOLEAN, CancelRead(h, value) PROVE FALSE
  BY <1>4, AskingReads
<1> QED BY <1>1, <1>2, <1>3, <1>4, StillBusy

(* What a webhook makes of the row, whoever knows the row as it is.        *)
LEMMA MergeNow ==
  ASSUME NEW s, s = sub, NEW new \in Subscription
  PROVE  Merge(s, new) = new
<1>1. Merge(s, new) = [plan |-> new.plan, pending |-> new.pending, status |-> new.status,
                       link |-> new.link, cancelling |-> new.cancelling]
  BY DEF Merge, Column
<1> QED BY <1>1 DEF Subscription

LEMMA LocalStatuses ==
  /\ LocalStatus("active") = "active" /\ LocalStatus("past_due") = "past_due"
  /\ LocalStatus("canceled") = "cancelled"
  BY DEF LocalStatus

ComesNext(i) ==
  \E l \in DOMAIN log' \ processed' :
    log'[l].sub = i /\ log'[l].type \in {"updated", "deleted"}

(* The row says what the event before k of its subscription says; what k   *)
(* leaves alone it has left as it was.                                     *)
LEMMA Inherits ==
  ASSUME InStep, NEW k, Handles(k), sub.link = log[k].sub
  PROVE  LET e == log[k] IN
         /\ e.type # "updated" => sub.plan = e.state.plan
         /\ e.type \notin {"updated", "deleted"} =>
              sub.cancelling = e.state.atEnd \/ ComesNext(e.sub)
         /\ e.type = "completed" => sub.status = LocalStatus(e.state.status)
<1> USE DEF InStep, InOrder, Shop, Invariant, SteadyParts, TurnParts
<1>1. /\ k \in DOMAIN log \ processed /\ processed \subseteq DOMAIN log
      /\ \A j \in DOMAIN log : j < k => j \in processed
      /\ DOMAIN log = 1..Len(log) /\ Len(log) \in Nat
  BY LogNumbers DEF Handles, UpNext
<1>2. log[k].sub # None
  BY <1>1, EventNumbers, BillingAssumption
<1>3. PICK j \in processed : log[j].sub = sub.link /\ LastOf(j, processed) /\ Says(j)
  BY <1>2 DEF RowSays
<1>4. j < k
  <2>1. ~(k < j)
    BY <1>1, <1>3 DEF Turns
  <2> QED BY <1>1, <1>3, <2>1
<1>5. ASSUME NEW l \in DOMAIN log, j < l, l < k PROVE log[l].sub # log[k].sub
  <2>1. l \in processed
    BY <1>1, <1>5
  <2> QED BY <1>1, <1>3, <1>5, <2>1 DEF LastOf
<1>6. Succeeds(log[j].state, log[k].type, log[k].state)
  BY <1>1, <1>3, <1>4, <1>5 DEF Chain
<1>7. log[k].type \notin {"updated", "deleted"} /\ ToCome(log[k].sub) => ComesNext(log[k].sub)
  BY DEF ToCome, ComesNext, Handles
<1> QED BY <1>3, <1>6, <1>7 DEF Says, Succeeds

(* A subscription that has started was bought by its invoice.              *)
LEMMA BoughtBy ==
  ASSUME Shop, NEW k \in DOMAIN log
  PROVE  LET i == log[k].sub IN
         /\ i \in Invoices /\ Exists(i) /\ inv[i].plan # None
         /\ inv[i].plan = sessions[i].plan
         /\ Bought(i).status = "active" /\ Bought(i).plan = inv[i].plan /\ ~Bought(i).atEnd
<1> USE DEF Shop, QuietParts, Invariant
<1> DEFINE i == log[k].sub
<1>1. i \in Invoices /\ Exists(i) /\ stripe[i].status # "none"
  BY EventParts DEF EventsExist, Logged
<1>2. sessions[i].state = "paid" /\ inv[i].plan # None
  BY <1>1 DEF Sales, Sale
<1>3. inv[i].plan = sessions[i].plan
  BY <1>1, <1>2 DEF Sales, Sale, Matches
<1> QED BY <1>1, <1>2, <1>3 DEF Bought

(* An event of a subscription whose invoice is paid is about the one the   *)
(* company is linked to.                                                   *)
LEMMA StillLinked ==
  ASSUME InOrder, NEW k, UpNext(k), ~Deleted(k), inv[log[k].sub].status = "paid"
  PROVE  sub.link = log[k].sub
<1>1. k \in DOMAIN log
  BY DEF UpNext
<1>2. Bound(log[k].sub) /\ log[k].sub \in Invoices
  BY <1>1, BoughtBy DEF InOrder, Bound
<1> QED BY <1>2, StillServed DEF InOrder, TurnParts, Follow

(* The row after event k was handled says what k says.                     *)
Follows(k) ==
  LET e == log[k] IN
  /\ sub'.link = e.sub /\ sub'.plan = e.state.plan
  /\ sub'.status = LocalStatus(e.state.status)
  /\ sub'.cancelling = e.state.atEnd \/ ComesNext(e.sub)

LEMMA ReportFollows ==
  ASSUME InStep, NEW h \in Handlers, HookReport(h)
  PROVE  \E k : Handles(k) /\ Follows(k)
<1> USE DEF InStep, InOrder, Shop, Invariant, SteadyParts
<1> PICK k : k = req[h].event
  OBVIOUS
<1> PICK e : e = log[k]
  OBVIOUS
<1>0. /\ req[h].op = "hook" /\ e.type # "paid" /\ UNCHANGED <<log, stripe>>
      /\ sub' = Merge(req[h].seen, Reported(e, req[h].seen))
      /\ processed' = processed \union {k}
  BY DEF HookReport, stripeVars
<1>1. /\ req[h].seen = sub /\ sub \in Subscription /\ UpNext(k) /\ sub.link = e.sub
  BY <1>0 DEF SeenNow, TurnParts, AllNext, QuietParts, Reports, Report, TypeOK
<1>2. k \in DOMAIN log /\ e \in Event /\ e.type \in {"failed", "updated", "deleted"}
      /\ Begun(e.state)
  <2>1. k \in DOMAIN log /\ e.type # "completed"
    BY <1>0 DEF Hooks
  <2>2. Begun(e.state) /\ e.type \in {"completed", "paid", "failed", "updated", "deleted"}
    BY <2>1, EventParts
  <2> QED BY <1>0, <2>1, <2>2 DEF TypeOK
<1>3. Reported(e, sub) \in Subscription
  BY <1>1, <1>2, ReportedType
<1>4. sub' = Reported(e, sub)
  BY <1>0, <1>1, <1>3, MergeNow
<1>5. Handles(k)
  BY <1>0, <1>1 DEF Handles
<1>6. Shape(e)
  BY <1>2 DEF Shapes
<1>7. /\ e.type # "updated" => sub.plan = e.state.plan
      /\ e.type = "failed" => sub.cancelling = e.state.atEnd \/ ComesNext(e.sub)
  BY <1>1, <1>5, Inherits
<1>8. CASE e.type = "updated"
  <2>1. /\ sub'.link = sub.link /\ sub'.plan = e.state.plan
        /\ sub'.status = LocalStatus(e.state.status) /\ sub'.cancelling = e.state.atEnd
    BY <1>1, <1>4, <1>8 DEF Reported, Subscription
  <2> QED BY <1>1, <1>5, <2>1 DEF Follows
<1>9. CASE e.type = "failed"
  <2>1. /\ sub'.link = sub.link /\ sub'.plan = sub.plan
        /\ sub'.status = "past_due" /\ sub'.cancelling = sub.cancelling
    BY <1>1, <1>4, <1>9 DEF Reported, Subscription
  <2>2. LocalStatus(e.state.status) = "past_due"
    BY <1>6, <1>9, LocalStatuses DEF Shape
  <2> QED BY <1>1, <1>5, <1>7, <1>9, <2>1, <2>2 DEF Follows
<1>10. CASE e.type = "deleted"
  <2>1. /\ sub'.link = sub.link /\ sub'.plan = sub.plan
        /\ sub'.status = "cancelled" /\ sub'.cancelling = FALSE
    BY <1>1, <1>4, <1>10 DEF Reported, Subscription
  <2>2. LocalStatus(e.state.status) = "cancelled" /\ ~e.state.atEnd
    BY <1>6, <1>10, LocalStatuses DEF Shape
  <2>3. e.state.atEnd = FALSE
    BY <1>2, <2>2 DEF Event, StripeSubscription
  <2> QED BY <1>1, <1>5, <1>7, <1>10, <2>1, <2>2, <2>3 DEF Follows
<1> QED BY <1>2, <1>8, <1>9, <1>10

LEMMA PaidFollows ==
  ASSUME InStep, NEW h \in Handlers, HookSettle(h) \/ HookMirror(h) \/ HookRenew(h)
  PROVE  \E k : Handles(k) /\ Follows(k)
<1> USE DEF InStep, InOrder, Shop, Invariant, SteadyParts
<1> PICK k : k = req[h].event
  OBVIOUS
<1> PICK e : e = log[k]
  OBVIOUS
<1>1. /\ req[h].op = "hook" /\ e.type = "paid" /\ UNCHANGED <<log, stripe>>
      /\ processed' = processed \union {k}
  BY DEF HookSettle, HookMirror, HookRenew, stripeVars
<1>2. /\ req[h].seen = sub /\ sub \in Subscription /\ UpNext(k) /\ k \in DOMAIN log
      /\ Report(h) /\ e.sub \in Invoices
  BY <1>1, EventNumbers DEF SeenNow, TurnParts, AllNext, QuietParts, Reports, TypeOK, UpNext
<1>3. Handles(k)
  BY <1>1, <1>2 DEF Handles
<1>4. Shape(e) /\ LocalStatus(e.state.status) = "active"
  BY <1>1, <1>2, LocalStatuses DEF Shapes, Shape
<1>5. Linked(req[h], e) = [sub EXCEPT !.link = e.sub, !.status = "active"]
  BY <1>2 DEF Linked
<1>6. Linked(req[h], e) \in Subscription
  BY <1>2, LinkedType
<1>7. CASE HookSettle(h)
  <2>1. PICK i \in req[h].found :
          sub' = Merge(req[h].seen, Activated(Linked(req[h], e), inv[i].plan))
    BY <1>7 DEF HookSettle
  <2>2. req[h].settles /\ i = e.sub /\ inv[i].status = "open"
    BY <1>1, <1>2, <1>7, <2>1 DEF HookSettle, Report, Settling
  <2>3. e.period = 0
    <3>1. ASSUME e.period > 0 PROVE FALSE
      <4>1. PICK j \in DOMAIN log : j < k /\ Begins(j, e.sub)
        BY <1>1, <1>2, <3>1 DEF TurnParts, Turns, Renews
      <4>2. j \in processed
        BY <1>2, <4>1 DEF UpNext
      <4>3. inv[e.sub].status = "paid"
        BY <1>2, <4>1, <4>2 DEF TurnParts, Honoured
      <4> QED BY <2>2, <4>3
    <3>2. e.period \in Nat
      BY <1>2, EventNumbers
    <3> QED BY <3>1, <3>2
  <2>4. e.state = Bought(e.sub)
    BY <1>1, <1>4, <2>3 DEF Shape
  <2>5. /\ inv[i].plan # None /\ e.state.plan = inv[i].plan /\ ~e.state.atEnd
        /\ inv[i].plan \in Plans
    BY <1>2, <2>2, <2>4, BoughtBy DEF TypeOK, Invoice
  <2>6. Activated(Linked(req[h], e), inv[i].plan) \in Subscription
    BY <1>6, <2>5, ActivatedType
  <2>7. sub' = Activated(Linked(req[h], e), inv[i].plan)
    BY <1>2, <2>1, <2>6, MergeNow
  <2>8. /\ sub'.link = e.sub /\ sub'.plan = inv[i].plan
        /\ sub'.status = "active" /\ sub'.cancelling = FALSE
    <3>1. ASSUME NEW s \in Subscription, NEW p \in Plans, p # None, s.link = e.sub
          PROVE  /\ Activated(s, p).link = e.sub /\ Activated(s, p).plan = p
                 /\ Activated(s, p).status = "active" /\ Activated(s, p).cancelling = FALSE
      BY <3>1 DEF Activated, Subscription
    <3>2. Linked(req[h], e).link = e.sub
      BY <1>2, <1>5 DEF Subscription
    <3> QED BY <1>6, <2>5, <2>7, <3>1, <3>2
  <2>9. e.state.atEnd = FALSE
    BY <2>4 DEF Bought
  <2> QED BY <1>3, <1>4, <2>5, <2>8, <2>9 DEF Follows
<1>8. CASE HookMirror(h) \/ HookRenew(h)
  <2>1. sub' = Merge(req[h].seen, Linked(req[h], e)) /\ ~req[h].settles
    <3>1. sub' = Merge(req[h].seen, Linked(req[h], e)) /\ (req[h].found = {} \/ ~req[h].settles)
      BY <1>8 DEF HookMirror, HookRenew
    <3> QED BY <1>1, <1>2, <3>1 DEF Report
  <2>2. sub.link = e.sub
    <3>1. inv[e.sub].status = "paid" /\ ~Deleted(k)
      BY <1>1, <1>2, <2>1 DEF Report, Deleted
    <3> QED BY <1>2, <3>1, StillLinked
  <2>3. sub' = Linked(req[h], e)
    BY <1>2, <1>6, <2>1, MergeNow
  <2>4. /\ sub'.link = e.sub /\ sub'.plan = sub.plan
        /\ sub'.status = "active" /\ sub'.cancelling = sub.cancelling
    BY <1>2, <1>5, <2>3 DEF Subscription
  <2>5. sub.plan = e.state.plan /\ (sub.cancelling = e.state.atEnd \/ ComesNext(e.sub))
    BY <1>1, <1>3, <2>2, Inherits
  <2> QED BY <1>3, <1>4, <2>4, <2>5 DEF Follows
<1> QED BY <1>7, <1>8

LEMMA CompletedFollows ==
  ASSUME InStep, NEW h \in Handlers, NEW k \in DOMAIN log, HookCompleted(h, k)
  PROVE  Handles(k) /\ Follows(k)
<1> USE DEF InStep, InOrder, Shop, Invariant, SteadyParts
<1> DEFINE e == log[k]
           i == e.sub
<1>1. /\ e.type = "completed" /\ UNCHANGED <<log, stripe>>
      /\ processed' = processed \union {k}
  BY DEF HookCompleted, stripeVars
<1>2. UpNext(k)
  BY Delivered DEF HookCompleted
<1>3. Handles(k)
  BY <1>1, <1>2 DEF Handles
<1>4. sub \in Subscription /\ i \in Invoices /\ Exists(i) /\ inv[i].plan # None
  BY BoughtBy DEF TypeOK
<1>5. e.state = Bought(i)
  BY <1>1 DEF Shapes, Shape
<1>6. /\ e.state.status = "active" /\ e.state.plan = inv[i].plan /\ e.state.atEnd = FALSE
  BY <1>5, BoughtBy DEF Bought
<1>7. CASE inv[i].status = "open"
  <2>1. sub' = [Activated(sub, inv[i].plan) EXCEPT !.link = i]
    BY <1>7 DEF HookCompleted
  <2>2. inv[i].plan \in Plans
    BY <1>4 DEF TypeOK, Invoice
  <2>3. Activated(sub, inv[i].plan) =
          [sub EXCEPT !.plan = inv[i].plan, !.pending = None, !.status = "active",
                      !.cancelling = FALSE]
    BY <1>4 DEF Activated
  <2>4. Activated(sub, inv[i].plan) \in Subscription
    BY <1>4, <2>2, ActivatedType
  <2>5. /\ sub'.link = i /\ sub'.plan = Activated(sub, inv[i].plan).plan
        /\ sub'.status = Activated(sub, inv[i].plan).status
        /\ sub'.cancelling = Activated(sub, inv[i].plan).cancelling
    BY <2>1, <2>4 DEF Subscription
  <2>6. /\ Activated(sub, inv[i].plan).plan = inv[i].plan
        /\ Activated(sub, inv[i].plan).status = "active"
        /\ Activated(sub, inv[i].plan).cancelling = FALSE
    BY <1>4, <2>3 DEF Subscription
  <2> QED BY <1>3, <1>6, <2>5, <2>6, LocalStatuses DEF Follows
<1>8. CASE inv[i].status # "open"
  <2>1. sub' = [sub EXCEPT !.link = i]
    BY <1>8 DEF HookCompleted
  <2>2. inv[i].status = "paid"
    BY <1>4, <1>8 DEF QuietParts, Sales, Sale, Exists, TypeOK, Invoice
  <2>3. sub.link = i
    BY <1>1, <1>2, <2>2, StillLinked DEF Deleted
  <2>4. /\ sub'.link = i /\ sub'.plan = sub.plan /\ sub'.status = sub.status
        /\ sub'.cancelling = sub.cancelling
    BY <1>4, <2>1, <2>3 DEF Subscription
  <2>5. /\ sub.plan = e.state.plan /\ sub.status = LocalStatus(e.state.status)
        /\ sub.cancelling = e.state.atEnd \/ ComesNext(i)
    BY <1>1, <1>3, <2>3, Inherits
  <2> QED BY <1>3, <2>4, <2>5 DEF Follows
<1> QED BY <1>7, <1>8

LEMMA FollowsSays ==
  ASSUME InStep, NEW k, Handles(k), Follows(k)
  PROVE  RowSays'
<1> USE DEF InStep, InOrder, Shop, Invariant, SteadyParts
<1>1. /\ k \in DOMAIN log \ processed /\ processed \subseteq DOMAIN log
      /\ \A j \in DOMAIN log : j < k => j \in processed
      /\ DOMAIN log = 1..Len(log) /\ Len(log) \in Nat
      /\ processed' = processed \union {k} /\ log' = log
  BY LogNumbers DEF Handles, UpNext
<1>2. ASSUME NEW j \in processed PROVE j <= k
  <2>1. ~(k < j)
    BY <1>1, <1>2 DEF TurnParts, Turns
  <2> QED BY <1>1, <1>2, <2>1
<1>3. \A j \in processed' : j <= k
  BY <1>1, <1>2
<1>4. /\ sub'.link = log'[k].sub /\ sub'.plan = log'[k].state.plan
      /\ sub'.status = LocalStatus(log'[k].state.status)
      /\ sub'.cancelling = log'[k].state.atEnd \/ ComesNext(log'[k].sub)
  BY <1>1 DEF Follows
<1>5. k \in processed'
  BY <1>1
<1> QED BY <1>3, <1>4, <1>5 DEF RowSays, LastOf, Says, ToCome, ComesNext

(* The row stays, or only its flag changes and an event is to come.        *)
LEMMA RowStays ==
  ASSUME InStep, Next, UNCHANGED processed,
         sub'.link = sub.link, sub'.plan = sub.plan, sub'.status = sub.status,
         sub'.cancelling = sub.cancelling \/ (sub.link # None => ToCome(sub.link))
  PROVE  RowSays'
<1> USE DEF InStep, InOrder, Shop, Invariant, SteadyParts
<1> SUFFICES ASSUME sub.link # None
             PROVE  (\E k \in processed : log[k].sub = sub.link /\ LastOf(k, processed) /\ Says(k))'
  BY DEF RowSays
<1>1. PICK k \in processed : log[k].sub = sub.link /\ LastOf(k, processed) /\ Says(k)
  BY DEF RowSays
<1>2. \A l \in DOMAIN log : l \in DOMAIN log' /\ log'[l] = log[l]
  BY NothingUndone
<1>3. processed \subseteq DOMAIN log
  BY DEF TypeOK
<1>4. ToCome(sub.link) => ToCome(log[k].sub)'
  BY <1>1, <1>2, <1>3 DEF ToCome
<1>5. sub'.cancelling = log'[k].state.atEnd \/ ToCome(log[k].sub)'
  BY <1>1, <1>2, <1>3, <1>4 DEF Says
<1>6. LastOf(k, processed)'
  BY <1>1, <1>2, <1>3 DEF LastOf
<1> QED BY <1>1, <1>2, <1>3, <1>5, <1>6 DEF Says

LEMMA AskingStays ==
  ASSUME InStep, Next, NEW h \in Handlers, CancelCommit(h)
  PROVE  RowSays'
<1> USE DEF InStep, InOrder, Shop, Invariant, SteadyParts
<1>1. /\ Passing(h) /\ req[h].op = "cancel" /\ req[h].told
  BY DEF Passing, Asking, CancelCommit
<1>2. UNCHANGED processed /\ AsItWas
  BY <1>1, PassingMoves
<1>3. sub.link # None => ToCome(sub.link)
  BY <1>1 DEF Warned
<1> QED BY <1>2, <1>3, RowStays DEF AsItWas

LEMMA IgnoringStays ==
  ASSUME InStep, NEW h \in Handlers, NEW k \in DOMAIN log, HookIgnore(h, k)
  PROVE  RowSays'
<1> USE DEF InStep, InOrder, Shop, Invariant, SteadyParts
<1>1. /\ UNCHANGED <<sub, log>> /\ sub.link # log[k].sub
      /\ processed' = processed \union {k}
  BY IgnoringMoves DEF Finds
<1> SUFFICES ASSUME sub.link # None
             PROVE  (\E j \in processed : log[j].sub = sub.link /\ LastOf(j, processed) /\ Says(j))'
  BY <1>1 DEF RowSays
<1>2. PICK j \in processed : log[j].sub = sub.link /\ LastOf(j, processed) /\ Says(j)
  BY DEF RowSays
<1>3. LastOf(j, processed)'
  BY <1>1, <1>2 DEF LastOf
<1>4. ToCome(log[j].sub) => ToCome(log[j].sub)'
  BY <1>1, <1>2 DEF ToCome
<1> QED BY <1>1, <1>2, <1>3, <1>4 DEF Says

LEMMA RowSaysKept ==
  ASSUME InStep, Next
  PROVE  RowSays'
<1> USE DEF InStep, InOrder, Shop, Invariant, SteadyParts
<1>1. CASE Selling \/ Expiring
  BY <1>1, SellingMoves, ExpiringMoves, RowStays
<1>2. ASSUME NEW h \in Handlers, Beginning(h) \/ Reacting(h) PROVE RowSays'
  BY <1>2, BeginningMoves, ReactingMoves, RowStays
<1>3. ASSUME NEW h \in Handlers, Passing(h) PROVE RowSays'
  <2>1. CASE Dropping(h)
    <3>1. UNCHANGED <<sub, processed>>
      BY <2>1, DroppingKept
    <3> QED BY <3>1, RowStays
  <2>2. ASSUME NEW value \in BOOLEAN, CancelRead(h, value) PROVE RowSays'
    <3>1. UNCHANGED <<sub, processed>>
      BY <2>2 DEF CancelRead
    <3> QED BY <3>1, RowStays
  <2>3. CASE CancelCommit(h)
    BY <2>3, AskingStays
  <2> QED BY <1>3, <2>1, <2>2, <2>3 DEF Passing, Asking
<1>4. ASSUME NEW h \in Handlers, Checking(h) PROVE RowSays'
  BY <1>4, CheckingMoves, CheckingSubscription, RowStays
<1>5. ASSUME NEW h \in Handlers, Hooking(h) PROVE RowSays'
  BY <1>5, ReportFollows, PaidFollows, FollowsSays DEF Hooking
<1>6. ASSUME NEW h \in Handlers, Completing(h) PROVE RowSays'
  BY <1>6, CompletedFollows, FollowsSays, IgnoringStays DEF Completing
<1> QED BY <1>1, <1>2, <1>3, <1>4, <1>5, <1>6, ShopSteps

LEMMA AgreeingKept ==
  ASSUME Invariant, Quiet, Ordered, Agreeing, Next
  PROVE  Agreeing'
<1>1. Steady' => Steady
  BY NothingUndone DEF Steady, InTurn, CheckoutOnly
<1>2. ASSUME Steady PROVE SteadyParts'
  <2>1. InStep
    BY <1>2 DEF Quiet, Shop, Ordered, InOrder, Steady, InTurn, Agreeing, InStep
  <2> QED BY <2>1, OneBusyKept, SeenNowKept, SettlingKept, AgreesKept, ShapesKept, ChainKept,
             WarnedKept, RowSaysKept DEF SteadyParts
<1> QED BY <1>1, <1>2 DEF Agreeing

LEMMA InitAgreeing == Init => Agreeing
<1> SUFFICES ASSUME Init PROVE SteadyParts
  BY DEF Agreeing
<1>1. /\ \A h \in Handlers : req[h] = Idle
      /\ log = <<>> /\ processed = {} /\ sub.link = None
  BY DEF Init
<1>2. DOMAIN log = {} /\ Idle.op = "idle"
  BY <1>1 DEF Idle
<1>3. OneBusy /\ SeenNow /\ Settling /\ Warned
  BY <1>1, <1>2 DEF OneBusy, SeenNow, Settling, Warned
<1>4. Agrees /\ Shapes /\ Chain /\ RowSays
  BY <1>1, <1>2 DEF Agrees, Shapes, Chain, RowSays
<1> QED BY <1>3, <1>4 DEF SteadyParts

LEMMA StutterAgreeing ==
  ASSUME Agreeing, UNCHANGED vars
  PROVE  Agreeing'
<1>1. UNCHANGED <<env, sub, inv, sessions, stripe, log, processed, req>>
  BY DEF vars, stripeVars
<1>2. Steady' <=> Steady
  BY <1>1 DEF Steady, InTurn, CheckoutOnly
<1>3. (OneBusy' <=> OneBusy) /\ (SeenNow' <=> SeenNow) /\ (Settling' <=> Settling)
  BY <1>1 DEF OneBusy, SeenNow, Settling
<1>4. (Agrees' <=> Agrees) /\ (Chain' <=> Chain)
  BY <1>1 DEF Agrees, LastOf, Chain, Succeeds
<1>5. Shapes' <=> Shapes
  BY <1>1 DEF Shapes, Shape, Bought
<1>6. (Warned' <=> Warned) /\ (RowSays' <=> RowSays)
  BY <1>1 DEF Warned, RowSays, LastOf, Says, ToCome
<1> QED BY <1>2, <1>3, <1>4, <1>5, <1>6 DEF Agreeing, SteadyParts

(* stripe_service.py process_event, service.py set_cancel_at_period_end:   *)
(* for a company that buys its plans at Stripe, one request or webhook at  *)
(* a time and in order, the row always says what the last event handled of *)
(* its Stripe subscription says; where the cancellation flag differs, an   *)
(* event that carries it is still to come.                                 *)
THEOREM BillingAgreeing == Spec => []Agreeing
<1>1. Invariant /\ Quiet /\ Ordered /\ Agreeing /\ [Next]_vars => Agreeing'
  BY AgreeingKept, StutterAgreeing
<1> QED BY <1>1, InitAgreeing, BillingInvariant, BillingQuiet, BillingOrdered, PTL DEF Spec

(* stripe_service.py process_event, and the cancellation and the portal    *)
(* around it: once every webhook is handled the subscriptions row agrees   *)
(* with Stripe in its plan, its status and its cancellation flag.          *)
THEOREM CurrentHolds == Spec => []Current
<1>1. ASSUME Invariant, Agreeing,
             env.faults \intersect {"parallel", "overlap", "reorder"} = {},
             env.operations \intersect {"change", "pay", "charge", "void", "reprice"} = {},
             processed = DOMAIN log, NEW i \in Invoices, sub.link = i
      PROVE  /\ sub.status = LocalStatus(stripe[i].status)
             /\ sub.plan = stripe[i].plan
             /\ sub.cancelling = stripe[i].atEnd
  <2>1. env.operations \subseteq Operations
    BY <1>1, BillingAssumption DEF Invariant, TypeOK, Environment
  <2>2. env.operations \subseteq {"checkout", "cancel", "renew", "fail", "end", "portal"}
    BY <1>1, <2>1 DEF Operations
  <2>3. SteadyParts
    BY <1>1, <2>2 DEF Agreeing, Steady, InTurn, CheckoutOnly
  <2>4. i # None
    BY BillingAssumption
  <2>5. PICK k \in processed : log[k].sub = i /\ LastOf(k, processed) /\ Says(k)
    BY <1>1, <2>3, <2>4 DEF SteadyParts, RowSays
  <2>6. log[k].state = stripe[i]
    BY <1>1, <2>3, <2>5 DEF SteadyParts, Agrees
  <2>7. ~ToCome(i)
    BY <1>1 DEF ToCome
  <2> QED BY <2>5, <2>6, <2>7 DEF Says
<1>2. Invariant /\ Agreeing => Current
  BY <1>1 DEF Current
<1> QED BY <1>2, BillingInvariant, BillingAgreeing, PTL

-----------------------------------------------------------------------------
(* What the books say.                                                     *)

(* Stripe charges for a paid session only, and for a period of its         *)
(* subscription only once.                                                 *)
Charging ==
  /\ \A i \in Invoices : stripe[i].status # "none" => sessions[i].state = "paid"
  /\ \A k \in DOMAIN log : log[k].period <= period[log[k].sub]
  /\ \A k, l \in DOMAIN log :
       /\ log[k].type = "paid" /\ log[l].type = "paid"
       /\ log[k].sub = log[l].sub /\ log[k].period = log[l].period
       => k = l

(* Every payment is of an invoice that exists; while administrators do not *)
(* use Stripe's references, there is one for a Checkout only when its      *)
(* invoice is closed, and one for a Stripe invoice only when its event has *)
(* been handled.                                                           *)
Distinct == Refs \intersect StripeRefs = {}
Balances == \A i \in Invoices : inv[i].paid + inv[i].due = inv[i].total
Receipt(p) ==
  /\ Exists(p.invoice)
  /\ \A i \in Invoices : p.ref = <<"checkout", i>> => inv[i].status \in {"paid", "void"}
  /\ \A x \in StripeInvoices : p.ref = <<"invoice", x>> =>
       \E k \in processed : log[k].type = "paid" /\ <<log[k].sub, log[k].period>> = x
Receipts == Distinct => \A p \in payments : Receipt(p)
Countable == \A i \in Invoices : IsFiniteSet(MinorUnits(i))

(* Unless they overlap there is one payment or webhook at a time, and what *)
(* a webhook will settle still has the amount due that Stripe charged.     *)
Posting == {h \in Handlers : req[h].op \in {"pay", "hook"}}
Unposted(h) ==
  /\ req[h].event \notin processed
  /\ req[h].settles => \A i \in req[h].found : inv[i].due = Charged(log[req[h].event])
Posts ==
  "overlap" \notin env.faults =>
    \A h \in Posting : Posting = {h} /\ (req[h].op = "hook" => Unposted(h))

Books == Charging /\ Balances /\ Receipts /\ Countable /\ Posts /\ BooksBalance
Ledger == Invariant /\ Books

(* What a step does to the invoices: it writes one of them at most, and    *)
(* with it at most one payment.                                            *)
Writes(i, status, total, paid, due) ==
  /\ i \in Invoices
  /\ \A j \in Invoices : j # i => inv'[j] = inv[j]
  /\ inv'[i].status = status
  /\ inv'[i].total = total /\ inv'[i].paid = paid /\ inv'[i].due = due
Opens(i) ==
  /\ ~Exists(i) /\ UNCHANGED payments
  /\ inv'[i].due \in Nat /\ Writes(i, "open", inv'[i].due, 0, inv'[i].due)
Marks(i) ==
  UNCHANGED payments /\ Writes(i, inv[i].status, inv[i].total, inv[i].paid, inv[i].due)
Voids(i) ==
  /\ Exists(i) /\ inv[i].total = inv[i].paid
  /\ UNCHANGED payments /\ Writes(i, "void", inv[i].total, inv[i].paid, 0)
Receives(h) ==
  LET r == req[h]  i == r.invoice IN
  /\ h \in Handlers /\ r.op = "pay" /\ r.ref \in Refs
  /\ \A p \in payments : p.ref # r.ref
  /\ payments' = payments \union {[ref |-> r.ref, invoice |-> i, amount |-> r.amount]}
  /\ \E status \in {"open", "paid"} :
       Writes(i, status, inv[i].total, inv[i].paid + r.amount, inv[i].due - r.amount)
Completed(h, k) ==
  LET i == log[k].sub IN
  /\ k \in DOMAIN log /\ Deliverable(h, k) /\ inv[i].status = "open"
  /\ Charged(log[k]) = inv[i].due
  /\ Writes(i, "paid", inv[i].total, inv[i].total, 0)
  /\ PayFor(<<"checkout", i>>, i, Charged(log[k]))
SettledBy(h, i) ==
  LET r == req[h]  e == log[r.event] IN
  /\ h \in Handlers /\ r.op = "hook" /\ e.type = "paid" /\ r.settles /\ i \in r.found
  /\ Writes(i, "paid", inv[i].total, inv[i].total, 0)
  /\ PayFor(PaidRef(e), i, Charged(e))
  /\ processed' = processed \union {r.event}
MirroredBy(h, i) ==
  LET r == req[h]  e == log[r.event] IN
  /\ h \in Handlers /\ r.op = "hook" /\ e.type = "paid" /\ ~Exists(i)
  /\ Writes(i, "paid", Charged(e), Charged(e), 0)
  /\ PayFor(PaidRef(e), i, Charged(e))
  /\ processed' = processed \union {r.event}
Keeping == UNCHANGED <<inv, payments>>

LEMMA OpeningRow ==
  ASSUME TypeOK, NEW i \in Invoices, ~Exists(i), NEW p \in Plans \union {None}, NEW n \in Nat,
         inv' = [inv EXCEPT ![i] = OpenInvoice(p, n)], UNCHANGED payments
  PROVE  Opens(i)
<1> DEFINE row == OpenInvoice(p, n)
<1>1. row.status = "open" /\ row.total = n /\ row.paid = 0 /\ row.due = n
  BY DEF OpenInvoice, Absent
<1> HIDE DEF row
<1>2. inv'[i] = row /\ \A j \in Invoices : j # i => inv'[j] = inv[j]
  BY DEF row, TypeOK
<1> QED BY <1>1, <1>2 DEF Opens, Writes

(* A plan change, a Checkout or a charge opens an invoice at most.         *)
LEMMA OpeningSteps ==
  ASSUME Invariant,
         Administering \/ \E h \in Handlers : Changing(h) \/ Checking(h)
  PROVE  Keeping \/ \E i \in Invoices : Opens(i)
<1> USE DEF Invariant
<1>1. ASSUME NEW i \in Invoices, NEW amount \in Prices, Charge(i, amount)
      PROVE  Opens(i)
  <2>1. amount \in Nat
    BY BillingAssumption
  <2>2. ~Exists(i)
    BY <1>1, UnusedFresh DEF Charge, Fresh
  <2> QED BY <1>1, <2>1, <2>2, OpeningRow DEF Charge
<1>2. CASE \E p \in Plans, amount \in Prices : Reprice(p, amount)
  BY <1>2 DEF Reprice, Keeping
<1>3. ASSUME NEW h \in Handlers, ChangeFree(h) \/ CancelCommit(h)
      PROVE  Keeping
  BY <1>3 DEF ChangeFree, CancelCommit, Keeping
<1>4. ASSUME NEW h \in Handlers, ChangeInvoice(h)
      PROVE  \E i \in Invoices : Opens(i)
  <2>1. req[h].plan \in Plans /\ req[h].price \in Nat
    BY <1>4, RequestParts DEF ChangeInvoice, TypeOK
  <2>2. PICK i \in Invoices :
          Unused(i) /\ inv' = [inv EXCEPT ![i] = OpenInvoice(req[h].plan, req[h].price)]
    BY <1>4 DEF ChangeInvoice
  <2>3. ~Exists(i) /\ UNCHANGED payments
    BY <1>4, <2>2, UnusedFresh DEF ChangeInvoice, Fresh
  <2> QED BY <2>1, <2>2, <2>3, OpeningRow
<1>5. ASSUME NEW h \in Handlers, Checking(h)
      PROVE  Keeping \/ \E i \in Invoices : Opens(i)
  <2>1. /\ req[h].op = "checkout" /\ UNCHANGED payments
        /\ UNCHANGED inv \/ SaveInvoice(h)
    BY <1>5, CheckingKept DEF Checking, CheckoutCustomer, CheckoutSession, CheckoutCommit
  <2>2. req[h].plan \in Plans /\ req[h].price \in Nat /\ req[h].invoice \in Invoices
    BY <2>1, RequestParts DEF TypeOK
  <2>3. CASE ~req[h].fresh
    BY <2>1, <2>3 DEF SaveInvoice, Keeping
  <2>4. CASE req[h].fresh /\ SaveInvoice(h)
    <3>1. ~Exists(req[h].invoice)
      BY <2>1, <2>4 DEF Reserved
    <3>2. inv' = [inv EXCEPT ![req[h].invoice] = OpenInvoice(req[h].plan, req[h].price)]
      BY <2>4 DEF SaveInvoice
    <3> QED BY <2>1, <2>2, <3>1, <3>2, OpeningRow
  <2> QED BY <2>1, <2>3, <2>4 DEF Keeping
<1> QED BY <1>1, <1>2, <1>3, <1>4, <1>5 DEF Administering, Changing

(* A payment adds its amount to an open invoice; an invoice is voided only *)
(* when what is due can be 0.                                              *)
LEMMA BookingSteps ==
  ASSUME Invariant, Balances, NEW h \in Handlers, Booking(h)
  PROVE  Receives(h) \/ Keeping \/ \E i \in Invoices : Voids(i)
<1> USE DEF Invariant
<1> DEFINE i == req[h].invoice
<1>1. i \in Invoices /\ inv[i] \in Invoice /\ Exists(i)
  BY BookedRow DEF TypeOK
<1>2. CASE PayCommit(h)
  <2> DEFINE row == Received(inv[i], req[h].amount)
  <2>1. req[h].op = "pay" /\ req[h].ref \in Refs /\ req[h].amount \in Nat
    BY <1>2, RequestParts DEF PayCommit, TypeOK
  <2>2. /\ row.status \in {"open", "paid"} /\ row.total = inv[i].total
        /\ row.paid = inv[i].paid + req[h].amount /\ row.due = inv[i].due - req[h].amount
    BY <1>1 DEF Received, Invoice
  <2>3. inv' = [inv EXCEPT ![i] = row]
    BY <1>2 DEF PayCommit
  <2> HIDE DEF row
  <2>4. inv'[i] = row /\ \A j \in Invoices : j # i => inv'[j] = inv[j]
    BY <1>1, <2>3 DEF TypeOK
  <2>5. Writes(i, row.status, inv[i].total, inv[i].paid + req[h].amount,
               inv[i].due - req[h].amount)
    BY <1>1, <2>2, <2>4 DEF Writes
  <2>6. \A p \in payments : p.ref # req[h].ref
    BY <1>2 DEF PayCommit
  <2>7. payments' = payments \union {[ref |-> req[h].ref, invoice |-> i, amount |-> req[h].amount]}
    BY <1>2 DEF PayCommit
  <2> QED BY <2>1, <2>2, <2>5, <2>6, <2>7 DEF Receives
<1>3. CASE VoidCommit(h)
  <2> DEFINE row == Voided(inv[i])
  <2>1. UNCHANGED payments /\ (~Balanced(row) => UNCHANGED inv)
    BY <1>3 DEF VoidCommit
  <2>2. CASE Balanced(row)
    <3>1. inv' = [inv EXCEPT ![i] = row]
      BY <1>3, <2>2 DEF VoidCommit
    <3>2. /\ row.status = "void" /\ row.total = inv[i].total /\ row.paid = inv[i].paid
          /\ row.due = 0
      BY <1>1 DEF Voided, Invoice
    <3>3. row.due = row.total - row.paid
      BY <2>2 DEF Balanced
    <3> HIDE DEF row
    <3>4. inv[i].total \in Nat /\ inv[i].paid \in Nat
      BY <1>1 DEF Invoice
    <3>5. inv[i].total = inv[i].paid
      BY <3>2, <3>3, <3>4
    <3>6. inv'[i] = row /\ \A j \in Invoices : j # i => inv'[j] = inv[j]
      BY <1>1, <3>1 DEF TypeOK
    <3> QED BY <1>1, <2>1, <3>2, <3>5, <3>6 DEF Voids, Writes
  <2> QED BY <2>1, <2>2 DEF Keeping
<1> QED BY <1>2, <1>3 DEF Booking

(* checkout.session.completed settles the invoice while it is open, and    *)
(* only notes the Stripe invoice otherwise.                                *)
LEMMA CompletingSteps ==
  ASSUME Invariant, NEW h \in Handlers, Completing(h)
  PROVE  \/ Keeping
         \/ \E i \in Invoices : Marks(i)
         \/ \E k \in DOMAIN log : Completed(h, k)
<1> USE DEF Invariant
<1>1. PICK k \in DOMAIN log : HookCompleted(h, k) \/ HookIgnore(h, k)
  BY DEF Completing
<1>2. CASE HookIgnore(h, k)
  BY <1>2 DEF HookIgnore, Keeping
<1>3. CASE HookCompleted(h, k)
  <2> DEFINE i == log[k].sub
             settled == [Settled(inv[i]) EXCEPT !.stripe = <<i, 0>>]
             marked == [inv[i] EXCEPT !.stripe = <<i, 0>>]
  <2>1. i \in Invoices /\ inv[i] \in Invoice
    BY EventParts DEF TypeOK
  <2>2. CASE inv[i].status = "open"
    <3>1. inv' = [inv EXCEPT ![i] = settled]
      BY <1>3, <2>2 DEF HookCompleted
    <3>2. /\ settled.status = "paid" /\ settled.total = inv[i].total
          /\ settled.paid = inv[i].total /\ settled.due = 0
      BY <2>1 DEF Settled, Invoice
    <3> HIDE DEF settled
    <3>3. inv'[i] = settled /\ \A j \in Invoices : j # i => inv'[j] = inv[j]
      BY <2>1, <3>1 DEF TypeOK
    <3>4. Writes(i, "paid", inv[i].total, inv[i].total, 0)
      BY <2>1, <3>2, <3>3 DEF Writes
    <3>5. PayFor(<<"checkout", i>>, i, Charged(Snapshot("paid", i, log[k].state, 0)))
      BY <1>3, <2>2 DEF HookCompleted
    <3>6. Charged(Snapshot("paid", i, log[k].state, 0)) = Charged(log[k])
      BY DEF Charged, Snapshot
    <3>7. Charged(log[k]) = inv[i].due
      BY <1>3, <2>2 DEF HookCompleted, Completable, Charged
    <3>8. Deliverable(h, k)
      BY <1>3 DEF HookCompleted
    <3> QED BY <2>2, <3>4, <3>5, <3>6, <3>7, <3>8 DEF Completed
  <2>3. CASE inv[i].status # "open"
    <3>1. inv' = [inv EXCEPT ![i] = marked] /\ UNCHANGED payments
      BY <1>3, <2>3 DEF HookCompleted
    <3>2. /\ marked.status = inv[i].status /\ marked.total = inv[i].total
          /\ marked.paid = inv[i].paid /\ marked.due = inv[i].due
      BY <2>1 DEF Invoice
    <3> HIDE DEF marked
    <3>3. inv'[i] = marked /\ \A j \in Invoices : j # i => inv'[j] = inv[j]
      BY <2>1, <3>1 DEF TypeOK
    <3> QED BY <2>1, <3>1, <3>2, <3>3 DEF Marks, Writes
  <2> QED BY <2>2, <2>3
<1> QED BY <1>1, <1>2, <1>3

(* invoice.paid settles an open invoice or mirrors the one of Stripe.      *)
LEMMA HookingSteps ==
  ASSUME Invariant, NEW h \in Handlers, Hooking(h)
  PROVE  Keeping \/ \E i \in Invoices : SettledBy(h, i) \/ MirroredBy(h, i)
<1> USE DEF Invariant
<1> DEFINE e == log[req[h].event]
           p == <<e.sub, e.period>>
<1>1. req[h].op = "hook"
  BY DEF Hooking, HookReport, HookSettle, HookMirror, HookRenew
<1>2. req[h].found \in SUBSET Invoices /\ req[h].event \in DOMAIN log
  BY <1>1, HookParts
<1>3. Charged(e) \in Nat
  BY <1>2, EventParts
<1>4. CASE HookReport(h) \/ HookRenew(h)
  BY <1>4 DEF HookReport, HookRenew, Keeping
<1>5. CASE HookSettle(h)
  <2>1. /\ e.type = "paid" /\ req[h].settles
        /\ processed' = processed \union {req[h].event}
    BY <1>5 DEF HookSettle
  <2>2. PICK i \in req[h].found :
          /\ inv' = [inv EXCEPT ![i] = [Settled(inv[i]) EXCEPT !.stripe = p]]
          /\ PayFor(PaidRef(e), i, Charged(e))
    BY <1>5 DEF HookSettle
  <2> DEFINE row == [Settled(inv[i]) EXCEPT !.stripe = p]
  <2>3. i \in Invoices /\ inv[i] \in Invoice
    BY <1>2 DEF TypeOK
  <2>4. row.status = "paid" /\ row.total = inv[i].total /\ row.paid = inv[i].total /\ row.due = 0
    BY <2>3 DEF Settled, Invoice
  <2>5. inv' = [inv EXCEPT ![i] = row]
    BY <2>2
  <2> HIDE DEF row
  <2>6. inv'[i] = row /\ \A j \in Invoices : j # i => inv'[j] = inv[j]
    BY <2>3, <2>5 DEF TypeOK
  <2>7. Writes(i, "paid", inv[i].total, inv[i].total, 0)
    BY <2>3, <2>4, <2>6 DEF Writes
  <2>8. SettledBy(h, i)
    BY <1>1, <2>1, <2>2, <2>7 DEF SettledBy
  <2> QED BY <2>3, <2>8
<1>6. CASE HookMirror(h)
  <2>1. e.type = "paid" /\ processed' = processed \union {req[h].event}
    BY <1>6 DEF HookMirror
  <2> DEFINE open == OpenInvoice(None, Charged(e))
             row == [Settled(open) EXCEPT !.stripe = p]
  <2>2. PICK i \in Invoices : /\ Unused(i) /\ inv' = [inv EXCEPT ![i] = row]
                              /\ PayFor(PaidRef(e), i, Charged(e))
    BY <1>6 DEF HookMirror
  <2>3. open \in Invoice /\ open.total = Charged(e)
    BY <1>3, OpenInvoiceType DEF OpenInvoice, Absent
  <2> HIDE DEF open
  <2>4. row.status = "paid" /\ row.total = Charged(e) /\ row.paid = Charged(e) /\ row.due = 0
    BY <2>3 DEF Settled, Invoice
  <2> HIDE DEF row
  <2>5. inv'[i] = row /\ \A j \in Invoices : j # i => inv'[j] = inv[j]
    BY <2>2 DEF TypeOK
  <2>6. Writes(i, "paid", Charged(e), Charged(e), 0)
    BY <2>4, <2>5 DEF Writes
  <2>7. ~Exists(i)
    BY <2>2, UnusedFresh DEF Fresh
  <2>8. MirroredBy(h, i)
    BY <1>1, <2>1, <2>2, <2>6, <2>7 DEF MirroredBy
  <2> QED BY <2>8
<1> QED BY <1>4, <1>5, <1>6 DEF Hooking

(* All the ways in which a step may change invoices and payments.          *)
Moves ==
  \/ Keeping
  \/ \E i \in Invoices : Opens(i) \/ Marks(i) \/ Voids(i)
  \/ \E h \in Handlers : Receives(h)
  \/ \E h \in Handlers, k \in DOMAIN log : Completed(h, k)
  \/ \E h \in Handlers, i \in Invoices : SettledBy(h, i) \/ MirroredBy(h, i)

LEMMA BookMoves ==
  ASSUME Invariant, Balances, Next
  PROVE  Moves
<1> USE DEF Invariant
<1>1. CASE Emitting \/ Expiring
  BY <1>1, EmittingFrame DEF Expiring, StripeExpire, Keeping, Moves
<1>2. ASSUME NEW h \in Handlers, Reading(h) \/ Dropping(h) PROVE Keeping
  BY <1>2, ReadingKept, DroppingKept DEF Keeping
<1> QED
  BY <1>1, <1>2, OpeningSteps, BookingSteps, CompletingSteps, HookingSteps, NextClasses
     DEF Moves

(* A payment that was not there adds its amount to its invoice.            *)
LEMMA UnitsAdded ==
  ASSUME NEW i \in Invoices, NEW p, p.invoice = i, p.amount \in Nat,
         p \notin payments, payments' = payments \union {p}, IsFiniteSet(MinorUnits(i))
  PROVE  /\ IsFiniteSet(MinorUnits(i)')
         /\ Cardinality(MinorUnits(i)') = Cardinality(MinorUnits(i)) + p.amount
         /\ \A j \in Invoices : j # i => MinorUnits(j)' = MinorUnits(j)
<1> DEFINE units == {p} \X (1..p.amount)
<1>1. PaymentsOf(i)' = PaymentsOf(i) \union {p}
  BY DEF PaymentsOf
<1>2. \A j \in Invoices : j # i => PaymentsOf(j)' = PaymentsOf(j)
  BY DEF PaymentsOf
<1>3. MinorUnits(i)' = MinorUnits(i) \union units
  BY <1>1 DEF MinorUnits
<1>4. MinorUnits(i) \intersect units = {}
  BY DEF MinorUnits, PaymentsOf
<1>5. IsFiniteSet(units) /\ Cardinality(units) = p.amount
  <2> DEFINE one == {p}
             span == 1..p.amount
  <2>1. IsFiniteSet(one) /\ Cardinality(one) = 1
    BY FS_Singleton
  <2>2. IsFiniteSet(span) /\ Cardinality(span) = p.amount
    <3>1. PICK n \in Nat : n = p.amount
      OBVIOUS
    <3>2. IsFiniteSet(1..n) /\ Cardinality(1..n) = IF 1 > n THEN 0 ELSE n - 1 + 1
      BY FS_Interval
    <3>3. (IF 1 > n THEN 0 ELSE n - 1 + 1) = n
      OBVIOUS
    <3> QED BY <3>1, <3>2, <3>3
  <2> HIDE DEF one, span
  <2>3. IsFiniteSet(one \X span) /\ Cardinality(one \X span) = Cardinality(one) * Cardinality(span)
    BY <2>1, <2>2, FS_Product
  <2>4. IsFiniteSet(one \X span) /\ Cardinality(one \X span) = p.amount
    BY <2>1, <2>2, <2>3
  <2> QED BY <2>4 DEF one, span
<1> HIDE DEF units
<1>6. /\ IsFiniteSet(MinorUnits(i) \union units)
      /\ Cardinality(MinorUnits(i) \union units) =
           Cardinality(MinorUnits(i)) + Cardinality(units) - Cardinality({})
  BY <1>4, <1>5, FS_Union
<1>7. Cardinality({}) = 0 /\ Cardinality(MinorUnits(i)) \in Nat
  BY FS_EmptySet, FS_CardinalityType
<1>8. \A j \in Invoices : j # i => MinorUnits(j)' = MinorUnits(j)
  BY <1>2 DEF MinorUnits
<1> QED BY <1>3, <1>5, <1>6, <1>7, <1>8

(* What PayFor writes when there is no payment under the reference yet.    *)
LEMMA PaidUnder ==
  ASSUME NEW ref, NEW i \in Invoices, NEW n \in Nat, PayFor(ref, i, n),
         \A p \in payments : p.ref # ref
  PROVE  \E p : /\ p.invoice = i /\ p.amount = n /\ p.ref = ref
                /\ p \notin payments /\ payments' = payments \union {p}
<1> DEFINE p == [ref |-> ref, invoice |-> i, amount |-> n]
<1>1. p.invoice = i /\ p.amount = n /\ p.ref = ref
  OBVIOUS
<1>2. payments' = payments \union {p}
  BY DEF PayFor
<1> HIDE DEF p
<1> QED BY <1>1, <1>2

(* The payments of a step: the same, or one more.                          *)
LEMMA OnePayment ==
  ASSUME Invariant, Moves
  PROVE  \/ UNCHANGED payments
         \/ \E p : /\ p.invoice \in Invoices /\ p.amount \in Nat /\ p \notin payments
                   /\ payments' = payments \union {p}
                   /\ inv'[p.invoice].status \in {"open", "paid"}
                   /\ \/ \E h \in Handlers : Receives(h) /\ p.ref \in Refs
                      \/ \E i \in Invoices : /\ p.ref = <<"checkout", i>>
                                             /\ inv'[i].status = "paid"
                      \/ \E h \in Handlers :
                           /\ req[h].op = "hook" /\ log[req[h].event].type = "paid"
                           /\ p.ref = PaidRef(log[req[h].event])
                           /\ processed' = processed \union {req[h].event}
<1> USE DEF Invariant
<1>1. ASSUME NEW ref, NEW i \in Invoices, NEW n \in Nat, PayFor(ref, i, n)
      PROVE  \/ UNCHANGED payments
             \/ \E p : /\ p.invoice = i /\ p.amount = n /\ p.ref = ref
                       /\ p \notin payments /\ payments' = payments \union {p}
  BY <1>1, PaidUnder DEF PayFor
<1>2. ASSUME NEW h \in Handlers, req[h].op = "hook"
      PROVE  Charged(log[req[h].event]) \in Nat
  BY <1>2, HookParts, EventParts
<1>3. CASE Keeping \/ \E i \in Invoices : Opens(i) \/ Marks(i) \/ Voids(i)
  BY <1>3 DEF Keeping, Opens, Marks, Voids
<1>4. ASSUME NEW h \in Handlers, Receives(h)
      PROVE  \E p : /\ p.invoice \in Invoices /\ p.amount \in Nat /\ p \notin payments
                    /\ payments' = payments \union {p}
                    /\ inv'[p.invoice].status \in {"open", "paid"} /\ p.ref \in Refs
  <2> DEFINE p == [ref |-> req[h].ref, invoice |-> req[h].invoice, amount |-> req[h].amount]
  <2>1. /\ p.invoice \in Invoices /\ p.amount \in Nat /\ p.ref \in Refs
        /\ p.invoice = req[h].invoice /\ p.ref = req[h].ref
    BY <1>4, RequestParts DEF Receives, TypeOK
  <2>2. payments' = payments \union {p} /\ \A q \in payments : q.ref # req[h].ref
    BY <1>4 DEF Receives
  <2> HIDE DEF p
  <2>3. inv'[p.invoice].status \in {"open", "paid"}
    BY <1>4, <2>1 DEF Receives, Writes
  <2> QED BY <2>1, <2>2, <2>3
<1>5. ASSUME NEW h \in Handlers, NEW k \in DOMAIN log, Completed(h, k)
      PROVE  \/ UNCHANGED payments
             \/ \E p : /\ p.invoice \in Invoices /\ p.amount \in Nat /\ p \notin payments
                       /\ payments' = payments \union {p}
                       /\ inv'[p.invoice].status \in {"open", "paid"}
                       /\ \E i \in Invoices : /\ p.ref = <<"checkout", i>>
                                              /\ inv'[i].status = "paid"
  <2>1. log[k].sub \in Invoices /\ Charged(log[k]) \in Nat
    BY EventParts
  <2>2. inv'[log[k].sub].status = "paid"
    BY <1>5 DEF Completed, Writes
  <2>3. PayFor(<<"checkout", log[k].sub>>, log[k].sub, Charged(log[k]))
    BY <1>5 DEF Completed
  <2> QED BY <1>1, <2>1, <2>2, <2>3
<1>6. ASSUME NEW h \in Handlers, NEW i \in Invoices, SettledBy(h, i) \/ MirroredBy(h, i)
      PROVE  \/ UNCHANGED payments
             \/ \E p : /\ p.invoice \in Invoices /\ p.amount \in Nat /\ p \notin payments
                       /\ payments' = payments \union {p}
                       /\ inv'[p.invoice].status \in {"open", "paid"}
                       /\ req[h].op = "hook" /\ log[req[h].event].type = "paid"
                       /\ p.ref = PaidRef(log[req[h].event])
                       /\ processed' = processed \union {req[h].event}
  <2>1. /\ req[h].op = "hook" /\ log[req[h].event].type = "paid"
        /\ processed' = processed \union {req[h].event}
        /\ inv'[i].status = "paid"
        /\ PayFor(PaidRef(log[req[h].event]), i, Charged(log[req[h].event]))
    BY <1>6 DEF SettledBy, MirroredBy, Writes
  <2> QED BY <1>1, <1>2, <2>1
<1> QED BY <1>3, <1>4, <1>5, <1>6 DEF Moves

LEMMA CountableKept ==
  ASSUME Ledger, Moves
  PROVE  Countable'
<1>1. CASE UNCHANGED payments
  BY <1>1 DEF Ledger, Books, Countable, MinorUnits, PaymentsOf
<1>2. ASSUME NEW p, p.invoice \in Invoices, p.amount \in Nat, p \notin payments,
             payments' = payments \union {p}
      PROVE  Countable'
  BY <1>2, UnitsAdded DEF Ledger, Books, Countable
<1> QED BY <1>1, <1>2, OnePayment DEF Ledger

LEMMA BalancesKept ==
  ASSUME Ledger, Moves
  PROVE  Balances'
<1> USE DEF Ledger, Invariant, Books
<1>1. \A i \in Invoices : /\ inv[i].total \in Nat /\ inv[i].paid \in Nat /\ inv[i].due \in Nat
                          /\ inv[i].paid + inv[i].due = inv[i].total
  BY DEF TypeOK, Invoice, Balances
<1>2. ASSUME NEW i \in Invoices, inv'[i].paid + inv'[i].due = inv'[i].total,
             \A j \in Invoices : j # i => inv'[j] = inv[j]
      PROVE  Balances'
  BY <1>1, <1>2 DEF Balances
<1>3. CASE Keeping
  BY <1>3 DEF Keeping, Balances
<1>4. ASSUME NEW i \in Invoices, Opens(i) \/ Marks(i) \/ Voids(i)
      PROVE  Balances'
  BY <1>1, <1>2, <1>4 DEF Opens, Marks, Voids, Writes
<1>5. ASSUME NEW h \in Handlers, Receives(h)
      PROVE  Balances'
  <2>1. req[h].amount \in Nat /\ req[h].invoice \in Invoices
    BY <1>5, RequestParts DEF Receives, TypeOK
  <2> QED BY <1>1, <1>2, <1>5, <2>1 DEF Receives, Writes
<1>6. ASSUME NEW h \in Handlers, NEW k \in DOMAIN log, Completed(h, k)
      PROVE  Balances'
  <2>1. log[k].sub \in Invoices
    BY EventParts
  <2> QED BY <1>1, <1>2, <1>6, <2>1 DEF Completed, Writes
<1>7. ASSUME NEW h \in Handlers, NEW i \in Invoices, SettledBy(h, i) \/ MirroredBy(h, i)
      PROVE  Balances'
  <2>1. Charged(log[req[h].event]) \in Nat
    BY <1>7, HookParts, EventParts DEF SettledBy, MirroredBy
  <2> QED BY <1>1, <1>2, <1>7, <2>1 DEF SettledBy, MirroredBy, Writes
<1> QED BY <1>3, <1>4, <1>5, <1>6, <1>7 DEF Moves

(* What is closed stays closed.                                            *)
LEMMA ClosedKept ==
  ASSUME Ledger, Moves, NEW i \in Invoices, inv[i].status \in {"paid", "void"}
  PROVE  inv'[i].status \in {"paid", "void"}
<1> USE DEF Ledger, Invariant
<1>1. CASE Keeping
  BY <1>1 DEF Keeping
<1>2. ASSUME NEW j \in Invoices, Opens(j) \/ Marks(j) \/ Voids(j)
      PROVE  inv'[i].status \in {"paid", "void"}
  BY <1>2 DEF Opens, Marks, Voids, Writes, Exists
<1>3. ASSUME NEW h \in Handlers, Receives(h)
      PROVE  inv'[i].status \in {"paid", "void"}
  <2>1. inv[req[h].invoice].status = "open"
    BY <1>3 DEF Receives, PaysFit
  <2> QED BY <1>3, <2>1 DEF Receives, Writes
<1>4. ASSUME NEW h \in Handlers, NEW k \in DOMAIN log, Completed(h, k)
      PROVE  inv'[i].status \in {"paid", "void"}
  BY <1>4 DEF Completed, Writes
<1>5. ASSUME NEW h \in Handlers, NEW j \in Invoices, SettledBy(h, j) \/ MirroredBy(h, j)
      PROVE  inv'[i].status \in {"paid", "void"}
  BY <1>5 DEF SettledBy, MirroredBy, Writes
<1> QED BY <1>1, <1>2, <1>3, <1>4, <1>5 DEF Moves

LEMMA ReceiptsKept ==
  ASSUME Ledger, Next, Moves
  PROVE  Receipts'
<1> USE DEF Ledger, Invariant, Books
<1> SUFFICES ASSUME Distinct PROVE \A p \in payments' : Receipt(p)'
  BY DEF Receipts, Distinct
<1>1. /\ processed \subseteq DOMAIN log
      /\ \A k \in processed : k \in processed' /\ log'[k] = log[k]
  BY NothingUndone DEF TypeOK
<1>2. ASSUME NEW p \in payments PROVE Receipt(p)'
  <2>1. Receipt(p) /\ p.invoice \in Invoices
    BY DEF Receipts, TypeOK, Payment
  <2>2. Exists(p.invoice)'
    BY <2>1, Appearing DEF Receipt
  <2>3. \A i \in Invoices : p.ref = <<"checkout", i>> => inv'[i].status \in {"paid", "void"}
    BY <2>1, ClosedKept DEF Receipt
  <2>4. \A x \in StripeInvoices : p.ref = <<"invoice", x>> =>
          \E k \in processed' : log'[k].type = "paid" /\ <<log'[k].sub, log'[k].period>> = x
    BY <1>1, <2>1 DEF Receipt
  <2> QED BY <2>2, <2>3, <2>4 DEF Receipt
<1>3. ASSUME NEW p, p.invoice \in Invoices, inv'[p.invoice].status \in {"open", "paid"},
             p.ref \in Refs
      PROVE  Receipt(p)'
  <2>1. \A i \in Invoices : <<"checkout", i>> \in StripeRefs
    BY DEF StripeRefs
  <2>2. \A x \in StripeInvoices : <<"invoice", x>> \in StripeRefs
    BY DEF StripeRefs
  <2>3. p.ref \notin StripeRefs
    BY <1>3 DEF Distinct
  <2> QED BY <1>3, <2>1, <2>2, <2>3 DEF Receipt, Exists
<1>4. ASSUME NEW p, p.invoice \in Invoices, inv'[p.invoice].status \in {"open", "paid"},
             NEW i \in Invoices, p.ref = <<"checkout", i>>, inv'[i].status = "paid"
      PROVE  Receipt(p)'
  BY <1>4 DEF Receipt, Exists
<1>5. ASSUME NEW p, p.invoice \in Invoices, inv'[p.invoice].status \in {"open", "paid"},
             NEW h \in Handlers, req[h].op = "hook", log[req[h].event].type = "paid",
             p.ref = PaidRef(log[req[h].event]), processed' = processed \union {req[h].event}
      PROVE  Receipt(p)'
  <2> DEFINE k == req[h].event
  <2>1. k \in DOMAIN log /\ log'[k] = log[k] /\ k \in processed'
    BY <1>5, HookParts, NothingUndone
  <2>2. p.ref = <<"invoice", <<log[k].sub, log[k].period>> >>
    BY <1>5 DEF PaidRef
  <2> HIDE DEF k
  <2>3. log'[k].type = "paid"
    BY <1>5, <2>1 DEF k
  <2> QED BY <1>5, <2>1, <2>2, <2>3 DEF Receipt, Exists
<1>6. ASSUME NEW p \in payments', p \notin payments PROVE Receipt(p)'
  <2>1. PICK q : /\ q.invoice \in Invoices /\ payments' = payments \union {q}
                 /\ inv'[q.invoice].status \in {"open", "paid"}
                 /\ \/ \E h \in Handlers : Receives(h) /\ q.ref \in Refs
                    \/ \E i \in Invoices : /\ q.ref = <<"checkout", i>>
                                           /\ inv'[i].status = "paid"
                    \/ \E h \in Handlers :
                         /\ req[h].op = "hook" /\ log[req[h].event].type = "paid"
                         /\ q.ref = PaidRef(log[req[h].event])
                         /\ processed' = processed \union {req[h].event}
    BY <1>6, OnePayment
  <2>2. p = q
    BY <1>6, <2>1
  <2>3. CASE p.ref \in Refs
    BY <1>3, <2>1, <2>2, <2>3
  <2>4. CASE \E i \in Invoices : p.ref = <<"checkout", i>> /\ inv'[i].status = "paid"
    BY <1>4, <2>1, <2>2, <2>4
  <2>5. CASE \E h \in Handlers : /\ req[h].op = "hook" /\ log[req[h].event].type = "paid"
                                 /\ p.ref = PaidRef(log[req[h].event])
                                 /\ processed' = processed \union {req[h].event}
    BY <1>5, <2>1, <2>2, <2>5
  <2> QED BY <2>1, <2>2, <2>3, <2>4, <2>5
<1> QED BY <1>2, <1>6

(* The next paid event of a subscription is of its next period, or of its  *)
(* first if there was none.                                                *)
LEMMA ChargingEvents ==
  ASSUME Ledger, Emitting
  PROVE  \E j \in Invoices, n \in Nat :
           /\ \A i \in Invoices : i # j =>
                /\ sessions'[i] = sessions[i] /\ stripe'[i] = stripe[i] /\ period'[i] = period[i]
           /\ sessions'[j].state = "paid"
           /\ period[j] <= period'[j] /\ n <= period'[j]
           /\ \A k \in DOMAIN log : k \in DOMAIN log' /\ log'[k] = log[k]
           /\ \A k \in DOMAIN log' \ DOMAIN log : log'[k].sub = j /\ log'[k].period = n
           /\ \A k, l \in DOMAIN log' \ DOMAIN log :
                log'[k].type = "paid" /\ log'[l].type = "paid" => k = l
           /\ \A k \in DOMAIN log' \ DOMAIN log : log'[k].type = "paid" =>
                stripe[j].status = "none" \/ n > period[j]
<1> USE DEF Ledger, Invariant, Books
<1>1. \A i \in Invoices : /\ stripe[i] \in StripeSubscription /\ sessions[i] \in Session
                          /\ period[i] \in 0..PeriodBound /\ period[i] \in Nat
  BY DEF TypeOK
<1> DEFINE Announces(j, n) ==
           /\ \A i \in Invoices : i # j =>
                /\ sessions'[i] = sessions[i] /\ stripe'[i] = stripe[i] /\ period'[i] = period[i]
           /\ sessions'[j].state = "paid"
           /\ period[j] <= period'[j] /\ n <= period'[j]
           /\ \A k \in DOMAIN log : k \in DOMAIN log' /\ log'[k] = log[k]
           /\ \A k \in DOMAIN log' \ DOMAIN log : log'[k].sub = j /\ log'[k].period = n
           /\ \A k, l \in DOMAIN log' \ DOMAIN log :
                log'[k].type = "paid" /\ log'[l].type = "paid" => k = l
           /\ \A k \in DOMAIN log' \ DOMAIN log : log'[k].type = "paid" =>
                stripe[j].status = "none" \/ n > period[j]
<1> DEFINE Goal == \E j \in Invoices, n \in Nat : Announces(j, n)
<1>2. ASSUME NEW i \in Invoices, NEW n \in 0..PeriodBound, NEW s \in StripeSubscription,
             NEW types \in Types, log' = Emit(types, i, s, n), stripe' = [stripe EXCEPT ![i] = s],
             \A j \in Invoices : j # i => sessions'[j] = sessions[j] /\ period'[j] = period[j],
             sessions'[i].state = "paid", period[i] <= period'[i], n <= period'[i],
             \/ types \in {<<"failed", "updated">>, <<"deleted">>, <<"updated">>}
             \/ stripe[i].status = "none" \/ n > period[i]
      PROVE  Goal
  <2>1. /\ Len(log) \in Nat /\ DOMAIN log = 1..Len(log) /\ Len(types) \in Nat
        /\ \A k \in DOMAIN log : k \in DOMAIN log' /\ log'[k] = log[k]
        /\ \A k \in DOMAIN log' \ DOMAIN log :
             /\ k - Len(log) \in 1..Len(types)
             /\ log'[k] = Snapshot(types[k - Len(log)], i, s, n)
        /\ DOMAIN log' = 1..(Len(log) + Len(types))
    BY <1>2, AppendedEvents
  <2>2. \A k \in DOMAIN log' \ DOMAIN log :
          log'[k].sub = i /\ log'[k].period = n /\ log'[k].type = types[k - Len(log)]
    BY <2>1 DEF Snapshot
  <2>3. /\ \A a, b \in 1..Len(types) : types[a] = "paid" /\ types[b] = "paid" => a = b
        /\ types \in {<<"failed", "updated">>, <<"deleted">>, <<"updated">>} =>
             \A a \in 1..Len(types) : types[a] # "paid"
    <3>1. CASE types = <<"completed", "paid">>
      BY <3>1
    <3>2. CASE types = <<"paid", "completed">>
      BY <3>2
    <3>3. CASE types = <<"paid", "updated">>
      BY <3>3
    <3>4. CASE types = <<"failed", "updated">>
      BY <3>4
    <3>5. CASE types = <<"deleted">>
      BY <3>5
    <3>6. CASE types = <<"updated">>
      BY <3>6
    <3> QED BY <3>1, <3>2, <3>3, <3>4, <3>5, <3>6 DEF Types
  <2>4. ASSUME NEW k \in DOMAIN log' \ DOMAIN log, NEW l \in DOMAIN log' \ DOMAIN log,
               log'[k].type = "paid", log'[l].type = "paid"
        PROVE  k = l
    <3>1. k - Len(log) = l - Len(log)
      BY <2>1, <2>2, <2>3, <2>4
    <3>2. k \in Nat /\ l \in Nat
      BY <2>1
    <3> QED BY <2>1, <3>1, <3>2
  <2>5. ASSUME NEW k \in DOMAIN log' \ DOMAIN log, log'[k].type = "paid"
        PROVE  stripe[i].status = "none" \/ n > period[i]
    BY <1>2, <2>1, <2>2, <2>3, <2>5
  <2>6. \A j \in Invoices : j # i => stripe'[j] = stripe[j]
    BY <1>2 DEF TypeOK
  <2>7. n \in Nat
    OBVIOUS
  <2>8. Announces(i, n)
    BY <1>2, <2>1, <2>2, <2>4, <2>5, <2>6
  <2> HIDE DEF Announces
  <2> QED BY <2>7, <2>8
<1> HIDE DEF Goal
<1>3. ASSUME NEW i \in Invoices, stripe[i].status # "none" PROVE sessions[i].state = "paid"
  BY <1>3 DEF Charging
<1>4. ASSUME NEW i \in Invoices, StripePay(i) PROVE Goal
  <2> DEFINE s == [status |-> "active", plan |-> sessions[i].plan, atEnd |-> FALSE]
  <2>2. sessions[i].plan \in Plans /\ sessions[i].state = "open"
    BY <1>1, <1>4 DEF StripePay, Planned, Session
  <2>3. s \in StripeSubscription
    BY <2>2 DEF StripeSubscription, StripeStatus
  <2>4. stripe' = [stripe EXCEPT ![i] = s]
    BY <1>4 DEF StripePay
  <2>5. PICK types \in {<<"completed", "paid">>, <<"paid", "completed">>} : log' = Emit(types, i, s, 0)
    BY <1>4 DEF StripePay
  <2> HIDE DEF s
  <2>6. types \in Types /\ 0 \in 0..PeriodBound
    BY BillingAssumption DEF Types
  <2>7. sessions'[i].state = "paid" /\ \A j \in Invoices : j # i => sessions'[j] = sessions[j]
    BY <1>1, <1>4 DEF StripePay, TypeOK, Session
  <2>8. stripe[i].status = "none"
    BY <1>3, <2>2
  <2>9. /\ \A j \in Invoices : period'[j] = period[j]
        /\ period[i] <= period'[i] /\ 0 <= period'[i]
    BY <1>1, <1>4 DEF StripePay
  <2> QED BY <1>2, <2>3, <2>4, <2>5, <2>6, <2>7, <2>8, <2>9
<1>5. ASSUME NEW i \in Invoices, NEW s \in StripeSubscription, NEW n \in 0..PeriodBound,
             NEW types \in Types, StripeChange(i, s, types, n), stripe[i].status # "none",
             period[i] <= n,
             types \in {<<"failed", "updated">>, <<"deleted">>, <<"updated">>} \/ n > period[i]
      PROVE  Goal
  <2>1. /\ log' = Emit(types, i, s, n) /\ stripe' = [stripe EXCEPT ![i] = s]
        /\ period' = [period EXCEPT ![i] = n] /\ sessions' = sessions
    BY <1>5 DEF StripeChange
  <2>2. period'[i] = n /\ \A j \in Invoices : j # i => period'[j] = period[j]
    BY <2>1 DEF TypeOK
  <2>3. sessions'[i].state = "paid"
    BY <1>3, <1>5, <2>1
  <2>4. n <= n
    OBVIOUS
  <2> QED BY <1>2, <1>5, <2>1, <2>2, <2>3, <2>4
<1>6. ASSUME NEW i \in Invoices, NEW s, s = [stripe[i] EXCEPT !.status = "active"]
                                \/ s = [stripe[i] EXCEPT !.status = "past_due"]
                                \/ s = [stripe[i] EXCEPT !.status = "canceled", !.atEnd = FALSE]
                                \/ (\E p \in Plans : s = [stripe[i] EXCEPT !.plan = p])
                                \/ (\E v \in BOOLEAN : s = [stripe[i] EXCEPT !.atEnd = v])
      PROVE  s \in StripeSubscription
  BY <1>1, <1>6 DEF StripeSubscription, StripeStatus
<1>7. /\ <<"paid", "updated">> \in Types /\ <<"failed", "updated">> \in Types
      /\ <<"deleted">> \in Types /\ <<"updated">> \in Types
  BY DEF Types
<1>8. \A i \in Invoices : period[i] <= period[i]
  BY <1>1
<1>9. ASSUME NEW i \in Invoices, StripeRenew(i) PROVE Goal
  <2>1. /\ StripeChange(i, [stripe[i] EXCEPT !.status = "active"], <<"paid", "updated">>, period[i] + 1)
        /\ stripe[i].status # "none" /\ period[i] < PeriodBound
    BY <1>9 DEF StripeRenew, Live
  <2>2. period[i] + 1 \in 0..PeriodBound /\ period[i] + 1 > period[i] /\ period[i] <= period[i] + 1
    BY <1>1, <2>1, BillingAssumption
  <2> QED BY <1>5, <1>6, <1>7, <2>1, <2>2
<1>10. ASSUME NEW i \in Invoices, StripeFail(i) PROVE Goal
  <2>1. /\ StripeChange(i, [stripe[i] EXCEPT !.status = "past_due"], <<"failed", "updated">>, period[i])
        /\ stripe[i].status # "none"
    BY <1>10 DEF StripeFail
  <2> QED BY <1>1, <1>5, <1>6, <1>7, <1>8, <2>1
<1>11. ASSUME NEW i \in Invoices, StripeEnd(i) PROVE Goal
  <2>1. /\ StripeChange(i, [stripe[i] EXCEPT !.status = "canceled", !.atEnd = FALSE],
                        <<"deleted">>, period[i])
        /\ stripe[i].status # "none"
    BY <1>11 DEF StripeEnd, Live
  <2> QED BY <1>1, <1>5, <1>6, <1>7, <1>8, <2>1
<1>12. ASSUME NEW i \in Invoices, NEW p \in Plans, StripePortal(i, p) PROVE Goal
  <2>1. /\ StripeChange(i, [stripe[i] EXCEPT !.plan = p], <<"updated">>, period[i])
        /\ stripe[i].status # "none"
    BY <1>12 DEF StripePortal
  <2> QED BY <1>1, <1>5, <1>6, <1>7, <1>8, <2>1
<1>13. ASSUME NEW h \in Handlers, CancelStripe(h) PROVE Goal
  <2> DEFINE i == req[h].seen.link
             s == [stripe[i] EXCEPT !.atEnd = req[h].value]
  <2>1. /\ req[h].op = "cancel" /\ ~req[h].told /\ stripe' = [stripe EXCEPT ![i] = s]
        /\ log' = Emit(<<"updated">>, i, s, 0) /\ period' = period /\ sessions' = sessions
    BY <1>13 DEF CancelStripe
  <2>2. req[h].value \in BOOLEAN /\ req[h].seen \in Subscription /\ req[h].seen.link # None
    BY <2>1, RequestParts DEF TypeOK, Hooks
  <2>3. i \in Invoices /\ stripe[i].status # "none"
    BY <2>1, <2>2 DEF Subscription, Links, Linkable
  <2>4. s \in StripeSubscription
    BY <1>6, <2>2, <2>3
  <2>5. sessions'[i].state = "paid"
    BY <1>3, <2>1, <2>3
  <2>6. 0 \in 0..PeriodBound /\ 0 <= period[i]
    BY <1>1, <2>3, BillingAssumption
  <2> HIDE DEF s, i
  <2> QED BY <1>2, <1>7, <1>8, <2>1, <2>3, <2>4, <2>5, <2>6
<1>14. Goal
  BY <1>4, <1>9, <1>10, <1>11, <1>12, <1>13 DEF Emitting
<1> QED BY <1>14 DEF Goal

(* What was charged for a session that is paid stays what it was.          *)
LEMMA PaidSessions ==
  ASSUME Invariant, Next, NEW i \in Invoices, sessions[i].state = "paid"
  PROVE  sessions'[i].state = "paid" /\ sessions'[i].amount = sessions[i].amount
<1> USE DEF Invariant
<1>1. sessions[i] \in Session
  BY DEF TypeOK
<1>2. CASE UNCHANGED sessions
  BY <1>2
<1>3. CASE Emitting
  <2>1. ASSUME NEW j \in Invoices, sessions[j].state = "open",
               sessions' = [sessions EXCEPT ![j].state = "paid"]
        PROVE  sessions'[i] = sessions[i]
    BY <2>1 DEF TypeOK
  <2> QED BY <1>2, <1>3, <2>1, EmittingFrame
<1>4. CASE Expiring
  <2>1. PICK j \in Invoices : /\ sessions[j].state \in {"created", "open"}
                              /\ sessions' = [sessions EXCEPT ![j] = NoSession]
    BY <1>4 DEF Expiring, StripeExpire
  <2> QED BY <1>1, <2>1 DEF TypeOK
<1>5. CASE Administering
  BY <1>2, <1>5, AdministeredRow DEF stripeVars
<1>6. ASSUME NEW h \in Handlers, CheckoutSession(h) PROVE sessions'[i] = sessions[i]
  <2>1. req[h].invoice \in Invoices
    BY <1>6, RequestParts DEF CheckoutSession, TypeOK
  <2> QED BY <1>6, <2>1 DEF CheckoutSession, TypeOK
<1>7. ASSUME NEW h \in Handlers, CheckoutCommit(h) PROVE sessions'[i] = sessions[i]
  <2>1. req[h].invoice \in Invoices
    BY <1>7, RequestParts DEF CheckoutCommit, TypeOK
  <2> QED BY <1>7, <2>1 DEF CheckoutCommit, TypeOK
<1>8. ASSUME NEW h \in Handlers, Acts(h), ~CheckoutSession(h), ~CheckoutCommit(h)
      PROVE  UNCHANGED sessions
  <2>1. CASE Reading(h) \/ Dropping(h)
    BY <2>1, ReadingKept, DroppingKept DEF stripeVars
  <2>2. CASE Changing(h) \/ Checking(h) \/ Booking(h)
    BY <1>8, <2>2 DEF Changing, ChangeFree, ChangeInvoice, CancelCommit, Checking,
                CheckoutCustomer, Booking, PayCommit, VoidCommit, stripeVars
  <2>3. CASE Hooking(h) \/ Completing(h)
    BY <2>3 DEF Hooking, HookReport, HookSettle, HookMirror, HookRenew, Completing,
                HookCompleted, HookIgnore, stripeVars
  <2> QED BY <1>8, <2>1, <2>2, <2>3 DEF Acts
<1> QED BY <1>2, <1>3, <1>4, <1>5, <1>6, <1>7, <1>8, StepSplit

LEMMA PeriodsKept ==
  ASSUME TypeOK, Administering \/ Expiring \/ \E h \in Handlers : Acts(h)
  PROVE  UNCHANGED period
<1>1. CASE Administering
  BY <1>1, AdministeredRow DEF stripeVars
<1>2. CASE Expiring
  BY <1>2 DEF Expiring, StripeExpire
<1>3. ASSUME NEW h \in Handlers, Reading(h) \/ Dropping(h)
      PROVE  UNCHANGED period
  BY <1>3, ReadingKept, DroppingKept DEF stripeVars
<1>4. ASSUME NEW h \in Handlers, Changing(h) \/ Checking(h) \/ Booking(h)
      PROVE  UNCHANGED period
  BY <1>4 DEF Changing, ChangeFree, ChangeInvoice, CancelCommit, Checking, CheckoutCustomer,
              CheckoutSession, CheckoutCommit, Booking, PayCommit, VoidCommit, stripeVars
<1>5. ASSUME NEW h \in Handlers, Hooking(h) \/ Completing(h)
      PROVE  UNCHANGED period
  BY <1>5 DEF Hooking, HookReport, HookSettle, HookMirror, HookRenew, Completing,
              HookCompleted, HookIgnore, stripeVars
<1> QED BY <1>1, <1>2, <1>3, <1>4, <1>5 DEF Acts

LEMMA ChargingKept ==
  ASSUME Ledger, Next
  PROVE  Charging'
<1> USE DEF Ledger, Invariant, Books
<1>1. CASE Emitting
  <2>1. PICK j \in Invoices, n \in Nat :
           /\ \A i \in Invoices : i # j =>
                /\ sessions'[i] = sessions[i] /\ stripe'[i] = stripe[i] /\ period'[i] = period[i]
           /\ sessions'[j].state = "paid"
           /\ period[j] <= period'[j] /\ n <= period'[j]
           /\ \A k \in DOMAIN log : k \in DOMAIN log' /\ log'[k] = log[k]
           /\ \A k \in DOMAIN log' \ DOMAIN log : log'[k].sub = j /\ log'[k].period = n
           /\ \A k, l \in DOMAIN log' \ DOMAIN log :
                log'[k].type = "paid" /\ log'[l].type = "paid" => k = l
           /\ \A k \in DOMAIN log' \ DOMAIN log : log'[k].type = "paid" =>
                stripe[j].status = "none" \/ n > period[j]
    BY <1>1, ChargingEvents
  <2>2. \A k \in DOMAIN log :
          /\ log[k].sub \in Invoices /\ log[k].period \in Nat
          /\ log[k].period <= period[log[k].sub]
          /\ stripe[log[k].sub].status # "none"
    <3>1. \A k \in DOMAIN log : log[k].sub \in Invoices /\ log[k].period \in 0..PeriodBound
      BY EventParts
    <3>2. \A k \in DOMAIN log : log[k].period \in Nat
      BY <3>1
    <3> QED BY <3>1, <3>2 DEF Charging, Logged
  <2>3. \A i \in Invoices : period[i] \in Nat /\ period'[i] \in Nat
    BY <1>1, NextType, EmittingFrame DEF TypeOK
  <2>4. \A i \in Invoices : stripe'[i].status # "none" => sessions'[i].state = "paid"
    BY <2>1 DEF Charging
  <2>5. ASSUME NEW k \in DOMAIN log' PROVE log'[k].period <= period'[log'[k].sub]
    <3>1. CASE k \in DOMAIN log
      <4>1. log'[k] = log[k] /\ log[k].period <= period[log[k].sub]
        BY <2>1, <2>2, <3>1
      <4>2. period[log[k].sub] <= period'[log[k].sub]
        BY <2>1, <2>2, <2>3, <3>1
      <4> QED BY <2>2, <2>3, <3>1, <4>1, <4>2
    <3> QED BY <2>1, <3>1
  <2>6. ASSUME NEW k \in DOMAIN log', NEW l \in DOMAIN log', k \in DOMAIN log, l \notin DOMAIN log,
               log'[k].type = "paid", log'[l].type = "paid", log'[k].sub = log'[l].sub,
               log'[k].period = log'[l].period
        PROVE  FALSE
    <3>1. log[k].sub = j /\ log[k].period = n
      BY <2>1, <2>6
    <3>2. n <= period[j] /\ stripe[j].status # "none"
      BY <2>2, <2>6, <3>1
    <3>3. n > period[j]
      BY <2>1, <2>6, <3>2
    <3> QED BY <2>3, <3>2, <3>3
  <2>7. ASSUME NEW k \in DOMAIN log', NEW l \in DOMAIN log',
               log'[k].type = "paid", log'[l].type = "paid", log'[k].sub = log'[l].sub,
               log'[k].period = log'[l].period
        PROVE  k = l
    <3>1. CASE k \in DOMAIN log /\ l \in DOMAIN log
      BY <2>1, <2>7, <3>1 DEF Charging
    <3>2. CASE k \notin DOMAIN log /\ l \notin DOMAIN log
      BY <2>1, <2>7, <3>2
    <3> QED BY <2>6, <2>7, <3>1, <3>2
  <2> QED BY <2>4, <2>5, <2>7 DEF Charging
<1>2. CASE Administering \/ Expiring \/ \E h \in Handlers : Acts(h)
  <2>1. UNCHANGED <<stripe, log, period>>
    BY <1>2, StripeKept, PeriodsKept
  <2> QED BY <2>1, PaidSessions DEF Charging
<1> QED BY <1>1, <1>2, StepSplit

(* A webhook finds what it has read as long as no payment and no other     *)
(* webhook comes between: opening or voiding an invoice changes no amount  *)
(* that is due.                                                            *)
LEMMA DueKept ==
  ASSUME Ledger, Keeping \/ (\E j \in Invoices : Opens(j) \/ Voids(j)),
         NEW i \in Invoices, Exists(i)
  PROVE  inv'[i].due = inv[i].due
<1> USE DEF Ledger, Invariant, Books
<1>1. /\ inv[i].total \in Nat /\ inv[i].paid \in Nat /\ inv[i].due \in Nat
      /\ inv[i].paid + inv[i].due = inv[i].total
  BY DEF TypeOK, Invoice, Balances
<1>2. CASE Keeping
  BY <1>2 DEF Keeping
<1>3. ASSUME NEW j \in Invoices, Opens(j) PROVE inv'[i].due = inv[i].due
  BY <1>3 DEF Opens, Writes
<1>4. ASSUME NEW j \in Invoices, Voids(j) PROVE inv'[i].due = inv[i].due
  <2>1. CASE i = j
    <3>1. inv'[i].due = 0 /\ inv[i].total = inv[i].paid
      BY <1>4, <2>1 DEF Voids, Writes
    <3> QED BY <1>1, <3>1
  <2> QED BY <1>4, <2>1 DEF Voids, Writes
<1> QED BY <1>2, <1>3, <1>4

LEMMA StillUnposted ==
  ASSUME Ledger, Next, NEW g \in Handlers, req[g].op = "hook", req'[g] = req[g],
         Unposted(g), UNCHANGED processed,
         Keeping \/ \E j \in Invoices : Opens(j) \/ Voids(j)
  PROVE  Unposted(g)'
<1> USE DEF Ledger, Invariant, Books
<1> DEFINE k == req[g].event
<1>1. k \in DOMAIN log /\ log'[k] = log[k] /\ req[g].found \subseteq Invoices
  BY HookParts, NothingUndone
<1>2. log[k].sub \in Invoices /\ sessions[log[k].sub].state = "paid"
  BY <1>1, EventParts DEF Logged, Charging
<1>3. Charged(log[k])' = Charged(log[k])
  BY <1>1, <1>2, PaidSessions DEF Charged
<1>4. \A i \in req[g].found : i \in Invoices /\ inv'[i].due = inv[i].due
  BY <1>1, DueKept DEF TargetsExist, Targets
<1> QED BY <1>3, <1>4 DEF Unposted

LEMMA ProcessedKept ==
  ASSUME TypeOK, NEW h \in Handlers,
         Reading(h) \/ Dropping(h) \/ Changing(h) \/ Checking(h) \/ Booking(h)
  PROVE  UNCHANGED processed
<1>1. CASE Reading(h) \/ Dropping(h)
  BY <1>1, ReadingKept, DroppingKept
<1>2. CASE Changing(h) \/ Checking(h) \/ Booking(h)
  BY <1>2 DEF Changing, ChangeFree, ChangeInvoice, CancelCommit, Checking, CheckoutCustomer,
              CheckoutSession, CheckoutCommit, Booking, PayCommit, VoidCommit
<1> QED BY <1>1, <1>2

(* A payment or webhook begins alone, and a webhook with the amount that   *)
(* is due.                                                                 *)
LEMMA PostingBegins ==
  ASSUME Ledger, Next, "overlap" \notin env.faults, NEW h \in Handlers, Reading(h),
         h \in Posting'
  PROVE  Posting' = {h} /\ (req'[h].op = "hook" => Unposted(h)')
<1> USE DEF Ledger, Invariant
<1>1. \A g \in Handlers : g # h => req'[g] = req[g]
  BY OthersKept
<1>2. UNCHANGED <<env, sub, inv, payments, price, customer, processed, stripeVars>>
  BY ReadingKept
<1>3. ASSUME Apart(h) PROVE Posting' = {h}
  BY <1>1, <1>3 DEF Apart, Posting
<1>4. ASSUME NEW k \in DOMAIN log, HookRead(h, k)
      PROVE  Posting' = {h} /\ Unposted(h)'
  <2> DEFINE found == IF log[k].type = "paid" THEN Mirrors(log[k]) ELSE {}
             settles == \E i \in found : inv[i].status = "open"
             new == [op |-> "hook", event |-> k, seen |-> sub, found |-> found,
                     settles |-> settles]
  <2>1. /\ Apart(h) /\ k \notin processed /\ req'[h] = new
        /\ settles => \A i \in found : inv[i].due = Charged(log[k])
    BY <1>4 DEF HookRead, Deliverable, TypeOK
  <2>2. new.event = k /\ new.found = found /\ new.settles = settles
    OBVIOUS
  <2> HIDE DEF found, settles, new
  <2>3. log' = log /\ inv' = inv /\ processed' = processed /\ sessions' = sessions
    BY <1>2 DEF stripeVars
  <2>4. Unposted(h)'
    BY <2>1, <2>2, <2>3 DEF Unposted, Charged
  <2> QED BY <1>3, <2>1, <2>4
<1>5. ASSUME NEW i \in Invoices, NEW amount \in Nat, NEW ref \in Refs, PayRead(h, i, amount, ref)
      PROVE  Posting' = {h} /\ req'[h].op # "hook"
  <2>1. Apart(h) /\ req'[h].op = "pay"
    BY <1>5 DEF PayRead, TypeOK
  <2> QED BY <1>3, <2>1
<1>6. ASSUME \/ \E p \in Plans : ChangeRead(h, p)
             \/ \E p \in Plans, i \in Invoices : CheckoutRead(h, p, i)
             \/ \E i \in Invoices : VoidRead(h, i)
             \/ \E value \in BOOLEAN : CancelRead(h, value)
      PROVE  FALSE
  <2>1. req'[h].op \in {"change", "checkout", "void", "cancel"}
    BY <1>6 DEF ChangeRead, CheckoutRead, VoidRead, CancelRead, TypeOK
  <2> QED BY <2>1 DEF Posting
<1> QED BY <1>4, <1>5, <1>6 DEF Reading

LEMMA PostsKept ==
  ASSUME Ledger, Next
  PROVE  Posts'
<1> USE DEF Ledger, Invariant, Books
<1> SUFFICES ASSUME "overlap" \notin env.faults, NEW g \in Posting'
             PROVE  Posting' = {g} /\ (req'[g].op = "hook" => Unposted(g)')
  BY NothingUndone DEF Posts
<1>0. g \in Handlers /\ req'[g].op \in {"pay", "hook"}
  BY DEF Posting
<1>1. \A h \in Posting : Posting = {h} /\ (req[h].op = "hook" => Unposted(h))
  BY DEF Posts
<1>2. ASSUME req'[g] = req[g], Posting' \subseteq Posting, UNCHANGED processed,
             Keeping \/ \E j \in Invoices : Opens(j) \/ Voids(j)
      PROVE  Posting' = {g} /\ (req'[g].op = "hook" => Unposted(g)')
  <2>1. g \in Posting
    BY <1>0, <1>2 DEF Posting
  <2> QED BY <1>0, <1>1, <1>2, <2>1, StillUnposted
<1>3. CASE Emitting \/ Expiring
  <2>1. \A h \in Handlers : /\ req'[h].op = req[h].op
                            /\ req[h].op # "cancel" => req'[h] = req[h]
    BY <1>3, EmittingRequests
  <2>2. Keeping /\ UNCHANGED processed
    BY <1>3, EmittingFrame DEF Expiring, StripeExpire, Keeping
  <2> QED BY <1>0, <1>2, <2>1, <2>2 DEF Posting
<1>4. CASE Administering
  BY <1>2, <1>4, AdministeredRow, OpeningSteps DEF Posting
<1>5. ASSUME NEW h \in Handlers, Reading(h)
      PROVE  Posting' = {g} /\ (req'[g].op = "hook" => Unposted(g)')
  <2>1. CASE g = h
    BY <1>5, <2>1, PostingBegins
  <2>2. CASE g # h
    <3>1. \A f \in Handlers : f # h => req'[f] = req[f]
      BY <1>5, OthersKept
    <3>2. h \notin Posting'
      BY <1>5, <2>2, PostingBegins
    <3>3. Keeping /\ UNCHANGED processed
      BY <1>5, ReadingKept DEF Keeping
    <3> QED BY <1>0, <1>2, <2>2, <3>1, <3>2, <3>3 DEF Posting
  <2> QED BY <2>1, <2>2
<1>6. ASSUME NEW h \in Handlers, Dropping(h) \/ Changing(h) \/ Checking(h) \/ Booking(h) \/ Hooking(h)
      PROVE  Posting' = {g} /\ (req'[g].op = "hook" => Unposted(g)')
  <2>1. \A f \in Handlers : f # h => req'[f] = req[f]
    BY <1>6, OthersKept
  <2>2. req'[h].op \notin {"pay", "hook"}
    BY <1>6, Finished, CheckingKept
  <2>3. g # h /\ req'[g] = req[g] /\ g \in Posting
    BY <1>0, <2>1, <2>2 DEF Posting
  <2>4. h \notin Posting
    BY <1>1, <2>3
  <2>5. ~Hooking(h) /\ ~PayCommit(h)
    BY <2>4 DEF Hooking, HookReport, HookSettle, HookMirror, HookRenew, PayCommit, Posting
  <2>6. Keeping \/ \E j \in Invoices : Opens(j) \/ Voids(j)
    <3>1. ~Receives(h)
      BY <2>4 DEF Receives, Posting
    <3>2. Dropping(h) => Keeping
      BY DroppingKept DEF Keeping
    <3> QED BY <1>6, <2>5, <3>1, <3>2, OpeningSteps, BookingSteps
  <2>7. UNCHANGED processed
    BY <1>6, <2>5, ProcessedKept
  <2>8. Posting' \subseteq Posting
    BY <2>1, <2>2 DEF Posting
  <2> QED BY <1>2, <2>3, <2>6, <2>7, <2>8
<1>7. ASSUME NEW h \in Handlers, Completing(h)
      PROVE  FALSE
  <2>1. PICK k \in DOMAIN log : Deliverable(h, k) /\ UNCHANGED req
    BY <1>7 DEF Completing, HookCompleted, HookIgnore
  <2>2. g \in Posting /\ g # h
    BY <1>0, <2>1 DEF Deliverable, Free, Idle, Posting
  <2> QED BY <1>0, <2>1, <2>2 DEF Deliverable, Apart, Posting
<1>8. ASSUME NEW h \in Handlers, Acts(h)
      PROVE  Posting' = {g} /\ (req'[g].op = "hook" => Unposted(g)')
  BY <1>5, <1>6, <1>7, <1>8 DEF Acts
<1> QED BY <1>3, <1>4, <1>8, StepSplit

(* The books balance after every move.                                     *)
LEMMA BooksKept ==
  ASSUME Ledger, Next, Moves
  PROVE  BooksBalance'
<1> USE DEF Ledger, Invariant, Books
<1> SUFFICES ASSUME "overlap" \notin env.faults, Distinct
             PROVE  \A i \in Invoices : inv'[i].paid = Cardinality(MinorUnits(i)')
  BY NothingUndone DEF BooksBalance, Distinct
<1>1. \A i \in Invoices : /\ inv[i].paid = Cardinality(MinorUnits(i))
                          /\ IsFiniteSet(MinorUnits(i)) /\ Cardinality(MinorUnits(i)) \in Nat
                          /\ inv[i].total \in Nat /\ inv[i].due \in Nat /\ inv[i].paid \in Nat
                          /\ inv[i].paid + inv[i].due = inv[i].total
  BY FS_CardinalityType DEF BooksBalance, Distinct, Countable, Balances, TypeOK, Invoice
<1>2. \A p \in payments : Receipt(p)
  BY DEF Receipts
<1>3. ASSUME UNCHANGED payments
      PROVE  \A i \in Invoices : MinorUnits(i)' = MinorUnits(i)
  BY <1>3 DEF MinorUnits, PaymentsOf
<1>4. ASSUME NEW i \in Invoices, ~Exists(i)
      PROVE  Cardinality(MinorUnits(i)) = 0
  <2>1. PaymentsOf(i) = {}
    BY <1>2, <1>4 DEF PaymentsOf, Receipt
  <2>2. MinorUnits(i) = {}
    BY <2>1 DEF MinorUnits
  <2> QED BY <2>2, FS_EmptySet
<1>5. CASE Keeping
  BY <1>1, <1>3, <1>5 DEF Keeping
<1>6. ASSUME NEW i \in Invoices, Opens(i) \/ Marks(i) \/ Voids(i)
      PROVE  \A j \in Invoices : inv'[j].paid = Cardinality(MinorUnits(j)')
  <2>1. \A j \in Invoices : MinorUnits(j)' = MinorUnits(j)
    BY <1>3, <1>6 DEF Opens, Marks, Voids
  <2>2. inv'[i].paid = Cardinality(MinorUnits(i))
    BY <1>1, <1>4, <1>6 DEF Opens, Marks, Voids, Writes
  <2>3. \A j \in Invoices : j # i => inv'[j] = inv[j]
    BY <1>6 DEF Opens, Marks, Voids, Writes
  <2> QED BY <1>1, <2>1, <2>2, <2>3
<1>7. ASSUME NEW i \in Invoices, NEW p, p.invoice = i, p.amount \in Nat, p \notin payments,
             payments' = payments \union {p},
             \A j \in Invoices : j # i => inv'[j] = inv[j],
             inv'[i].paid = Cardinality(MinorUnits(i)) + p.amount
      PROVE  \A j \in Invoices : inv'[j].paid = Cardinality(MinorUnits(j)')
  BY <1>1, <1>7, UnitsAdded
<1>8. ASSUME NEW h \in Handlers, Receives(h)
      PROVE  \A j \in Invoices : inv'[j].paid = Cardinality(MinorUnits(j)')
  <2> DEFINE i == req[h].invoice
             p == [ref |-> req[h].ref, invoice |-> i, amount |-> req[h].amount]
  <2>1. i \in Invoices /\ req[h].amount \in Nat
    BY <1>8, RequestParts DEF Receives, TypeOK
  <2>2. p.invoice = i /\ p.amount = req[h].amount /\ p.ref = req[h].ref
    OBVIOUS
  <2>3. payments' = payments \union {p} /\ \A q \in payments : q.ref # req[h].ref
    BY <1>8 DEF Receives
  <2> HIDE DEF p
  <2>4. /\ \A j \in Invoices : j # i => inv'[j] = inv[j]
        /\ inv'[i].paid = inv[i].paid + req[h].amount
    BY <1>8 DEF Receives, Writes
  <2> QED BY <1>1, <1>7, <2>1, <2>2, <2>3, <2>4
<1>9. ASSUME NEW ref, NEW i \in Invoices, NEW n \in Nat, PayFor(ref, i, n),
             \A p \in payments : p.ref # ref,
             \A j \in Invoices : j # i => inv'[j] = inv[j],
             inv'[i].paid = Cardinality(MinorUnits(i)) + n
      PROVE  \A j \in Invoices : inv'[j].paid = Cardinality(MinorUnits(j)')
  <2>1. PICK p : /\ p.invoice = i /\ p.amount = n /\ p.ref = ref
                 /\ p \notin payments /\ payments' = payments \union {p}
    BY <1>9, PaidUnder
  <2> QED BY <1>7, <1>9, <2>1
<1>10. ASSUME NEW h \in Handlers, NEW k \in DOMAIN log, Completed(h, k)
       PROVE  \A j \in Invoices : inv'[j].paid = Cardinality(MinorUnits(j)')
  <2> DEFINE i == log[k].sub
  <2>1. i \in Invoices /\ Charged(log[k]) \in Nat
    BY EventParts
  <2>2. /\ inv[i].status = "open" /\ Charged(log[k]) = inv[i].due
        /\ inv'[i].paid = inv[i].total /\ \A j \in Invoices : j # i => inv'[j] = inv[j]
        /\ PayFor(<<"checkout", i>>, i, Charged(log[k]))
    BY <1>10 DEF Completed, Writes
  <2>3. \A p \in payments : p.ref # <<"checkout", i>>
    BY <1>2, <2>1, <2>2 DEF Receipt
  <2>4. inv'[i].paid = Cardinality(MinorUnits(i)) + Charged(log[k])
    BY <1>1, <2>1, <2>2
  <2> QED BY <1>9, <2>1, <2>2, <2>3, <2>4
<1>11. ASSUME NEW h \in Handlers, NEW i \in Invoices, SettledBy(h, i) \/ MirroredBy(h, i)
       PROVE  \A j \in Invoices : inv'[j].paid = Cardinality(MinorUnits(j)')
  <2> DEFINE k == req[h].event
             e == log[k]
  <2>1. /\ req[h].op = "hook" /\ e.type = "paid" /\ PayFor(PaidRef(e), i, Charged(e))
        /\ \A j \in Invoices : j # i => inv'[j] = inv[j]
    BY <1>11 DEF SettledBy, MirroredBy, Writes
  <2>2. k \in DOMAIN log /\ Charged(e) \in Nat /\ <<e.sub, e.period>> \in StripeInvoices
    BY <2>1, HookParts, EventParts
  <2>3. Unposted(h)
    BY <2>1 DEF Posts, Posting
  <2>4. \A p \in payments : p.ref # PaidRef(e)
    <3>1. ASSUME NEW p \in payments, p.ref = <<"invoice", <<e.sub, e.period>> >>
          PROVE  FALSE
      <4>1. PICK l \in processed : /\ log[l].type = "paid"
                                   /\ <<log[l].sub, log[l].period>> = <<e.sub, e.period>>
        BY <1>2, <2>2, <3>1 DEF Receipt
      <4>2. l \in DOMAIN log /\ log[l].sub = e.sub /\ log[l].period = e.period
        BY <4>1 DEF TypeOK
      <4>3. l = k
        BY <2>1, <2>2, <4>1, <4>2 DEF Charging
      <4> QED BY <2>3, <4>3 DEF Unposted
    <3> QED BY <3>1 DEF PaidRef
  <2>5. inv'[i].paid = Cardinality(MinorUnits(i)) + Charged(e)
    <3>1. CASE SettledBy(h, i)
      <4>1. inv'[i].paid = inv[i].total /\ req[h].settles /\ i \in req[h].found
        BY <3>1 DEF SettledBy, Writes
      <4>2. inv[i].due = Charged(e)
        BY <2>3, <4>1 DEF Unposted
      <4> QED BY <1>1, <2>2, <4>1, <4>2
    <3>2. CASE MirroredBy(h, i)
      <4>1. inv'[i].paid = Charged(e) /\ ~Exists(i)
        BY <3>2 DEF MirroredBy, Writes
      <4> QED BY <1>4, <2>2, <4>1
    <3> QED BY <1>11, <3>1, <3>2
  <2> HIDE DEF e
  <2> QED BY <1>9, <2>1, <2>2, <2>4, <2>5
<1> QED BY <1>5, <1>6, <1>8, <1>10, <1>11 DEF Moves

LEMMA InitBooks == Init => Books
<1> SUFFICES ASSUME Init PROVE Books
  OBVIOUS
<1>1. Charging
  BY DEF Init, NoStripe, Charging
<1>2. Balances
  BY DEF Init, Absent, Balances
<1>3. Receipts
  BY DEF Init, Receipts
<1>4. \A i \in Invoices : MinorUnits(i) = {}
  BY DEF Init, MinorUnits, PaymentsOf
<1>5. Countable /\ BooksBalance
  BY <1>4, FS_EmptySet DEF Countable, BooksBalance, Init, Absent
<1>6. Posts
  BY DEF Init, Idle, Posts, Posting
<1> QED BY <1>1, <1>2, <1>3, <1>5, <1>6 DEF Books

LEMMA StutterBooks ==
  ASSUME Books, UNCHANGED vars
  PROVE  Books'
<1> USE DEF vars, stripeVars
<1>1. \A i \in Invoices : MinorUnits(i)' = MinorUnits(i)
  BY DEF MinorUnits, PaymentsOf
<1>2. Countable' /\ BooksBalance'
  BY <1>1 DEF Books, Countable, BooksBalance
<1>3. Charging' /\ Balances'
  BY DEF Books, Charging, Balances
<1>4. Receipts'
  BY DEF Books, Receipts, Receipt, Exists
<1>5. Posts'
  BY DEF Books, Posts, Posting, Unposted, Charged
<1> QED BY <1>2, <1>3, <1>4, <1>5 DEF Books

(* In every behaviour what was paid and what is due make up the total of   *)
(* an invoice, however payments, voids and webhooks interleave, and Stripe *)
(* charges a period once; unless they overlap, a webhook still finds due   *)
(* what it has read.                                                       *)
THEOREM BillingBooks == Spec => []Books
<1>1. Invariant /\ Books /\ [Next]_vars => Books'
  <2>1. ASSUME Ledger, Next PROVE Books'
    <3>1. Moves
      BY <2>1, BookMoves DEF Ledger, Books
    <3> QED
      BY <2>1, <3>1, ChargingKept, BalancesKept, ReceiptsKept, CountableKept, PostsKept,
         BooksKept DEF Books
  <2> QED BY <2>1, StutterBooks DEF Ledger
<1> QED BY <1>1, InitBooks, BillingInvariant, PTL DEF Spec

(* service.py record_payment and stripe_service.py _checkout_completed and *)
(* _invoice_paid: unless they overlap or administrators use Stripe's       *)
(* references, every unit an invoice says was paid is accounted for by one *)
(* payment, and no payment is counted twice.                               *)
THEOREM BooksBalanceHolds == Spec => []BooksBalance
<1>1. Books => BooksBalance
  BY DEF Books
<1> QED BY <1>1, BillingBooks, PTL
=============================================================================
