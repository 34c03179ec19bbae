------------------------------- MODULE Billing -------------------------------
(***************************************************************************)
(* The subscription of one company and what changes it: plan changes with  *)
(* their invoices, payments an administrator records, Stripe Checkout, and *)
(* the webhooks through which Stripe reports what it charged.              *)
(*                                                                         *)
(* A request that reads rows without a lock and writes them when it        *)
(* commits is two actions; what it read is kept in req.  A request that    *)
(* holds FOR UPDATE locks on every row it uses is one.                     *)
(***************************************************************************)
EXTENDS Naturals, FiniteSets, Sequences

CONSTANTS
  Plans, FirstPlan,   \* the plans, and the one the company signed up with
  Invoices,           \* invoice identifiers (uuid4): never used twice
  Refs,               \* references of payments an administrator records
  Handlers,           \* API requests being served at the same time
  None,
  Prices,             \* the monthly prices of this instance, 0 for a free plan
  FirstPrice,         \* what each plan costs at first
  PeriodBound,        \* bound of the model: renewals per Stripe subscription
  Environments        \* the environments of this instance, see Environment

SubscriptionStatus == {"trial", "active", "past_due", "cancelled", "expired"}
StripeStatus == {"active", "past_due", "canceled", "paused"}

Operations == {"change", "checkout", "pay", "charge", "void", "cancel",
               "reprice", "renew", "fail", "end", "portal"}

(* parallel: requests are served at the same time.  overlap: a webhook     *)
(* even while another webhook or a payment is.  reorder: webhooks are      *)
(* delivered out of order.  abort: a request dies or is refused by Stripe  *)
(* or the database and is rolled back.  expire: an unpaid Checkout session *)
(* times out.                                                              *)
Behaviours == {"parallel", "overlap", "reorder", "abort", "expire"}

(* What happens around the system in one behaviour: what goes wrong, what  *)
(* users, administrators and Stripe do, the plans on offer, whether Stripe *)
(* copies the metadata of a subscription to its invoices (which depends on *)
(* its API version), and bounds: the invoices that may be created, the     *)
(* references of payments, the number of events.                           *)
Environment ==
  [faults : SUBSET Behaviours, operations : SUBSET Operations,
   plans : SUBSET Plans, metadata : BOOLEAN,
   invoices : SUBSET Invoices, refs : SUBSET Refs, events : Nat]

ASSUME BillingAssumption ==
  /\ FirstPlan \in Plans
  /\ None \notin Plans \union Invoices \union (Invoices \X Nat)
  /\ Prices \subseteq Nat
  /\ FirstPrice \in [Plans -> Prices]
  /\ PeriodBound \in Nat
  /\ Environments \subseteq Environment

(* A Stripe subscription is named by the local invoice whose Checkout      *)
(* created it, a Stripe invoice by its subscription and billing period.    *)
StripeInvoices == Invoices \X (0..PeriodBound)
StripeRefs == ({"checkout"} \X Invoices) \union ({"invoice"} \X StripeInvoices)
PaymentRefs == Refs \union StripeRefs

Subscription == [plan : Plans, pending : Plans \union {None},
                 status : SubscriptionStatus, link : Invoices \union {None},
                 cancelling : BOOLEAN]
(* plan is the plan of a plan_change invoice, None for any other charge.   *)
Invoice == [status : {"absent", "open", "paid", "void"}, plan : Plans \union {None},
            total : Nat, paid : Nat, due : Nat,
            stripe : StripeInvoices \union {None}]
Payment == [ref : PaymentRefs, invoice : Invoices, amount : Nat]
Session == [state : {"none", "created", "open", "paid"},
            plan : Plans \union {None}, amount : Nat]
StripeSubscription == [status : StripeStatus \union {"none"},
                       plan : Plans \union {None}, atEnd : BOOLEAN]
(* An event carries the Stripe subscription as it was when it happened.    *)
Event == [type : {"completed", "paid", "failed", "updated", "deleted"},
          sub : Invoices, period : 0..PeriodBound, state : StripeSubscription]

Request ==
  [op : {"idle"}]
  \union [op : {"change"}, plan : Plans, price : Nat, seen : Subscription]
  \union [op : {"checkout"}, plan : Plans, price : Nat, invoice : Invoices,
          fresh : BOOLEAN, locked : BOOLEAN, session : BOOLEAN]
  \union [op : {"pay"}, invoice : Invoices, amount : Nat, ref : Refs,
          seen : Subscription]
  \union [op : {"void"}, invoice : Invoices, seen : Subscription]
  \union [op : {"cancel"}, value : BOOLEAN, told : BOOLEAN, seen : Subscription]
  \union [op : {"hook"}, event : Nat, seen : Subscription,
          found : SUBSET Invoices, settles : BOOLEAN]

VARIABLES
  env,        \* the environment, chosen at first and never changed
  sub,        \* the subscriptions row
  inv,        \* the invoices rows, "absent" where there is none
  payments,   \* the payments rows
  price,      \* plans.price_monthly_minor
  customer,   \* companies.stripe_customer_id is set
  processed,  \* stripe_events: positions in log of the events handled
  req,        \* the request each handler is serving
  sessions,   \* Checkout sessions at Stripe, by the invoice they are for
  stripe,     \* Stripe subscriptions, by the invoice that started them
  period,     \* periods Stripe has charged, by subscription
  log         \* the events Stripe has emitted; any may be delivered again

stripeVars == <<sessions, stripe, period, log>>
vars == <<env, sub, inv, payments, price, customer, processed, req, stripeVars>>

-----------------------------------------------------------------------------
Idle == [op |-> "idle"]
Absent == [status |-> "absent", plan |-> None, total |-> 0, paid |-> 0,
           due |-> 0, stripe |-> None]
NoSession == [state |-> "none", plan |-> None, amount |-> 0]
NoStripe == [status |-> "none", plan |-> None, atEnd |-> FALSE]

Init ==
  /\ env \in Environments
  /\ sub = [plan |-> FirstPlan, pending |-> None, status |-> "trial",
            link |-> None, cancelling |-> FALSE]
  /\ inv = [i \in Invoices |-> Absent]
  /\ payments = {}
  /\ price = FirstPrice
  /\ customer \in BOOLEAN
  /\ processed = {}
  /\ req = [h \in Handlers |-> Idle]
  /\ sessions = [i \in Invoices |-> NoSession]
  /\ stripe = [i \in Invoices |-> NoStripe]
  /\ period = [i \in Invoices |-> 0]
  /\ log = <<>>

(* SQLAlchemy writes the columns whose value differs from the one loaded.  *)
Column(now, seen, new) == IF new = seen THEN now ELSE new
Merge(seen, new) ==
  [plan |-> Column(sub.plan, seen.plan, new.plan),
   pending |-> Column(sub.pending, seen.pending, new.pending),
   status |-> Column(sub.status, seen.status, new.status),
   link |-> Column(sub.link, seen.link, new.link),
   cancelling |-> Column(sub.cancelling, seen.cancelling, new.cancelling)]

(* Rows a transaction of another handler has locked FOR UPDATE.            *)
(* Definitions named Mutant... are plausible bugs; no definition uses them.*)
MutantSubLocked(h) == FALSE
SubLocked(h) == \E g \in Handlers \ {h} : req[g].op = "checkout" /\ req[g].locked
MutantInvoiceLocked(h, i) == FALSE
InvoiceLocked(h, i) ==
  \E g \in Handlers \ {h} : req[g].op = "pay" /\ req[g].invoice = i

Unused(i) ==
  /\ i \in env.invoices
  /\ inv[i].status = "absent" /\ sessions[i] = NoSession
  /\ \A g \in Handlers : req[g].op = "checkout" => req[g].invoice # i

(* A handler takes the next request; webhooks and payments wait for each   *)
(* other unless they overlap.                                              *)
Free(h) ==
  /\ req[h] = Idle
  /\ "parallel" \in env.faults \/ \A g \in Handlers : req[g] = Idle
Apart(h) ==
  \/ "overlap" \in env.faults
  \/ \A g \in Handlers \ {h} : req[g].op \notin {"pay", "hook"}

OpenInvoice(p, amount) ==
  [Absent EXCEPT !.status = "open", !.plan = p, !.total = amount, !.due = amount]
(* ck_invoices_payment_balance                                             *)
Balanced(r) == r.due = r.total - r.paid

MutantActivated(s, p) ==
  IF p = None THEN s
  ELSE [s EXCEPT !.plan = p, !.status = "active", !.cancelling = FALSE]
(* _activate_paid_plan_change                                              *)
Activated(s, p) ==
  IF p = None THEN s
  ELSE [s EXCEPT !.plan = p, !.pending = None, !.status = "active",
                 !.cancelling = FALSE]

Finish(h) == req' = [req EXCEPT ![h] = Idle]

-----------------------------------------------------------------------------
(* change_plan: no lock is taken.  The query for an open invoice cannot    *)
(* refuse what pending_plan_id did not.                                    *)
ChangeRead(h, p) ==
  /\ "change" \in env.operations
  /\ Free(h)
  /\ p \in env.plans \ {sub.plan}
  /\ sub.pending = None
  /\ req' = [req EXCEPT ![h] = [op |-> "change", plan |-> p, price |-> price[p],
                                seen |-> sub]]
  /\ UNCHANGED <<env, sub, inv, payments, price, customer, processed, stripeVars>>

ChangeFree(h) ==
  LET r == req[h] IN
  /\ r.op = "change" /\ r.price = 0
  /\ ~SubLocked(h)
  /\ sub' = Merge(r.seen, Activated(r.seen, r.plan))
  /\ Finish(h)
  /\ UNCHANGED <<env, inv, payments, price, customer, processed, stripeVars>>

ChangeInvoice(h) ==
  LET r == req[h] IN
  /\ r.op = "change" /\ r.price > 0
  /\ ~SubLocked(h)
  /\ \E i \in Invoices :
       /\ Unused(i)
       /\ inv' = [inv EXCEPT ![i] = OpenInvoice(r.plan, r.price)]
  /\ sub' = Merge(r.seen, [r.seen EXCEPT !.pending = r.plan])
  /\ Finish(h)
  /\ UNCHANGED <<env, payments, price, customer, processed, stripeVars>>

-----------------------------------------------------------------------------
MutantCanCheckout(p) ==
  /\ p # sub.plan /\ price[p] > 0
  /\ sub.link = None \/ sub.status # "active"
CanCheckout(p) ==
  /\ p # sub.plan /\ price[p] > 0
  /\ sub.link = None \/ sub.status \in {"cancelled", "expired"}

(* With a plan change pending any open invoice of the subscription is      *)
(* taken to be the invoice of the change.                                  *)
MutantInvoiceFor(p, i) == IF sub.pending = None THEN Unused(i) ELSE inv[i].status = "open"
InvoiceFor(p, i) ==
  IF sub.pending = None THEN Unused(i)
  ELSE sub.pending = p /\ inv[i].status = "open"

(* create_checkout until it needs Stripe, under the lock of the row.       *)
CheckoutRead(h, p, i) ==
  /\ "checkout" \in env.operations
  /\ Free(h)
  /\ ~SubLocked(h)
  /\ p \in env.plans /\ CanCheckout(p)
  /\ InvoiceFor(p, i)
  /\ req' = [req EXCEPT ![h] =
       [op |-> "checkout", plan |-> p, price |-> price[p], invoice |-> i,
        fresh |-> sub.pending = None, locked |-> TRUE, session |-> FALSE]]
  /\ UNCHANGED <<env, sub, inv, payments, price, customer, processed, stripeVars>>

(* What a commit of create_checkout writes, unless an earlier one has.     *)
SaveInvoice(h) ==
  LET r == req[h] IN
  IF r.fresh
  THEN /\ inv' = [inv EXCEPT ![r.invoice] = OpenInvoice(r.plan, r.price)]
       /\ sub' = [sub EXCEPT !.pending = r.plan]
  ELSE UNCHANGED <<inv, sub>>

(* The Stripe customer is created and committed, which releases the lock.  *)
CheckoutCustomer(h) ==
  /\ req[h].op = "checkout"
  /\ req[h].locked /\ ~req[h].session /\ ~customer
  /\ SaveInvoice(h)
  /\ customer' = TRUE
  /\ req' = [req EXCEPT ![h].fresh = FALSE, ![h].locked = FALSE]
  /\ UNCHANGED <<env, payments, price, processed, stripeVars>>

(* The idempotency key is the invoice: a repeated request returns the same *)
(* session, with other parameters Stripe refuses it.                       *)
SameSession(h) ==
  LET r == req[h]  s == sessions[r.invoice] IN
  s.state = "none" \/ (s.plan = r.plan /\ s.amount = r.price)

CheckoutSession(h) ==
  LET r == req[h] IN
  /\ r.op = "checkout" /\ ~r.session
  /\ r.locked => customer
  /\ SameSession(h)
  /\ sessions' = IF sessions[r.invoice].state = "none"
                 THEN [sessions EXCEPT ![r.invoice] =
                         [state |-> "created", plan |-> r.plan, amount |-> r.price]]
                 ELSE sessions
  /\ req' = [req EXCEPT ![h].session = TRUE]
  /\ UNCHANGED <<env, sub, inv, payments, price, customer, processed, stripe, period, log>>

(* The second commit; the user now has the address of the session.         *)
CheckoutCommit(h) ==
  LET r == req[h] IN
  /\ r.op = "checkout" /\ r.session
  /\ ~InvoiceLocked(h, r.invoice)
  /\ SaveInvoice(h)
  /\ sessions' = IF sessions[r.invoice].state = "created"
                 THEN [sessions EXCEPT ![r.invoice].state = "open"]
                 ELSE sessions
  /\ Finish(h)
  /\ UNCHANGED <<env, payments, price, customer, processed, stripe, period, log>>

CheckoutRefused(h) ==
  /\ req[h].op = "checkout" /\ ~req[h].session
  /\ req[h].locked => customer
  /\ ~SameSession(h)
  /\ Finish(h)
  /\ UNCHANGED <<env, sub, inv, payments, price, customer, processed, stripeVars>>

-----------------------------------------------------------------------------
(* The checks of record_payment, in their order.                           *)
PayReply(i, amount, ref) ==
  IF inv[i].status # "open" \/ amount > inv[i].due THEN "refused"
  ELSE IF \A p \in payments : p.ref # ref THEN "recorded"
  ELSE IF [ref |-> ref, invoice |-> i, amount |-> amount] \in payments
       THEN "existing" ELSE "refused"

PayRead(h, i, amount, ref) ==
  /\ "pay" \in env.operations
  /\ Free(h) /\ Apart(h)
  /\ ~InvoiceLocked(h, i)
  /\ PayReply(i, amount, ref) = "recorded"
  /\ req' = [req EXCEPT ![h] = [op |-> "pay", invoice |-> i, amount |-> amount,
                                ref |-> ref, seen |-> sub]]
  /\ UNCHANGED <<env, sub, inv, payments, price, customer, processed, stripeVars>>

MutantCompletes(r, amount) == amount > 0
Completes(r, amount) == r.due = amount
Received(r, amount) ==
  [r EXCEPT !.paid = @ + amount, !.due = @ - amount,
            !.status = IF Completes(r, amount) THEN "paid" ELSE "open"]

(* The invoice is locked since PayRead, the subscription is not.           *)
PayCommit(h) ==
  LET r == req[h]  row == inv[r.invoice] IN
  /\ r.op = "pay"
  /\ \A p \in payments : p.ref # r.ref
  /\ inv' = [inv EXCEPT ![r.invoice] = Received(row, r.amount)]
  /\ payments' = payments \union {[ref |-> r.ref, invoice |-> r.invoice,
                                   amount |-> r.amount]}
  /\ IF Completes(row, r.amount) /\ row.plan # None
     THEN ~SubLocked(h) /\ sub' = Merge(r.seen, Activated(r.seen, row.plan))
     ELSE UNCHANGED sub
  /\ Finish(h)
  /\ UNCHANGED <<env, price, customer, processed, stripeVars>>

(* Another payment took the reference first: the unique index refuses.     *)
PayConflict(h) ==
  /\ req[h].op = "pay"
  /\ \E p \in payments : p.ref = req[h].ref
  /\ Finish(h)
  /\ UNCHANGED <<env, sub, inv, payments, price, customer, processed, stripeVars>>

(* create_invoice: any charge that is not a plan change.                   *)
Charge(i, amount) ==
  /\ "charge" \in env.operations
  /\ Unused(i) /\ amount > 0
  /\ inv' = [inv EXCEPT ![i] = OpenInvoice(None, amount)]
  /\ UNCHANGED <<env, sub, payments, price, customer, processed, req, stripeVars>>

VoidRead(h, i) ==
  /\ "void" \in env.operations
  /\ Free(h)
  /\ inv[i].status = "open" /\ inv[i].paid = 0
  /\ req' = [req EXCEPT ![h] = [op |-> "void", invoice |-> i, seen |-> sub]]
  /\ UNCHANGED <<env, sub, inv, payments, price, customer, processed, stripeVars>>

Voided(r) == [r EXCEPT !.status = "void", !.due = 0]

(* The commit takes effect if the row satisfies the table's CHECK.         *)
VoidCommit(h) ==
  LET r == req[h]  row == Voided(inv[r.invoice]) IN
  /\ r.op = "void"
  /\ ~SubLocked(h) /\ ~InvoiceLocked(h, r.invoice)
  /\ IF Balanced(row)
     THEN /\ inv' = [inv EXCEPT ![r.invoice] = row]
          /\ sub' = IF row.plan = None THEN sub
                    ELSE Merge(r.seen, [r.seen EXCEPT !.pending = None])
     ELSE UNCHANGED <<inv, sub>>
  /\ Finish(h)
  /\ UNCHANGED <<env, payments, price, customer, processed, stripeVars>>

(* update_plan: only its effect on the price is kept.                      *)
Reprice(p, amount) ==
  /\ "reprice" \in env.operations
  /\ price[p] > 0 /\ amount # price[p] /\ amount > 0
  /\ price' = [price EXCEPT ![p] = amount]
  /\ UNCHANGED <<env, sub, inv, payments, customer, processed, req, stripeVars>>

-----------------------------------------------------------------------------
Ended == {"cancelled", "expired"}

Snapshot(type, i, s, n) == [type |-> type, sub |-> i, period |-> n, state |-> s]
Emit(types, i, s, n) == log \o [k \in DOMAIN types |-> Snapshot(types[k], i, s, n)]
Fits(n) == Len(log) + n =< env.events

CancelRead(h, value) ==
  /\ "cancel" \in env.operations
  /\ Free(h)
  /\ sub.status \notin Ended
  /\ req' = [req EXCEPT ![h] = [op |-> "cancel", value |-> value,
                                told |-> sub.link = None, seen |-> sub]]
  /\ UNCHANGED <<env, sub, inv, payments, price, customer, processed, stripeVars>>

(* Stripe changes the flag and reports it; a subscription that has ended   *)
(* it refuses, see Abandon.                                                *)
CancelStripe(h) ==
  LET r == req[h]
      i == r.seen.link
      s == [stripe[i] EXCEPT !.atEnd = r.value]
  IN
  /\ r.op = "cancel" /\ ~r.told
  /\ stripe[i].status # "canceled"
  /\ Fits(1)
  /\ stripe' = [stripe EXCEPT ![i] = s]
  /\ log' = Emit(<<"updated">>, i, s, 0)
  /\ req' = [req EXCEPT ![h].told = TRUE]
  /\ UNCHANGED <<env, sub, inv, payments, price, customer, processed, sessions, period>>

(* set_cancel_at_period_end reads again, but the session returns the row   *)
(* it has already loaded.                                                  *)
CancelCommit(h) ==
  LET r == req[h] IN
  /\ r.op = "cancel" /\ r.told
  /\ ~SubLocked(h)
  /\ sub' = Merge(r.seen, [r.seen EXCEPT !.cancelling = r.value])
  /\ Finish(h)
  /\ UNCHANGED <<env, inv, payments, price, customer, processed, stripeVars>>

-----------------------------------------------------------------------------
(* process_webhook: the event id is inserted first, so a second delivery   *)
(* waits for the first and then finds the event processed.                 *)
Deliverable(h, k) ==
  /\ Free(h) /\ Apart(h)
  /\ k \in DOMAIN log \ processed
  /\ \A g \in Handlers : req[g].op = "hook" => req[g].event # k
  /\ "reorder" \in env.faults \/ \A j \in 1..(k - 1) : j \in processed

Charged(e) == sessions[e.sub].amount
PayFor(ref, i, amount) ==
  payments' = IF \E p \in payments : p.ref = ref THEN payments
              ELSE payments \union {[ref |-> ref, invoice |-> i, amount |-> amount]}

Settled(r) == [r EXCEPT !.status = "paid", !.paid = r.total, !.due = 0]

(* The session's metadata must match the invoice, and so must the amount   *)
(* while the invoice is open; otherwise ValidationError: the event is      *)
(* rolled back and Stripe delivers it again.                               *)
MutantCompletable(i) == inv[i].plan = sessions[i].plan
Completable(i) ==
  /\ inv[i].plan = sessions[i].plan
  /\ inv[i].status = "open" => sessions[i].amount = inv[i].due

(* _checkout_completed, which locks the invoice and the subscription.      *)
HookCompleted(h, k) ==
  LET i == log[k].sub
      open == inv[i].status = "open"
      first == Snapshot("paid", i, log[k].state, 0)
  IN
  /\ Deliverable(h, k)
  /\ log[k].type = "completed"
  /\ ~SubLocked(h) /\ ~InvoiceLocked(h, i)
  /\ Completable(i)
  /\ inv' = [inv EXCEPT ![i] = [IF open THEN Settled(@) ELSE @ EXCEPT
                                  !.stripe = <<i, 0>>]]
  /\ IF open THEN PayFor(<<"checkout", i>>, i, Charged(first)) ELSE UNCHANGED payments
  /\ sub' = [IF open THEN Activated(sub, inv[i].plan) ELSE sub EXCEPT !.link = i]
  /\ customer' = TRUE
  /\ processed' = processed \union {k}
  /\ UNCHANGED <<env, price, req, stripeVars>>

(* The subscription an event is about: by its Stripe id, and for a paid    *)
(* invoice also by the company in the metadata.                            *)
Finds(e) == sub.link = e.sub \/ (e.type = "paid" /\ env.metadata)

(* The local invoice a paid Stripe invoice is booked on: by its Stripe id, *)
(* else the one in the metadata of the Stripe subscription.                *)
MutantMirrors(e) == {e.sub}
Mirrors(e) ==
  LET known == {i \in Invoices : inv[i].stripe = <<e.sub, e.period>>} IN
  IF known # {} THEN known ELSE IF env.metadata THEN {e.sub} ELSE {}

HookIgnore(h, k) ==
  /\ Deliverable(h, k)
  /\ log[k].type # "completed" /\ ~Finds(log[k])
  /\ processed' = processed \union {k}
  /\ UNCHANGED <<env, sub, inv, payments, price, customer, req, stripeVars>>

(* An amount that does not match the open invoice is an error.             *)
HookRead(h, k) ==
  LET e == log[k]
      found == IF e.type = "paid" THEN Mirrors(e) ELSE {}
      settles == \E i \in found : inv[i].status = "open"
  IN
  /\ Deliverable(h, k)
  /\ e.type # "completed" /\ Finds(e)
  /\ settles => \A i \in found : inv[i].due = Charged(e)
  /\ req' = [req EXCEPT ![h] = [op |-> "hook", event |-> k, seen |-> sub,
                                found |-> found, settles |-> settles]]
  /\ UNCHANGED <<env, sub, inv, payments, price, customer, processed, stripeVars>>

LocalStatus(s) ==
  CASE s = "active" -> "active"
    [] s = "past_due" -> "past_due"
    [] s = "canceled" -> "cancelled"
    [] s = "paused" -> "expired"

(* What the handlers of the other events make of the row they loaded.      *)
MutantReported(e, s) ==
  CASE e.type = "failed" -> [s EXCEPT !.status = "past_due"]
    [] e.type = "deleted" -> [s EXCEPT !.status = "cancelled", !.cancelling = FALSE]
    [] OTHER -> [s EXCEPT !.cancelling = e.state.atEnd]
Reported(e, s) ==
  CASE e.type = "failed" -> [s EXCEPT !.status = "past_due"]
    [] e.type = "updated" ->
         [s EXCEPT !.status = LocalStatus(e.state.status), !.plan = e.state.plan,
                   !.pending = None, !.cancelling = e.state.atEnd]
    [] e.type = "deleted" -> [s EXCEPT !.status = "cancelled", !.cancelling = FALSE]

HookReport(h) ==
  LET r == req[h]  e == log[r.event] IN
  /\ r.op = "hook" /\ e.type # "paid"
  /\ ~SubLocked(h)
  /\ sub' = Merge(r.seen, Reported(e, r.seen))
  /\ processed' = processed \union {r.event}
  /\ Finish(h)
  /\ UNCHANGED <<env, inv, payments, price, customer, stripeVars>>

Linked(r, e) == [r.seen EXCEPT !.link = e.sub, !.status = "active"]
PaidRef(e) == <<"invoice", <<e.sub, e.period>> >>

(* _invoice_paid on an invoice that was open when it was read ...          *)
HookSettle(h) ==
  LET r == req[h]  e == log[r.event] IN
  /\ r.op = "hook" /\ e.type = "paid" /\ r.settles
  /\ ~SubLocked(h)
  /\ \E i \in r.found :
       /\ ~InvoiceLocked(h, i)
       /\ inv' = [inv EXCEPT ![i] = [Settled(@) EXCEPT
                                       !.stripe = <<e.sub, e.period>>]]
       /\ PayFor(PaidRef(e), i, Charged(e))
       /\ sub' = Merge(r.seen, Activated(Linked(r, e), inv[i].plan))
  /\ processed' = processed \union {r.event}
  /\ Finish(h)
  /\ UNCHANGED <<env, price, customer, stripeVars>>

(* ... on none, so that the Stripe invoice is mirrored ...                 *)
HookMirror(h) ==
  LET r == req[h]  e == log[r.event] IN
  /\ r.op = "hook" /\ e.type = "paid" /\ r.found = {}
  /\ ~SubLocked(h)
  /\ \E i \in Invoices :
       /\ Unused(i)
       /\ inv' = [inv EXCEPT ![i] = [Settled(OpenInvoice(None, Charged(e))) EXCEPT
                                       !.stripe = <<e.sub, e.period>>]]
       /\ PayFor(PaidRef(e), i, Charged(e))
  /\ sub' = Merge(r.seen, Linked(r, e))
  /\ processed' = processed \union {r.event}
  /\ Finish(h)
  /\ UNCHANGED <<env, price, customer, stripeVars>>

(* ... on one that is closed already.                                      *)
HookRenew(h) ==
  LET r == req[h]  e == log[r.event] IN
  /\ r.op = "hook" /\ e.type = "paid" /\ r.found # {} /\ ~r.settles
  /\ ~SubLocked(h)
  /\ sub' = Merge(r.seen, Linked(r, e))
  /\ processed' = processed \union {r.event}
  /\ Finish(h)
  /\ UNCHANGED <<env, inv, payments, price, customer, stripeVars>>

(* The request is rolled back: it died, or Stripe or the database refused. *)
Abandon(h) ==
  /\ req[h] # Idle
  /\ \/ "abort" \in env.faults
     \/ /\ req[h].op = "cancel" /\ ~req[h].told
        /\ stripe[req[h].seen.link].status = "canceled"
  /\ Finish(h)
  /\ UNCHANGED <<env, sub, inv, payments, price, customer, processed, stripeVars>>

-----------------------------------------------------------------------------
(* Stripe and its customer, external.                                      *)
Live == {"active", "past_due"}

StripePay(i) ==
  LET s == [status |-> "active", plan |-> sessions[i].plan, atEnd |-> FALSE] IN
  /\ sessions[i].state = "open"
  /\ Fits(2)
  /\ sessions' = [sessions EXCEPT ![i].state = "paid"]
  /\ stripe' = [stripe EXCEPT ![i] = s]
  /\ \/ log' = Emit(<<"completed", "paid">>, i, s, 0)
     \/ log' = Emit(<<"paid", "completed">>, i, s, 0)
  /\ UNCHANGED <<env, sub, inv, payments, price, customer, processed, req, period>>

StripeExpire(i) ==
  /\ "expire" \in env.faults
  /\ sessions[i].state \in {"created", "open"}
  /\ \A h \in Handlers : req[h].op = "checkout" => req[h].invoice # i
  /\ sessions' = [sessions EXCEPT ![i] = NoSession]
  /\ UNCHANGED <<env, sub, inv, payments, price, customer, processed, req, stripe,
                 period, log>>

StripeChange(i, s, types, n) ==
  /\ Fits(Len(types))
  /\ stripe' = [stripe EXCEPT ![i] = s]
  /\ period' = [period EXCEPT ![i] = n]
  /\ log' = Emit(types, i, s, n)
  /\ UNCHANGED <<env, sub, inv, payments, price, customer, processed, req, sessions>>

StripeRenew(i) ==
  /\ "renew" \in env.operations
  /\ stripe[i].status \in Live /\ period[i] < PeriodBound
  /\ StripeChange(i, [stripe[i] EXCEPT !.status = "active"], <<"paid", "updated">>,
                  period[i] + 1)

StripeFail(i) ==
  /\ "fail" \in env.operations
  /\ stripe[i].status = "active"
  /\ StripeChange(i, [stripe[i] EXCEPT !.status = "past_due"],
                  <<"failed", "updated">>, period[i])

StripeEnd(i) ==
  /\ "end" \in env.operations
  /\ stripe[i].status \in Live
  /\ StripeChange(i, [stripe[i] EXCEPT !.status = "canceled", !.atEnd = FALSE],
                  <<"deleted">>, period[i])

(* The Customer Portal moves the Stripe subscription to another plan.      *)
StripePortal(i, p) ==
  /\ "portal" \in env.operations
  /\ stripe[i].status = "active" /\ p \in env.plans \ {stripe[i].plan}
  /\ price[p] > 0
  /\ StripeChange(i, [stripe[i] EXCEPT !.plan = p], <<"updated">>, period[i])

-----------------------------------------------------------------------------
UserStep(h) ==
  \/ \E p \in Plans : ChangeRead(h, p) \/ \E i \in Invoices : CheckoutRead(h, p, i)
  \/ ChangeFree(h) \/ ChangeInvoice(h)
  \/ CheckoutCustomer(h) \/ CheckoutSession(h) \/ CheckoutCommit(h)
  \/ CheckoutRefused(h)
  \/ \E value \in BOOLEAN : CancelRead(h, value)
  \/ CancelStripe(h) \/ CancelCommit(h)

AdminStep(h) ==
  \/ \E i \in Invoices : \/ VoidRead(h, i)
                         \/ \E amount \in 1..inv[i].due, ref \in env.refs :
                              PayRead(h, i, amount, ref)
  \/ PayCommit(h) \/ PayConflict(h) \/ VoidCommit(h)

HookStep(h) ==
  \/ \E k \in DOMAIN log : HookCompleted(h, k) \/ HookIgnore(h, k) \/ HookRead(h, k)
  \/ HookReport(h) \/ HookSettle(h) \/ HookMirror(h) \/ HookRenew(h)

StripeStep ==
  \/ \E i \in Invoices : \/ StripePay(i) \/ StripeExpire(i) \/ StripeRenew(i)
                         \/ StripeFail(i) \/ StripeEnd(i)
                         \/ \E p \in Plans : StripePortal(i, p)

Next ==
  \/ \E h \in Handlers : UserStep(h) \/ AdminStep(h) \/ HookStep(h) \/ Abandon(h)
  \/ \E i \in Invoices, amount \in Prices : Charge(i, amount)
  \/ \E p \in Plans, amount \in Prices : Reprice(p, amount)
  \/ StripeStep

Spec == Init /\ [][Next]_vars

(* Requests are served to their end, row locks being granted in turn, and  *)
(* Stripe delivers an event again until it is accepted.                    *)
Serve(h) ==
  \/ ChangeFree(h) \/ ChangeInvoice(h)
  \/ CheckoutCustomer(h) \/ CheckoutSession(h) \/ CheckoutCommit(h)
  \/ CheckoutRefused(h) \/ CancelStripe(h) \/ CancelCommit(h)
  \/ PayCommit(h) \/ PayConflict(h) \/ VoidCommit(h)
  \/ HookReport(h) \/ HookSettle(h) \/ HookMirror(h) \/ HookRenew(h)
Deliver(h) == \E k \in DOMAIN log : HookCompleted(h, k) \/ HookIgnore(h, k) \/ HookRead(h, k)

FairSpec ==
  Spec /\ \A h \in Handlers : SF_vars(Serve(h)) /\ SF_vars(Deliver(h))

-----------------------------------------------------------------------------
(* Every variable has its type; amounts are never negative.                *)
TypeOK ==
  /\ env \in Environments
  /\ sub \in Subscription
  /\ inv \in [Invoices -> Invoice]
  /\ payments \subseteq Payment
  /\ price \in [Plans -> Nat]
  /\ customer \in BOOLEAN
  /\ processed \subseteq DOMAIN log
  /\ req \in [Handlers -> Request]
  /\ sessions \in [Invoices -> Session]
  /\ stripe \in [Invoices -> StripeSubscription]
  /\ period \in [Invoices -> 0..PeriodBound]
  /\ log \in Seq(Event)

(* change_plan and create_checkout refuse while a plan change is pending,  *)
(* and only a payment of its invoice clears it: there must be one to pay,  *)
(* or the company can never change its plan again.                         *)
PendingPayable ==
  sub.pending # None =>
    \E i \in Invoices : inv[i].status = "open" /\ inv[i].plan = sub.pending

(* What an invoice says was paid is what its payments add up to, unless    *)
(* webhooks and payments overlap or an administrator records a payment     *)
(* under a reference Stripe's payments use.  A payment counts once, however*)
(* it was reported (record_payment, Checkout, a paid Stripe invoice).      *)
(* Amounts are numbers of minor units: the sum counts the units received.  *)
PaymentsOf(i) == {p \in payments : p.invoice = i}
MinorUnits(i) == UNION {{p} \X (1..p.amount) : p \in PaymentsOf(i)}
BooksBalance ==
  "overlap" \notin env.faults /\ Refs \intersect StripeRefs = {} =>
  \A i \in Invoices : inv[i].paid = Cardinality(MinorUnits(i))

(* README "becomes active only after the invoice has been paid in full".   *)
(* Unless invoices are voided, the plan in use is the first one, free,     *)
(* paid for, or what Stripe says.                                          *)
PlanPaidFor ==
  \/ "void" \in env.operations
  \/ sub.plan = FirstPlan \/ price[sub.plan] = 0
  \/ \E i \in Invoices : inv[i].status = "paid" /\ inv[i].plan = sub.plan /\ inv[i].due = 0
  \/ \E k \in processed : log[k].type = "updated" /\ log[k].state.plan = sub.plan

(* Plans are bought through Stripe Checkout only, and one webhook is       *)
(* handled at a time.  The company may cancel and resume, and change its   *)
(* plan in the portal.                                                     *)
CheckoutOnly ==
  /\ env.operations \subseteq {"checkout", "cancel", "renew", "fail", "end", "portal"}
  /\ "overlap" \notin env.faults

(* Then the company never has two Stripe subscriptions that charge it: the *)
(* lock, the pending plan and the idempotency key of create_checkout, all  *)
(* together, hold through crashes, expired sessions and ended subscriptions*)
OneStripeSubscription ==
  CheckoutOnly =>
  \A i, j \in Invoices :
    stripe[i].status \in Live /\ stripe[j].status \in Live => i = j

(* Then there is at most one open invoice for a plan change, although the  *)
(* lock is released when the Stripe customer is created.                   *)
OneChangeOpen ==
  CheckoutOnly =>
  \A i, j \in Invoices :
    /\ inv[i].status = "open" /\ inv[i].plan # None
    /\ inv[j].status = "open" /\ inv[j].plan # None
    => i = j

(* Then a customer can only pay a session whose payment the webhook will   *)
(* accept: Stripe would take the money and the plan would never change.    *)
SessionsMatch ==
  CheckoutOnly =>
  \A i \in Invoices : sessions[i].state = "open" => Completable(i)

(* With requests and webhooks handled one at a time and in order, and all  *)
(* plans bought at Stripe: once every event is handled the subscription    *)
(* agrees with Stripe, also when the company cancels, resumes and changes  *)
(* plans in the portal.                                                    *)
Current ==
  (/\ env.faults \intersect {"parallel", "overlap", "reorder"} = {}
   /\ env.operations \intersect {"change", "pay", "charge", "void", "reprice"} = {}
   /\ processed = DOMAIN log
   /\ \A h \in Handlers : req[h] = Idle) =>
    \A i \in Invoices : sub.link = i =>
      /\ sub.status = LocalStatus(stripe[i].status)
      /\ sub.plan = stripe[i].plan
      /\ sub.cancelling = stripe[i].atEnd

(* service.py 645 "Only open invoices can be voided".                      *)
OnlyOpenVoided ==
  [][\A i \in Invoices :
       inv'[i].status = "void" => inv[i].status \in {"open", "void"}]_vars

(* README 1175 "Successful renewal invoices and payments are mirrored into *)
(* the local billing history": every renewal that was handled is a paid    *)
(* local invoice.                                                          *)
AllRenewalsMirrored ==
  \A k \in processed :
    (log[k].type = "paid" /\ log[k].period > 0) =>
      \E i \in Invoices :
        inv[i].stripe = <<log[k].sub, log[k].period>> /\ inv[i].status = "paid"

(* That holds when Stripe's invoices do not carry the metadata and its     *)
(* webhooks come in order, whatever Checkouts and failures come between.   *)
RenewalsMirrored ==
  CheckoutOnly /\ ~env.metadata /\ "reorder" \notin env.faults => AllRenewalsMirrored

(* README "the signed webhook activates the plan": a paid session's plan   *)
(* change is settled in the end.                                           *)
WebhookActivates ==
  \A i \in Invoices :
    sessions[i].state = "paid" ~> \E j \in Invoices :
      inv[j].status = "paid" /\ inv[j].plan = sessions[i].plan
=============================================================================
