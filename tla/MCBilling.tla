------------------------------ MODULE MCBilling ------------------------------
(* Instances of Billing: a free and two paid plans, few invoices, and the  *)
(* environments they are put in.                                           *)
EXTENDS Billing, FiniteSetsExt, TLC

CONSTANTS free, basic, pro, f1, f2

PriceList ==
  [p \in Plans |-> IF p = free THEN 0 ELSE IF p = basic THEN 1 ELSE 2]

(* Any n invoices, so that the symmetry may permute them.                  *)
Around(faults, operations, plans, metadata, n, refs, events) ==
  {[faults |-> faults, operations |-> operations, plans |-> plans,
    metadata |-> metadata, invoices |-> ids, refs |-> refs, events |-> events]
     : ids \in kSubset(n, Invoices)}

Paid == {"checkout", "renew", "fail", "end"}

(* Everything that settles or voids an invoice, at once; prices changing   *)
(* meanwhile; payments in parts and webhooks in any order; Checkout with   *)
(* all that can go wrong; renewals without metadata; and a company that    *)
(* cancels and uses the portal, in turn and with webhooks in any order.    *)
BillingEnvironments ==
  Around({"parallel", "overlap", "reorder", "abort", "expire"},
         {"change", "checkout", "pay", "charge", "void"}, {free, pro}, TRUE,
         2, {f1}, 2)
  \union Around({"parallel", "overlap", "reorder"}, {"change", "checkout", "reprice"},
                {free, basic}, TRUE, 2, {}, 2)
  \union Around({"parallel", "reorder"}, {"change", "checkout", "pay", "renew"},
                {free, pro}, TRUE, 2, Refs, 4)
  \union Around({"parallel", "reorder", "abort", "expire"}, Paid, Plans, TRUE, 3,
                {}, 6)
  \union Around({"parallel", "abort"}, Paid, Plans, FALSE, 3, {}, 6)
  \union Around({"abort"}, Paid \union {"portal", "cancel"}, Plans, TRUE, 2, {}, 6)
  \union Around({"parallel", "reorder"}, Paid \union {"portal", "cancel"}, {free, pro},
                TRUE, 2, {}, 5)

(* Checkout under fairness; a payment overtaking a void request; renewals  *)
(* that carry the metadata of their subscription.                          *)
CheckoutEnvironments ==
  Around({"parallel", "overlap", "reorder"}, {"checkout", "renew", "end"},
         Plans, TRUE, 2, {}, 4)
VoidEnvironments ==
  Around({"parallel"}, {"change", "pay", "void"}, {free, basic}, TRUE, 2, {f1}, 0)
RenewalEnvironments ==
  Around({}, {"checkout", "renew"}, {free, basic}, TRUE, 3, {}, 4)

BillingSymmetry == Permutations(Handlers) \union Permutations(Invoices)
=============================================================================
