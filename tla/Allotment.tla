------------------------------ MODULE Allotment ------------------------------
(***************************************************************************)
(* What a plan promises about the resources it limits: a company may hold  *)
(* several kinds of them, and takes one more only while its subscription   *)
(* is usable and it holds fewer than its plan allows at that moment.  A    *)
(* plan that allows less later takes nothing away.                         *)
(***************************************************************************)
EXTENDS Naturals, FiniteSets

CONSTANTS Kinds, Things, Limits, Unlimited

VARIABLES held, limit, usable
vars == <<held, limit, usable>>

TypeOK ==
  /\ held \in [Kinds -> SUBSET Things]
  /\ limit \in [Kinds -> Limits]
  /\ usable \in BOOLEAN

Room(k) == limit[k] = Unlimited \/ Cardinality(held[k]) < limit[k]

Init == TypeOK /\ held = [k \in Kinds |-> {}]

Take(k, x) ==
  /\ usable /\ x \notin held[k] /\ Room(k)
  /\ held' = [held EXCEPT ![k] = @ \union {x}]
  /\ UNCHANGED <<limit, usable>>

GiveBack(k, x) ==
  /\ x \in held[k]
  /\ held' = [held EXCEPT ![k] = @ \ {x}]
  /\ UNCHANGED <<limit, usable>>

Replan ==
  /\ limit' \in [Kinds -> Limits] /\ usable' \in BOOLEAN
  /\ UNCHANGED held

Next ==
  \/ \E k \in Kinds, x \in Things : Take(k, x) \/ GiveBack(k, x)
  \/ Replan

Spec == Init /\ [][Next]_vars
=============================================================================
