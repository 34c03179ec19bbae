----------------------------- MODULE CampaignCalls -----------------------------
(***************************************************************************)
(* What dialling campaigns promises to the people on their lists.  Every   *)
(* attempt to call somebody has the next number, is reserved once, and     *)
(* then becomes at most one call: it is placed, it ends, and its end is    *)
(* settled, or it is dropped and never placed.  While calls are reliable,  *)
(* whoever has an attempt that is not settled gets no other, and nobody    *)
(* gets more attempts than the limit.                                      *)
(***************************************************************************)
EXTENDS Naturals

CONSTANTS Recipients, MaxAttempts, AttemptBound

Attempts == Recipients \X (1..AttemptBound)

VARIABLES
  reliable,  \* no answer is lost and no event repeated; never changes
  tries,     \* how often a recipient has been reserved
  call       \* how far an attempt has come
vars == <<reliable, tries, call>>

Init ==
  /\ reliable \in BOOLEAN
  /\ tries = [r \in Recipients |-> 0]
  /\ call = [a \in Attempts |-> "none"]

Unsettled == {"reserved", "live", "ended"}
Following(r) == <<r, tries[r] + 1>>
Free(r) == \A a \in Attempts : a[1] = r => call[a] \notin Unsettled

(* Some recipients are reserved together.                                  *)
Reserve(rs) ==
  /\ \A r \in rs : Following(r) \in Attempts /\ call[Following(r)] = "none"
  /\ reliable => \A r \in rs : tries[r] < MaxAttempts /\ Free(r)
  /\ tries' = [r \in Recipients |-> IF r \in rs THEN tries[r] + 1 ELSE tries[r]]
  /\ call' = [a \in Attempts |->
                IF a \in {Following(r) : r \in rs} THEN "reserved" ELSE call[a]]
  /\ UNCHANGED reliable

Advance(a, from, to) ==
  /\ call[a] = from
  /\ call' = [call EXCEPT ![a] = to]
  /\ UNCHANGED <<reliable, tries>>

Place(a) == Advance(a, "reserved", "live")
End(a) == Advance(a, "live", "ended")
Settle(a) == Advance(a, "ended", "settled")

(* The calls are refused, or whoever was to place them is gone.            *)
Drop(as) ==
  /\ \A a \in as : call[a] = "reserved"
  /\ call' = [a \in Attempts |-> IF a \in as THEN "dropped" ELSE call[a]]
  /\ UNCHANGED <<reliable, tries>>

Next ==
  \/ \E rs \in SUBSET Recipients : Reserve(rs)
  \/ \E a \in Attempts : Place(a) \/ End(a) \/ Settle(a)
  \/ \E as \in SUBSET {a \in Attempts : call[a] = "reserved"} : Drop(as)

Spec == Init /\ [][Next]_vars
=============================================================================
