-------------------------- MODULE MCOutboundDispatch --------------------------
(* Instances of OutboundDispatch: small contact lists for TLC, and the     *)
(* environments each of them is put in.                                    *)
EXTENDS OutboundDispatch, TLC

CONSTANTS c1, c2, r1, r2, r3, p1, p2

(* One campaign holds every recipient; or r1 is in the first campaign and  *)
(* everyone else in the second.                                            *)
OneCampaign == [r \in Recipients |-> c1]
TwoCampaigns == [r \in Recipients |-> IF r = r1 THEN c1 ELSE c2]
SharedNumber == [r \in Recipients |-> p1]

OneSlot == [c \in Campaigns |-> 1]
TwoSlots == [c \in Campaigns |-> 2]

Talk == {"answered", "completed", "no_answer"}
Around(faults, requests, reports, contacts, attempts) ==
  [faults |-> faults, requests |-> requests, reports |-> reports,
   contacts |-> contacts, attempts |-> attempts]

(* Two workers dial one campaign.  The provider refuses and events come in *)
(* any order, with room for one attempt too many, without and with workers *)
(* that die; then answers are lost and everything is delivered again; then *)
(* a user starts and cancels while answers are lost or overtaken.          *)
CallEnvironments ==
  {Around({"refuse", "overtake", "reorder", "parallel"}, {}, Talk, Recipients, 3),
   Around({"crash", "refuse", "overtake", "reorder", "parallel"}, {},
          {"answered", "no_answer"}, Recipients, 3)}
  \union {Around({"crash", "duplicate", "timeout", "parallel"}, {},
                 {"answered", "no_answer"}, {r}, 2) : r \in Recipients}
  \union {Around({"overtake", "timeout", "parallel"}, {"start", "cancel"},
                 {"answered", "no_answer"}, {r}, 2) : r \in Recipients}

(* Campaigns that share a number.  The second one is completed by two      *)
(* handlers while workers die and a user pauses; both are dialled under    *)
(* one company cap, by one worker and by two; the number opts out in both  *)
(* or is edited on the list; and every way a dispatch can end early.       *)
CampaignEnvironments ==
  {Around({"refuse", "crash", "parallel"}, {"pause", "resume"}, Talk, {r2, r3}, 2),
   Around({}, {}, Talk, Recipients, 1),
   Around({"parallel"}, {}, {"completed", "busy"}, Recipients, 1),
   Around({}, {"schedule", "cancel", "add_dnc", "delete_dnc"},
          {"answered", "do_not_call"}, {r1}, 1)}
  \union {Around({"parallel"}, {"add_dnc"}, {"answered", "do_not_call"}, {r1, r}, 1) :
            r \in {r2, r3}}
  \union {Around({"refuse", "window", "minutes", "disconnect", "zone"},
                 {"pause", "resume"}, {"ringing", "completed", "busy"}, {r1, r}, 2) :
            r \in {r2, r3}}

(* Nothing goes wrong; several workers, and nothing else; a number is put  *)
(* on the do-not-call list.                                                *)
Undisturbed == {Around({}, {}, Talk, Recipients, 2)}
Parallel == {Around({"parallel"}, {}, Talk, Recipients, 1)}
Listing == {Around({}, {"add_dnc"}, Talk, Recipients, 1)}

WorkerSymmetry == Permutations(Workers) \union Permutations(Handlers)
(* Where the recipients of an instance do not differ in its constants.     *)
FullSymmetry == WorkerSymmetry \union Permutations(Recipients)
PairSymmetry == WorkerSymmetry \union Permutations({r2, r3})
=============================================================================
