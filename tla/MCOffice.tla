------------------------------- MODULE MCOffice -------------------------------
(* Instances of Office: two API processes, few rows of each kind, and the  *)
(* environments they are put in.                                           *)
EXTENDS Office, TLC

CONSTANTS q1, q2, q3, s1, s2, n1, n2

TwoProcesses == [q \in Requests |-> IF q = q3 THEN s2 ELSE s1]
TwilioAndTrunk == [c \in Connections |-> IF c = n1 THEN "twilio" ELSE "ip_trunk"]

Asking(requests, faults, operations, lines) ==
  [faults |-> faults, operations |-> operations, lines |-> lines, limit |-> 1,
   requests |-> requests]
Around(faults, operations, lines) == Asking({q1, q3}, faults, operations, lines)

(* Creating under the lock while plans change and processes die; voices    *)
(* imported and listed at once by requests of one process, and by another  *)
(* process; integrations tested and changed.                               *)
WorkspaceEnvironments ==
  {Around({"parallel", "crash"}, {"create_agent", "onboarding", "delete_agent", "change_plan"}, {}),
   Around({"parallel", "refuse"}, {"create_agent", "create_integration", "delete_integration"}, {}),
   Asking({q1, q2, q3}, {"parallel", "refuse", "lost"}, {"create_agent", "list_voices"}, {}),
   Asking({q1, q2}, {"parallel", "crash", "refuse", "lost"},
          {"create_agent", "update_agent", "list_voices"}, {}),
   Around({"parallel", "crash"}, {"create_agent", "update_agent"}, {}),
   Around({"refuse"}, {"create_integration", "update_integration", "delete_integration",
                       "connect", "disconnect"}, {})}

(* Everything that goes wrong outside, one request at a time; providers    *)
(* that refuse to create; requests that overlap; calls and agents.         *)
TelephonyEnvironments ==
  {Around({"crash", "refuse", "lost", "cleanup", "in_use", "database"},
          TelephonyOperations, {n1}),
   Around({"crash", "refuse", "lost", "cleanup", "in_use", "database"},
          TelephonyOperations, {n2}),
   Around({"refuse", "in_use"}, TelephonyOperations \ {"enable"}, {n1, n2}),
   Around({"parallel"}, {"add_number", "provision", "delete_number"}, {n1}),
   Around({"parallel"}, {"add_number", "provision", "delete_number"}, {n2}),
   Around({"parallel"}, {"add_number", "provision", "call", "create_agent"}, {n1})}

ExtensionEnvironments ==
  {Around({"crash", "refuse", "lost", "database"}, ExtensionOperations, {}),
   Around({"parallel"}, ExtensionOperations \ {"rename"}, {})}

OfficeEnvironments ==
  WorkspaceEnvironments \union TelephonyEnvironments \union ExtensionEnvironments

OfficeSymmetry ==
  Permutations(Agents) \union Permutations(Integrations) \union Permutations(Voices)
  \union Permutations(Trunks) \union Permutations(Passwords)
=============================================================================
