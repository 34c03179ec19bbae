-------------------------------- MODULE Office --------------------------------
(***************************************************************************)
(* The parts of a company's office together: agents and integrations under *)
(* the plan, phone numbers at their providers and internal extensions.     *)
(* One pool of API requests serves them all, a process that dies takes its *)
(* requests for any of them with it, and an inbound call waits for the     *)
(* same subscription lock as the creation of an agent.                     *)
(***************************************************************************)
EXTENDS Telephony, Extensions

officeVars == <<telephonyVars, extensionVars>>

OfficeTypeOK ==
  /\ WorkspaceTypeOK /\ TelephonyTypeOK /\ ExtensionsTypeOK
  /\ req \in [Requests -> Request \union TelephonyRequest \union ExtensionRequest]

Init == WorkspaceInit /\ TelephonyInit /\ ExtensionsInit

Next ==
  \/ WorkspaceStep /\ UNCHANGED <<lineVars, extensionVars>>
  \/ TelephonyStep /\ UNCHANGED extensionVars
  \/ ExtensionStep /\ UNCHANGED lineVars

Spec == Init /\ [][Next]_officeVars
=============================================================================
