----------------------------- MODULE OfficeProofs -----------------------------
(***************************************************************************)
(* Theorems about Office, for any number of requests and processes, any    *)
(* rows, voices, trunks and plans, and any environments.                   *)
(***************************************************************************)
EXTENDS Office, TLAPS, FiniteSetTheorems

-----------------------------------------------------------------------------
(* What requests are made of.                                              *)

AnyRequest == Request \union TelephonyRequest \union ExtensionRequest

LEMMA WorkspaceParts ==
  ASSUME NEW r \in AnyRequest
  PROVE  /\ r.op = "create" =>
              /\ r.kind \in Kinds /\ r.voice \in Voices \union {None}
              /\ r.row \in Integration \union {None}
         /\ r.op = "update" => r.voice \in Voices \union {None}
         /\ r.op = "list" => r.force \in BOOLEAN
         /\ r.op = "listed" => r.voices \in SUBSET Voices
         /\ r.op = "save" =>
              r.row \in Integrations /\ r.seen \in Integration /\ r.new \in Integration
  BY DEF AnyRequest, Request, TelephonyRequest, ExtensionRequest, ProvisionStep, DisconnectStep

LEMMA TelephonyParts ==
  ASSUME NEW r \in AnyRequest
  PROVE  /\ r.op \in ProvisionStep =>
              r.line \in Connections /\ r.seen \in Line /\ r.made \in Made
         /\ r.op \in DisconnectStep =>
              r.line \in Connections /\ r.seen \in Line /\ r.delete \in BOOLEAN
         /\ r.op = "remove" => r.line \in Connections
         /\ r.op \in {"ring", "admit"} => r.line \in Connections /\ r.state \in PhoneState
         /\ r.op = "admit" => r.seen \in LineStatus
  BY DEF AnyRequest, Request, TelephonyRequest, ExtensionRequest, ProvisionStep, DisconnectStep

LEMMA ExtensionParts ==
  ASSUME NEW r \in AnyRequest
  PROVE  /\ r.op = "new_row" => r.extension \in Extensions /\ r.new \in Extension
         /\ r.op = "change_row" =>
              r.extension \in Extensions /\ r.seen \in Extension /\ r.new \in Extension
         /\ r.op \in {"delete_row", "forget"} => r.extension \in Extensions
  BY DEF AnyRequest, Request, TelephonyRequest, ExtensionRequest, ProvisionStep, DisconnectStep

LEMMA MoreParts ==
  ASSUME NEW r \in AnyRequest
  PROVE  /\ r.op = "create" => r = [op |-> "create", kind |-> r.kind, voice |-> r.voice, row |-> r.row]
         /\ r.op = "update" => r = [op |-> "update", voice |-> r.voice]
         /\ r.op \in ProvisionStep =>
              r = [op |-> r.op, line |-> r.line, seen |-> r.seen, made |-> r.made]
         /\ r.op \in DisconnectStep =>
              r = [op |-> r.op, line |-> r.line, seen |-> r.seen, delete |-> r.delete]
  BY DEF AnyRequest, Request, TelephonyRequest, ExtensionRequest, ProvisionStep, DisconnectStep

-----------------------------------------------------------------------------
(* A request that goes on, or ends.                                        *)
LEMMA IdleType == Idle \in AnyRequest
  BY DEF Idle, AnyRequest, Request

LEMMA BecomeType ==
  ASSUME req \in [Requests -> AnyRequest], NEW q \in Requests, NEW d \in AnyRequest, Become(q, d)
  PROVE  req' \in [Requests -> AnyRequest]
  BY DEF Become

-----------------------------------------------------------------------------
(* Every step keeps the types.  Each action has two parts: what it does to *)
(* the state, and which request it leaves.                                 *)

Typed ==
  /\ WorkspaceTypeOK /\ TelephonyTypeOK /\ ExtensionsTypeOK
  /\ req \in [Requests -> AnyRequest]

(* A credential list is made for a trunk.                                  *)
TrunkFirst ==
  \A q \in Requests : req[q].op = "new_list" => req[q].made.trunk \in Trunks

LEMMA TypedIsTypeOK == Typed <=> OfficeTypeOK
  BY DEF Typed, OfficeTypeOK, AnyRequest

LEMMA InitTyped == Init => Typed
<1> SUFFICES ASSUME Init PROVE Typed
  OBVIOUS
<1>1. WorkspaceTypeOK
  BY RowsAssumption, WorkspaceAssumption
  DEF Init, WorkspaceInit, WorkspaceTypeOK
<1>2. TelephonyTypeOK
  BY DEF Init, TelephonyInit, TelephonyTypeOK
<1>3. ExtensionsTypeOK
  BY DEF Init, ExtensionsInit, ExtensionsTypeOK
<1>4. req \in [Requests -> AnyRequest]
  BY IdleType DEF Init, WorkspaceInit, Idle
<1> QED
  BY <1>1, <1>2, <1>3, <1>4 DEF Typed

(* The steps of Workspace that only replace a request.                     *)
Turning(q) ==
  \/ TemplateRead(q) \/ UpdateAgent(q) \/ SaveAgent(q) \/ ListVoices(q)
  \/ UpdateIntegration(q) \/ Disconnect(q)

LEMMA TurningType ==
  ASSUME Typed, NEW q \in Requests, Turning(q)
  PROVE  /\ \E d \in AnyRequest : Become(q, d)
         /\ UNCHANGED <<env, sub, holder, agents, integ, tested, catalogVars>>
<1>0. /\ \A i \in Held("integrations") : i \in Integrations /\ integ[i] \in Integration
  BY DEF Typed, WorkspaceTypeOK, Held
<1>1. CASE TemplateRead(q)
  BY <1>1 DEF TemplateRead, AnyRequest, Request
<1>2. CASE UpdateAgent(q)
  BY <1>2 DEF UpdateAgent, AnyRequest, Request
<1>3. CASE SaveAgent(q)
  BY <1>3, IdleType DEF SaveAgent
<1>4. CASE ListVoices(q)
  BY <1>4 DEF ListVoices, AnyRequest, Request
<1>5. ASSUME NEW i \in Held("integrations"), NEW new \in Integration, Load(q, i, new)
      PROVE  \E d \in AnyRequest : Become(q, d)
  BY <1>0, <1>5 DEF Load, AnyRequest, Request
<1>6. ASSUME NEW x \in Integration
      PROVE  /\ \A c \in Configs : [[x EXCEPT !.config = c] EXCEPT !.status = "pending"] \in Integration
             /\ \A s \in IntegrationStatus : [x EXCEPT !.status = s] \in Integration
  BY DEF Integration, IntegrationStatus
<1>7. CASE UpdateIntegration(q)
  <2>1. PICK i \in Held("integrations") :
          \/ \E c \in Configs \ {integ[i].config} :
               Load(q, i, Untested(integ[i].status, [integ[i] EXCEPT !.config = c]))
          \/ \E s \in IntegrationStatus : Load(q, i, [integ[i] EXCEPT !.status = s])
    BY <1>7 DEF UpdateIntegration
  <2>2. \E new \in Integration : Load(q, i, new)
    BY <1>0, <1>6, <2>1 DEF Untested
  <2> QED BY <1>5, <1>7, <2>2 DEF UpdateIntegration
<1>8. CASE Disconnect(q)
  <2>1. PICK i \in Held("integrations") :
          Load(q, i, [integ[i] EXCEPT !.status = "disconnected"])
    BY <1>8 DEF Disconnect
  <2>2. "disconnected" \in IntegrationStatus
    BY DEF IntegrationStatus
  <2> QED BY <1>0, <1>5, <1>6, <1>8, <2>1, <2>2 DEF Disconnect
<1> QED
  BY <1>1, <1>2, <1>3, <1>4, <1>7, <1>8 DEF Turning

LEMMA ReservingType ==
  ASSUME Typed, NEW q \in Requests, CreateAgent(q) \/ CreateIntegration(q) \/ TemplateReserve(q)
  PROVE  /\ \E d \in AnyRequest : Become(q, d)
         /\ holder' \in {holder, q}
         /\ UNCHANGED <<env, sub, agents, integ, tested, catalogVars>>
<1>1. ASSUME NEW k \in Kinds, NEW v \in Voices \union {None},
             NEW row_ \in Integration \union {None}, Reserve(q, k, v, row_)
      PROVE  /\ \E d \in AnyRequest : Become(q, d)
             /\ holder' \in {holder, q}
             /\ UNCHANGED <<env, sub, agents, integ, tested, catalogVars>>
  <2>1. [op |-> "create", kind |-> k, voice |-> v, row |-> row_] \in AnyRequest
    BY DEF AnyRequest, Request
  <2> QED BY <1>1, <2>1, IdleType DEF Reserve
<1>2. NewIntegration \subseteq Integration
  BY DEF NewIntegration
<1>3. {"agents", "integrations"} \subseteq Kinds
  BY DEF Kinds
<1> QED
  BY <1>1, <1>2, <1>3 DEF CreateAgent, CreateIntegration, TemplateReserve

LEMMA WorkspaceRequests ==
  ASSUME Typed, WorkspaceStep
  PROVE  req' \in [Requests -> AnyRequest]
<1>0. req \in [Requests -> AnyRequest] /\ (UNCHANGED req => req' \in [Requests -> AnyRequest])
  BY DEF Typed
<1>1. ASSUME NEW q \in Requests, Turning(q) \/ CreateAgent(q) \/ CreateIntegration(q) \/ TemplateReserve(q)
      PROVE  req' \in [Requests -> AnyRequest]
  BY <1>1, TurningType, ReservingType, BecomeType DEF Typed
<1>2. ASSUME NEW q \in Requests, NEW d \in AnyRequest, Become(q, d)
      PROVE  req' \in [Requests -> AnyRequest]
  BY <1>2, BecomeType DEF Typed
<1>3. ASSUME NEW q \in Requests, Insert(q) \/ ListStore(q) \/ ImportFails(q) \/ Save(q)
      PROVE  req' \in [Requests -> AnyRequest]
  BY <1>2, <1>3, IdleType DEF Insert, ListStore, ImportFails, Save
<1>4. ASSUME NEW q \in Requests, Present(q) \/ Import(q)
      PROVE  req' \in [Requests -> AnyRequest]
  <2>1. req[q] \in AnyRequest /\ NeedsVoice(q)
    BY <1>4 DEF Typed, Present, Import, Missing
  <2>2. [req[q] EXCEPT !.voice = None] \in AnyRequest
    <3>1. CASE req[q].op = "create"
      <4>1. [req[q] EXCEPT !.voice = None]
              = [op |-> "create", kind |-> req[q].kind, voice |-> None, row |-> req[q].row]
        BY <2>1, <3>1, MoreParts
      <4> QED BY <2>1, <3>1, <4>1, WorkspaceParts DEF AnyRequest, Request
    <3>2. CASE req[q].op = "update"
      <4>1. [req[q] EXCEPT !.voice = None] = [op |-> "update", voice |-> None]
        BY <2>1, <3>2, MoreParts
      <4> QED BY <4>1 DEF AnyRequest, Request
    <3> QED BY <2>1, <3>1, <3>2 DEF NeedsVoice
  <2> QED BY <1>2, <1>4, <2>2 DEF Present, Import
<1>5. ASSUME NEW q \in Requests, ListFetch(q) PROVE req' \in [Requests -> AnyRequest]
  <2>1. CASE Become(q, Idle)
    BY <1>2, <2>1, IdleType
  <2>2. CASE ~Become(q, Idle)
    <3>1. Become(q, [op |-> "listed", voices |-> known'[ProcessOf[q]]])
      BY <1>5, <2>2 DEF ListFetch
    <3>2. ProcessOf[q] \in Processes /\ mine \in SUBSET Voices
      BY WorkspaceAssumption DEF Typed, WorkspaceTypeOK
    <3>3. known'[ProcessOf[q]] \in SUBSET Voices
      BY <1>5, <2>2, <3>2 DEF ListFetch, Typed, WorkspaceTypeOK
    <3> QED BY <1>2, <3>1, <3>3 DEF AnyRequest, Request
  <2> QED BY <2>1, <2>2
<1>6. ASSUME NEW q \in Requests, Connect(q) PROVE req' \in [Requests -> AnyRequest]
  <2>1. PICK i \in Held("integrations"), s \in {"connected", "error"} :
          Load(q, i, [integ[i] EXCEPT !.status = s])
    BY <1>6 DEF Connect
  <2>2. i \in Integrations /\ integ[i] \in Integration
    BY DEF Typed, WorkspaceTypeOK, Held
  <2>3. [integ[i] EXCEPT !.status = s] \in Integration
    BY <2>2 DEF Integration, IntegrationStatus
  <2> QED BY <1>2, <2>1, <2>2, <2>3 DEF Load, AnyRequest, Request
<1>7. ASSUME NEW p \in Processes, ProcessDies(p) PROVE req' \in [Requests -> AnyRequest]
  BY <1>7, IdleType DEF ProcessDies, Typed
<1>8. ASSUME NEW q \in Requests, DeleteAgent(q) \/ DeleteIntegration(q) \/ LookUp(q)
      PROVE  UNCHANGED req
  BY <1>8 DEF DeleteAgent, DeleteIntegration, LookUp
<1>9. ASSUME NEW p \in Processes, CacheExpires(p) PROVE UNCHANGED req
  BY <1>9 DEF CacheExpires
<1>10. ChangePlan \/ PeriodTurns => UNCHANGED req
  BY DEF ChangePlan, PeriodTurns
<1>11. ASSUME NEW q \in Requests, ListFails(q) PROVE req' \in [Requests -> AnyRequest]
  BY <1>2, <1>11, IdleType DEF ListFails
<1> QED
  BY <1>0, <1>1, <1>3, <1>4, <1>5, <1>6, <1>7, <1>8, <1>9, <1>10, <1>11 DEF WorkspaceStep, Turning

(* The rows, the plan and the caches.                                      *)
LEMMA MergedIntegrationType ==
  ASSUME NEW now \in Integration, NEW seen \in Integration, NEW new \in Integration
  PROVE  [now EXCEPT !.status = Column(@, seen.status, new.status),
                     !.config = Column(@, seen.config, new.config)] \in Integration
  BY DEF Integration, Column

LEMMA WorkspaceTypes ==
  ASSUME Typed, WorkspaceStep
  PROVE  WorkspaceTypeOK'
<1> USE DEF catalogVars
<1>0. WorkspaceTypeOK /\ req \in [Requests -> AnyRequest]
  BY DEF Typed
<1>1. ASSUME UNCHANGED <<env, sub, holder, agents, integ, tested, catalogVars>>
      PROVE  WorkspaceTypeOK'
  BY <1>0, <1>1 DEF WorkspaceTypeOK
<1>2. ASSUME NEW q \in Requests, holder' \in {holder, q},
             UNCHANGED <<env, sub, agents, integ, tested, catalogVars>>
      PROVE  WorkspaceTypeOK'
  BY <1>0, <1>2 DEF WorkspaceTypeOK
<1>3. ASSUME NEW q \in Requests, Turning(q) PROVE WorkspaceTypeOK'
  BY <1>1, <1>3, TurningType
<1>4. ASSUME NEW q \in Requests, CreateAgent(q) \/ CreateIntegration(q) \/ TemplateReserve(q)
      PROVE  WorkspaceTypeOK'
  BY <1>2, <1>4, ReservingType
<1>5. ASSUME NEW q \in Requests, Insert(q) PROVE WorkspaceTypeOK'
  <2>1. req[q].row \in Integration \union {None} /\ req[q].kind \in Kinds
    BY <1>0, <1>5, WorkspaceParts DEF Insert
  <2> QED BY <1>0, <1>5, <2>1 DEF Insert, WorkspaceTypeOK
<1>6. ASSUME NEW q \in Requests, DeleteAgent(q) \/ DeleteIntegration(q)
      PROVE  WorkspaceTypeOK'
  BY <1>0, <1>6 DEF DeleteAgent, DeleteIntegration, WorkspaceTypeOK
<1>7. ASSUME NEW q \in Requests, LookUp(q) \/ Present(q) \/ Import(q) \/ ImportFails(q)
      PROVE  WorkspaceTypeOK'
  <2>1. ProcessOf[q] \in Processes
    BY WorkspaceAssumption
  <2>2. req[q].voice # None => req[q].voice \in Voices
    BY <1>0, <1>7, WorkspaceParts DEF LookUp, Present, Import, Missing, ImportFails, NeedsVoice
  <2>3. CASE LookUp(q) \/ Present(q)
    BY <1>0, <2>1, <2>3 DEF LookUp, Present, Enter, Leave, WorkspaceTypeOK
  <2>4. CASE Import(q)
    BY <1>0, <2>1, <2>2, <2>4 DEF Import, Missing, NeedsVoice, Invalidate, Leave, WorkspaceTypeOK
  <2>5. CASE ImportFails(q)
    BY <1>0, <2>1, <2>2, <2>5 DEF ImportFails, Missing, NeedsVoice, Leave, WorkspaceTypeOK
  <2> QED BY <1>7, <2>3, <2>4, <2>5
<1>8. ASSUME NEW q \in Requests, ListFetch(q) PROVE WorkspaceTypeOK'
  BY <1>0, <1>8, WorkspaceAssumption DEF ListFetch, Enter, WorkspaceTypeOK
<1>9. ASSUME NEW q \in Requests, ListStore(q) PROVE WorkspaceTypeOK'
  <2>1. req[q].voices \in SUBSET Voices
    BY <1>0, <1>9, WorkspaceParts DEF ListStore
  <2> QED BY <1>0, <1>9, <2>1, WorkspaceAssumption DEF ListStore, Leave, WorkspaceTypeOK
<1>10. ASSUME NEW q \in Requests, Connect(q) PROVE WorkspaceTypeOK'
  <2>1. /\ UNCHANGED <<env, sub, holder, agents, integ, catalogVars>>
        /\ \/ UNCHANGED tested
           \/ \E i \in Held("integrations") :
                tested' = [tested EXCEPT ![i] = @ \union {integ[i].config}]
    BY <1>10 DEF Connect
  <2>2. \A i \in Held("integrations") : i \in Integrations /\ integ[i] \in Integration
    BY <1>0 DEF WorkspaceTypeOK, Held
  <2>3. \A i \in Held("integrations") : integ[i].config \in Configs \union {None}
    BY <2>2 DEF Integration
  <2> QED BY <1>0, <2>1, <2>2, <2>3 DEF WorkspaceTypeOK
<1>11. ASSUME NEW q \in Requests, Save(q) PROVE WorkspaceTypeOK'
  <2>1. /\ req[q].row \in Integrations /\ req[q].seen \in Integration
        /\ req[q].new \in Integration
    BY <1>0, <1>11, WorkspaceParts DEF Save
  <2>2. CASE integ[req[q].row] = None
    BY <1>0, <1>11, <2>2 DEF Save, WorkspaceTypeOK
  <2>3. CASE integ[req[q].row] # None
    BY <1>0, <1>11, <2>1, <2>3, MergedIntegrationType DEF Save, WorkspaceTypeOK
  <2> QED BY <2>2, <2>3
<1>12. ASSUME NEW p \in Processes, CacheExpires(p) \/ ProcessDies(p) PROVE WorkspaceTypeOK'
  BY <1>0, <1>12 DEF CacheExpires, ProcessDies, Invalidate, WorkspaceTypeOK
<1>13. ASSUME ChangePlan \/ PeriodTurns PROVE WorkspaceTypeOK'
  BY <1>0, <1>13 DEF ChangePlan, PeriodTurns, WorkspaceTypeOK
<1>14. ASSUME NEW q \in Requests, ListFails(q) PROVE WorkspaceTypeOK'
  BY <1>0, <1>14 DEF ListFails, Leave, WorkspaceTypeOK
<1> QED
  BY <1>3, <1>4, <1>5, <1>6, <1>7, <1>8, <1>9, <1>10, <1>11, <1>12, <1>13, <1>14
  DEF WorkspaceStep, Turning

-----------------------------------------------------------------------------
(* Telephony.  Its steps replace a request as Step or Proceed do.          *)

LEMMA StepType ==
  ASSUME Typed, NEW q \in Requests, req[q].op \in ProvisionStep,
         NEW op \in ProvisionStep, NEW made \in Made, Step(q, op, made)
  PROVE  req' \in [Requests -> AnyRequest]
<1>1. req[q] \in AnyRequest
  BY DEF Typed
<1>2. req[q] \in [op : ProvisionStep, line : Connections, seen : Line, made : Made]
  BY <1>1, MoreParts, TelephonyParts
<1>3. [req[q] EXCEPT !.op = op, !.made = made] \in AnyRequest
  <2>1. [req[q] EXCEPT !.op = op, !.made = made]
          \in [op : ProvisionStep, line : Connections, seen : Line, made : Made]
    BY <1>2
  <2> QED BY <2>1 DEF AnyRequest, TelephonyRequest
<1> QED BY <1>3, BecomeType DEF Typed, Step

LEMMA ProceedType ==
  ASSUME Typed, NEW q \in Requests, req[q].op \in DisconnectStep,
         NEW op \in DisconnectStep, Proceed(q, op)
  PROVE  req' \in [Requests -> AnyRequest]
<1>1. req[q] \in AnyRequest
  BY DEF Typed
<1>2. [req[q] EXCEPT !.op = op]
        = [op |-> op, line |-> req[q].line, seen |-> req[q].seen, delete |-> req[q].delete]
  BY <1>1, MoreParts
<1>3. [req[q] EXCEPT !.op = op] \in AnyRequest
  BY <1>1, <1>2, TelephonyParts DEF AnyRequest, TelephonyRequest
<1> QED BY <1>3, BecomeType DEF Typed, Proceed

LEMMA MadeTypes ==
  ASSUME NEW made \in Made, NEW t \in Trunks
  PROVE  /\ Nothing \in Made
         /\ [Nothing EXCEPT !.trunk = t] \in Made
         /\ [made EXCEPT !.list = t] \in Made
         /\ [made EXCEPT !.route = TRUE] \in Made
  BY DEF Nothing, Made

LEMMA NothingType == Nothing \in Made
  BY DEF Nothing, Made

(* The steps of a request that provisions, but for its last.               *)
Provisioning(q) ==
  \/ CreateTrunk(q) \/ CreateList(q) \/ Attach(q) \/ UndoTrunk(q) \/ UndoList(q)
  \/ PutRoute(q) \/ BackTrunk(q) \/ BackList(q) \/ BackRoute(q)

LEMMA ProvisioningSteps ==
  ASSUME Typed, NEW q \in Requests, Provisioning(q)
  PROVE  /\ req[q].op \in ProvisionStep
         /\ \E op \in ProvisionStep, made \in Made :
              Step(q, op, made) /\ (op = "new_list" => CreateTrunk(q))
<1>1. req[q].op \in ProvisionStep
  BY DEF Provisioning, CreateTrunk, CreateList, Attach, UndoTrunk, UndoList, PutRoute,
         BackTrunk, BackList, BackRoute, At, ProvisionStep
<1>2. req[q].made \in Made
  BY <1>1, TelephonyParts DEF Typed
<1>3. CASE CreateTrunk(q)
  <2>1. \E made \in Made : Step(q, "new_list", made) \/ Step(q, "failed", made)
    BY <1>3, NothingType, MadeTypes DEF CreateTrunk, Unclaimed
  <2>2. {"new_list", "failed"} \subseteq ProvisionStep
    BY DEF ProvisionStep
  <2> QED BY <1>1, <1>3, <2>1, <2>2
<1>4. CASE CreateList(q)
  <2>1. req[q].op = "new_list" /\ req[q].made.trunk \in Trunks \union {None}
    BY <1>2, <1>4 DEF CreateList, At, Made
  <2>2. [req[q].made EXCEPT !.list = req[q].made.trunk] \in Made
    BY <1>2, <2>1 DEF Made
  <2>3. \E made \in Made : Step(q, "attach", made) \/ Step(q, "undo_trunk", made)
    BY <1>2, <1>4, <2>2 DEF CreateList
  <2> QED BY <1>1, <2>3 DEF ProvisionStep
<1>5. CASE Attach(q)
  BY <1>1, <1>2, <1>5 DEF Attach, ProvisionStep
<1>6. CASE UndoTrunk(q)
  BY <1>1, <1>2, <1>6, NothingType DEF UndoTrunk, ProvisionStep
<1>7. CASE UndoList(q)
  BY <1>1, <1>7, NothingType DEF UndoList, ProvisionStep
<1>8. CASE PutRoute(q)
  <2>1. [req[q].made EXCEPT !.route = TRUE] \in Made
    BY <1>2 DEF Made
  <2> QED BY <1>1, <1>2, <1>8, <2>1 DEF PutRoute, RollBack, ProvisionStep
<1>9. CASE BackTrunk(q)
  BY <1>1, <1>2, <1>9 DEF BackTrunk, ProvisionStep
<1>10. CASE BackList(q) \/ BackRoute(q)
  BY <1>1, <1>2, <1>10 DEF BackList, BackRoute, ProvisionStep
<1> QED
  BY <1>1, <1>3, <1>4, <1>5, <1>6, <1>7, <1>8, <1>9, <1>10 DEF Provisioning

(* A request that claims its connection goes on with what it had read.     *)
Claimed(q) ==
  [op |-> IF Twilio(req[q].line) THEN "new_trunk" ELSE "route", line |-> req[q].line,
   seen |-> [req[q].seen EXCEPT !.status = "provisioning"], made |-> Nothing]

LEMMA ClaimSteps ==
  ASSUME Typed, NEW q \in Requests, Claim(q)
  PROVE  /\ req[q].op = "claim" /\ req[q].line \in Connections /\ req[q].seen \in Line
         /\ Claimed(q) \in AnyRequest
         /\ UNCHANGED <<trunks, lists, routes>>
         /\ \/ Become(q, Idle) /\ UNCHANGED line
            \/ /\ Become(q, Claimed(q)) /\ line[req[q].line] # None
               /\ line' = [line EXCEPT ![req[q].line].status = "provisioning"]
<1>1. req[q].op = "claim"
  BY DEF Claim, At
<1>2. req[q].line \in Connections /\ req[q].seen \in Line
  BY <1>1, TelephonyParts DEF Typed, ProvisionStep
<1>3. [req[q].seen EXCEPT !.status = "provisioning"] \in Line
  BY <1>2 DEF Line, LineStatus
<1>4. (IF Twilio(req[q].line) THEN "new_trunk" ELSE "route") \in ProvisionStep
  BY DEF ProvisionStep
<1>5. Claimed(q) \in AnyRequest
  BY <1>2, <1>3, <1>4, NothingType DEF Claimed, AnyRequest, TelephonyRequest
<1> QED BY <1>1, <1>2, <1>5 DEF Claim, Claimed

(* The steps of a request that disconnects, but for its last.              *)
Dropping(q) == DropTrunk(q) \/ DropList(q) \/ DropRoute(q)

LEMMA DroppingSteps ==
  ASSUME Typed, NEW q \in Requests, Dropping(q)
  PROVE  /\ req[q].op \in DisconnectStep
         /\ Become(q, Idle) \/ \E op \in DisconnectStep : Proceed(q, op)
<1>1. req[q].op \in DisconnectStep
  BY DEF Dropping, DropTrunk, DropList, DropRoute, At, DisconnectStep
<1> QED
  BY <1>1 DEF Dropping, DropTrunk, DropList, DropRoute, DropFails, NextDrop, DisconnectStep

LEMMA TelephonyRequests ==
  ASSUME Typed, TelephonyStep
  PROVE  req' \in [Requests -> AnyRequest]
<1>0. /\ req \in [Requests -> AnyRequest]
      /\ UNCHANGED req => req' \in [Requests -> AnyRequest]
      /\ \A c \in Connections : line[c] # None => line[c] \in Line
  BY DEF Typed, TelephonyTypeOK
<1>1. ASSUME NEW q \in Requests, NEW d \in AnyRequest, Become(q, d)
      PROVE  req' \in [Requests -> AnyRequest]
  BY <1>1, BecomeType DEF Typed
<1>2. ASSUME NEW q \in Requests, Provisioning(q) PROVE req' \in [Requests -> AnyRequest]
  BY <1>2, ProvisioningSteps, StepType
<1>3. ASSUME NEW q \in Requests, Dropping(q) PROVE req' \in [Requests -> AnyRequest]
  BY <1>1, <1>3, DroppingSteps, ProceedType, IdleType
<1>4. ASSUME NEW q \in Requests, AddNumber(q) \/ SetEnabled(q) PROVE UNCHANGED req
  BY <1>4 DEF AddNumber, SetEnabled
<1>5. ASSUME NEW q \in Requests, Provision(q) PROVE req' \in [Requests -> AnyRequest]
  <2>1. PICK c \in Connections :
          /\ line[c] # None
          /\ Become(q, [op |-> "claim", line |-> c, seen |-> line[c], made |-> Nothing])
    BY <1>5 DEF Provision
  <2>2. [op |-> "claim", line |-> c, seen |-> line[c], made |-> Nothing] \in AnyRequest
    BY <1>0, <2>1, NothingType DEF AnyRequest, TelephonyRequest, ProvisionStep
  <2> QED BY <1>1, <2>1, <2>2
<1>6. ASSUME NEW q \in Requests, StoreProvisioned(q) PROVE req' \in [Requests -> AnyRequest]
  <2>1. req[q].op \in ProvisionStep /\ req[q].made \in Made
    BY <1>0, <1>6, TelephonyParts DEF StoreProvisioned, At, ProvisionStep
  <2>2. \/ Become(q, Idle)
        \/ \E op \in ProvisionStep : Step(q, op, req[q].made)
    BY <1>6 DEF StoreProvisioned, RollBack, ProvisionStep
  <2> QED BY <1>1, <2>1, <2>2, IdleType, StepType
<1>7. ASSUME NEW q \in Requests, StoreFailed(q) \/ Remove(q) \/ Activate(q)
      PROVE  req' \in [Requests -> AnyRequest]
  BY <1>1, <1>7, IdleType DEF StoreFailed, Remove, Activate
<1>8. ASSUME NEW q \in Requests, DisconnectNumber(q) PROVE req' \in [Requests -> AnyRequest]
  <2>1. PICK c \in Connections, delete \in BOOLEAN :
          /\ line[c] # None
          /\ Become(q, [op |-> FirstDrop(line[c]), line |-> c, seen |-> line[c],
                        delete |-> delete])
    BY <1>8 DEF DisconnectNumber
  <2>2. FirstDrop(line[c]) \in DisconnectStep
    BY DEF FirstDrop, DisconnectStep
  <2>3. [op |-> FirstDrop(line[c]), line |-> c, seen |-> line[c], delete |-> delete] \in AnyRequest
    BY <1>0, <2>1, <2>2 DEF AnyRequest, TelephonyRequest
  <2> QED BY <1>1, <2>1, <2>3
<1>9. ASSUME NEW q \in Requests, StoreDisconnected(q) PROVE req' \in [Requests -> AnyRequest]
  <2>1. req[q].line \in Connections
    BY <1>0, <1>9, TelephonyParts DEF StoreDisconnected, At, DisconnectStep
  <2>2. [op |-> "remove", line |-> req[q].line] \in AnyRequest
    BY <2>1 DEF AnyRequest, TelephonyRequest
  <2>3. Become(q, Idle) \/ Become(q, [op |-> "remove", line |-> req[q].line])
    BY <1>9 DEF StoreDisconnected
  <2> QED BY <1>1, <2>2, <2>3, IdleType
<1>10. ASSUME NEW q \in Requests, Ring(q) PROVE req' \in [Requests -> AnyRequest]
  <2>1. PICK c \in routes :
          /\ line[c] # None
          /\ Become(q, [op |-> "ring", line |-> c, state |-> line[c].state])
    BY <1>10 DEF Ring
  <2>2. c \in Connections /\ line[c] \in Line
    BY <1>0, <2>1 DEF Typed, TelephonyTypeOK
  <2>3. line[c].state \in PhoneState
    BY <2>2 DEF Line
  <2>4. [op |-> "ring", line |-> c, state |-> line[c].state] \in AnyRequest
    BY <2>2, <2>3 DEF AnyRequest, TelephonyRequest
  <2> QED BY <1>1, <2>1, <2>4
<1>11. ASSUME NEW q \in Requests, Admit(q) PROVE req' \in [Requests -> AnyRequest]
  <2> DEFINE d == [op |-> "admit", line |-> req[q].line, state |-> req[q].state,
                   seen |-> line[req[q].line].status]
  <2>1. req[q].line \in Connections /\ req[q].state \in PhoneState
    BY <1>0, <1>11, TelephonyParts DEF Admit, At
  <2>2. ASSUME line[req[q].line] # None PROVE d \in AnyRequest
    <3>1. line[req[q].line].status \in LineStatus
      BY <1>0, <2>1, <2>2 DEF Line
    <3> QED BY <2>1, <3>1 DEF AnyRequest, TelephonyRequest
  <2>3. Become(q, Idle) \/ (line[req[q].line] # None /\ Become(q, d))
    BY <1>11 DEF Admit
  <2> QED BY <1>1, <2>2, <2>3, IdleType
<1>12. ASSUME NEW q \in Requests, Claim(q) PROVE req' \in [Requests -> AnyRequest]
  BY <1>1, <1>12, ClaimSteps, IdleType
<1> QED
  BY <1>0, <1>2, <1>3, <1>4, <1>5, <1>6, <1>7, <1>8, <1>9, <1>10, <1>11, <1>12
  DEF TelephonyStep, Provisioning, Dropping

(* The rows, and what exists at the providers.                             *)
LEMMA UpdateType ==
  ASSUME NEW now \in Line, NEW seen \in Line, NEW new \in Line
  PROVE  /\ Update(now, seen, new) \in Line
         /\ Off(Update(now, seen, new)) \in Line
<1>1. Update(now, seen, new) \in Line
  <2>1. \A a, b, c : Column(a, b, c) \in {a, c}
    BY DEF Column
  <2>3. \A x \in Line : /\ x.status \in LineStatus /\ x.trunk \in Trunks \union {None}
                         /\ x.list \in Trunks \union {None} /\ x.route \in BOOLEAN
                         /\ x.enabled \in BOOLEAN /\ x.state \in PhoneState
    BY DEF Line
  <2> DEFINE st == Column(now.status, seen.status, new.status)
             t == Column(now.trunk, seen.trunk, new.trunk)
             l == Column(now.list, seen.list, new.list)
             r == Column(now.route, seen.route, new.route)
             e == Column(now.enabled, seen.enabled, new.enabled)
             p == Column(now.state, seen.state, new.state)
  <2>4. /\ st \in LineStatus /\ t \in Trunks \union {None} /\ l \in Trunks \union {None}
        /\ p \in PhoneState
    BY <2>1, <2>3
  <2>5. r \in BOOLEAN /\ e \in BOOLEAN
    BY <2>3 DEF Column
  <2>6. Update(now, seen, new)
          = [now EXCEPT !.status = st, !.trunk = t, !.list = l, !.route = r, !.enabled = e,
                        !.state = p]
    BY DEF Update
  <2> HIDE DEF st, t, l, r, e, p
  <2>7. [now EXCEPT !.status = st, !.trunk = t, !.list = l, !.route = r, !.enabled = e,
                    !.state = p] \in Line
    BY <2>4, <2>5 DEF Line
  <2> QED BY <2>6, <2>7
<1>2. ASSUME NEW x \in Line PROVE Off(x) \in Line
  BY DEF Off, Line, PhoneState
<1> QED BY <1>1, <1>2

LEMMA TelephonyTypes ==
  ASSUME Typed, TrunkFirst, TelephonyStep
  PROVE  TelephonyTypeOK'
<1>0. TelephonyTypeOK /\ req \in [Requests -> AnyRequest]
  BY DEF Typed
<1>1. \A x \in Line, c \in Connections :
        TelephonyTypeOK => [line EXCEPT ![c] = x] \in [Connections -> Line \union {None}]
  BY DEF TelephonyTypeOK
<1>2. ASSUME NEW q \in Requests, AddNumber(q) PROVE TelephonyTypeOK'
  <2>1. [status |-> "pending", trunk |-> None, list |-> None, route |-> FALSE,
         enabled |-> FALSE, state |-> "pending"] \in Line
    BY DEF Line, LineStatus, PhoneState
  <2>2. FreshLines \subseteq Connections
    BY LinesAssumption DEF FreshLines, Typed, WorkspaceTypeOK
  <2> QED BY <1>0, <1>1, <1>2, <2>1, <2>2 DEF AddNumber, TelephonyTypeOK
<1>3. ASSUME NEW q \in Requests, SetEnabled(q) PROVE TelephonyTypeOK'
  <2>1. \A x \in Line, e \in BOOLEAN : [x EXCEPT !.enabled = e] \in Line
    BY DEF Line
  <2> QED BY <1>0, <1>3, <2>1 DEF SetEnabled, TelephonyTypeOK
<1>4. ASSUME NEW q \in Requests, Provision(q) \/ Claim(q) PROVE TelephonyTypeOK'
  <2>1. \A x \in Line : [x EXCEPT !.status = "provisioning"] \in Line
    BY DEF Line, LineStatus
  <2>2. CASE Provision(q)
    BY <1>0, <2>2 DEF Provision, lineVars, TelephonyTypeOK
  <2>3. CASE Claim(q)
    <3>1. /\ req[q].line \in Connections /\ UNCHANGED <<trunks, lists, routes>>
          /\ \/ UNCHANGED line
             \/ /\ line[req[q].line] # None
                /\ line' = [line EXCEPT ![req[q].line].status = "provisioning"]
      BY <2>3, ClaimSteps
    <3> QED BY <1>0, <2>1, <3>1 DEF TelephonyTypeOK
  <2> QED BY <1>4, <2>2, <2>3
<1>5. ASSUME NEW q \in Requests, Provisioning(q) PROVE TelephonyTypeOK'
  <2>1. req[q].op \in ProvisionStep
    BY <1>5, ProvisioningSteps
  <2>2. req[q].made \in Made /\ req[q].line \in Connections
    BY <1>0, <2>1, TelephonyParts
  <2>3. CASE CreateTrunk(q) \/ Attach(q)
    BY <1>0, <2>3 DEF CreateTrunk, Attach, Unclaimed, TelephonyTypeOK, lineVars
  <2>7. CASE CreateList(q)
    BY <1>0, <2>7 DEF CreateList, At, TrunkFirst, TelephonyTypeOK
  <2>4. CASE UndoTrunk(q) \/ UndoList(q)
    BY <1>0, <2>4 DEF UndoTrunk, UndoList, Removed, Stays, TelephonyTypeOK
  <2>5. CASE PutRoute(q)
    BY <1>0, <2>2, <2>5 DEF PutRoute, TelephonyTypeOK
  <2>6. CASE BackTrunk(q) \/ BackList(q) \/ BackRoute(q)
    BY <1>0, <2>6 DEF BackTrunk, BackList, BackRoute, Removed, Stays, TelephonyTypeOK
  <2> QED BY <1>5, <2>3, <2>4, <2>5, <2>6, <2>7 DEF Provisioning
<1>6. ASSUME NEW q \in Requests, StoreProvisioned(q) PROVE TelephonyTypeOK'
  <2>1. /\ req[q].line \in Connections /\ req[q].seen \in Line /\ req[q].made \in Made
    BY <1>0, <1>6, TelephonyParts DEF StoreProvisioned, At, ProvisionStep
  <2> DEFINE new == [req[q].seen EXCEPT
                       !.status = Reached(req[q].line), !.trunk = req[q].made.trunk, !.route = TRUE,
                       !.list = IF Twilio(req[q].line) THEN req[q].made.list ELSE @,
                       !.enabled = TRUE, !.state = "pending"]
  <2>2. new \in Line
    <3>1. \A x \in Line, st \in LineStatus, t, l \in Trunks \union {None} :
            [x EXCEPT !.status = st, !.trunk = t, !.route = TRUE, !.list = l, !.enabled = TRUE,
                      !.state = "pending"] \in Line
      BY DEF Line, PhoneState
    <3>2. Reached(req[q].line) \in LineStatus
      BY DEF Reached, LineStatus
    <3>3. /\ req[q].made.trunk \in Trunks \union {None} /\ req[q].made.list \in Trunks \union {None}
          /\ req[q].seen.list \in Trunks \union {None}
      BY <2>1 DEF Made, Line
    <3> QED BY <2>1, <3>1, <3>2, <3>3
  <2>3. /\ UNCHANGED <<trunks, lists, routes>>
        /\ \/ UNCHANGED line
           \/ /\ line[req[q].line] # None
              /\ line' = [line EXCEPT ![req[q].line] = Update(@, req[q].seen, new)]
    BY <1>6 DEF StoreProvisioned
  <2> HIDE DEF new
  <2>4. ASSUME line[req[q].line] # None
        PROVE  Update(line[req[q].line], req[q].seen, new) \in Line
    BY <1>0, <2>1, <2>2, <2>4, UpdateType DEF TelephonyTypeOK
  <2> QED BY <1>0, <1>1, <2>1, <2>3, <2>4 DEF TelephonyTypeOK
<1>7. ASSUME NEW q \in Requests, StoreFailed(q) PROVE TelephonyTypeOK'
  <2>1. /\ req[q].line \in Connections /\ req[q].seen \in Line /\ req[q].made \in Made
    BY <1>0, <1>7, TelephonyParts DEF StoreFailed, At, ProvisionStep
  <2> DEFINE new == [req[q].seen EXCEPT
                       !.status = "error", !.enabled = FALSE, !.state = "error",
                       !.list = IF req[q].made.list # None THEN req[q].made.list ELSE @]
  <2>2. new \in Line
    <3>1. \A x \in Line, l \in Trunks \union {None} :
            [x EXCEPT !.status = "error", !.enabled = FALSE, !.state = "error", !.list = l] \in Line
      BY DEF Line, LineStatus, PhoneState
    <3>2. /\ req[q].made.list \in Trunks \union {None} /\ req[q].seen.list \in Trunks \union {None}
      BY <2>1 DEF Made, Line
    <3> QED BY <2>1, <3>1, <3>2
  <2>3. /\ UNCHANGED <<trunks, lists, routes>>
        /\ \/ UNCHANGED line
           \/ /\ line[req[q].line] # None
              /\ line' = [line EXCEPT ![req[q].line] = Update(@, req[q].seen, new)]
    BY <1>7 DEF StoreFailed
  <2> HIDE DEF new
  <2>4. ASSUME line[req[q].line] # None
        PROVE  Update(line[req[q].line], req[q].seen, new) \in Line
    BY <1>0, <2>1, <2>2, <2>4, UpdateType DEF TelephonyTypeOK
  <2> QED BY <1>0, <1>1, <2>1, <2>3, <2>4 DEF TelephonyTypeOK
<1>8. ASSUME NEW q \in Requests, DisconnectNumber(q) \/ Dropping(q) \/ Ring(q) \/ Admit(q)
      PROVE  TelephonyTypeOK'
  <2>1. CASE DisconnectNumber(q) \/ Ring(q) \/ Admit(q)
    BY <1>0, <2>1 DEF DisconnectNumber, Ring, Admit, lineVars, TelephonyTypeOK
  <2>2. CASE Dropping(q)
    BY <1>0, <2>2
    DEF Dropping, DropTrunk, DropList, DropRoute, DropFails, Removed, Stays, TelephonyTypeOK
  <2> QED BY <1>8, <2>1, <2>2
<1>9. ASSUME NEW q \in Requests, StoreDisconnected(q) PROVE TelephonyTypeOK'
  <2>1. req[q].line \in Connections /\ req[q].seen \in Line
    BY <1>0, <1>9, TelephonyParts DEF StoreDisconnected, At, DisconnectStep
  <2> DEFINE new == [req[q].seen EXCEPT !.status = "disconnected", !.trunk = None, !.route = FALSE]
  <2>2. new \in Line
    BY <2>1 DEF Line, LineStatus
  <2>3. /\ UNCHANGED <<trunks, lists, routes>>
        /\ \/ UNCHANGED line
           \/ /\ line[req[q].line] # None
              /\ line' = [line EXCEPT ![req[q].line] = Off(Update(@, req[q].seen, new))]
    BY <1>9 DEF StoreDisconnected
  <2> HIDE DEF new
  <2>4. ASSUME line[req[q].line] # None
        PROVE  Off(Update(line[req[q].line], req[q].seen, new)) \in Line
    BY <1>0, <2>1, <2>2, <2>4, UpdateType DEF TelephonyTypeOK
  <2> QED BY <1>0, <1>1, <2>1, <2>3, <2>4 DEF TelephonyTypeOK
<1>10. ASSUME NEW q \in Requests, Remove(q) PROVE TelephonyTypeOK'
  BY <1>0, <1>10 DEF Remove, TelephonyTypeOK
<1>11. ASSUME NEW q \in Requests, Activate(q) PROVE TelephonyTypeOK'
  <2>1. req[q].line \in Connections /\ req[q].state \in PhoneState
    BY <1>0, <1>11, TelephonyParts DEF Activate, At
  <2>2. \A x \in Line :
          [[x EXCEPT !.status = "active"] EXCEPT
             !.state = Column(x.state, req[q].state, "connected")] \in Line
    BY <2>1 DEF Line, LineStatus, PhoneState, Column
  <2>3. /\ UNCHANGED <<trunks, lists, routes>>
        /\ \/ UNCHANGED line
           \/ /\ line[req[q].line] # None
              /\ line' = [line EXCEPT ![req[q].line].status = "active",
                                      ![req[q].line].state = Column(@, req[q].state, "connected")]
    BY <1>11 DEF Activate
  <2>4. ASSUME line[req[q].line] # None
        PROVE  [line EXCEPT ![req[q].line].status = "active",
                            ![req[q].line].state = Column(@, req[q].state, "connected")]
                 \in [Connections -> Line \union {None}]
    BY <1>0, <2>1, <2>2, <2>4 DEF TelephonyTypeOK
  <2> QED BY <1>0, <2>3, <2>4 DEF TelephonyTypeOK
<1> QED
  BY <1>2, <1>3, <1>4, <1>5, <1>6, <1>7, <1>8, <1>9, <1>10, <1>11
  DEF TelephonyStep, Provisioning, Dropping

-----------------------------------------------------------------------------
(* Extensions.                                                             *)

LEMMA ExtensionTypes ==
  ASSUME Typed, ExtensionStep
  PROVE  ExtensionsTypeOK' /\ req' \in [Requests -> AnyRequest]
<1>0. /\ ExtensionsTypeOK /\ req \in [Requests -> AnyRequest]
      /\ \A x \in Extensions : row[x] # None => row[x] \in Extension
  BY DEF Typed, ExtensionsTypeOK
<1>1. ASSUME NEW q \in Requests, NEW d \in AnyRequest, Become(q, d)
      PROVE  req' \in [Requests -> AnyRequest]
  BY <1>1, BecomeType DEF Typed
<1>2. ASSUME NEW q \in Requests, NEW x \in Extensions, NEW state \in Extension \union {None},
             NEW d \in AnyRequest, Tell(q, x, state, d), UNCHANGED row
      PROVE  ExtensionsTypeOK' /\ req' \in [Requests -> AnyRequest]
  <2>1. Become(q, d) \/ Become(q, Idle)
    BY <1>2 DEF Tell
  <2>2. ExtensionsTypeOK'
    BY <1>0, <1>2 DEF Tell, ExtensionsTypeOK
  <2> QED BY <1>1, <2>1, <2>2, IdleType
<1>3. ASSUME NEW q \in Requests, CreateExtension(q)
      PROVE  ExtensionsTypeOK' /\ req' \in [Requests -> AnyRequest]
  <2>1. ASSUME NEW x \in Fresh, NEW password \in Passwords, NEW name \in Names
        PROVE  LET new == [password |-> password, enabled |-> TRUE, name |-> name] IN
                 /\ x \in Extensions /\ new \in Extension
                 /\ [op |-> "new_row", extension |-> x, new |-> new] \in AnyRequest
    BY DEF Fresh, Extension, AnyRequest, ExtensionRequest
  <2>2. CASE UNCHANGED <<endpoint, req>>
    BY <1>0, <1>3, <2>2 DEF CreateExtension, ExtensionsTypeOK
  <2> QED BY <1>2, <1>3, <2>1, <2>2 DEF CreateExtension
<1>4. ASSUME NEW q \in Requests, StoreExtension(q)
      PROVE  ExtensionsTypeOK' /\ req' \in [Requests -> AnyRequest]
  <2>1. req[q].extension \in Extensions /\ req[q].new \in Extension
    BY <1>0, <1>4, ExtensionParts DEF StoreExtension
  <2>2. [op |-> "forget", extension |-> req[q].extension] \in AnyRequest
    BY <2>1 DEF AnyRequest, ExtensionRequest
  <2>3. ExtensionsTypeOK'
    BY <1>0, <1>4, <2>1 DEF StoreExtension, ExtensionsTypeOK
  <2>4. Become(q, Idle) \/ Become(q, [op |-> "forget", extension |-> req[q].extension])
    BY <1>4 DEF StoreExtension
  <2> QED BY <1>1, <2>2, <2>3, <2>4, IdleType
<1>5. ASSUME NEW q \in Requests, ForgetExtension(q)
      PROVE  ExtensionsTypeOK' /\ req' \in [Requests -> AnyRequest]
  <2>1. req[q].extension \in Extensions
    BY <1>0, <1>5, ExtensionParts DEF ForgetExtension
  <2> QED BY <1>2, <1>5, <2>1, IdleType DEF ForgetExtension
<1>6. ASSUME NEW q \in Requests, ChangeExtension(q)
      PROVE  ExtensionsTypeOK' /\ req' \in [Requests -> AnyRequest]
  <2>1. PICK x \in Extensions : /\ row[x] # None
                                /\ \E new \in Changes(x) :
                                     Tell(q, x, new, [op |-> "change_row", extension |-> x,
                                                      seen |-> row[x], new |-> new])
    BY <1>6 DEF ChangeExtension
  <2>2. PICK new \in Changes(x) :
          Tell(q, x, new, [op |-> "change_row", extension |-> x, seen |-> row[x], new |-> new])
    BY <2>1
  <2>3. row[x] \in Extension
    BY <1>0, <2>1
  <2>4. /\ \A n \in Names : [row[x] EXCEPT !.name = n] \in Extension
        /\ \A p \in Passwords : [row[x] EXCEPT !.password = p] \in Extension
    BY <2>3 DEF Extension
  <2>5. \A e \in BOOLEAN : [row[x] EXCEPT !.enabled = e] \in Extension
    BY <2>3 DEF Extension
  <2>6. new \in Extension
    BY <2>4, <2>5 DEF Changes
  <2>7. [op |-> "change_row", extension |-> x, seen |-> row[x], new |-> new] \in AnyRequest
    BY <2>3, <2>6 DEF AnyRequest, ExtensionRequest
  <2> QED BY <1>2, <1>6, <2>2, <2>6, <2>7 DEF ChangeExtension
<1>7. ASSUME NEW q \in Requests, StoreChange(q)
      PROVE  ExtensionsTypeOK' /\ req' \in [Requests -> AnyRequest]
  <2> DEFINE x == req[q].extension  seen == req[q].seen  new == req[q].new
  <2>1. x \in Extensions /\ seen \in Extension /\ new \in Extension
    BY <1>0, <1>7, ExtensionParts DEF StoreChange
  <2>2. ASSUME NEW now \in Extension
        PROVE  [now EXCEPT !.password = Column(@, seen.password, new.password),
                           !.enabled = Column(@, seen.enabled, new.enabled),
                           !.name = Column(@, seen.name, new.name)] \in Extension
    <3> HIDE DEF seen, new
    <3>1. Column(now.enabled, seen.enabled, new.enabled) \in BOOLEAN
      BY <2>1 DEF Column, Extension
    <3>2. /\ Column(now.password, seen.password, new.password) \in Passwords
          /\ Column(now.name, seen.name, new.name) \in Names
      BY <2>1 DEF Column, Extension
    <3> QED BY <3>1, <3>2 DEF Extension
  <2>3. CASE UNCHANGED row
    <3>1. UNCHANGED <<row, endpoint>>
      BY <1>7, <2>3 DEF StoreChange
    <3>2. ExtensionsTypeOK'
      BY <1>0, <3>1 DEF ExtensionsTypeOK
    <3> QED BY <1>1, <1>7, <3>2, IdleType DEF StoreChange
  <2>4. CASE ~UNCHANGED row
    <3> DEFINE m == [row[x] EXCEPT !.password = Column(@, seen.password, new.password),
                                   !.enabled = Column(@, seen.enabled, new.enabled),
                                   !.name = Column(@, seen.name, new.name)]
    <3>1. row[x] \in Extension
      BY <1>0, <1>7, <2>1, <2>4 DEF StoreChange
    <3>2. m \in Extension
      BY <2>2, <3>1
    <3>3. UNCHANGED endpoint /\ row' = [row EXCEPT ![x] = m]
      BY <1>7, <2>4 DEF StoreChange
    <3> HIDE DEF m, x
    <3>4. ExtensionsTypeOK'
      BY <1>0, <2>1, <3>2, <3>3 DEF ExtensionsTypeOK
    <3> QED BY <1>1, <1>7, <3>4, IdleType DEF StoreChange
  <2> QED BY <2>3, <2>4
<1>8. ASSUME NEW q \in Requests, DeleteExtension(q)
      PROVE  ExtensionsTypeOK' /\ req' \in [Requests -> AnyRequest]
  <2>1. ASSUME NEW x \in Extensions
        PROVE  [op |-> "delete_row", extension |-> x] \in AnyRequest
    BY DEF AnyRequest, ExtensionRequest
  <2> QED BY <1>2, <1>8, <2>1 DEF DeleteExtension
<1>9. ASSUME NEW q \in Requests, RemoveRow(q)
      PROVE  ExtensionsTypeOK' /\ req' \in [Requests -> AnyRequest]
  BY <1>0, <1>1, <1>9, IdleType DEF RemoveRow, ExtensionsTypeOK
<1> QED
  BY <1>3, <1>4, <1>5, <1>6, <1>7, <1>8, <1>9 DEF ExtensionStep

-----------------------------------------------------------------------------
(* Which requests a step of each part touches.  Only a process that dies   *)
(* ends requests of another part.                                          *)

WorkspaceOps == {"idle", "template", "list", "listed", "create", "update", "save"}
TelephonyOps == ProvisionStep \union DisconnectStep \union {"idle", "remove", "ring"}
ExtensionOps == OnExtension \union {"idle"}

(* One request of a part goes on.                                          *)
Alters(q) == \A r \in Requests : r # q => req'[r] = req[r]
Moves(q, ops) == req[q].op \in ops /\ req'[q].op \in ops /\ Alters(q)

LEMMA BecomeAlters ==
  ASSUME Typed, NEW q \in Requests, NEW d, Become(q, d)
  PROVE  req'[q] = d /\ Alters(q)
  BY DEF Typed, Become, Alters

(* Only an inbound call that is admitted has to do with the lock.          *)
LEMMA TelephonyServes ==
  ASSUME NEW q \in Requests,
         \/ Provisioning(q) \/ StoreProvisioned(q) \/ StoreFailed(q) \/ Claim(q)
         \/ AddNumber(q) \/ SetEnabled(q) \/ Provision(q) \/ DisconnectNumber(q) \/ Dropping(q)
         \/ StoreDisconnected(q) \/ Remove(q) \/ Ring(q)
  PROVE  Serving
<1>1. Provisioning(q) \/ StoreProvisioned(q) \/ StoreFailed(q) \/ Claim(q) => Serving
  BY DEF Provisioning, CreateTrunk, CreateList, Attach, UndoTrunk, UndoList, PutRoute, BackTrunk,
         BackList, BackRoute, StoreProvisioned, StoreFailed, Claim
<1>2. \/ AddNumber(q) \/ SetEnabled(q) \/ Provision(q) \/ DisconnectNumber(q) \/ Dropping(q)
      \/ StoreDisconnected(q) \/ Remove(q) \/ Ring(q)
      => Serving
  BY DEF AddNumber, SetEnabled, Provision, DisconnectNumber, Dropping, DropTrunk, DropList, DropRoute,
         StoreDisconnected, Remove, Ring
<1> QED BY <1>1, <1>2

LEMMA TelephonyMoves ==
  ASSUME Typed, TelephonyStep
  PROVE  \/ Serving /\ ((\E q \in Requests : Moves(q, TelephonyOps)) \/ UNCHANGED req)
         \/ \E q \in Requests : Admit(q) \/ Activate(q)
<1>1. ASSUME NEW q \in Requests, AddNumber(q) \/ SetEnabled(q) PROVE UNCHANGED req
  BY <1>1 DEF AddNumber, SetEnabled
<1>2. ASSUME NEW q \in Requests, NEW op \in TelephonyOps, NEW made, req[q].op \in ProvisionStep,
             Step(q, op, made)
      PROVE  Moves(q, TelephonyOps)
  <2>1. [req[q] EXCEPT !.op = op, !.made = made].op = op
    BY <1>2, MoreParts DEF Typed
  <2>2. req'[q].op = op /\ Alters(q)
    BY <1>2, <2>1, BecomeAlters DEF Step
  <2> QED BY <1>2, <2>2 DEF Moves, TelephonyOps
<1>3. ASSUME NEW q \in Requests, req[q].op \in TelephonyOps, Become(q, Idle)
      PROVE  Moves(q, TelephonyOps)
  <2>1. req'[q].op = "idle" /\ Alters(q)
    BY <1>3, BecomeAlters DEF Idle
  <2> QED BY <1>3, <2>1 DEF Moves, TelephonyOps
<1>4. ASSUME NEW q \in Requests, Provisioning(q) PROVE Moves(q, TelephonyOps)
  BY <1>2, <1>4, ProvisioningSteps DEF TelephonyOps
<1>5. ASSUME NEW q \in Requests, Dropping(q) PROVE Moves(q, TelephonyOps)
  <2>1. req[q].op \in DisconnectStep /\ (Become(q, Idle) \/ \E op \in DisconnectStep : Proceed(q, op))
    BY <1>5, DroppingSteps
  <2>2. ASSUME NEW op \in DisconnectStep, Proceed(q, op) PROVE Moves(q, TelephonyOps)
    <3>1. [req[q] EXCEPT !.op = op].op = op
      BY <2>1, MoreParts DEF Typed
    <3>2. req'[q].op = op /\ Alters(q)
      BY <2>2, <3>1, BecomeAlters DEF Proceed
    <3> QED BY <2>1, <3>2 DEF Moves, TelephonyOps
  <2> QED BY <1>3, <2>1, <2>2 DEF TelephonyOps
<1>6. ASSUME NEW q \in Requests, Provision(q) \/ DisconnectNumber(q) \/ Ring(q)
      PROVE  Moves(q, TelephonyOps)
  <2>1. req[q].op = "idle"
    BY <1>6 DEF Provision, DisconnectNumber, Ring, Free, Idle
  <2>2. CASE Provision(q)
    <3>1. req'[q].op = "claim" /\ Alters(q)
      BY <2>2, BecomeAlters DEF Provision
    <3> QED BY <2>1, <3>1 DEF Moves, TelephonyOps, ProvisionStep
  <2>3. CASE DisconnectNumber(q)
    <3>1. \A x : FirstDrop(x) \in DisconnectStep
      BY DEF FirstDrop, DisconnectStep
    <3>2. req'[q].op \in DisconnectStep /\ Alters(q)
      BY <2>3, <3>1, BecomeAlters DEF DisconnectNumber
    <3> QED BY <2>1, <3>2 DEF Moves, TelephonyOps
  <2>4. CASE Ring(q)
    <3>1. req'[q].op = "ring" /\ Alters(q)
      BY <2>4, BecomeAlters DEF Ring
    <3> QED BY <2>1, <3>1 DEF Moves, TelephonyOps
  <2> QED BY <1>6, <2>2, <2>3, <2>4
<1>7. ASSUME NEW q \in Requests, StoreProvisioned(q) PROVE Moves(q, TelephonyOps)
  <2>1. req[q].op \in ProvisionStep
    BY <1>7 DEF StoreProvisioned, At, ProvisionStep
  <2>2. \/ Become(q, Idle)
        \/ \E op \in ProvisionStep : Step(q, op, req[q].made)
    BY <1>7 DEF StoreProvisioned, RollBack, ProvisionStep
  <2> QED BY <1>2, <1>3, <2>1, <2>2 DEF TelephonyOps
<1>10. ASSUME NEW q \in Requests, Claim(q) PROVE Moves(q, TelephonyOps)
  <2>1. req'[q].op \in {"idle", "new_trunk", "route"} /\ Alters(q)
    <3>1. Become(q, Idle) \/ Become(q, Claimed(q))
      BY <1>10, ClaimSteps
    <3>2. Idle.op = "idle" /\ Claimed(q).op \in {"new_trunk", "route"}
      BY DEF Idle, Claimed
    <3> QED BY <3>1, <3>2, BecomeAlters
  <2> QED BY <1>10, <2>1, ClaimSteps DEF Moves, TelephonyOps, ProvisionStep
<1>8. ASSUME NEW q \in Requests, StoreFailed(q) \/ Remove(q)
      PROVE  Moves(q, TelephonyOps)
  <2>1. req[q].op \in TelephonyOps
    BY <1>8 DEF StoreFailed, Remove, At, TelephonyOps, ProvisionStep
  <2>2. Become(q, Idle)
    BY <1>8 DEF StoreFailed, Remove
  <2> QED BY <1>3, <2>1, <2>2
<1>9. ASSUME NEW q \in Requests, StoreDisconnected(q)
      PROVE  Moves(q, TelephonyOps)
  <2>1. req[q].op \in TelephonyOps
    BY <1>9 DEF StoreDisconnected, At, TelephonyOps, DisconnectStep
  <2>2. Become(q, Idle) \/ Become(q, [op |-> "remove", line |-> req[q].line])
    BY <1>9 DEF StoreDisconnected
  <2>3. req'[q].op \in {"idle", "remove"} /\ Alters(q)
    BY <2>2, BecomeAlters DEF Idle
  <2> QED BY <2>1, <2>3 DEF Moves, TelephonyOps
<1> QED
  BY <1>1, <1>4, <1>5, <1>6, <1>7, <1>8, <1>9, <1>10, TelephonyServes
  DEF TelephonyStep, Provisioning, Dropping

LEMMA ExtensionMoves ==
  ASSUME Typed, ExtensionStep
  PROVE  (\E q \in Requests : Moves(q, ExtensionOps)) \/ UNCHANGED req
<1>1. ASSUME NEW q \in Requests, NEW x, NEW state, NEW d, Tell(q, x, state, d),
             req[q].op \in ExtensionOps, d.op \in ExtensionOps
      PROVE  Moves(q, ExtensionOps)
  <2>1. Become(q, d) \/ Become(q, Idle)
    BY <1>1 DEF Tell
  <2>2. req'[q].op \in {d.op, "idle"} /\ Alters(q)
    BY <2>1, BecomeAlters DEF Idle
  <2> QED BY <1>1, <2>2 DEF Moves, ExtensionOps
<1>2. ASSUME NEW q \in Requests, CreateExtension(q) PROVE Moves(q, ExtensionOps) \/ UNCHANGED req
  <2>1. req[q].op = "idle"
    BY <1>2 DEF CreateExtension, Free, Idle
  <2> QED BY <1>1, <1>2, <2>1 DEF CreateExtension, ExtensionOps, OnExtension
<1>3. ASSUME NEW q \in Requests, ChangeExtension(q) PROVE Moves(q, ExtensionOps)
  <2>1. req[q].op = "idle"
    BY <1>3 DEF ChangeExtension, Free, Idle
  <2> QED BY <1>1, <1>3, <2>1 DEF ChangeExtension, ExtensionOps, OnExtension
<1>4. ASSUME NEW q \in Requests, DeleteExtension(q) PROVE Moves(q, ExtensionOps)
  <2>1. req[q].op = "idle"
    BY <1>4 DEF DeleteExtension, Free, Idle
  <2> QED BY <1>1, <1>4, <2>1 DEF DeleteExtension, ExtensionOps, OnExtension
<1>5. ASSUME NEW q \in Requests, ForgetExtension(q) PROVE Moves(q, ExtensionOps)
  BY <1>1, <1>5 DEF ForgetExtension, ExtensionOps, OnExtension, Idle
<1>6. ASSUME NEW q \in Requests, StoreExtension(q) \/ StoreChange(q) \/ RemoveRow(q)
      PROVE  Moves(q, ExtensionOps)
  <2>1. req[q].op \in ExtensionOps
    BY <1>6 DEF StoreExtension, StoreChange, RemoveRow, ExtensionOps, OnExtension
  <2>2. Become(q, Idle) \/ Become(q, [op |-> "forget", extension |-> req[q].extension])
    BY <1>6 DEF StoreExtension, StoreChange, RemoveRow
  <2>3. req'[q].op \in {"idle", "forget"} /\ Alters(q)
    BY <2>2, BecomeAlters DEF Idle
  <2> QED BY <2>1, <2>3 DEF Moves, ExtensionOps, OnExtension
<1> QED BY <1>2, <1>3, <1>4, <1>5, <1>6 DEF ExtensionStep

LEMMA WorkspaceMoves ==
  ASSUME Typed, WorkspaceStep
  PROVE  \/ \E q \in Requests : Moves(q, WorkspaceOps)
         \/ UNCHANGED req
         \/ \E p \in Processes : ProcessDies(p)
<1>1. ASSUME NEW q \in Requests, NEW d, Become(q, d), d.op \in WorkspaceOps, req[q].op \in WorkspaceOps
      PROVE  Moves(q, WorkspaceOps)
  <2>1. req'[q].op \in WorkspaceOps /\ Alters(q)
    BY <1>1, BecomeAlters
  <2> QED BY <1>1, <2>1 DEF Moves
<1>2. Idle.op \in WorkspaceOps
  BY DEF Idle, WorkspaceOps
<1>3. ASSUME NEW q \in Requests, NEW kind, NEW v, NEW r, Reserve(q, kind, v, r), req[q].op \in WorkspaceOps
      PROVE  Moves(q, WorkspaceOps)
  <2>1. [op |-> "create", kind |-> kind, voice |-> v, row |-> r].op \in WorkspaceOps
    BY DEF WorkspaceOps
  <2> QED BY <1>1, <1>2, <1>3, <2>1 DEF Reserve
<1>4. ASSUME NEW q \in Requests, req[q].op = "idle", NEW i, NEW new, Load(q, i, new)
      PROVE  Moves(q, WorkspaceOps)
  <2>1. [op |-> "save", row |-> i, seen |-> integ[i], new |-> new].op \in WorkspaceOps
    BY DEF WorkspaceOps
  <2> QED BY <1>1, <1>4, <2>1 DEF Load, WorkspaceOps
<1>5. ASSUME NEW q \in Requests, Free(q) PROVE req[q].op = "idle" /\ req[q].op \in WorkspaceOps
  BY <1>5 DEF Free, Idle, WorkspaceOps
<1>6. ASSUME NEW q \in Requests, CreateAgent(q) \/ CreateIntegration(q) \/ TemplateReserve(q)
      PROVE  Moves(q, WorkspaceOps)
  BY <1>3, <1>5, <1>6 DEF CreateAgent, CreateIntegration, TemplateReserve, WorkspaceOps
<1>7. ASSUME NEW q \in Requests, UpdateIntegration(q) \/ Connect(q) \/ Disconnect(q)
      PROVE  Moves(q, WorkspaceOps)
  BY <1>4, <1>5, <1>7 DEF UpdateIntegration, Connect, Disconnect
<1>8. ASSUME NEW q \in Requests, TemplateRead(q) \/ UpdateAgent(q) \/ ListVoices(q)
      PROVE  Moves(q, WorkspaceOps)
  <2>1. /\ [op |-> "template"].op \in WorkspaceOps
        /\ \A v : [op |-> "update", voice |-> v].op \in WorkspaceOps
        /\ \A f : [op |-> "list", force |-> f].op \in WorkspaceOps
    BY DEF WorkspaceOps
  <2> QED BY <1>1, <1>5, <1>8, <2>1 DEF TemplateRead, UpdateAgent, ListVoices
<1>9. ASSUME NEW q \in Requests,
             \/ Insert(q) \/ SaveAgent(q) \/ ImportFails(q) \/ ListStore(q) \/ ListFails(q)
             \/ Save(q)
      PROVE  Moves(q, WorkspaceOps)
  <2>1. req[q].op \in WorkspaceOps
    BY <1>9 DEF Insert, SaveAgent, ImportFails, NeedsVoice, ListStore, ListFails, Save, WorkspaceOps
  <2>2. Become(q, Idle)
    BY <1>9 DEF Insert, SaveAgent, ImportFails, ListStore, ListFails, Save
  <2> QED BY <1>1, <1>2, <2>1, <2>2
<1>10. ASSUME NEW q \in Requests, ListFetch(q) PROVE Moves(q, WorkspaceOps)
  <2>1. req[q].op \in WorkspaceOps
    BY <1>10 DEF ListFetch, WorkspaceOps
  <2>2. \A v : [op |-> "listed", voices |-> v].op \in WorkspaceOps
    BY DEF WorkspaceOps
  <2>3. Become(q, Idle) \/ Become(q, [op |-> "listed", voices |-> known'[ProcessOf[q]]])
    BY <1>10 DEF ListFetch
  <2> QED BY <1>1, <1>2, <2>1, <2>2, <2>3
<1>11. ASSUME NEW q \in Requests, Present(q) \/ Import(q) PROVE Moves(q, WorkspaceOps)
  <2>1. req[q] \in AnyRequest /\ req[q].op \in {"create", "update"}
    BY <1>11 DEF Present, Import, Missing, NeedsVoice, Typed
  <2>2. [req[q] EXCEPT !.voice = None].op = req[q].op
    BY <2>1, MoreParts
  <2> QED BY <1>1, <1>11, <2>1, <2>2 DEF Present, Import, WorkspaceOps
<1>12. ASSUME NEW q \in Requests, LookUp(q) \/ DeleteAgent(q) \/ DeleteIntegration(q) PROVE UNCHANGED req
  BY <1>12 DEF LookUp, DeleteAgent, DeleteIntegration
<1>13. ASSUME NEW p \in Processes, CacheExpires(p) PROVE UNCHANGED req
  BY <1>13 DEF CacheExpires
<1>14. ChangePlan \/ PeriodTurns => UNCHANGED req
  BY DEF ChangePlan, PeriodTurns
<1> QED
  BY <1>6, <1>7, <1>8, <1>9, <1>10, <1>11, <1>12, <1>13, <1>14 DEF WorkspaceStep

-----------------------------------------------------------------------------
(* Type correctness.                                                       *)

(* A step of one part leaves what belongs to another.                      *)
LEMMA TelephonyKeeps ==
  ASSUME TelephonyStep
  PROVE  /\ UNCHANGED setupVars
         /\ holder' = holder \/ holder' = None \/ (holder = None /\ holder' \in Requests)
<1>1. ASSUME NEW q \in Requests, Admit(q) \/ Activate(q)
      PROVE  /\ UNCHANGED setupVars
             /\ holder' = holder \/ holder' = None \/ (holder = None /\ holder' \in Requests)
  BY <1>1 DEF Admit, Activate
<1> QED
  BY <1>1, TelephonyServes DEF TelephonyStep, Provisioning, Dropping, Serving

LEMMA ExtensionKeeps == ExtensionStep => UNCHANGED <<setupVars, holder>>
  BY DEF ExtensionStep, CreateExtension, StoreExtension, ForgetExtension, ChangeExtension, StoreChange,
         DeleteExtension, RemoveRow, Rest, setupVars

LEMMA TrunkFirstStep ==
  ASSUME Typed, TrunkFirst, Next
  PROVE  TrunkFirst'
<1>1. ASSUME NEW q \in Requests, NEW ops, Moves(q, ops), "new_list" \notin ops
      PROVE  TrunkFirst'
  BY <1>1 DEF Moves, Alters, TrunkFirst
<1>2. CASE UNCHANGED req
  BY <1>2 DEF TrunkFirst
<1>3. ASSUME NEW p \in Processes, ProcessDies(p) PROVE TrunkFirst'
  BY <1>3 DEF ProcessDies, Idle, TrunkFirst
<1>4. CASE WorkspaceStep
  BY <1>1, <1>2, <1>3, <1>4, WorkspaceMoves DEF WorkspaceOps
<1>5. CASE ExtensionStep
  BY <1>1, <1>2, <1>5, ExtensionMoves DEF ExtensionOps, OnExtension
<1>6. ASSUME NEW q \in Requests, NEW d, Become(q, d),
             d.op = "new_list" => d.made.trunk \in Trunks
      PROVE  TrunkFirst'
  <2>1. req'[q] = d /\ Alters(q)
    BY <1>6, BecomeAlters
  <2> QED BY <1>6, <2>1 DEF Alters, TrunkFirst
<1>7. ASSUME NEW q \in Requests, NEW op \in ProvisionStep, NEW made \in Made, Step(q, op, made),
             req[q].op \in ProvisionStep, op = "new_list" => made.trunk \in Trunks
      PROVE  TrunkFirst'
  <2>1. /\ [req[q] EXCEPT !.op = op, !.made = made].op = op
        /\ [req[q] EXCEPT !.op = op, !.made = made].made = made
    BY <1>7, MoreParts DEF Typed
  <2> QED BY <1>6, <1>7, <2>1 DEF Step
<1>8. ASSUME NEW q \in Requests, CreateTrunk(q) PROVE TrunkFirst'
  <2>1. req[q].op \in ProvisionStep /\ {"new_list", "failed"} \subseteq ProvisionStep
    BY <1>8 DEF CreateTrunk, At, ProvisionStep
  <2>2. \A t \in Unclaimed : [Nothing EXCEPT !.trunk = t].trunk = t /\ t \in Trunks
    BY DEF Nothing, Unclaimed
  <2>3. \/ \E t \in Unclaimed : Step(q, "new_list", [Nothing EXCEPT !.trunk = t])
        \/ Step(q, "failed", Nothing)
    BY <1>8 DEF CreateTrunk
  <2>4. CASE Step(q, "failed", Nothing)
    BY <1>7, <2>1, <2>4, NothingType
  <2>5. ASSUME NEW t \in Unclaimed, Step(q, "new_list", [Nothing EXCEPT !.trunk = t]) PROVE TrunkFirst'
    <3> DEFINE made == [Nothing EXCEPT !.trunk = t]
    <3>1. made \in Made /\ made.trunk \in Trunks
      BY <2>2, NothingType, MadeTypes
    <3>2. Step(q, "new_list", made)
      BY <2>5
    <3>3. "new_list" \in ProvisionStep
      BY DEF ProvisionStep
    <3> HIDE DEF made
    <3> QED BY <1>7, <2>1, <3>1, <3>2, <3>3
  <2> QED BY <2>3, <2>4, <2>5
<1>9. ASSUME NEW q \in Requests, NEW d, Become(q, d), d.op # "new_list" PROVE TrunkFirst'
  BY <1>6, <1>9
<1>10. ASSUME NEW q \in Requests, Provisioning(q), ~CreateTrunk(q) PROVE TrunkFirst'
  <2>1. PICK op \in ProvisionStep, made \in Made : Step(q, op, made) /\ op # "new_list"
    BY <1>10, ProvisioningSteps
  <2> QED BY <1>7, <1>10, <2>1, ProvisioningSteps
<1>11. ASSUME NEW q \in Requests, AddNumber(q) \/ SetEnabled(q) PROVE TrunkFirst'
  BY <1>2, <1>11 DEF AddNumber, SetEnabled
<1>12. ASSUME NEW q \in Requests, Provision(q) \/ DisconnectNumber(q) \/ Ring(q) PROVE TrunkFirst'
  <2>1. CASE Provision(q)
    BY <1>9, <2>1 DEF Provision
  <2>2. CASE DisconnectNumber(q)
    BY <1>9, <2>2 DEF DisconnectNumber, FirstDrop
  <2>3. CASE Ring(q)
    BY <1>9, <2>3 DEF Ring
  <2> QED BY <1>12, <2>1, <2>2, <2>3
<1>13. Idle.op # "new_list"
  BY DEF Idle
<1>14. ASSUME NEW q \in Requests,
              StoreFailed(q) \/ Remove(q) \/ Activate(q) \/ Admit(q) \/ StoreDisconnected(q)
       PROVE  TrunkFirst'
  BY <1>9, <1>13, <1>14 DEF StoreFailed, Remove, Activate, Admit, StoreDisconnected
<1>15. ASSUME NEW q \in Requests, StoreProvisioned(q) PROVE TrunkFirst'
  <2>1. req[q].op \in ProvisionStep
    BY <1>15 DEF StoreProvisioned, At, ProvisionStep
  <2>2. req[q].made \in Made
    BY <2>1, TelephonyParts DEF Typed
  <2>3. \/ Become(q, Idle)
        \/ \E op \in ProvisionStep \ {"new_list"} : Step(q, op, req[q].made)
    BY <1>15 DEF StoreProvisioned, RollBack, ProvisionStep
  <2> QED BY <1>7, <1>9, <1>13, <2>1, <2>2, <2>3
<1>18. ASSUME NEW q \in Requests, Claim(q) PROVE TrunkFirst'
  BY <1>9, <1>13, <1>18, ClaimSteps DEF Claimed
<1>16. ASSUME NEW q \in Requests, Dropping(q) PROVE TrunkFirst'
  <2>1. /\ req[q].op \in DisconnectStep
        /\ Become(q, Idle) \/ \E op \in DisconnectStep : Proceed(q, op)
    BY <1>16, DroppingSteps
  <2>2. \A op : [req[q] EXCEPT !.op = op].op = op
    BY <2>1, MoreParts DEF Typed
  <2> QED BY <1>9, <1>13, <2>1, <2>2 DEF Proceed, DisconnectStep
<1>17. CASE TelephonyStep
  BY <1>8, <1>10, <1>11, <1>12, <1>14, <1>15, <1>16, <1>17, <1>18 DEF TelephonyStep, Provisioning, Dropping
<1> QED BY <1>4, <1>5, <1>17 DEF Next

LEMMA TypedStep ==
  ASSUME Typed, TrunkFirst, Next
  PROVE  Typed'
<1>1. CASE WorkspaceStep /\ UNCHANGED <<lineVars, extensionVars>>
  <2>1. TelephonyTypeOK' /\ ExtensionsTypeOK'
    BY <1>1 DEF lineVars, extensionVars, Typed, TelephonyTypeOK, ExtensionsTypeOK
  <2> QED BY <1>1, <2>1, WorkspaceTypes, WorkspaceRequests DEF Typed
<1>2. CASE TelephonyStep /\ UNCHANGED extensionVars
  <2>1. ExtensionsTypeOK'
    BY <1>2 DEF extensionVars, Typed, ExtensionsTypeOK
  <2>2. WorkspaceTypeOK'
    BY <1>2, TelephonyKeeps DEF setupVars, catalogVars, Typed, WorkspaceTypeOK
  <2> QED BY <1>2, <2>1, <2>2, TelephonyTypes, TelephonyRequests DEF Typed
<1>3. CASE ExtensionStep /\ UNCHANGED lineVars
  <2>1. TelephonyTypeOK'
    BY <1>3 DEF lineVars, Typed, TelephonyTypeOK
  <2>2. WorkspaceTypeOK'
    BY <1>3, ExtensionKeeps DEF setupVars, catalogVars, Typed, WorkspaceTypeOK
  <2> QED BY <1>3, <2>1, <2>2, ExtensionTypes DEF Typed
<1> QED BY <1>1, <1>2, <1>3 DEF Next

LEMMA TypedStutter ==
  ASSUME Typed, TrunkFirst, UNCHANGED officeVars
  PROVE  Typed' /\ TrunkFirst'
<1> USE DEF officeVars, telephonyVars, lineVars, extensionVars, workspaceVars, catalogVars
<1>1. WorkspaceTypeOK'
  BY DEF Typed, WorkspaceTypeOK
<1>2. TelephonyTypeOK' /\ ExtensionsTypeOK'
  BY DEF Typed, TelephonyTypeOK, ExtensionsTypeOK
<1>3. TrunkFirst'
  BY DEF TrunkFirst
<1> QED BY <1>1, <1>2, <1>3 DEF Typed

LEMMA TypedInvariant == Spec => [](Typed /\ TrunkFirst)
<1>1. Init => Typed /\ TrunkFirst
  <2>1. Init => TrunkFirst
    BY DEF Init, WorkspaceInit, Idle, TrunkFirst
  <2> QED BY <2>1, InitTyped
<1>2. Typed /\ TrunkFirst /\ [Next]_officeVars => Typed' /\ TrunkFirst'
  BY TypedStep, TrunkFirstStep, TypedStutter
<1> QED BY <1>1, <1>2, PTL DEF Spec

(* Rows, requests and what exists outside stay what they are said to be:   *)
(* a request that is resumed after an exchange finds what it had stored.   *)
THEOREM OfficeTypeCorrect == Spec => []OfficeTypeOK
  BY TypedInvariant, TypedIsTypeOK, PTL

-----------------------------------------------------------------------------
(* Office implements Allotment.  While a request is creating something it  *)
(* holds the lock, so that the room it found is still there when it        *)
(* inserts: nobody else creates, the plan does not change, and deleting    *)
(* only makes more room.  Nothing is said of a holder that creates nothing.*)

HasRoom(k) == sub.limit[k] = Unlimited \/ Cardinality(Held(k)) < sub.limit[k]

LockHeld == \A q \in Requests : req[q].op \in {"create", "admit"} => holder = q
RoomKept == \A q \in Requests : req[q].op = "create" => sub.usable /\ HasRoom(req[q].kind)
RowsFinite == \A k \in Kinds : IsFiniteSet(Held(k))

PlanInvariant == Typed /\ TrunkFirst /\ LockHeld /\ RoomKept /\ RowsFinite

(* A request that creates, and did so before this step or has just found   *)
(* room and taken the lock.                                                *)
Creates(q) ==
  req'[q].op = "create" =>
    \/ req[q].op = "create" /\ req'[q].kind = req[q].kind
    \/ Capacity(req'[q].kind)

(* A step that leaves the rows and the plan alone.                         *)
LEMMA SameRows ==
  ASSUME PlanInvariant, Typed', sub'.limit = sub.limit, sub'.usable = sub.usable,
         \A k \in Kinds : Held(k)' = Held(k),
         \A q \in Requests : Creates(q)
  PROVE  RoomKept' /\ RowsFinite' /\ UNCHANGED Promise!vars
<1>1. UNCHANGED Promise!vars
  <2>1. [k \in Kinds |-> Held(k)]' = [k \in Kinds |-> Held(k)]
    OBVIOUS
  <2> QED BY <2>1 DEF Promise!vars
<1>2. RowsFinite'
  BY DEF PlanInvariant, RowsFinite
<1>3. RoomKept'
  <2>1. ASSUME NEW q \in Requests, req'[q].op = "create"
        PROVE  sub.usable /\ HasRoom(req'[q].kind)
    BY <2>1 DEF PlanInvariant, RoomKept, Creates, Capacity, Active, HasRoom
  <2>2. ASSUME NEW q \in Requests, req'[q].op = "create" PROVE req'[q].kind \in Kinds
    BY <2>2, WorkspaceParts DEF Typed
  <2> QED BY <2>1, <2>2 DEF RoomKept, HasRoom
<1> QED BY <1>1, <1>2, <1>3

(* Fewer rows leave more room.                                             *)
LEMMA FewerRows ==
  ASSUME PlanInvariant, NEW k \in Kinds, NEW x \in Held(k),
         Held(k)' = Held(k) \ {x}, \A j \in Kinds \ {k} : Held(j)' = Held(j),
         UNCHANGED <<sub, req>>
  PROVE  RoomKept' /\ RowsFinite' /\ Promise!Next
<1>1. /\ IsFiniteSet(Held(k)) /\ IsFiniteSet(Held(k)')
      /\ Cardinality(Held(k)') <= Cardinality(Held(k))
      /\ Cardinality(Held(k)') \in Nat /\ Cardinality(Held(k)) \in Nat
  <2> DEFINE S == Held(k)  T == Held(k) \ {x}
  <2>1. IsFiniteSet(S)
    BY DEF PlanInvariant, RowsFinite
  <2>2. x \in S
    OBVIOUS
  <2>3. T = S \ {x} /\ T = Held(k)'
    OBVIOUS
  <2> HIDE DEF S, T
  <2>4. IsFiniteSet(T) /\ Cardinality(T) = Cardinality(S) - 1
    BY <2>1, <2>2, <2>3, FS_RemoveElement
  <2>5. Cardinality(S) \in Nat /\ Cardinality(T) \in Nat
    BY <2>1, <2>4, FS_CardinalityType
  <2>6. Cardinality(T) <= Cardinality(S)
    BY <2>4, <2>5
  <2>7. S = Held(k)
    BY DEF S
  <2> QED BY <2>1, <2>3, <2>4, <2>5, <2>6, <2>7
<1>2. RowsFinite'
  BY <1>1 DEF PlanInvariant, RowsFinite
<1>3. ASSUME NEW j \in Kinds, HasRoom(j) PROVE HasRoom(j)'
  <2>1. sub.limit[j] \in Nat \union {Unlimited}
    BY WorkspaceAssumption DEF PlanInvariant, Typed, WorkspaceTypeOK
  <2>2. CASE sub.limit[j] = Unlimited
    BY <2>2 DEF HasRoom
  <2>3. CASE sub.limit[j] \in Nat /\ Cardinality(Held(j)) < sub.limit[j]
    <3>1. Cardinality(Held(j)') < sub.limit[j]
      <4>1. CASE j = k
        <5> DEFINE a == Cardinality(Held(k)')  b == Cardinality(Held(k))  n == sub.limit[k]
        <5>1. a \in Nat /\ b \in Nat /\ n \in Nat /\ a <= b /\ b < n
          BY <1>1, <2>3, <4>1
        <5> HIDE DEF a, b, n
        <5>2. a < n
          BY <5>1
        <5> QED BY <4>1, <5>2 DEF a, n
      <4>2. CASE j # k
        <5>1. Held(j)' = Held(j)
          BY <4>2
        <5> QED BY <2>3, <5>1
      <4> QED BY <4>1, <4>2
    <3> QED BY <3>1 DEF HasRoom
  <2> QED BY <1>3, <2>1, <2>2, <2>3 DEF HasRoom
<1>4. RoomKept'
  <2>1. ASSUME NEW q \in Requests, req[q].op = "create" PROVE sub.usable /\ HasRoom(req[q].kind)'
    <3>1. req[q].kind \in Kinds
      BY <2>1, WorkspaceParts DEF PlanInvariant, Typed
    <3> QED BY <1>3, <2>1, <3>1 DEF PlanInvariant, RoomKept
  <2> QED BY <2>1 DEF RoomKept, HasRoom
<1>5. Promise!GiveBack(k, x)
  <2>1. [j \in Kinds |-> Held(j)]' = [[j \in Kinds |-> Held(j)] EXCEPT ![k] = @ \ {x}]
    OBVIOUS
  <2> QED BY <2>1 DEF Promise!GiveBack
<1>6. x \in Agents \union Integrations
  BY DEF PlanInvariant, Typed, WorkspaceTypeOK, Held
<1> QED BY <1>2, <1>4, <1>5, <1>6 DEF Promise!Next

(* Allotment counts as Workspace does: an instance has its own copy of the *)
(* operators its module extends.                                           *)
LEMMA SameCardinality == \A S : Promise!Cardinality(S) = Cardinality(S)
  BY DEF Cardinality, Promise!Cardinality

(* One row more, where there was room for it.                              *)
LEMMA MoreRows ==
  ASSUME PlanInvariant, NEW k \in Kinds, NEW x \in Agents \union Integrations, x \notin Held(k),
         Held(k)' = Held(k) \union {x}, \A j \in Kinds \ {k} : Held(j)' = Held(j),
         sub' = sub, sub.usable, HasRoom(k)
  PROVE  RowsFinite' /\ Promise!Next
<1>1. RowsFinite'
  <2>1. IsFiniteSet(Held(k)')
    BY FS_AddElement DEF PlanInvariant, RowsFinite
  <2> QED BY <2>1 DEF PlanInvariant, RowsFinite
<1>2. Promise!Take(k, x)
  <2>1. [j \in Kinds |-> Held(j)]' = [[j \in Kinds |-> Held(j)] EXCEPT ![k] = @ \union {x}]
    OBVIOUS
  <2>2. [j \in Kinds |-> Held(j)][k] = Held(k)
    OBVIOUS
  <2>3. Promise!Room(k)
    BY <2>2, SameCardinality DEF Promise!Room, HasRoom
  <2>4. sub.usable /\ x \notin [j \in Kinds |-> Held(j)][k]
    BY <2>2
  <2>5. sub'.limit = sub.limit /\ sub'.usable = sub.usable
    BY sub' = sub
  <2> QED BY <2>1, <2>3, <2>4, <2>5 DEF Promise!Take
<1> QED BY <1>1, <1>2 DEF Promise!Next

(* Taking, keeping and letting go of the lock.                             *)
Locked == {"create", "admit"}

LEMMA LockStep ==
  ASSUME PlanInvariant, NEW q \in Requests, Alters(q),
         \/ req'[q].op \notin Locked /\ (holder' = holder \/ holder \in {q, None})
         \/ /\ req[q].op = "create" /\ req'[q].op = "create" /\ req'[q].kind = req[q].kind
            /\ holder' = holder
         \/ /\ holder = None /\ holder' = q
            /\ req'[q].op = "create" => Capacity(req'[q].kind)
  PROVE  LockHeld' /\ \A r \in Requests : Creates(r)
<1>1. None \notin Requests
  BY WorkspaceAssumption
<1>2. ASSUME NEW r \in Requests PROVE Creates(r)
  <2>1. CASE r = q
    BY <2>1 DEF Creates, Locked
  <2>2. CASE r # q
    BY <2>2 DEF Creates, Alters
  <2> QED BY <2>1, <2>2
<1>3. ASSUME NEW r \in Requests, req'[r].op \in Locked PROVE holder' = r
  <2>1. CASE r = q
    BY <1>3, <2>1 DEF PlanInvariant, LockHeld, Locked
  <2>2. CASE r # q
    <3>1. holder = r
      BY <1>3, <2>2 DEF Alters, PlanInvariant, LockHeld, Locked
    <3> QED BY <1>1, <2>2, <3>1
  <2> QED BY <2>1, <2>2
<1> QED BY <1>2, <1>3 DEF LockHeld, Locked

(* What every step is to be shown to keep.                                 *)
PlanStep ==
  LockHeld' /\ RoomKept' /\ RowsFinite' /\ (Promise!Next \/ UNCHANGED Promise!vars)

LEMMA ReserveStep ==
  ASSUME PlanInvariant, NEW q \in Requests, NEW kind, NEW voice, NEW r, Reserve(q, kind, voice, r)
  PROVE  LockHeld' /\ \A p \in Requests : Creates(p)
<1>1. CASE Capacity(kind) /\ Spare(kind)
  <2>1. Become(q, [op |-> "create", kind |-> kind, voice |-> voice, row |-> r])
    BY <1>1 DEF Reserve
  <2>2. req'[q].kind = kind /\ Alters(q)
    BY <2>1, BecomeAlters DEF PlanInvariant
  <2>3. holder = None /\ holder' = q
    BY <1>1 DEF Reserve
  <2> QED BY <1>1, <2>2, <2>3, LockStep
<1>2. CASE ~(Capacity(kind) /\ Spare(kind))
  <2>1. Become(q, Idle) /\ holder' = holder
    BY <1>2 DEF Reserve
  <2>2. req'[q].op \notin Locked /\ Alters(q)
    BY <2>1, BecomeAlters DEF PlanInvariant, Idle, Locked
  <2> QED BY <2>1, <2>2, LockStep
<1> QED BY <1>1, <1>2

LEMMA InsertStep ==
  ASSUME PlanInvariant, NEW q \in Requests, Insert(q)
  PROVE  PlanStep
<1>1. holder = q /\ sub.usable /\ HasRoom(req[q].kind)
  BY DEF Insert, PlanInvariant, LockHeld, RoomKept
<1>2. req'[q].op \notin Locked /\ Alters(q)
  BY BecomeAlters DEF Insert, PlanInvariant, Idle, Locked
<1>3. LockHeld'
  BY <1>1, <1>2, LockStep
<1>4. \A r \in Requests : req'[r].op # "create"
  BY <1>1, <1>2 DEF PlanInvariant, LockHeld, Alters, Locked
<1>5. RoomKept'
  BY <1>4 DEF RoomKept
<1>6. sub' = sub
  BY DEF Insert
<1>7. CASE req[q].kind = "agents"
  <2>1. PICK a \in Agents \ agents : agents' = agents \union {a} /\ integ' = integ
    BY <1>7 DEF Insert
  <2>2. /\ "agents" \in Kinds /\ a \notin Held("agents") /\ a \in Agents \union Integrations
        /\ Held("agents")' = Held("agents") \union {a}
        /\ \A j \in Kinds \ {"agents"} : Held(j)' = Held(j)
    BY <2>1 DEF Held, Kinds
  <2>3. RowsFinite' /\ Promise!Next
    BY <1>1, <1>6, <1>7, <2>2, MoreRows
  <2> QED BY <1>3, <1>5, <2>3 DEF PlanStep
<1>8. CASE req[q].kind = "integrations"
  <2>1. PICK i \in Integrations :
          integ[i] = None /\ integ' = [integ EXCEPT ![i] = req[q].row] /\ agents' = agents
    BY <1>8 DEF Insert
  <2>2. integ \in [Integrations -> Integration \union {None}]
    BY DEF PlanInvariant, Typed, WorkspaceTypeOK
  <2>3. \A j \in Kinds \ {"integrations"} : Held(j)' = Held(j)
    BY <2>1 DEF Held, Kinds
  <2>4. CASE req[q].row = None
    <3>1. Held("integrations")' = Held("integrations")
      BY <2>1, <2>2, <2>4 DEF Held
    <3>2. \A k \in Kinds : Held(k)' = Held(k)
      BY <2>3, <3>1
    <3>3. RowsFinite'
      BY <3>2 DEF PlanInvariant, RowsFinite
    <3>4. UNCHANGED Promise!vars
      <4>1. [k \in Kinds |-> Held(k)]' = [k \in Kinds |-> Held(k)]
        BY <3>2
      <4> QED BY <1>6, <4>1 DEF Promise!vars
    <3> QED BY <1>3, <1>5, <3>3, <3>4 DEF PlanStep
  <2>5. CASE req[q].row # None
    <3>1. /\ "integrations" \in Kinds /\ i \notin Held("integrations")
          /\ i \in Agents \union Integrations
      BY <2>1 DEF Held, Kinds
    <3>2. Held("integrations")' = Held("integrations") \union {i}
      BY <2>1, <2>2, <2>5 DEF Held
    <3>3. RowsFinite' /\ Promise!Next
      BY <1>1, <1>6, <1>8, <2>3, <3>1, <3>2, MoreRows
    <3> QED BY <1>3, <1>5, <3>3 DEF PlanStep
  <2> QED BY <2>4, <2>5
<1> QED BY <1>7, <1>8 DEF Insert

LEMMA DeleteStep ==
  ASSUME PlanInvariant, NEW q \in Requests, DeleteAgent(q) \/ DeleteIntegration(q)
  PROVE  PlanStep
<1>1. UNCHANGED <<sub, req, holder>>
  BY DEF DeleteAgent, DeleteIntegration
<1>2. LockHeld'
  BY <1>1 DEF PlanInvariant, LockHeld
<1>3. CASE DeleteAgent(q)
  <2>1. PICK a \in agents : agents' = agents \ {a}
    BY <1>3 DEF DeleteAgent
  <2>2. /\ "agents" \in Kinds /\ a \in Held("agents")
        /\ Held("agents")' = Held("agents") \ {a}
        /\ \A j \in Kinds \ {"agents"} : Held(j)' = Held(j)
    BY <1>3, <2>1 DEF DeleteAgent, Held, Kinds
  <2>3. RoomKept' /\ RowsFinite' /\ Promise!Next
    BY <1>1, <2>2, FewerRows
  <2> QED BY <1>2, <2>3 DEF PlanStep
<1>4. CASE DeleteIntegration(q)
  <2>1. PICK i \in Held("integrations") : integ' = [integ EXCEPT ![i] = None]
    BY <1>4 DEF DeleteIntegration
  <2>2. integ \in [Integrations -> Integration \union {None}]
    BY DEF PlanInvariant, Typed, WorkspaceTypeOK
  <2>3. Held("integrations")' = Held("integrations") \ {i}
    BY <2>1, <2>2 DEF Held
  <2>4. "integrations" \in Kinds /\ \A j \in Kinds \ {"integrations"} : Held(j)' = Held(j)
    BY <1>4 DEF DeleteIntegration, Held, Kinds
  <2>5. RoomKept' /\ RowsFinite' /\ Promise!Next
    BY <1>1, <2>3, <2>4, FewerRows
  <2> QED BY <1>2, <2>5 DEF PlanStep
<1> QED BY <1>3, <1>4

(* Saving an integration keeps its row.                                    *)
LEMMA SaveHolds ==
  ASSUME PlanInvariant, NEW q \in Requests, Save(q)
  PROVE  \A k \in Kinds : Held(k)' = Held(k)
<1>1. integ \in [Integrations -> Integration \union {None}] /\ None \notin Integration
  BY RowsAssumption DEF PlanInvariant, Typed, WorkspaceTypeOK
<1>2. req[q].row \in Integrations /\ req[q].seen \in Integration /\ req[q].new \in Integration
  BY WorkspaceParts DEF Save, PlanInvariant, Typed
<1>3. agents' = agents
  BY DEF Save
<1>4. CASE integ[req[q].row] = None
  BY <1>3, <1>4 DEF Save, Held
<1>5. CASE integ[req[q].row] # None
  <2> DEFINE i == req[q].row
             merged == [integ[i] EXCEPT !.status = Column(@, req[q].seen.status, req[q].new.status),
                                        !.config = Column(@, req[q].seen.config, req[q].new.config)]
  <2>1. merged \in Integration
    BY <1>1, <1>2, <1>5, MergedIntegrationType
  <2>2. integ' = [integ EXCEPT ![i] = merged]
    BY <1>1, <1>2, <1>5 DEF Save
  <2>3. integ[i] # None /\ merged # None /\ i \in Integrations
    BY <1>1, <1>2, <1>5, <2>1
  <2> HIDE DEF merged, i
  <2>4. \A j \in Integrations : integ'[j] # None <=> integ[j] # None
    BY <1>1, <2>2, <2>3
  <2> QED BY <1>3, <2>4 DEF Held
<1> QED BY <1>4, <1>5

(* A step that leaves the rows and the plan, and at most takes or releases *)
(* the lock.                                                               *)
LEMMA QuietStep ==
  ASSUME PlanInvariant, Typed', UNCHANGED <<sub, agents, integ>>,
         LockHeld', \A q \in Requests : Creates(q)
  PROVE  PlanStep
<1>1. sub'.limit = sub.limit /\ sub'.usable = sub.usable
  OBVIOUS
<1>2. \A k \in Kinds : Held(k)' = Held(k)
  BY DEF Held
<1> QED BY <1>1, <1>2, SameRows DEF PlanStep

LEMMA MoveStep ==
  ASSUME PlanInvariant, Typed', UNCHANGED <<sub, agents, integ, holder>>,
         UNCHANGED req \/ \E q \in Requests : Alters(q) /\ req'[q].op \notin Locked
  PROVE  PlanStep
<1>1. CASE UNCHANGED req
  BY <1>1, QuietStep DEF PlanInvariant, LockHeld, Creates
<1>2. CASE \E q \in Requests : Alters(q) /\ req'[q].op \notin Locked
  BY <1>2, LockStep, QuietStep
<1> QED BY <1>1, <1>2

LEMMA ReservingStep ==
  ASSUME PlanInvariant, Typed', NEW q \in Requests,
         CreateAgent(q) \/ CreateIntegration(q) \/ TemplateReserve(q)
  PROVE  PlanStep
<1>1. UNCHANGED <<sub, agents, integ>>
  BY DEF CreateAgent, CreateIntegration, TemplateReserve, Reserve
<1>2. LockHeld' /\ \A p \in Requests : Creates(p)
  BY ReserveStep DEF CreateAgent, CreateIntegration, TemplateReserve
<1> QED BY <1>1, <1>2, QuietStep

(* A request whose voice is at hand goes on with what it was doing.        *)
LEMMA VoiceStep ==
  ASSUME PlanInvariant, Typed', NEW q \in Requests, Present(q) \/ Import(q)
  PROVE  PlanStep
<1>1. UNCHANGED <<sub, agents, integ, holder>>
  BY DEF Present, Import
<1>2. req[q] \in AnyRequest /\ req[q].op \in {"create", "update"}
  BY DEF Present, Import, Missing, NeedsVoice, PlanInvariant, Typed
<1>3. req'[q] = [req[q] EXCEPT !.voice = None] /\ Alters(q)
  BY BecomeAlters DEF Present, Import, PlanInvariant
<1>4. CASE req[q].op = "create"
  <2>1. req'[q] = [op |-> "create", kind |-> req[q].kind, voice |-> None, row |-> req[q].row]
    BY <1>2, <1>3, <1>4, MoreParts
  <2>2. req'[q].op = "create" /\ req'[q].kind = req[q].kind
    BY <2>1
  <2> QED BY <1>1, <1>3, <1>4, <2>2, LockStep, QuietStep
<1>5. CASE req[q].op = "update"
  <2>1. req'[q] = [op |-> "update", voice |-> None]
    BY <1>2, <1>3, <1>5, MoreParts
  <2>2. req'[q].op \notin Locked
    BY <2>1 DEF Locked
  <2> QED BY <1>1, <1>3, <2>2, MoveStep
<1> QED BY <1>2, <1>4, <1>5

LEMMA OtherWorkspaceStep ==
  ASSUME PlanInvariant, Typed', NEW q \in Requests,
         \/ TemplateRead(q) \/ UpdateAgent(q) \/ SaveAgent(q) \/ LookUp(q) \/ ListVoices(q)
         \/ ListFetch(q) \/ ListStore(q) \/ ListFails(q)
         \/ UpdateIntegration(q) \/ Connect(q) \/ Disconnect(q)
  PROVE  PlanStep
<1>1. UNCHANGED <<sub, agents, integ, holder>>
  BY DEF TemplateRead, UpdateAgent, SaveAgent, LookUp, ListVoices, ListFetch, ListStore, ListFails,
         UpdateIntegration, Connect, Disconnect
<1>2. ASSUME NEW d, Become(q, d), d.op \notin Locked PROVE PlanStep
  BY <1>1, <1>2, BecomeAlters, MoveStep DEF PlanInvariant
<1>3. /\ Idle.op \notin Locked /\ [op |-> "template"].op \notin Locked
      /\ \A v : [op |-> "update", voice |-> v].op \notin Locked
      /\ \A f : [op |-> "list", force |-> f].op \notin Locked
      /\ \A v : [op |-> "listed", voices |-> v].op \notin Locked
      /\ \A i, x, y : [op |-> "save", row |-> i, seen |-> x, new |-> y].op \notin Locked
  BY DEF Idle, Locked
<1>4. CASE LookUp(q)
  BY <1>1, <1>4, MoveStep DEF LookUp
<1>5. CASE \/ TemplateRead(q) \/ UpdateAgent(q) \/ SaveAgent(q)
           \/ ListVoices(q) \/ ListStore(q) \/ ListFails(q)
  BY <1>2, <1>3, <1>5 DEF TemplateRead, UpdateAgent, SaveAgent, ListVoices, ListStore, ListFails
<1>6. CASE ListFetch(q)
  <2>1. Become(q, Idle) \/ Become(q, [op |-> "listed", voices |-> known'[ProcessOf[q]]])
    BY <1>6 DEF ListFetch
  <2> QED BY <1>2, <1>3, <2>1
<1>7. CASE UpdateIntegration(q) \/ Connect(q) \/ Disconnect(q)
  <2>1. ASSUME NEW i, NEW new, Load(q, i, new) PROVE PlanStep
    BY <1>2, <1>3, <2>1 DEF Load
  <2> QED BY <1>7, <2>1 DEF UpdateIntegration, Connect, Disconnect
<1> QED BY <1>4, <1>5, <1>6, <1>7

LEMMA FailsStep ==
  ASSUME PlanInvariant, Typed', NEW q \in Requests, ImportFails(q)
  PROVE  PlanStep
<1>1. UNCHANGED <<sub, agents, integ>> /\ (holder' = holder \/ holder = q)
  BY DEF ImportFails
<1>2. req'[q].op \notin Locked /\ Alters(q)
  BY BecomeAlters DEF ImportFails, Idle, Locked, PlanInvariant
<1> QED BY <1>1, <1>2, LockStep, QuietStep

LEMMA SaveStep ==
  ASSUME PlanInvariant, Typed', NEW q \in Requests, Save(q)
  PROVE  PlanStep
<1>1. sub' = sub /\ holder' = holder
  BY DEF Save
<1>2. req'[q].op \notin Locked /\ Alters(q)
  BY BecomeAlters DEF Save, Idle, Locked, PlanInvariant
<1>3. LockHeld' /\ \A p \in Requests : Creates(p)
  BY <1>1, <1>2, LockStep
<1> QED BY <1>1, <1>3, SaveHolds, SameRows DEF PlanStep

LEMMA DiesStep ==
  ASSUME PlanInvariant, Typed', NEW p \in Processes, ProcessDies(p)
  PROVE  PlanStep
<1>1. UNCHANGED <<sub, agents, integ>>
  BY DEF ProcessDies
<1>2. ASSUME NEW q \in Requests, req'[q].op \in Locked
      PROVE  req'[q] = req[q] /\ ProcessOf[q] # p
  BY <1>2 DEF ProcessDies, Idle, Locked
<1>3. \A q \in Requests : Creates(q)
  BY <1>2 DEF Creates, Locked
<1>4. LockHeld'
  <2>1. ASSUME NEW q \in Requests, req'[q].op \in Locked PROVE holder' = q
    <3>1. holder = q
      BY <1>2, <2>1 DEF PlanInvariant, LockHeld, Locked
    <3> QED BY <1>2, <2>1, <3>1 DEF ProcessDies
  <2> QED BY <2>1 DEF LockHeld, Locked
<1> QED BY <1>1, <1>3, <1>4, QuietStep

(* The lock keeps the plan from changing while a request creates.          *)
LEMMA ReplanStep ==
  ASSUME PlanInvariant, Typed', ChangePlan
  PROVE  PlanStep
<1>1. UNCHANGED <<agents, integ, req, holder>> /\ holder = None
  BY DEF ChangePlan
<1>2. \A q \in Requests : req[q].op \notin {"create", "admit"}
  BY <1>1, WorkspaceAssumption DEF PlanInvariant, LockHeld
<1>3. LockHeld' /\ RoomKept'
  BY <1>1, <1>2 DEF LockHeld, RoomKept
<1>4. \A k \in Kinds : Held(k)' = Held(k)
  BY <1>1 DEF Held
<1>5. RowsFinite'
  BY <1>4 DEF PlanInvariant, RowsFinite
<1>6. Promise!Replan
  <2>1. [k \in Kinds |-> Held(k)]' = [k \in Kinds |-> Held(k)]
    BY <1>4
  <2>2. sub'.limit \in [Kinds -> Limits] /\ sub'.usable \in BOOLEAN
    BY DEF Typed, WorkspaceTypeOK
  <2> QED BY <2>1, <2>2 DEF Promise!Replan
<1> QED BY <1>3, <1>5, <1>6 DEF PlanStep, Promise!Next

LEMMA PeriodStep ==
  ASSUME PlanInvariant, Typed', PeriodTurns
  PROVE  PlanStep
<1>1. UNCHANGED <<agents, integ, req, holder>>
  BY DEF PeriodTurns
<1>2. sub'.limit = sub.limit /\ sub'.usable = sub.usable
  BY DEF PeriodTurns, PlanInvariant, Typed, WorkspaceTypeOK
<1>3. LockHeld' /\ \A q \in Requests : Creates(q)
  BY <1>1 DEF PlanInvariant, LockHeld, Creates
<1>4. \A k \in Kinds : Held(k)' = Held(k)
  BY <1>1 DEF Held
<1> QED BY <1>2, <1>3, <1>4, SameRows DEF PlanStep

LEMMA WorkspacePlanStep ==
  ASSUME PlanInvariant, Typed', WorkspaceStep
  PROVE  PlanStep
<1>1. ASSUME NEW p \in Processes, CacheExpires(p) PROVE PlanStep
  BY <1>1, MoveStep DEF CacheExpires
<1> QED
  BY <1>1, ReservingStep, VoiceStep, OtherWorkspaceStep, FailsStep, SaveStep, InsertStep, DeleteStep,
     DiesStep, ReplanStep, PeriodStep
  DEF WorkspaceStep

(* An inbound call takes the same lock, and creates nothing under it.      *)
LEMMA TelephonyPlanStep ==
  ASSUME PlanInvariant, Typed', TelephonyStep
  PROVE  PlanStep
<1>1. UNCHANGED <<sub, agents, integ>>
  BY TelephonyKeeps DEF setupVars
<1>2. CASE Serving /\ ((\E q \in Requests : Moves(q, TelephonyOps)) \/ UNCHANGED req)
  <2>1. TelephonyOps \intersect Locked = {}
    BY DEF TelephonyOps, Locked, ProvisionStep, DisconnectStep
  <2> QED BY <1>1, <1>2, <2>1, MoveStep DEF Moves, Serving
<1>3. ASSUME NEW q \in Requests, Admit(q) PROVE PlanStep
  <2>1. CASE Become(q, Idle) /\ holder' = holder
    <3>1. req'[q].op \notin Locked /\ Alters(q)
      BY <2>1, BecomeAlters DEF PlanInvariant, Idle, Locked
    <3> QED BY <1>1, <2>1, <3>1, MoveStep
  <2>2. CASE Become(q, [op |-> "admit", line |-> req[q].line, state |-> req[q].state,
                        seen |-> line[req[q].line].status])
    <3>1. req'[q].op = "admit" /\ Alters(q)
      BY <2>2, BecomeAlters DEF PlanInvariant
    <3>2. CASE holder' = q
      BY <1>1, <1>3, <3>1, <3>2, LockStep, QuietStep DEF Admit
    <3>3. CASE holder' # q
      <4>1. req'[q].op = "idle"
        BY <1>3, <3>3, BecomeAlters DEF Admit, PlanInvariant, Idle
      <4> QED BY <3>1, <4>1
    <3> QED BY <3>2, <3>3
  <2> QED BY <1>3, <2>1, <2>2 DEF Admit
<1>4. ASSUME NEW q \in Requests, Activate(q) PROVE PlanStep
  <2>1. holder = q
    BY <1>4 DEF Activate, At, PlanInvariant, LockHeld
  <2>2. req'[q].op \notin Locked /\ Alters(q)
    BY <1>4, BecomeAlters DEF Activate, PlanInvariant, Idle, Locked
  <2> QED BY <1>1, <2>1, <2>2, LockStep, QuietStep
<1> QED BY <1>2, <1>3, <1>4, TelephonyMoves DEF PlanInvariant

LEMMA ExtensionPlanStep ==
  ASSUME PlanInvariant, Typed', ExtensionStep
  PROVE  PlanStep
<1>1. UNCHANGED <<sub, agents, integ, holder>>
  BY ExtensionKeeps DEF setupVars
<1>2. ExtensionOps \intersect Locked = {}
  BY DEF ExtensionOps, OnExtension, Locked
<1>3. (\E q \in Requests : Moves(q, ExtensionOps)) \/ UNCHANGED req
  BY ExtensionMoves DEF PlanInvariant
<1> QED BY <1>1, <1>2, <1>3, MoveStep DEF Moves

LEMMA PlanStutter ==
  ASSUME PlanInvariant, UNCHANGED officeVars
  PROVE  PlanInvariant' /\ UNCHANGED Promise!vars
<1>1. Typed' /\ TrunkFirst'
  BY TypedStutter DEF PlanInvariant
<1>2. UNCHANGED <<sub, agents, integ, req, holder>>
  BY DEF officeVars, telephonyVars, workspaceVars
<1>3. PlanStep
  BY <1>1, <1>2, MoveStep
<1>4. UNCHANGED Promise!vars
  <2>1. [k \in Kinds |-> Held(k)]' = [k \in Kinds |-> Held(k)]
    BY <1>2 DEF Held
  <2> QED BY <1>2, <2>1 DEF Promise!vars
<1> QED BY <1>1, <1>3, <1>4 DEF PlanInvariant, PlanStep

LEMMA InitPlan ==
  ASSUME Init
  PROVE  PlanInvariant /\ Promise!Init
<1>1. Typed /\ TrunkFirst
  BY InitTyped DEF Init, WorkspaceInit, Idle, TrunkFirst
<1>2. LockHeld /\ RoomKept
  BY DEF Init, WorkspaceInit, Idle, LockHeld, RoomKept
<1>3. \A k \in Kinds : Held(k) = {}
  BY DEF Init, WorkspaceInit, Held
<1>4. RowsFinite
  BY <1>3, FS_EmptySet DEF RowsFinite
<1>5. Promise!Init
  <2>1. sub.limit \in [Kinds -> Limits] /\ sub.usable \in BOOLEAN
    BY <1>1 DEF Typed, WorkspaceTypeOK
  <2>2. [k \in Kinds |-> Held(k)] = [k \in Kinds |-> {}]
    BY <1>3
  <2> QED BY <2>1, <2>2 DEF Promise!Init, Promise!TypeOK
<1> QED BY <1>1, <1>2, <1>4, <1>5 DEF PlanInvariant

LEMMA PlanNext ==
  ASSUME PlanInvariant, Next
  PROVE  PlanInvariant' /\ (Promise!Next \/ UNCHANGED Promise!vars)
<1>1. Typed' /\ TrunkFirst'
  BY TypedStep, TrunkFirstStep DEF PlanInvariant
<1>2. PlanStep
  BY <1>1, WorkspacePlanStep, TelephonyPlanStep, ExtensionPlanStep DEF Next
<1> QED BY <1>1, <1>2 DEF PlanInvariant, PlanStep

(* The plan's promise is kept: seen from outside, agents and integrations  *)
(* are taken one at a time, each with room for it under the plan of that   *)
(* moment, and given back, although a create is several transactions and   *)
(* exchanges that requests on any number of processes interleave.          *)
THEOREM OfficeKeepsPlan == Spec => PlanKept
<1>1. Init => PlanInvariant /\ Promise!Init
  BY InitPlan
<1>2. PlanInvariant /\ [Next]_officeVars => PlanInvariant' /\ [Promise!Next]_(Promise!vars)
  BY PlanNext, PlanStutter
<1> QED BY <1>1, <1>2, PTL DEF Spec, PlanKept, Promise!Spec

-----------------------------------------------------------------------------
(* The voice library.  What a process has imported is in My Voices, which  *)
(* only grows, and in everything it has cached since: a list being fetched *)
(* keeps the process's lock, so that nothing is imported before it is      *)
(* stored.                                                                 *)

Cached ==
  \A p \in Processes :
    /\ imported[p] \subseteq mine
    /\ known[p] # None => imported[p] \subseteq known[p]
    /\ page[p] # None => imported[p] \subseteq page[p]
Listing ==
  \A q \in Requests : req[q].op = "listed" =>
    catalog[ProcessOf[q]] = q /\ imported[ProcessOf[q]] \subseteq req[q].voices
CacheI == Cached /\ Listing

(* Who is listing after a step was listing before, and kept the lock.      *)
Relists ==
  \A q \in Requests : req'[q].op = "listed" =>
    /\ req[q].op = "listed" /\ req'[q].voices = req[q].voices
    /\ catalog'[ProcessOf[q]] = catalog[ProcessOf[q]]

LEMMA CacheStays ==
  ASSUME CacheI, Relists, UNCHANGED <<mine, known, page, imported>>
  PROVE  CacheI'
<1>1. Cached'
  BY DEF CacheI, Cached
<1>2. Listing'
  BY DEF CacheI, Listing, Relists
<1> QED BY <1>1, <1>2 DEF CacheI

LEMMA NobodyLists ==
  ASSUME Typed, NEW q \in Requests, NEW d, Become(q, d), d.op # "listed",
         catalog' = catalog \/ Leave(q), catalog' = catalog \/ Listing, catalog' = catalog \/ Inside(q)
  PROVE  Relists
<1>1. req'[q] = d /\ Alters(q)
  BY BecomeAlters
<1>2. ASSUME NEW r \in Requests, req'[r].op = "listed"
      PROVE  /\ req[r].op = "listed" /\ req'[r].voices = req[r].voices
             /\ catalog'[ProcessOf[r]] = catalog[ProcessOf[r]]
  <2>1. r # q /\ req'[r] = req[r]
    BY <1>1, <1>2 DEF Alters
  <2>2. ProcessOf[q] \in Processes /\ ProcessOf[r] \in Processes
    BY WorkspaceAssumption
  <2>3. CASE catalog' = catalog
    BY <1>2, <2>1, <2>3
  <2>4. CASE Leave(q) /\ Listing /\ Inside(q)
    <3>1. ProcessOf[r] # ProcessOf[q]
      BY <1>2, <2>1, <2>4 DEF Listing, Inside
    <3>2. catalog' = [catalog EXCEPT ![ProcessOf[q]] = None]
      BY <2>4 DEF Leave
    <3> QED BY <1>2, <2>1, <2>2, <3>1, <3>2 DEF Typed, WorkspaceTypeOK
  <2> QED BY <2>3, <2>4
<1> QED BY <1>2 DEF Relists

LEMMA CacheWorkspaceStep ==
  ASSUME Typed, Typed', CacheI, WorkspaceStep
  PROVE  CacheI'
<1>0. /\ \A q \in Requests : ProcessOf[q] \in Processes
      /\ None \notin Requests
      /\ mine \subseteq Voices /\ catalog \in [Processes -> Requests \union {None}]
      /\ known \in [Processes -> (SUBSET Voices) \union {None}]
      /\ page \in [Processes -> (SUBSET Voices) \union {None}]
      /\ imported \in [Processes -> SUBSET Voices]
      /\ req \in [Requests -> AnyRequest]
  BY WorkspaceAssumption DEF Typed, WorkspaceTypeOK
<1>1. ASSUME UNCHANGED <<catalogVars, req>> PROVE CacheI'
  BY <1>1, CacheStays DEF Relists, catalogVars
<1>2. ASSUME NEW q \in Requests, NEW d, Become(q, d), d.op # "listed", UNCHANGED catalogVars
      PROVE  CacheI'
  BY <1>2, NobodyLists, CacheStays DEF catalogVars
<1>3. Idle.op # "listed"
  BY DEF Idle
<1>4. ASSUME NEW q \in Requests, CreateAgent(q) \/ CreateIntegration(q) \/ TemplateReserve(q) PROVE CacheI'
  <2>1. ASSUME NEW k, NEW v, NEW r, Reserve(q, k, v, r) PROVE CacheI'
    BY <1>2, <1>3, <2>1 DEF Reserve
  <2> QED BY <1>4, <2>1 DEF CreateAgent, CreateIntegration, TemplateReserve
<1>5. ASSUME NEW q \in Requests,
             \/ TemplateRead(q) \/ Insert(q) \/ UpdateAgent(q) \/ SaveAgent(q) \/ ListVoices(q)
             \/ UpdateIntegration(q) \/ Connect(q) \/ Disconnect(q) \/ Save(q)
      PROVE  CacheI'
  <2>1. CASE TemplateRead(q) \/ Insert(q) \/ UpdateAgent(q) \/ SaveAgent(q) \/ ListVoices(q) \/ Save(q)
    BY <1>2, <1>3, <2>1 DEF TemplateRead, Insert, UpdateAgent, SaveAgent, ListVoices, Save
  <2>2. CASE UpdateIntegration(q) \/ Connect(q) \/ Disconnect(q)
    <3>1. ASSUME NEW i, NEW new, Load(q, i, new), UNCHANGED catalogVars PROVE CacheI'
      BY <1>2, <3>1 DEF Load
    <3> QED BY <2>2, <3>1 DEF UpdateIntegration, Connect, Disconnect
  <2> QED BY <1>5, <2>1, <2>2
<1>6. ASSUME NEW q \in Requests, DeleteAgent(q) \/ DeleteIntegration(q) PROVE CacheI'
  BY <1>1, <1>6 DEF DeleteAgent, DeleteIntegration
<1>7. ASSUME NEW q \in Requests, LookUp(q) PROVE CacheI'
  <2>1. /\ catalog[ProcessOf[q]] = None /\ catalog' = [catalog EXCEPT ![ProcessOf[q]] = q]
        /\ known' = [known EXCEPT ![ProcessOf[q]] = mine] /\ UNCHANGED <<mine, page, imported, req>>
    BY <1>7 DEF LookUp, Enter
  <2>2. Cached'
    BY <1>0, <2>1 DEF CacheI, Cached
  <2>3. Listing'
    BY <1>0, <2>1 DEF CacheI, Listing
  <2> QED BY <2>2, <2>3 DEF CacheI
<1>8. ASSUME NEW q \in Requests, Present(q) PROVE CacheI'
  <2>1. [req[q] EXCEPT !.voice = None].op # "listed"
    BY <1>0, <1>8, MoreParts DEF Present, NeedsVoice
  <2> QED BY <1>8, <2>1, NobodyLists, CacheStays DEF Present, CacheI
<1>9. ASSUME NEW q \in Requests, Import(q) PROVE CacheI'
  <2>1. [req[q] EXCEPT !.voice = None].op # "listed"
    BY <1>0, <1>9, MoreParts DEF Import, Missing, NeedsVoice
  <2>2. Relists
    BY <1>9, <2>1, NobodyLists DEF Import, Missing, CacheI
  <2> DEFINE p == ProcessOf[q]
  <2>3. /\ mine' = mine \union {req[q].voice}
        /\ imported' = [imported EXCEPT ![p] = @ \union {req[q].voice}]
        /\ known' = [known EXCEPT ![p] = None] /\ page' = [page EXCEPT ![p] = None]
        /\ catalog[p] = q /\ catalog'[p] = None
    BY <1>0, <1>9 DEF Import, Invalidate, Missing, Inside, Leave
  <2>4. Cached'
    <3>1. p \in Processes
      BY <1>0
    <3> HIDE DEF p
    <3> QED BY <1>0, <2>3, <3>1 DEF CacheI, Cached
  <2>5. Listing'
    <3>1. ASSUME NEW r \in Requests, req'[r].op = "listed"
          PROVE  catalog'[ProcessOf[r]] = r /\ imported'[ProcessOf[r]] \subseteq req'[r].voices
      <4>1. /\ catalog[ProcessOf[r]] = r /\ catalog'[ProcessOf[r]] = r
            /\ imported[ProcessOf[r]] \subseteq req'[r].voices
        BY <2>2, <3>1 DEF Relists, CacheI, Listing
      <4>2. ProcessOf[r] # p
        BY <1>0, <2>3, <4>1
      <4> QED BY <1>0, <2>3, <4>1, <4>2
    <3> QED BY <3>1 DEF Listing
  <2> QED BY <2>4, <2>5 DEF CacheI
<1>10. ASSUME NEW q \in Requests, ImportFails(q) PROVE CacheI'
  <2>1. Relists
    BY <1>3, <1>10, NobodyLists DEF ImportFails, CacheI
  <2>2. UNCHANGED <<known, page, imported>> /\ mine \subseteq mine'
    BY <1>10 DEF ImportFails
  <2>3. Cached'
    BY <2>2 DEF CacheI, Cached
  <2>4. Listing'
    BY <2>1, <2>2 DEF Relists, CacheI, Listing
  <2> QED BY <2>3, <2>4 DEF CacheI
<1>11. ASSUME NEW q \in Requests, ListFetch(q) PROVE CacheI'
  <2> DEFINE p == ProcessOf[q]
  <2>1. UNCHANGED <<mine, page, imported>> /\ catalog[p] = None /\ p \in Processes
    BY <1>0, <1>11 DEF ListFetch
  <2>2. CASE Become(q, Idle) /\ UNCHANGED <<catalog, known>>
    BY <1>3, <2>1, <2>2, NobodyLists, CacheStays
  <2>3. CASE /\ Enter(q)
             /\ known' = IF known[p] = None \/ req[q].force THEN [known EXCEPT ![p] = mine] ELSE known
             /\ Become(q, [op |-> "listed", voices |-> known'[p]])
    <3>1. req'[q] = [op |-> "listed", voices |-> known'[p]] /\ Alters(q)
      BY <2>3, BecomeAlters
    <3>2. catalog' = [catalog EXCEPT ![p] = q]
      BY <2>3 DEF Enter
    <3>3. \/ known' = [known EXCEPT ![p] = mine]
          \/ known' = known /\ known[p] # None
      BY <2>3
    <3>4. imported[p] \subseteq known'[p] /\ Cached'
      BY <1>0, <2>1, <3>3 DEF CacheI, Cached
    <3>5. Listing'
      <4>1. ASSUME NEW r \in Requests, req'[r].op = "listed"
            PROVE  catalog'[ProcessOf[r]] = r /\ imported'[ProcessOf[r]] \subseteq req'[r].voices
        <5>1. CASE r = q
          BY <1>0, <2>1, <3>1, <3>2, <3>4, <5>1
        <5>2. CASE r # q
          <6>1. req'[r] = req[r] /\ catalog[ProcessOf[r]] = r /\ imported[ProcessOf[r]] \subseteq req[r].voices
            BY <3>1, <4>1, <5>2 DEF Alters, CacheI, Listing
          <6>2. ProcessOf[r] # p
            BY <1>0, <2>1, <6>1
          <6> QED BY <1>0, <2>1, <3>2, <6>1, <6>2
        <5> QED BY <5>1, <5>2
      <4> QED BY <4>1 DEF Listing
    <3> QED BY <3>4, <3>5 DEF CacheI
  <2> QED BY <1>11, <2>2, <2>3 DEF ListFetch
<1>12. ASSUME NEW q \in Requests, ListStore(q) PROVE CacheI'
  <2>1. Relists
    BY <1>3, <1>12, NobodyLists DEF ListStore, CacheI, Listing, Inside
  <2>2. UNCHANGED <<mine, known, imported>> /\ page' = [page EXCEPT ![ProcessOf[q]] = req[q].voices]
        /\ imported[ProcessOf[q]] \subseteq req[q].voices
    BY <1>12 DEF ListStore, CacheI, Listing
  <2>3. Cached'
    BY <1>0, <2>2 DEF CacheI, Cached
  <2>4. Listing'
    BY <2>1, <2>2 DEF Relists, CacheI, Listing
  <2> QED BY <2>3, <2>4 DEF CacheI
<1>13. ASSUME NEW p \in Processes, CacheExpires(p) PROVE CacheI'
  <2>1. /\ UNCHANGED <<mine, catalog, imported, req>>
        /\ known' \in {known, [known EXCEPT ![p] = None]}
        /\ page' \in {page, [page EXCEPT ![p] = None]}
    BY <1>13 DEF CacheExpires
  <2>2. Cached'
    BY <1>0, <2>1 DEF CacheI, Cached
  <2>3. Listing'
    BY <2>1 DEF CacheI, Listing
  <2> QED BY <2>2, <2>3 DEF CacheI
<1>14. ASSUME NEW p \in Processes, ProcessDies(p) PROVE CacheI'
  <2>1. /\ UNCHANGED mine
        /\ catalog' = [catalog EXCEPT ![p] = None] /\ imported' = [imported EXCEPT ![p] = {}]
        /\ known' = [known EXCEPT ![p] = None] /\ page' = [page EXCEPT ![p] = None]
    BY <1>14 DEF ProcessDies, Invalidate
  <2>2. Cached'
    BY <1>0, <2>1 DEF CacheI, Cached
  <2>3. \A q \in Requests : req'[q].op = "listed" => req'[q] = req[q] /\ ProcessOf[q] # p
    BY <1>14 DEF ProcessDies, Idle
  <2>4. Listing'
    BY <1>0, <2>1, <2>3 DEF CacheI, Listing
  <2> QED BY <2>2, <2>4 DEF CacheI
<1>15. ChangePlan \/ PeriodTurns => CacheI'
  BY <1>1 DEF ChangePlan, PeriodTurns
<1>16. ASSUME NEW q \in Requests, ListFails(q) PROVE CacheI'
  <2>1. Relists
    BY <1>3, <1>16, NobodyLists DEF ListFails, CacheI, Listing, Inside
  <2> QED BY <1>16, <2>1, CacheStays DEF ListFails
<1> QED
  BY <1>4, <1>5, <1>6, <1>7, <1>8, <1>9, <1>10, <1>11, <1>12, <1>13, <1>14, <1>15, <1>16
  DEF WorkspaceStep

LEMMA CacheOtherStep ==
  ASSUME Typed, CacheI, TelephonyStep \/ ExtensionStep \/ UNCHANGED officeVars
  PROVE  CacheI'
<1>1. UNCHANGED catalogVars
  BY TelephonyKeeps, ExtensionKeeps DEF setupVars, officeVars, telephonyVars, workspaceVars
<1>2. Relists
  <2>1. ASSUME NEW q \in Requests, NEW ops, Moves(q, ops), "listed" \notin ops PROVE Relists
    BY <1>1, <2>1 DEF Moves, Alters, Relists, catalogVars
  <2>2. CASE UNCHANGED req
    BY <1>1, <2>2 DEF Relists, catalogVars
  <2>3. ASSUME NEW q \in Requests, Admit(q) \/ Activate(q) PROVE Relists
    BY <1>1, <2>3, NobodyLists DEF Admit, Activate, Idle, catalogVars
  <2>4. "listed" \notin TelephonyOps /\ "listed" \notin ExtensionOps
    BY DEF TelephonyOps, ExtensionOps, OnExtension, ProvisionStep, DisconnectStep
  <2> QED
    BY <2>1, <2>2, <2>3, <2>4, TelephonyMoves, ExtensionMoves
    DEF officeVars, telephonyVars, workspaceVars
<1> QED BY <1>1, <1>2, CacheStays DEF catalogVars

(* A page of voices served from a process's cache never shows as missing a *)
(* voice that this process has imported: the import forgets what is        *)
(* cached, and a list fetched before it cannot be stored after it.         *)
THEOREM ImportsAreKnown == Spec => []CacheKnowsImports
<1>1. Init => CacheI
  BY DEF Init, WorkspaceInit, Idle, CacheI, Cached, Listing
<1>2. Typed /\ TrunkFirst /\ CacheI /\ [Next]_officeVars => CacheI'
  BY TypedStep, CacheWorkspaceStep, CacheOtherStep DEF Next
<1>3. CacheI => CacheKnowsImports
  BY DEF CacheI, Cached, CacheKnowsImports
<1> QED BY <1>1, <1>2, <1>3, TypedInvariant, PTL DEF Spec

-----------------------------------------------------------------------------
(* Requests that do not overlap.  One that starts finds all others idle,   *)
(* and goes on alone until it ends or its process dies.                    *)

Serial == "parallel" \notin env.faults
Alone ==
  \A q \in Requests, r \in Requests : req[q].op # "idle" /\ req[r].op # "idle" => q = r

(* Apart from one, requests are idle.                                      *)
Only(q) == \A r \in Requests : r # q => req[r].op = "idle"

LEMMA FreeOrBusy ==
  ASSUME Serial, Alone, NEW q \in Requests, Free(q) \/ req[q].op # "idle"
  PROVE  Only(q)
  BY DEF Serial, Alone, Free, Idle, Only

LEMMA AloneMoves ==
  ASSUME Typed, Alone, NEW q \in Requests, Only(q), Alters(q)
  PROVE  Alone' /\ Only(q)'
  BY DEF Alone, Only, Alters

(* Every step is a request's own, which is free or at work, or it changes  *)
(* no request, or it is a process that dies.                               *)
LEMMA WhoWorks ==
  ASSUME Typed, TrunkFirst, Serial, Alone, Next
  PROVE  \/ \E q \in Requests : Only(q) /\ Alters(q)
         \/ UNCHANGED req
         \/ \E p \in Processes : ProcessDies(p)
<1>1. ASSUME NEW q \in Requests, NEW ops, Moves(q, ops), req[q].op # "idle" \/ Free(q)
      PROVE  Only(q) /\ Alters(q)
  BY <1>1, FreeOrBusy DEF Moves
<1>2. ASSUME NEW q \in Requests, NEW d, Become(q, d), req[q].op # "idle" \/ Free(q)
      PROVE  Only(q) /\ Alters(q)
  BY <1>2, FreeOrBusy, BecomeAlters
<1>3. ASSUME NEW q \in Requests,
             \/ CreateAgent(q) \/ CreateIntegration(q) \/ TemplateRead(q) \/ TemplateReserve(q)
             \/ Insert(q) \/ UpdateAgent(q) \/ SaveAgent(q) \/ Present(q) \/ Import(q)
             \/ ImportFails(q) \/ ListVoices(q) \/ ListFetch(q) \/ ListStore(q) \/ ListFails(q)
      PROVE  Only(q) /\ Alters(q)
  <2>1. ASSUME NEW k, NEW v, NEW r, Reserve(q, k, v, r), req[q].op # "idle" \/ Free(q)
        PROVE  Only(q) /\ Alters(q)
    BY <1>2, <2>1 DEF Reserve
  <2>2. CASE CreateAgent(q) \/ CreateIntegration(q) \/ TemplateReserve(q)
    BY <2>1, <2>2 DEF CreateAgent, CreateIntegration, TemplateReserve
  <2>3. CASE \/ TemplateRead(q) \/ Insert(q) \/ UpdateAgent(q) \/ SaveAgent(q)
             \/ ListVoices(q) \/ ListStore(q) \/ ListFails(q)
    BY <1>2, <2>3 DEF TemplateRead, Insert, UpdateAgent, SaveAgent, ListVoices, ListStore, ListFails
  <2>4. CASE Present(q) \/ Import(q) \/ ImportFails(q)
    BY <1>2, <2>4 DEF Present, Import, ImportFails, Missing, NeedsVoice
  <2>5. CASE ListFetch(q)
    BY <1>2, <2>5 DEF ListFetch
  <2> QED BY <1>3, <2>2, <2>3, <2>4, <2>5
<1>4. ASSUME NEW q \in Requests, UpdateIntegration(q) \/ Connect(q) \/ Disconnect(q) \/ Save(q)
      PROVE  Only(q) /\ Alters(q)
  <2>1. ASSUME NEW i, NEW new, Load(q, i, new), Free(q) PROVE Only(q) /\ Alters(q)
    BY <1>2, <2>1 DEF Load
  <2> QED BY <1>2, <1>4, <2>1 DEF UpdateIntegration, Connect, Disconnect, Save
<1>5. CASE WorkspaceStep
  BY <1>3, <1>4, <1>5
  DEF WorkspaceStep, LookUp, DeleteAgent, DeleteIntegration, CacheExpires, ChangePlan, PeriodTurns
<1>6. ASSUME NEW q \in Requests, Provisioning(q) \/ StoreProvisioned(q) \/ StoreFailed(q)
      PROVE  Only(q) /\ Alters(q)
  <2>1. CASE Provisioning(q)
    <3>1. PICK op \in ProvisionStep, made \in Made : Step(q, op, made)
      BY <2>1, ProvisioningSteps
    <3>2. req[q].op # "idle"
      BY <2>1, ProvisioningSteps DEF ProvisionStep
    <3> QED BY <1>2, <3>1, <3>2 DEF Step
  <2>2. CASE StoreProvisioned(q) \/ StoreFailed(q)
    BY <1>2, <2>2 DEF StoreProvisioned, StoreFailed, RollBack, Step, At
  <2> QED BY <1>6, <2>1, <2>2
<1>7. ASSUME NEW q \in Requests,
             \/ Provision(q) \/ Claim(q) \/ DisconnectNumber(q) \/ Dropping(q)
             \/ StoreDisconnected(q) \/ Remove(q) \/ Ring(q) \/ Admit(q) \/ Activate(q)
      PROVE  Only(q) /\ Alters(q)
  <2>1. CASE Provision(q) \/ DisconnectNumber(q) \/ Ring(q)
    BY <1>2, <2>1 DEF Provision, DisconnectNumber, Ring
  <2>2. CASE Dropping(q)
    BY <1>2, <2>2 DEF Dropping, DropTrunk, DropList, DropRoute, DropFails, Proceed, At
  <2>3. CASE Claim(q) \/ StoreDisconnected(q) \/ Remove(q) \/ Admit(q) \/ Activate(q)
    BY <1>2, <2>3 DEF Claim, StoreDisconnected, Remove, Admit, Activate, At
  <2> QED BY <1>7, <2>1, <2>2, <2>3
<1>8. CASE TelephonyStep
  BY <1>6, <1>7, <1>8 DEF TelephonyStep, Provisioning, Dropping, AddNumber, SetEnabled
<1>9. ASSUME NEW q \in Requests, NEW x, NEW state, NEW d, Tell(q, x, state, d),
             req[q].op # "idle" \/ Free(q)
      PROVE  Only(q) /\ Alters(q)
  BY <1>2, <1>9 DEF Tell
<1>10. CASE ExtensionStep
  <2>1. PICK q \in Requests :
          \/ CreateExtension(q) \/ StoreExtension(q) \/ ForgetExtension(q)
          \/ ChangeExtension(q) \/ StoreChange(q) \/ DeleteExtension(q) \/ RemoveRow(q)
    BY <1>10 DEF ExtensionStep
  <2>2. CASE CreateExtension(q)
    BY <1>9, <2>2 DEF CreateExtension
  <2>3. CASE ForgetExtension(q) \/ ChangeExtension(q) \/ DeleteExtension(q)
    BY <1>9, <2>3 DEF ForgetExtension, ChangeExtension, DeleteExtension
  <2>4. CASE StoreExtension(q) \/ StoreChange(q) \/ RemoveRow(q)
    BY <1>2, <2>4 DEF StoreExtension, StoreChange, RemoveRow
  <2> QED BY <2>1, <2>2, <2>3, <2>4
<1> QED BY <1>5, <1>8, <1>10 DEF Next

LEMMA EnvStays ==
  ASSUME Next \/ UNCHANGED officeVars
  PROVE  env' = env
<1>1. ASSUME WorkspaceStep PROVE env' = env
  <2>1. ASSUME NEW q \in Requests,
               CreateAgent(q) \/ CreateIntegration(q) \/ TemplateRead(q) \/ TemplateReserve(q)
        PROVE  env' = env
    BY <2>1 DEF CreateAgent, CreateIntegration, TemplateRead, TemplateReserve, Reserve
  <2>2. ASSUME NEW q \in Requests,
               \/ Insert(q) \/ DeleteAgent(q) \/ DeleteIntegration(q) \/ UpdateAgent(q) \/ SaveAgent(q)
               \/ LookUp(q) \/ Present(q) \/ Import(q) \/ ImportFails(q)
               \/ ListVoices(q) \/ ListFetch(q) \/ ListStore(q) \/ ListFails(q)
               \/ UpdateIntegration(q) \/ Connect(q) \/ Disconnect(q) \/ Save(q)
        PROVE  env' = env
    BY <2>2 DEF Insert, DeleteAgent, DeleteIntegration, UpdateAgent, SaveAgent, LookUp, Present, Import,
                ImportFails, ListVoices, ListFetch, ListStore, ListFails, UpdateIntegration, Connect,
                Disconnect, Save
  <2> QED
    BY <1>1, <2>1, <2>2 DEF WorkspaceStep, CacheExpires, ProcessDies, ChangePlan, PeriodTurns
<1> QED
  BY <1>1, TelephonyKeeps, ExtensionKeeps DEF Next, setupVars, officeVars, telephonyVars, workspaceVars

LEMMA AloneStep ==
  ASSUME Typed, TrunkFirst, Serial, Alone, Next \/ UNCHANGED officeVars
  PROVE  Serial' /\ Alone'
<1>1. Serial'
  BY EnvStays DEF Serial
<1>2. ASSUME UNCHANGED req PROVE Alone'
  BY <1>2 DEF Alone
<1>3. ASSUME NEW p \in Processes, ProcessDies(p) PROVE Alone'
  BY <1>3 DEF ProcessDies, Idle, Alone
<1> QED
  BY <1>1, <1>2, <1>3, WhoWorks, AloneMoves DEF officeVars, telephonyVars, workspaceVars

-----------------------------------------------------------------------------
(* Integrations.  A status that follows from a test is stored with the     *)
(* configuration that was tested, because nothing else changed the row     *)
(* since it was loaded.                                                    *)

Earned(i, x) == x.type = "whatsapp" /\ x.status = "connected" => x.config \in tested[i]

RowsEarned == \A i \in Integrations : integ[i] # None => Earned(i, integ[i])
SavesEarned ==
  \A q \in Requests : req[q].op = "save" =>
    /\ integ[req[q].row] = req[q].seen
    /\ req[q].new.type = req[q].seen.type
    /\ Earned(req[q].row, req[q].new)
NewPending ==
  \A q \in Requests : req[q].op = "create" /\ req[q].row # None => req[q].row.status = "pending"
TestedI == RowsEarned /\ SavesEarned /\ NewPending

LEMMA TestedStays ==
  ASSUME TestedI, UNCHANGED <<integ, tested>>,
         \A q \in Requests :
           /\ req'[q].op = "save" => req'[q] = req[q]
           /\ req'[q].op = "create" /\ req'[q].row # None =>
                \/ req'[q].row = req[q].row /\ req[q].op = "create"
                \/ req'[q].row.status = "pending"
  PROVE  TestedI'
<1>1. RowsEarned'
  BY DEF TestedI, RowsEarned, Earned
<1>2. SavesEarned'
  BY DEF TestedI, SavesEarned, Earned
<1>3. NewPending'
  BY DEF TestedI, NewPending
<1> QED BY <1>1, <1>2, <1>3 DEF TestedI

(* The request is given a row that is loaded, and what it is to become.    *)
LEMMA TestedLoads ==
  ASSUME Typed, TestedI, NEW q \in Requests, Only(q), NEW i \in Integrations, integ[i] # None,
         NEW new \in Integration, Load(q, i, new), integ' = integ, new.type = integ[i].type,
         \A j \in Integrations : tested[j] \subseteq tested'[j],
         new.type = "whatsapp" /\ new.status = "connected" => new.config \in tested'[i]
  PROVE  TestedI'
<1>1. req'[q] = [op |-> "save", row |-> i, seen |-> integ[i], new |-> new] /\ Alters(q)
  BY BecomeAlters DEF Load
<1>2. \A r \in Requests : r # q => req'[r].op = "idle"
  BY <1>1 DEF Only, Alters
<1>3. RowsEarned'
  BY DEF TestedI, RowsEarned, Earned
<1>4. SavesEarned'
  <2>1. ASSUME NEW r \in Requests, req'[r].op = "save"
        PROVE  /\ integ'[req'[r].row] = req'[r].seen
               /\ req'[r].new.type = req'[r].seen.type
               /\ Earned(req[r].row, req[r].new)'
    BY <1>1, <1>2, <2>1 DEF Earned
  <2> QED BY <2>1 DEF SavesEarned
<1>5. NewPending'
  BY <1>1, <1>2 DEF NewPending
<1> QED BY <1>3, <1>4, <1>5 DEF TestedI

(* The request ends; rows may have changed.                                *)
LEMMA TestedEnds ==
  ASSUME Typed, NEW q \in Requests, Only(q), Become(q, Idle), RowsEarned'
  PROVE  TestedI'
<1>1. \A r \in Requests : req'[r].op = "idle"
  BY BecomeAlters DEF Only, Alters, Idle
<1> QED BY <1>1 DEF TestedI, SavesEarned, NewPending

LEMMA TestedWorkspaceStep ==
  ASSUME Typed, Typed', Serial, Alone, TestedI, WorkspaceStep
  PROVE  TestedI'
<1>0. /\ req \in [Requests -> AnyRequest] /\ None \notin Integration
      /\ integ \in [Integrations -> Integration \union {None}]
      /\ tested \in [Integrations -> SUBSET (Configs \union {None})]
      /\ Held("integrations") = {i \in Integrations : integ[i] # None}
  BY RowsAssumption DEF Typed, WorkspaceTypeOK, Held
<1>1. ASSUME UNCHANGED <<integ, tested, req>> PROVE TestedI'
  BY <1>1, TestedStays
<1>2. ASSUME NEW q \in Requests, NEW d, Become(q, d), UNCHANGED <<integ, tested>>, d.op # "save",
             d.op = "create" /\ d.row # None => d.row.status = "pending"
      PROVE  TestedI'
  BY <1>2, BecomeAlters, TestedStays DEF Alters
<1>3. Idle.op = "idle"
  BY DEF Idle
<1>4. ASSUME NEW q \in Requests, CreateAgent(q) \/ CreateIntegration(q) \/ TemplateReserve(q) PROVE TestedI'
  <2>1. ASSUME NEW k, NEW v, NEW r, Reserve(q, k, v, r), r # None => r.status = "pending" PROVE TestedI'
    BY <1>2, <1>3, <2>1 DEF Reserve
  <2> QED BY <1>4, <2>1 DEF CreateAgent, CreateIntegration, TemplateReserve, NewIntegration
<1>5. ASSUME NEW q \in Requests,
             \/ TemplateRead(q) \/ UpdateAgent(q) \/ SaveAgent(q) \/ ImportFails(q)
             \/ ListVoices(q) \/ ListStore(q) \/ ListFails(q)
      PROVE  TestedI'
  BY <1>2, <1>3, <1>5
  DEF TemplateRead, UpdateAgent, SaveAgent, ImportFails, ListVoices, ListStore, ListFails
<1>6. ASSUME NEW q \in Requests, ListFetch(q) PROVE TestedI'
  <2>1. Become(q, Idle) \/ Become(q, [op |-> "listed", voices |-> known'[ProcessOf[q]]])
    BY <1>6 DEF ListFetch
  <2> QED BY <1>2, <1>3, <1>6, <2>1 DEF ListFetch
<1>7. ASSUME NEW q \in Requests, Present(q) \/ Import(q) PROVE TestedI'
  <2>1. req[q].op \in {"create", "update"} /\ req[q] \in AnyRequest
    BY <1>0, <1>7 DEF Present, Import, Missing, NeedsVoice
  <2> DEFINE d == [req[q] EXCEPT !.voice = None]
  <2>2. d.op = req[q].op /\ (d.op = "create" => d.row = req[q].row)
    BY <2>1, MoreParts
  <2>3. Become(q, d) /\ UNCHANGED <<integ, tested>>
    BY <1>7 DEF Present, Import
  <2>4. d.op = "create" /\ d.row # None => d.row.status = "pending"
    BY <2>2 DEF TestedI, NewPending
  <2> HIDE DEF d
  <2> QED BY <1>2, <2>1, <2>2, <2>3, <2>4
<1>8. ASSUME NEW q \in Requests, DeleteAgent(q) \/ LookUp(q) PROVE TestedI'
  BY <1>1, <1>8 DEF DeleteAgent, LookUp
<1>9. ASSUME NEW q \in Requests, DeleteIntegration(q) PROVE TestedI'
  <2>1. Only(q) /\ req[q].op = "idle" /\ req' = req /\ tested' = tested
    BY <1>9, FreeOrBusy DEF DeleteIntegration, Free, Idle
  <2>2. RowsEarned'
    BY <1>0, <1>9 DEF DeleteIntegration, TestedI, RowsEarned, Earned
  <2> QED BY <2>1, <2>2 DEF TestedI, SavesEarned, NewPending, Only
<1>10. ASSUME NEW q \in Requests, Insert(q) PROVE TestedI'
  <2>1. Only(q) /\ Become(q, Idle)
    BY <1>10, FreeOrBusy DEF Insert
  <2>2. req[q].row # None => req[q].row.status = "pending"
    BY <1>10 DEF Insert, TestedI, NewPending
  <2>3. \/ UNCHANGED <<integ, tested>>
        \/ \E i \in Integrations : integ' = [integ EXCEPT ![i] = req[q].row] /\ tested' = [tested EXCEPT ![i] = {}]
    BY <1>10 DEF Insert
  <2>4. RowsEarned'
    BY <1>0, <2>2, <2>3 DEF TestedI, RowsEarned, Earned
  <2> QED BY <2>1, <2>4, TestedEnds
<1>11. ASSUME NEW q \in Requests, UpdateIntegration(q) PROVE TestedI'
  <2>1. Only(q) /\ UNCHANGED <<integ, tested>>
    BY <1>11, FreeOrBusy DEF UpdateIntegration
  <2>2. PICK i \in Held("integrations") :
          \/ /\ integ[i].type = "whatsapp"
             /\ \E c \in Configs : Load(q, i, Untested(integ[i].status, [integ[i] EXCEPT !.config = c]))
          \/ /\ integ[i].type = "other"
             /\ \E s \in IntegrationStatus : Load(q, i, [integ[i] EXCEPT !.status = s])
    BY <1>11 DEF UpdateIntegration
  <2>3. i \in Integrations /\ integ[i] # None /\ integ[i] \in Integration
    BY <1>0
  <2>4. /\ \A c \in Configs :
             LET x == Untested(integ[i].status, [integ[i] EXCEPT !.config = c]) IN
               x \in Integration /\ x.type = integ[i].type /\ x.status = "pending"
        /\ \A s \in IntegrationStatus :
             LET x == [integ[i] EXCEPT !.status = s] IN
               x \in Integration /\ x.type = integ[i].type
    BY <2>3 DEF Untested, Integration, IntegrationStatus
  <2> QED BY <2>1, <2>2, <2>3, <2>4, TestedLoads
<1>12. ASSUME NEW q \in Requests, Connect(q) PROVE TestedI'
  <2>1. Only(q) /\ integ' = integ
    BY <1>12, FreeOrBusy DEF Connect
  <2>2. PICK i \in Held("integrations") :
          \/ /\ Load(q, i, [integ[i] EXCEPT !.status = "connected"])
             /\ tested' = IF integ[i].type = "whatsapp"
                            THEN [tested EXCEPT ![i] = @ \union {integ[i].config}] ELSE tested
          \/ /\ Load(q, i, [integ[i] EXCEPT !.status = "error"])
             /\ UNCHANGED tested
    BY <1>12 DEF Connect
  <2>3. i \in Integrations /\ integ[i] # None /\ integ[i] \in Integration
    BY <1>0
  <2>4. \A s \in {"connected", "error"} :
          LET x == [integ[i] EXCEPT !.status = s] IN
            x \in Integration /\ x.type = integ[i].type /\ x.status = s /\ x.config = integ[i].config
    BY <2>3 DEF Integration, IntegrationStatus
  <2>5. \A j \in Integrations : tested[j] \subseteq tested'[j]
    BY <1>0, <2>2, <2>3
  <2>6. CASE /\ Load(q, i, [integ[i] EXCEPT !.status = "connected"])
             /\ tested' = IF integ[i].type = "whatsapp"
                            THEN [tested EXCEPT ![i] = @ \union {integ[i].config}] ELSE tested
    <3>1. integ[i].type = "whatsapp" => integ[i].config \in tested'[i]
      BY <1>0, <2>3, <2>6
    <3> QED BY <2>1, <2>3, <2>4, <2>5, <2>6, <3>1, TestedLoads
  <2>7. CASE Load(q, i, [integ[i] EXCEPT !.status = "error"])
    BY <2>1, <2>3, <2>4, <2>5, <2>7, TestedLoads
  <2> QED BY <2>2, <2>6, <2>7
<1>13. ASSUME NEW q \in Requests, Disconnect(q) PROVE TestedI'
  <2>1. Only(q) /\ UNCHANGED <<integ, tested>>
    BY <1>13, FreeOrBusy DEF Disconnect
  <2>2. PICK i \in Held("integrations") : Load(q, i, [integ[i] EXCEPT !.status = "disconnected"])
    BY <1>13 DEF Disconnect
  <2>3. i \in Integrations /\ integ[i] # None /\ integ[i] \in Integration
    BY <1>0
  <2>4. LET x == [integ[i] EXCEPT !.status = "disconnected"] IN
          x \in Integration /\ x.type = integ[i].type /\ x.status = "disconnected"
    BY <2>3 DEF Integration, IntegrationStatus
  <2> QED BY <2>1, <2>2, <2>3, <2>4, TestedLoads
<1>14. ASSUME NEW q \in Requests, Save(q) PROVE TestedI'
  <2>1. Only(q) /\ Become(q, Idle) /\ tested' = tested
    BY <1>14, FreeOrBusy DEF Save
  <2> DEFINE i == req[q].row  seen == req[q].seen  new == req[q].new
             x == [integ[i] EXCEPT !.status = Column(@, seen.status, new.status),
                                   !.config = Column(@, seen.config, new.config)]
  <2>2. /\ i \in Integrations /\ seen \in Integration /\ new \in Integration
        /\ integ[i] = seen /\ new.type = seen.type /\ Earned(i, new)
    BY <1>0, <1>14, WorkspaceParts DEF Save, TestedI, SavesEarned
  <2>3. integ' = [integ EXCEPT ![i] = x]
    BY <1>0, <1>14, <2>2 DEF Save
  <2>4. x.type = new.type /\ x.status = new.status /\ x.config = new.config
    BY <2>2 DEF Integration, Column
  <2>5. Earned(i, x)
    BY <2>2, <2>4 DEF Earned
  <2> HIDE DEF x, i, seen, new
  <2>6. RowsEarned'
    BY <1>0, <2>1, <2>2, <2>3, <2>5 DEF TestedI, RowsEarned, Earned
  <2> QED BY <2>1, <2>6, TestedEnds
<1>15. ASSUME NEW p \in Processes, CacheExpires(p) PROVE TestedI'
  BY <1>1, <1>15 DEF CacheExpires
<1>16. ASSUME NEW p \in Processes, ProcessDies(p) PROVE TestedI'
  BY <1>3, <1>16, TestedStays DEF ProcessDies
<1>17. ChangePlan \/ PeriodTurns => TestedI'
  BY <1>1 DEF ChangePlan, PeriodTurns
<1> QED
  BY <1>4, <1>5, <1>6, <1>7, <1>8, <1>9, <1>10, <1>11, <1>12, <1>13, <1>14, <1>15, <1>16, <1>17
  DEF WorkspaceStep

LEMMA TestedOtherStep ==
  ASSUME Typed, TestedI, TelephonyStep \/ ExtensionStep \/ UNCHANGED officeVars
  PROVE  TestedI'
<1>1. UNCHANGED <<integ, tested>>
  BY TelephonyKeeps, ExtensionKeeps DEF setupVars, officeVars, telephonyVars, workspaceVars
<1>2. ASSUME NEW q \in Requests, NEW ops, Moves(q, ops), ops \intersect {"save", "create"} = {}
      PROVE  TestedI'
  BY <1>1, <1>2, TestedStays DEF Moves, Alters
<1>3. CASE UNCHANGED req
  BY <1>1, <1>3, TestedStays
<1>4. ASSUME NEW q \in Requests, Admit(q) \/ Activate(q) PROVE TestedI'
  <2>1. req'[q].op \notin {"save", "create"} /\ Alters(q)
    BY <1>4, BecomeAlters DEF Admit, Activate, Idle
  <2> QED BY <1>1, <2>1, TestedStays DEF Alters
<1>5. /\ TelephonyOps \intersect {"save", "create"} = {}
      /\ ExtensionOps \intersect {"save", "create"} = {}
  BY DEF TelephonyOps, ExtensionOps, OnExtension, ProvisionStep, DisconnectStep
<1> QED
  BY <1>2, <1>3, <1>4, <1>5, TelephonyMoves, ExtensionMoves DEF officeVars, telephonyVars, workspaceVars

(* Unless requests overlap, a WhatsApp integration that is connected has   *)
(* passed a test with the instance and token it has now, however often it  *)
(* is changed, tested, refused, deleted and made again, and whatever dies. *)
THEOREM ConnectionsAreTested == Spec => []ConnectedWasTested
<1> DEFINE I == Serial => Alone /\ TestedI
<1>1. Init => I
  BY DEF Init, WorkspaceInit, Idle, Alone, TestedI, RowsEarned, SavesEarned, NewPending
<1>2. Typed /\ TrunkFirst /\ I /\ [Next]_officeVars => I'
  <2>1. ASSUME Typed, TrunkFirst, I, [Next]_officeVars, Serial' PROVE Alone' /\ TestedI'
    <3>1. Serial
      BY <2>1, EnvStays DEF Serial
    <3> QED BY <2>1, <3>1, AloneStep, TypedStep, TestedWorkspaceStep, TestedOtherStep DEF Next
  <2> QED BY <2>1
<1>3. I => ConnectedWasTested
  BY DEF Serial, TestedI, RowsEarned, Earned, ConnectedWasTested, Held
<1> QED BY <1>1, <1>2, <1>3, TypedInvariant, PTL DEF Spec

-----------------------------------------------------------------------------
(* Telephone numbers, one request at a time.  While a request is at work   *)
(* on a row, the row is what it was when it was loaded.                    *)

Bare(x) == x.trunk = None /\ ~x.route
Stopped == {"pending", "error", "disconnected"}

StoppedBare ==
  \A c \in Connections : line[c] # None /\ line[c].status \in Stopped => Bare(line[c])
(* The database has failed after the route was made, and fails again.      *)
Spoilt(q) ==
  req[q].op \in {"back_trunk", "back_list", "back_route", "failed"} /\ req[q].made.route
MakingBare ==
  \A q \in Requests : req[q].op \in ProvisionStep /\ ~Spoilt(q) =>
    /\ line[req[q].line] = req[q].seen /\ Bare(req[q].seen)
    /\ req[q].op = "store" => req[q].made.route
DroppedFirst ==
  \A q \in Requests : req[q].op \in DisconnectStep =>
    /\ line[req[q].line] = req[q].seen
    /\ req[q].op # "drop_trunk" => req[q].seen.trunk \notin trunks
    /\ req[q].op = "disconnected" /\ req[q].seen.route => req[q].line \notin routes
RemovedBare ==
  \A q \in Requests : req[q].op = "remove" =>
    line[req[q].line] # None /\ Bare(line[req[q].line])
LineI == StoppedBare /\ MakingBare /\ DroppedFirst /\ RemovedBare

(* What a step of a provisioning or disconnecting request leaves of it.    *)
LEMMA StepParts ==
  ASSUME Typed, NEW q \in Requests, req[q].op \in ProvisionStep, NEW op, NEW made, Step(q, op, made)
  PROVE  /\ req'[q].op = op /\ req'[q].line = req[q].line /\ req'[q].seen = req[q].seen
         /\ req'[q].made = made /\ Alters(q)
<1>1. req[q] = [op |-> req[q].op, line |-> req[q].line, seen |-> req[q].seen, made |-> req[q].made]
  BY MoreParts DEF Typed
<1>2. req'[q] = [req[q] EXCEPT !.op = op, !.made = made] /\ Alters(q)
  BY BecomeAlters DEF Step
<1>3. req'[q] = [op |-> op, line |-> req[q].line, seen |-> req[q].seen, made |-> made]
  BY <1>1, <1>2
<1> QED BY <1>2, <1>3

LEMMA ProceedParts ==
  ASSUME Typed, NEW q \in Requests, req[q].op \in DisconnectStep, NEW op, Proceed(q, op)
  PROVE  /\ req'[q].op = op /\ req'[q].line = req[q].line /\ req'[q].seen = req[q].seen
         /\ Alters(q)
<1>1. req[q] = [op |-> req[q].op, line |-> req[q].line, seen |-> req[q].seen, delete |-> req[q].delete]
  BY MoreParts DEF Typed
<1>2. req'[q] = [req[q] EXCEPT !.op = op] /\ Alters(q)
  BY BecomeAlters DEF Proceed
<1>3. req'[q] = [op |-> op, line |-> req[q].line, seen |-> req[q].seen, delete |-> req[q].delete]
  BY <1>1, <1>2
<1> QED BY <1>2, <1>3

(* Storing the columns that changed in a row that has not changed since it *)
(* was loaded stores them all.                                             *)
LEMMA UpdateSame ==
  ASSUME NEW x \in Line, NEW y \in Line
  PROVE  Update(x, x, y) = y
<1>1. Update(x, x, y) =
        [x EXCEPT !.status = y.status, !.trunk = y.trunk, !.list = y.list, !.route = y.route,
                  !.enabled = y.enabled, !.state = y.state]
  BY DEF Update, Column
<1> QED BY <1>1 DEF Line

(* Nothing on a line changes hands: the requests at work on lines are the  *)
(* same, or have ended, and so are the rows.                               *)
NoneStarts ==
  \A q \in Requests : req'[q].op \in OnLine => req'[q] = req[q]

LEMMA LineStays ==
  ASSUME LineI, NoneStarts, UNCHANGED lineVars
  PROVE  LineI'
<1>1. StoppedBare'
  BY DEF LineI, StoppedBare, lineVars, Bare
<1>2. MakingBare'
  BY DEF LineI, MakingBare, Spoilt, NoneStarts, OnLine, lineVars, Bare
<1>3. DroppedFirst'
  BY DEF LineI, DroppedFirst, NoneStarts, OnLine, lineVars
<1>4. RemovedBare'
  BY DEF LineI, RemovedBare, NoneStarts, OnLine, lineVars, Bare
<1> QED BY <1>1, <1>2, <1>3, <1>4 DEF LineI

(* The only request at work goes on, or ends, without touching the rows.   *)
LEMMA LineGoesOn ==
  ASSUME LineI, NEW q \in Requests, Only(q), Alters(q), UNCHANGED line,
         \/ /\ req'[q].op \in ProvisionStep
            /\ line[req'[q].line] = req'[q].seen /\ Bare(req'[q].seen)
            /\ req'[q].op = "store" => req'[q].made.route
         \/ Spoilt(q)'
         \/ /\ req'[q].op \in DisconnectStep
            /\ line[req'[q].line] = req'[q].seen
            /\ req'[q].op # "drop_trunk" => req'[q].seen.trunk \notin trunks'
            /\ req'[q].op = "disconnected" /\ req'[q].seen.route => req'[q].line \notin routes'
         \/ req'[q].op \notin ProvisionStep \union DisconnectStep \union {"remove"}
  PROVE  LineI'
<1>0. \A r \in Requests : r # q => req'[r].op = "idle"
  BY DEF Only, Alters
<1>1. StoppedBare'
  BY DEF LineI, StoppedBare, Bare
<1>2. MakingBare'
  BY <1>0 DEF MakingBare, ProvisionStep, DisconnectStep, Bare
<1>3. DroppedFirst'
  BY <1>0 DEF DroppedFirst, ProvisionStep, DisconnectStep, Spoilt
<1>4. RemovedBare'
  BY <1>0 DEF RemovedBare, ProvisionStep, DisconnectStep, Spoilt
<1> QED BY <1>1, <1>2, <1>3, <1>4 DEF LineI

(* It writes its row and ends, or goes on to delete it.                    *)
LEMMA LineIsWritten ==
  ASSUME Typed, LineI, NEW q \in Requests, Only(q), Alters(q), NEW c \in Connections, NEW x,
         line' = [line EXCEPT ![c] = x],
         x # None /\ x.status \in Stopped => Bare(x),
         \/ req'[q].op \notin ProvisionStep \union DisconnectStep \union {"remove"}
         \/ Spoilt(q)'
         \/ /\ req'[q].op \in ProvisionStep \ {"store"} /\ req'[q].line = c
            /\ req'[q].seen = x /\ Bare(x)
         \/ req'[q].op = "remove" /\ req'[q].line = c /\ x # None /\ Bare(x)
  PROVE  LineI'
<1>0. /\ \A r \in Requests : r # q => req'[r].op = "idle"
      /\ line'[c] = x /\ \A d \in Connections : d # c => line'[d] = line[d]
  BY DEF Only, Alters, Typed, TelephonyTypeOK
<1>1. StoppedBare'
  BY <1>0 DEF LineI, StoppedBare, Bare
<1>2. MakingBare'
  BY <1>0 DEF MakingBare, ProvisionStep, DisconnectStep, Bare
<1>3. DroppedFirst'
  BY <1>0 DEF DroppedFirst, ProvisionStep, DisconnectStep, Spoilt
<1>4. RemovedBare'
  BY <1>0 DEF RemovedBare, ProvisionStep, DisconnectStep, Spoilt, Bare
<1> QED BY <1>1, <1>2, <1>3, <1>4 DEF LineI

-----------------------------------------------------------------------------
(* The actions that write a row, told by the row they write.               *)

NewLine == [status |-> "pending", trunk |-> None, list |-> None, route |-> FALSE,
            enabled |-> FALSE, state |-> "pending"]
MadeLine(c, seen, made) ==
  [seen EXCEPT !.status = Reached(c), !.trunk = made.trunk, !.route = TRUE,
               !.list = IF Twilio(c) THEN made.list ELSE @,
               !.enabled = TRUE, !.state = "pending"]
FailedLine(seen, made) ==
  [seen EXCEPT !.status = "error", !.enabled = FALSE, !.state = "error",
               !.list = IF made.list # None THEN made.list ELSE @]
DroppedLine(seen) ==
  Off([seen EXCEPT !.status = "disconnected", !.trunk = None, !.route = FALSE])

LEMMA MadeLineParts ==
  ASSUME NEW c \in Connections, NEW seen \in Line, NEW made \in Made
  PROVE  LET x == MadeLine(c, seen, made) IN
           /\ x \in Line /\ x.status = Reached(c) /\ x.trunk = made.trunk /\ x.route /\ x.enabled
           /\ x.list = IF Twilio(c) THEN made.list ELSE seen.list
<1>1. Reached(c) \in LineStatus
  BY DEF Reached, LineStatus
<1>2. /\ made.trunk \in Trunks \union {None} /\ made.list \in Trunks \union {None}
      /\ seen.list \in Trunks \union {None}
  BY DEF Made, Line
<1> DEFINE l == IF Twilio(c) THEN made.list ELSE seen.list
           x == [seen EXCEPT !.status = Reached(c), !.trunk = made.trunk, !.route = TRUE, !.list = l,
                             !.enabled = TRUE, !.state = "pending"]
<1>3. MadeLine(c, seen, made) = x
  BY DEF MadeLine
<1>4. l \in Trunks \union {None} /\ "pending" \in PhoneState /\ TRUE \in BOOLEAN
  BY <1>2 DEF PhoneState
<1> HIDE DEF l
<1>5. x \in Line
  BY <1>1, <1>2, <1>4 DEF Line
<1>6. x.status = Reached(c) /\ x.trunk = made.trunk
  BY DEF Line
<1>7. x.route = TRUE /\ x.enabled = TRUE
  BY DEF Line
<1>8. x.list = l
  BY DEF Line
<1> HIDE DEF x
<1> QED BY <1>3, <1>5, <1>6, <1>7, <1>8 DEF l

LEMMA FailedLineParts ==
  ASSUME NEW seen \in Line, NEW made \in Made
  PROVE  LET x == FailedLine(seen, made) IN
           /\ x \in Line /\ x.status = "error" /\ x.trunk = seen.trunk /\ x.route = seen.route
           /\ x.enabled = FALSE
           /\ x.list = IF made.list # None THEN made.list ELSE seen.list
<1> DEFINE l == IF made.list # None THEN made.list ELSE seen.list
<1>1. l \in Trunks \union {None}
  BY DEF Made, Line
<1>2. FailedLine(seen, made) =
        [seen EXCEPT !.status = "error", !.enabled = FALSE, !.state = "error", !.list = l]
  BY DEF FailedLine
<1> HIDE DEF l
<1>3. LET x == FailedLine(seen, made) IN
        /\ x \in Line /\ x.status = "error" /\ x.trunk = seen.trunk /\ x.route = seen.route
        /\ x.enabled = FALSE /\ x.list = l
  BY <1>1, <1>2 DEF Line, LineStatus, PhoneState
<1> QED BY <1>3 DEF l

LEMMA DroppedLineParts ==
  ASSUME NEW seen \in Line
  PROVE  LET x == DroppedLine(seen) IN
           /\ x \in Line /\ x.status = "disconnected" /\ x.trunk = None /\ ~x.route
           /\ x.enabled = FALSE /\ x.list = seen.list
  BY DEF DroppedLine, Off, Line, LineStatus, PhoneState

LEMMA NewLineParts == NewLine \in Line /\ Bare(NewLine) /\ NewLine # None /\ ~NewLine.enabled
<1>1. NewLine \in Line
  BY DEF NewLine, Line, LineStatus, PhoneState
<1>2. Bare(NewLine) /\ ~NewLine.enabled
  BY DEF NewLine, Bare
<1> QED BY <1>1, <1>2, LinesAssumption

LEMMA StoreProvisionedParts ==
  ASSUME Typed, LineI, NEW q \in Requests, StoreProvisioned(q)
  PROVE  LET c == req[q].line  seen == req[q].seen  made == req[q].made IN
           /\ c \in Connections /\ seen \in Line /\ made \in Made /\ line[c] = seen /\ Bare(seen)
           /\ \/ /\ line' = [line EXCEPT ![c] = MadeLine(c, seen, made)]
                 /\ Become(q, Idle) \/ ("database" \in env.faults /\ RollBack(q, made))
              \/ /\ UNCHANGED line /\ "database" \in env.faults
                 /\ Become(q, Idle) \/ RollBack(q, made)
<1>1. /\ req[q].line \in Connections /\ req[q].seen \in Line /\ req[q].made \in Made
      /\ line[req[q].line] = req[q].seen /\ Bare(req[q].seen)
  BY TelephonyParts DEF StoreProvisioned, At, ProvisionStep, Typed, LineI, MakingBare, Spoilt
<1> DEFINE c == req[q].line  seen == req[q].seen  made == req[q].made
<1>2. Update(line[c], seen, MadeLine(c, seen, made)) = MadeLine(c, seen, made)
  BY <1>1, MadeLineParts, UpdateSame
<1>3. line[c] # None
  BY <1>1, LinesAssumption
<1>4. \/ /\ line' = [line EXCEPT ![c] = Update(@, seen, MadeLine(c, seen, made))]
         /\ Become(q, Idle) \/ ("database" \in env.faults /\ RollBack(q, made))
      \/ /\ UNCHANGED line /\ "database" \in env.faults
         /\ Become(q, Idle) \/ RollBack(q, made)
  BY <1>3 DEF StoreProvisioned, CommitFails, MadeLine
<1>5. [line EXCEPT ![c] = Update(@, seen, MadeLine(c, seen, made))]
        = [line EXCEPT ![c] = MadeLine(c, seen, made)]
  BY <1>2
<1> QED BY <1>1, <1>4, <1>5

LEMMA StoreFailedParts ==
  ASSUME Typed, LineI, NEW q \in Requests, StoreFailed(q)
  PROVE  LET c == req[q].line  seen == req[q].seen  made == req[q].made IN
           /\ c \in Connections /\ seen \in Line /\ made \in Made
           /\ Become(q, Idle)
           /\ \/ /\ line[c] = seen /\ Bare(seen)
                 /\ line' = [line EXCEPT ![c] = FailedLine(seen, made)]
              \/ UNCHANGED line /\ (made.route \/ "database" \in env.faults)
<1>1. /\ req[q].line \in Connections /\ req[q].seen \in Line /\ req[q].made \in Made
      /\ ~req[q].made.route => line[req[q].line] = req[q].seen /\ Bare(req[q].seen)
  BY TelephonyParts DEF StoreFailed, At, ProvisionStep, Typed, LineI, MakingBare, Spoilt
<1> DEFINE c == req[q].line  seen == req[q].seen  made == req[q].made
<1>2. line[c] = seen => Update(line[c], seen, FailedLine(seen, made)) = FailedLine(seen, made)
  BY <1>1, FailedLineParts, UpdateSame
<1>3. line[c] = seen => line[c] # None
  BY <1>1, LinesAssumption
<1>4. /\ Become(q, Idle)
      /\ \/ ~made.route /\ line' = [line EXCEPT ![c] = Update(@, seen, FailedLine(seen, made))]
         \/ UNCHANGED line /\ (made.route \/ "database" \in env.faults)
  BY <1>1, <1>3 DEF StoreFailed, CommitFails, FailedLine
<1>5. line[c] = seen =>
        [line EXCEPT ![c] = Update(@, seen, FailedLine(seen, made))]
          = [line EXCEPT ![c] = FailedLine(seen, made)]
  BY <1>2
<1> QED BY <1>1, <1>4, <1>5

LEMMA StoreDisconnectedParts ==
  ASSUME Typed, LineI, NEW q \in Requests, StoreDisconnected(q)
  PROVE  LET c == req[q].line  seen == req[q].seen IN
           /\ c \in Connections /\ seen \in Line /\ line[c] = seen
           /\ seen.trunk \notin trunks /\ (seen.route => c \notin routes)
           /\ \/ /\ line' = [line EXCEPT ![c] = DroppedLine(seen)]
                 /\ Become(q, Idle) \/ Become(q, [op |-> "remove", line |-> c])
              \/ UNCHANGED line /\ Become(q, Idle) /\ "database" \in env.faults
<1>1. /\ req[q].line \in Connections /\ req[q].seen \in Line
      /\ line[req[q].line] = req[q].seen
      /\ req[q].seen.trunk \notin trunks /\ (req[q].seen.route => req[q].line \notin routes)
  BY TelephonyParts DEF StoreDisconnected, At, DisconnectStep, Typed, LineI, DroppedFirst
<1> DEFINE c == req[q].line  seen == req[q].seen
           new == [seen EXCEPT !.status = "disconnected", !.trunk = None, !.route = FALSE]
<1>2. Update(line[c], seen, new) = new
  <2>1. new \in Line
    BY <1>1 DEF Line, LineStatus
  <2> QED BY <1>1, <2>1, UpdateSame
<1>3. line[c] # None
  BY <1>1, LinesAssumption
<1>4. \/ /\ line' = [line EXCEPT ![c] = Off(Update(@, seen, new))]
         /\ Become(q, Idle) \/ Become(q, [op |-> "remove", line |-> c])
      \/ UNCHANGED line /\ Become(q, Idle) /\ "database" \in env.faults
  BY <1>3 DEF StoreDisconnected, CommitFails
<1>5. [line EXCEPT ![c] = Off(Update(@, seen, new))] = [line EXCEPT ![c] = DroppedLine(seen)]
  BY <1>2 DEF DroppedLine
<1> QED BY <1>1, <1>4, <1>5

-----------------------------------------------------------------------------
(* What a step must not forget, and who may be reached by calls.           *)

Forgetless ==
  \A c \in Connections :
    /\ Forgets(c, "trunk") => line[c].trunk \notin trunks'
    /\ Forgets(c, "route") /\ line[c].route => c \notin routes'

Routed(x) == x.enabled \/ x.status = "active" => x.route
Calls == {"ring", "admit"}
CallsRouted ==
  \A q \in Requests : req[q].op \in Calls => line[req[q].line] # None /\ line[req[q].line].route
ReadyI == (\A c \in Connections : line[c] # None => Routed(line[c])) /\ CallsRouted

(* What every step of Telephony is to be shown to do.                      *)
LineStep ==
  /\ LineI' /\ Forgetless
  /\ ReadyI /\ ~Asked("enable") => ReadyI'

LEMMA RowsKept ==
  ASSUME UNCHANGED line,
         \A q \in Requests : req'[q].op \in Calls =>
           \/ req[q].op \in Calls /\ req'[q].line = req[q].line
           \/ line[req'[q].line] # None /\ (line[req'[q].line].enabled \/ line[req'[q].line].route)
              /\ req'[q].line \in Connections
  PROVE  Forgetless /\ (ReadyI => ReadyI')
<1>1. Forgetless
  BY DEF Forgetless, Forgets
<1>2. ASSUME ReadyI PROVE ReadyI'
  <2>1. \A c \in Connections : line'[c] # None => Routed(line'[c])
    BY <1>2 DEF ReadyI
  <2>2. CallsRouted'
    BY <1>2 DEF ReadyI, CallsRouted, Routed
  <2> QED BY <2>1, <2>2 DEF ReadyI, Routed
<1> QED BY <1>1, <1>2

LEMMA RowWritten ==
  ASSUME Typed, NEW q \in Requests, Only(q), Alters(q), NEW c \in Connections, NEW x,
         line' = [line EXCEPT ![c] = x], req'[q].op \notin Calls,
         line[c] # None /\ (x = None \/ x.trunk # line[c].trunk) => line[c].trunk \notin trunks',
         line[c] # None /\ (x = None \/ x.route # line[c].route) /\ line[c].route => c \notin routes',
         ReadyI /\ ~Asked("enable") /\ x # None => Routed(x)
  PROVE  Forgetless /\ (ReadyI /\ ~Asked("enable") => ReadyI')
<1>0. line'[c] = x /\ \A d \in Connections : d # c => line'[d] = line[d]
  BY DEF Typed, TelephonyTypeOK
<1>1. Forgetless
  BY <1>0 DEF Forgetless, Forgets
<1>2. ASSUME ReadyI, ~Asked("enable") PROVE ReadyI'
  <2>1. \A d \in Connections : line'[d] # None => Routed(line'[d])
    BY <1>0, <1>2 DEF ReadyI
  <2>2. \A r \in Requests : req'[r].op \notin Calls
    BY DEF Only, Alters, Calls
  <2>3. CallsRouted'
    BY <2>2 DEF CallsRouted, Calls
  <2> QED BY <2>1, <2>3 DEF ReadyI, Routed
<1> QED BY <1>1, <1>2

(* A request that ends without touching the rows.                          *)
LEMMA EndsLineStep ==
  ASSUME Typed, LineI, NEW q \in Requests, Only(q), Become(q, Idle), UNCHANGED line
  PROVE  LineStep
<1>1. req'[q].op = "idle" /\ Alters(q)
  BY BecomeAlters DEF Idle
<1>2. LineI'
  BY <1>1, LineGoesOn DEF ProvisionStep, DisconnectStep
<1>3. \A r \in Requests : req'[r].op \notin Calls
  BY <1>1 DEF Only, Alters, Calls
<1> QED BY <1>2, <1>3, RowsKept DEF LineStep

LEMMA PutsRoute ==
  ASSUME Typed, NEW q \in Requests, Provisioning(q), req'[q].op = "store"
  PROVE  req'[q].made.route
<1>1. req[q].op \in ProvisionStep /\ req[q].made \in Made
  BY ProvisioningSteps, TelephonyParts DEF Typed
<1>2. PutRoute(q)
  <2>1. ASSUME NEW op, NEW made, Step(q, op, made) PROVE op = "store"
    BY <1>1, <2>1, StepParts
  <2> QED BY <2>1 DEF Provisioning, CreateTrunk, CreateList, Attach, UndoTrunk, UndoList, BackTrunk,
                      BackList, BackRoute
<1>3. \A op, made : Step(q, op, made) => op = "store" /\ req'[q].made = made
  BY <1>1, StepParts
<1>4. Step(q, "store", [req[q].made EXCEPT !.route = TRUE])
  BY <1>2, <1>3 DEF PutRoute, RollBack
<1>5. req'[q].made = [req[q].made EXCEPT !.route = TRUE]
  BY <1>3, <1>4
<1> QED BY <1>1, <1>5 DEF Made

LEMMA MakingLineStep ==
  ASSUME Typed, LineI, NEW q \in Requests, Only(q), Provisioning(q)
  PROVE  LineStep
<1>1. PICK op \in ProvisionStep, made \in Made : req[q].op \in ProvisionStep /\ Step(q, op, made)
  BY ProvisioningSteps
<1>2. /\ req'[q].op = op /\ req'[q].line = req[q].line /\ req'[q].seen = req[q].seen /\ Alters(q)
  BY <1>1, StepParts
<1>3. UNCHANGED line
  BY DEF Provisioning, CreateTrunk, CreateList, Attach, UndoTrunk, UndoList, PutRoute, BackTrunk, BackList,
         BackRoute, lineVars
<1>4. LineI'
  <2>1. CASE ~Spoilt(q)
    <3>1. line[req[q].line] = req[q].seen /\ Bare(req[q].seen)
      BY <1>1, <2>1 DEF LineI, MakingBare
    <3>2. req'[q].op = "store" => req'[q].made.route
      BY <1>1, PutsRoute
    <3> QED BY <1>2, <1>3, <3>1, <3>2, LineGoesOn
  <2>2. CASE Spoilt(q)
    <3>1. \E next \in {"back_list", "back_route", "failed"} : Step(q, next, req[q].made)
      BY <2>2 DEF Spoilt, Provisioning, CreateTrunk, CreateList, Attach, UndoTrunk, UndoList, PutRoute,
                  BackTrunk, BackList, BackRoute, At
    <3>2. Spoilt(q)'
      BY <1>1, <2>2, <3>1, StepParts DEF Spoilt
    <3> QED BY <1>2, <1>3, <3>2, LineGoesOn
  <2> QED BY <2>1, <2>2
<1>5. \A r \in Requests : req'[r].op \notin Calls
  BY <1>2 DEF Only, Alters, Calls, ProvisionStep
<1> QED BY <1>3, <1>4, <1>5, RowsKept DEF LineStep

LEMMA DroppingLineStep ==
  ASSUME Typed, LineI, NEW q \in Requests, Only(q), Dropping(q)
  PROVE  LineStep
<1>1. req[q].op \in DisconnectStep /\ (Become(q, Idle) \/ \E op \in DisconnectStep : Proceed(q, op))
  BY DroppingSteps
<1>2. UNCHANGED line
  BY DEF Dropping, DropTrunk, DropList, DropRoute
<1>3. /\ line[req[q].line] = req[q].seen
      /\ req[q].op # "drop_trunk" => req[q].seen.trunk \notin trunks
  BY <1>1 DEF LineI, DroppedFirst
<1>4. CASE Become(q, Idle)
  BY <1>2, <1>4, EndsLineStep
<1>5. CASE \E op \in DisconnectStep : Proceed(q, op) /\ ~Become(q, Idle)
  <2>1. PICK op \in DisconnectStep : Proceed(q, op) /\ ~Become(q, Idle)
    BY <1>5
  <2>2. req'[q].op = op /\ req'[q].line = req[q].line /\ req'[q].seen = req[q].seen /\ Alters(q)
    BY <1>1, <2>1, ProceedParts
  <2>3. ASSUME DropTrunk(q) PROVE LineI'
    <3>1. trunks' = trunks \ {req[q].seen.trunk} /\ UNCHANGED <<lists, routes>>
      BY <2>1, <2>3 DEF DropTrunk, DropFails, Removed
    <3>2. op = IF req[q].seen.list # None THEN "drop_list" ELSE NextDrop(q)
      <4>1. Proceed(q, IF req[q].seen.list # None THEN "drop_list" ELSE NextDrop(q))
        BY <2>1, <2>3 DEF DropTrunk, DropFails
      <4> QED BY <1>1, <2>2, <4>1, ProceedParts
    <3>3. op = "disconnected" => ~req[q].seen.route
      BY <3>2 DEF NextDrop
    <3> QED BY <1>2, <1>3, <2>2, <3>1, <3>3, LineGoesOn
  <2>4. ASSUME DropList(q) PROVE LineI'
    <3>1. UNCHANGED <<trunks, routes>> /\ req[q].op # "drop_trunk"
      BY <2>4 DEF DropList, At
    <3>2. op = NextDrop(q)
      <4>1. Proceed(q, NextDrop(q))
        BY <2>1, <2>4 DEF DropList, DropFails
      <4> QED BY <1>1, <2>2, <4>1, ProceedParts
    <3>3. op = "disconnected" => ~req[q].seen.route
      BY <3>2 DEF NextDrop
    <3> QED BY <1>2, <1>3, <2>2, <3>1, <3>3, LineGoesOn
  <2>5. ASSUME DropRoute(q) PROVE LineI'
    <3>1. UNCHANGED trunks /\ req[q].op # "drop_trunk"
      BY <2>5 DEF DropRoute, At
    <3>2. routes' = routes \ {req[q].line}
      BY <2>1, <2>5 DEF DropRoute, DropFails, Removed
    <3> QED BY <1>2, <1>3, <2>2, <3>1, <3>2, LineGoesOn
  <2>6. LineI'
    BY <2>3, <2>4, <2>5 DEF Dropping
  <2>7. \A r \in Requests : req'[r].op \notin Calls
    BY <2>2 DEF Only, Alters, Calls, DisconnectStep
  <2> QED BY <1>2, <2>6, <2>7, RowsKept DEF LineStep
<1> QED BY <1>1, <1>4, <1>5

(* The steps that start a request on a line without writing its row.       *)
LEMMA StartingLineStep ==
  ASSUME Typed, LineI, NEW q \in Requests, Only(q),
         Provision(q) \/ DisconnectNumber(q) \/ Ring(q) \/ Admit(q)
  PROVE  LineStep
<1>1. UNCHANGED lineVars
  BY DEF Provision, DisconnectNumber, Ring, Admit
<1>2. UNCHANGED <<line, trunks, lists, routes>>
  BY <1>1 DEF lineVars
<1>3. CASE DisconnectNumber(q)
  <2>1. PICK c \in Connections, delete \in BOOLEAN :
          /\ line[c] # None
          /\ Become(q, [op |-> FirstDrop(line[c]), line |-> c, seen |-> line[c], delete |-> delete])
    BY <1>3 DEF DisconnectNumber
  <2>2. /\ req'[q].op = FirstDrop(line[c]) /\ req'[q].line = c /\ req'[q].seen = line[c] /\ Alters(q)
    BY <2>1, BecomeAlters
  <2>3. FirstDrop(line[c]) \in DisconnectStep
    BY DEF FirstDrop, DisconnectStep
  <2>4. None \notin trunks
    BY TelephonyAssumption DEF Typed, TelephonyTypeOK
  <2>5. /\ FirstDrop(line[c]) # "drop_trunk" => line[c].trunk \notin trunks
        /\ FirstDrop(line[c]) = "disconnected" => ~line[c].route
    BY <2>4 DEF FirstDrop
  <2>6. LineI'
    BY <1>2, <2>2, <2>3, <2>5, LineGoesOn
  <2>7. \A r \in Requests : req'[r].op \notin Calls
    BY <2>2, <2>3 DEF Only, Alters, Calls, DisconnectStep
  <2> QED BY <1>2, <2>6, <2>7, RowsKept DEF LineStep
<1>4. CASE Ring(q)
  <2>1. PICK c \in routes :
          /\ line[c] # None /\ line[c].enabled
          /\ Become(q, [op |-> "ring", line |-> c, state |-> line[c].state])
    BY <1>4 DEF Ring
  <2>2. req'[q].op = "ring" /\ req'[q].line = c /\ Alters(q)
    BY <2>1, BecomeAlters
  <2>3. LineI'
    BY <1>2, <2>2, LineGoesOn DEF ProvisionStep, DisconnectStep
  <2>4. c \in Connections
    BY DEF Typed, TelephonyTypeOK
  <2> QED BY <1>2, <2>1, <2>2, <2>3, <2>4, RowsKept DEF LineStep, Only, Alters, Calls
<1>5. CASE Admit(q)
  <2>1. PICK d : Become(q, d) /\ (d.op = "idle" \/ (d.op = "admit" /\ d.line = req[q].line))
    BY <1>5 DEF Admit, Idle
  <2>2. req'[q] = d /\ Alters(q)
    BY <2>1, BecomeAlters
  <2>3. LineI'
    BY <1>2, <2>1, <2>2, LineGoesOn DEF ProvisionStep, DisconnectStep
  <2>4. req[q].op = "ring"
    BY <1>5 DEF Admit, At
  <2> QED BY <1>2, <2>1, <2>2, <2>3, <2>4, RowsKept DEF LineStep, Only, Alters, Calls
<1>6. CASE Provision(q)
  <2>1. PICK c \in Connections :
          /\ line[c] # None /\ line[c].status \in Stopped
          /\ Become(q, [op |-> "claim", line |-> c, seen |-> line[c], made |-> Nothing])
    BY <1>6 DEF Provision, Stopped
  <2>2. req'[q].op = "claim" /\ req'[q].line = c /\ req'[q].seen = line[c] /\ Alters(q)
    BY <2>1, BecomeAlters
  <2>3. Bare(line[c])
    BY <2>1 DEF LineI, StoppedBare
  <2>4. LineI'
    BY <1>2, <2>2, <2>3, LineGoesOn DEF ProvisionStep
  <2>5. \A r \in Requests : req'[r].op \notin Calls
    BY <2>2 DEF Only, Alters, Calls
  <2> QED BY <1>2, <2>4, <2>5, RowsKept DEF LineStep
<1> QED BY <1>3, <1>4, <1>5, <1>6

(* The steps that write a row.                                             *)
LEMMA WritingLineStep ==
  ASSUME Typed, LineI, NEW q \in Requests, Only(q),
         \/ StoreProvisioned(q) \/ StoreFailed(q) \/ StoreDisconnected(q) \/ Remove(q)
  PROVE  LineStep
<1>0. None \notin trunks /\ req[q] \in AnyRequest /\ UNCHANGED <<trunks, routes>>
  BY TelephonyAssumption
  DEF Typed, TelephonyTypeOK, StoreProvisioned, StoreFailed, StoreDisconnected, Remove
<1>1. CASE StoreProvisioned(q)
  <2> DEFINE c == req[q].line  seen == req[q].seen  made == req[q].made  x == MadeLine(c, seen, made)
  <2>1. /\ c \in Connections /\ seen \in Line /\ made \in Made /\ line[c] = seen /\ Bare(seen)
        /\ line' = [line EXCEPT ![c] = x] \/ UNCHANGED line
        /\ Become(q, Idle) \/ RollBack(q, made)
    BY <1>1, StoreProvisionedParts
  <2>2. x.status \notin Stopped /\ x.route
    <3>1. Reached(c) \notin Stopped
      BY DEF Reached, Stopped
    <3> QED BY <2>1, <3>1, MadeLineParts
  <2>3. \/ req'[q].op = "idle" /\ Alters(q)
        \/ /\ req'[q].op \in ProvisionStep /\ req'[q].line = c /\ req'[q].seen = seen /\ Alters(q)
           /\ req'[q].made = made /\ req'[q].op \in {"back_trunk", "back_route", "failed"}
    <3>1. req[q].op \in ProvisionStep
      BY <1>1 DEF StoreProvisioned, At, ProvisionStep
    <3>2. CASE Become(q, Idle)
      BY <3>2, BecomeAlters DEF Idle
    <3>3. CASE RollBack(q, made)
      BY <3>1, <3>3, StepParts DEF RollBack, ProvisionStep
    <3> QED BY <2>1, <3>2, <3>3
  <2>4. req'[q].op \notin Calls /\ Alters(q)
    BY <2>3 DEF Calls, ProvisionStep
  <2>5. CASE line' = [line EXCEPT ![c] = x]
    <3>1. made.route
      BY <1>1 DEF StoreProvisioned, At, ProvisionStep, LineI, MakingBare, Spoilt
    <3>2. req'[q].op = "idle" \/ Spoilt(q)'
      BY <2>3, <3>1 DEF Spoilt
    <3>3. LineI'
      BY <2>1, <2>2, <2>3, <2>5, <3>2, LineIsWritten DEF ProvisionStep, DisconnectStep
    <3>4. line[c].trunk = None /\ ~line[c].route
      BY <2>1 DEF Bare
    <3> HIDE DEF x, c
    <3>5. Forgetless /\ (ReadyI /\ ~Asked("enable") => ReadyI')
      BY <1>0, <2>1, <2>2, <2>4, <2>5, <3>4, RowWritten DEF Routed
    <3> QED BY <3>3, <3>5 DEF LineStep
  <2>6. CASE UNCHANGED line
    <3>1. LineI'
      BY <2>1, <2>3, <2>6, LineGoesOn DEF ProvisionStep, DisconnectStep
    <3>2. \A r \in Requests : req'[r].op \notin Calls
      BY <2>4 DEF Only, Alters, Calls
    <3> QED BY <2>6, <3>1, <3>2, RowsKept DEF LineStep
  <2> QED BY <2>1, <2>5, <2>6
<1>2. CASE StoreFailed(q)
  <2> DEFINE c == req[q].line  seen == req[q].seen  made == req[q].made  x == FailedLine(seen, made)
  <2>0. CASE UNCHANGED line
    BY <1>2, <2>0, EndsLineStep DEF StoreFailed
  <2> SUFFICES ASSUME ~UNCHANGED line PROVE LineStep
    BY <2>0
  <2>1. /\ c \in Connections /\ seen \in Line /\ made \in Made /\ line[c] = seen /\ Bare(seen)
        /\ line' = [line EXCEPT ![c] = x] /\ Become(q, Idle)
    BY <1>2, StoreFailedParts
  <2>2. x.status = "error" /\ x.trunk = None /\ ~x.route /\ x.enabled = FALSE
    <3>1. x.status = "error" /\ x.trunk = seen.trunk /\ x.route = seen.route /\ x.enabled = FALSE
      BY <2>1, FailedLineParts
    <3> HIDE DEF x
    <3> QED BY <2>1, <3>1 DEF Bare
  <2>3. req'[q].op = "idle" /\ Alters(q)
    BY <2>1, BecomeAlters DEF Idle
  <2>4. LineI'
    BY <2>1, <2>2, <2>3, LineIsWritten DEF ProvisionStep, DisconnectStep, Bare
  <2>5. line[c].trunk = None /\ ~line[c].route
    BY <2>1 DEF Bare
  <2> HIDE DEF x, c
  <2>6. Forgetless /\ (ReadyI /\ ~Asked("enable") => ReadyI')
    BY <1>0, <2>1, <2>2, <2>3, <2>5, RowWritten DEF Calls, Routed
  <2> QED BY <2>4, <2>6 DEF LineStep
<1>3. CASE StoreDisconnected(q)
  <2> DEFINE c == req[q].line  seen == req[q].seen  x == DroppedLine(seen)
  <2>0. CASE UNCHANGED line /\ Become(q, Idle)
    BY <2>0, EndsLineStep
  <2> SUFFICES ASSUME ~(UNCHANGED line /\ Become(q, Idle)) PROVE LineStep
    BY <2>0
  <2>1. /\ c \in Connections /\ seen \in Line /\ line[c] = seen
        /\ seen.trunk \notin trunks /\ (seen.route => c \notin routes)
        /\ line' = [line EXCEPT ![c] = x]
        /\ Become(q, Idle) \/ Become(q, [op |-> "remove", line |-> c])
    BY <1>3, StoreDisconnectedParts
  <2>2. x # None /\ x.status = "disconnected" /\ x.trunk = None /\ ~x.route /\ x.enabled = FALSE
    BY <2>1, DroppedLineParts, LinesAssumption
  <2>3. Alters(q) /\ (req'[q].op = "idle" \/ (req'[q].op = "remove" /\ req'[q].line = c))
    BY <2>1, BecomeAlters DEF Idle
  <2>4. LineI'
    BY <2>1, <2>2, <2>3, LineIsWritten DEF ProvisionStep, DisconnectStep, Bare
  <2>5. UNCHANGED <<trunks, routes>>
    BY <1>3 DEF StoreDisconnected
  <2> HIDE DEF x, c
  <2>6. Forgetless /\ (ReadyI /\ ~Asked("enable") => ReadyI')
    BY <2>1, <2>2, <2>3, <2>5, RowWritten DEF Calls, Routed
  <2> QED BY <2>4, <2>6 DEF LineStep
<1>4. CASE Remove(q)
  <2>1. req[q].op = "remove" /\ Become(q, Idle) /\ UNCHANGED <<trunks, routes>>
    BY <1>4 DEF Remove, At
  <2> DEFINE c == req[q].line
  <2>2. c \in Connections /\ Bare(line[c])
    BY <1>0, <2>1, TelephonyParts DEF LineI, RemovedBare
  <2>3. req'[q].op = "idle" /\ Alters(q)
    BY <2>1, BecomeAlters DEF Idle
  <2>4. CASE line' = [line EXCEPT ![c] = None]
    <3> HIDE DEF c
    <3>1. LineI'
      BY <2>2, <2>3, <2>4, LineIsWritten DEF ProvisionStep, DisconnectStep
    <3>2. Forgetless /\ (ReadyI /\ ~Asked("enable") => ReadyI')
      BY <1>0, <2>1, <2>2, <2>3, <2>4, RowWritten DEF Calls, Bare
    <3> QED BY <3>1, <3>2 DEF LineStep
  <2>5. CASE UNCHANGED line
    BY <2>1, <2>5, EndsLineStep
  <2> QED BY <1>4, <2>4, <2>5 DEF Remove
<1> QED BY <1>1, <1>2, <1>3, <1>4

LEMMA OtherLineStep ==
  ASSUME Typed, LineI, NEW q \in Requests, Only(q),
         AddNumber(q) \/ SetEnabled(q) \/ Claim(q) \/ Activate(q)
  PROVE  LineStep
<1>0. /\ None \notin trunks /\ req[q] \in AnyRequest /\ None \notin Line
      /\ \A c \in Connections : line[c] # None => line[c] \in Line
      /\ UNCHANGED <<trunks, routes>>
  BY TelephonyAssumption, LinesAssumption
  DEF Typed, TelephonyTypeOK, AddNumber, SetEnabled, Claim, Activate
<1>1. CASE AddNumber(q)
  <2>1. req' = req /\ req[q].op = "idle"
    BY <1>1 DEF AddNumber, Free, Idle
  <2>2. Alters(q) /\ req'[q].op = "idle"
    BY <2>1 DEF Alters
  <2>3. CASE UNCHANGED line
    <3>1. LineI'
      BY <2>2, <2>3, LineGoesOn DEF ProvisionStep, DisconnectStep
    <3> QED BY <2>1, <2>3, <3>1, RowsKept DEF LineStep
  <2>4. CASE ~UNCHANGED line
    <3>1. PICK c \in FreshLines : line' = [line EXCEPT ![c] = NewLine]
      BY <1>1, <2>4 DEF AddNumber, NewLine
    <3>2. c \in Connections /\ line[c] = None
      BY LinesAssumption DEF FreshLines, Typed, WorkspaceTypeOK
    <3>3. Bare(NewLine) /\ Routed(NewLine)
      BY NewLineParts DEF Routed, NewLine
    <3>4. LineI'
      BY <2>2, <3>1, <3>2, <3>3, LineIsWritten DEF ProvisionStep, DisconnectStep
    <3>5. Forgetless /\ (ReadyI /\ ~Asked("enable") => ReadyI')
      BY <2>2, <3>1, <3>2, <3>3, RowWritten DEF Calls
    <3> QED BY <3>4, <3>5 DEF LineStep
  <2> QED BY <2>3, <2>4
<1>2. CASE SetEnabled(q)
  <2>1. req' = req /\ req[q].op = "idle" /\ Asked("enable")
    BY <1>2 DEF SetEnabled, Free, Idle
  <2>2. Alters(q) /\ req'[q].op = "idle"
    BY <2>1 DEF Alters
  <2>3. PICK c \in Connections, e \in BOOLEAN : line[c] # None /\ line' = [line EXCEPT ![c].enabled = e]
    BY <1>2 DEF SetEnabled
  <2> DEFINE x == [line[c] EXCEPT !.enabled = e]
  <2>4. line' = [line EXCEPT ![c] = x]
    BY <2>3
  <2>5. x # None /\ x.status = line[c].status /\ x.trunk = line[c].trunk /\ x.route = line[c].route
    <3>1. x \in Line
      BY <1>0, <2>3 DEF Line
    <3>2. x.status = line[c].status /\ x.trunk = line[c].trunk /\ x.route = line[c].route
      BY <1>0, <2>3 DEF Line
    <3> QED BY <1>0, <3>1, <3>2
  <2> HIDE DEF x
  <2>6. x.status \in Stopped => Bare(x)
    BY <2>3, <2>5 DEF LineI, StoppedBare, Bare
  <2>7. LineI'
    BY <2>2, <2>4, <2>6, LineIsWritten DEF ProvisionStep, DisconnectStep
  <2>8. Forgetless /\ (ReadyI /\ ~Asked("enable") => ReadyI')
    BY <2>1, <2>2, <2>4, <2>5, RowWritten DEF Calls
  <2> QED BY <2>7, <2>8 DEF LineStep
<1>3. CASE Claim(q)
  <2>0. CASE UNCHANGED line /\ Become(q, Idle)
    BY <2>0, EndsLineStep
  <2> SUFFICES ASSUME ~(UNCHANGED line /\ Become(q, Idle)) PROVE LineStep
    BY <2>0
  <2> DEFINE c == req[q].line  x == [line[c] EXCEPT !.status = "provisioning"]
  <2>1. /\ c \in Connections /\ line[c] # None /\ line[c] = req[q].seen /\ Bare(line[c])
        /\ line' = [line EXCEPT ![c] = x] /\ Become(q, Claimed(q))
    <3>1. req[q].op \in ProvisionStep /\ ~Spoilt(q)
      BY <1>3 DEF Claim, At, ProvisionStep, Spoilt
    <3>2. line[c] = req[q].seen /\ Bare(req[q].seen)
      BY <3>1 DEF LineI, MakingBare
    <3> QED BY <1>3, <3>1, <3>2, ClaimSteps
  <2>2. line' = [line EXCEPT ![c] = x]
    BY <2>1
  <2>3. /\ x.status = "provisioning" /\ x.trunk = line[c].trunk /\ x.route = line[c].route
        /\ x.enabled = line[c].enabled
    BY <1>0, <2>1 DEF Line
  <2>4. Bare(x)
    BY <2>1, <2>3 DEF Bare
  <2>5. /\ req'[q].op \in {"new_trunk", "route"} /\ req'[q].line = c /\ req'[q].seen = x /\ Alters(q)
    BY <2>1, BecomeAlters DEF Claimed
  <2> HIDE DEF x, c
  <2>6. LineI'
    BY <2>1, <2>2, <2>4, <2>5, LineIsWritten DEF ProvisionStep
  <2>7. ReadyI => Routed(x)
    BY <2>1, <2>3 DEF ReadyI, Routed
  <2>8. Forgetless /\ (ReadyI /\ ~Asked("enable") => ReadyI')
    <3>1. line[c] # None /\ (x = None \/ x.trunk # line[c].trunk) => line[c].trunk \notin trunks'
      BY <1>0, <2>3, <2>4 DEF Bare
    <3>2. ~line[c].route /\ c \in Connections
      BY <2>1, <2>3, <2>4 DEF Bare
    <3>3. req'[q].op \notin Calls /\ Alters(q)
      BY <2>5 DEF Calls
    <3> QED BY <2>2, <2>7, <3>1, <3>2, <3>3, RowWritten
  <2> QED BY <2>6, <2>8 DEF LineStep
<1>4. CASE Activate(q)
  <2> DEFINE c == req[q].line
  <2>1. req[q].op = "admit" /\ Become(q, Idle) /\ c \in Connections
    BY <1>0, <1>4, TelephonyParts DEF Activate, At
  <2>2. req'[q].op = "idle" /\ Alters(q)
    BY <2>1, BecomeAlters DEF Idle
  <2>3. CASE UNCHANGED line
    BY <2>1, <2>3, EndsLineStep
  <2>4. CASE line[c] # None /\ ~UNCHANGED line
    <3> DEFINE x == [[line[c] EXCEPT !.status = "active"] EXCEPT
                       !.state = Column(line[c].state, req[q].state, "connected")]
    <3>1. line[c] \in Line
      BY <1>0, <2>1, <2>4
    <3>2. line' = [line EXCEPT ![c] = x]
      <4>1. line' = [line EXCEPT ![c].status = "active",
                                 ![c].state = Column(@, req[q].state, "connected")]
        BY <1>4, <2>4 DEF Activate
      <4> QED BY <2>1, <3>1, <4>1 DEF Typed, TelephonyTypeOK, Line
    <3>3. x.trunk = line[c].trunk /\ x.route = line[c].route /\ x.status = "active"
      BY <3>1 DEF Line
    <3>4. x # None
      <4>1. x \in Line
        <5>1. req[q].state \in PhoneState
          BY <1>0, <2>1, TelephonyParts
        <5> QED BY <3>1, <5>1 DEF Line, LineStatus, PhoneState, Column
      <4> QED BY <1>0, <4>1
    <3>5. ReadyI => Routed(x)
      BY <2>1, <3>3 DEF ReadyI, CallsRouted, Calls, Routed
    <3> HIDE DEF x, c
    <3>6. LineI'
      BY <2>1, <2>2, <3>2, <3>3, LineIsWritten DEF ProvisionStep, DisconnectStep, Stopped
    <3>7. Forgetless /\ (ReadyI /\ ~Asked("enable") => ReadyI')
      BY <2>1, <2>2, <3>2, <3>3, <3>4, <3>5, RowWritten DEF Calls
    <3> QED BY <3>6, <3>7 DEF LineStep
  <2> QED BY <1>4, <2>3, <2>4 DEF Activate
<1> QED BY <1>1, <1>2, <1>3, <1>4

LEMMA TelephonyLineStep ==
  ASSUME Typed, Serial, Alone, LineI, TelephonyStep
  PROVE  LineStep
<1>1. PICK q \in Requests :
        \/ Provisioning(q) \/ Dropping(q)
        \/ Provision(q) \/ DisconnectNumber(q) \/ Ring(q) \/ Admit(q)
        \/ StoreProvisioned(q) \/ StoreFailed(q) \/ StoreDisconnected(q) \/ Remove(q)
        \/ AddNumber(q) \/ SetEnabled(q) \/ Claim(q) \/ Activate(q)
  BY DEF TelephonyStep, Provisioning, Dropping
<1>2. Free(q) \/ req[q].op # "idle"
  <2>1. ProvisionStep \union DisconnectStep \subseteq OnLine /\ "idle" \notin OnLine
    BY DEF OnLine, ProvisionStep, DisconnectStep
  <2>2. Provisioning(q) \/ Dropping(q) => req[q].op # "idle"
    BY <2>1, ProvisioningSteps, DroppingSteps
  <2> QED
    BY <1>1, <2>2 DEF DisconnectNumber, Ring, Admit, StoreProvisioned, StoreFailed, StoreDisconnected,
       Remove, AddNumber, SetEnabled, Provision, Claim, Activate, At
<1>3. Only(q)
  BY <1>2, FreeOrBusy
<1> QED
  BY <1>1, <1>3, MakingLineStep, DroppingLineStep, StartingLineStep, WritingLineStep, OtherLineStep

(* The steps of other parts start nothing on a line.                       *)
LEMMA NoLineStarts ==
  ASSUME Typed, WorkspaceStep \/ ExtensionStep \/ UNCHANGED officeVars
  PROVE  NoneStarts
<1>1. ASSUME NEW q \in Requests, NEW ops, Moves(q, ops), ops \intersect OnLine = {} PROVE NoneStarts
  BY <1>1 DEF Moves, Alters, NoneStarts
<1>2. UNCHANGED req => NoneStarts
  BY DEF NoneStarts
<1>3. ASSUME NEW p \in Processes, ProcessDies(p) PROVE NoneStarts
  BY <1>3 DEF ProcessDies, Idle, NoneStarts, OnLine, ProvisionStep, DisconnectStep
<1>4. WorkspaceOps \intersect OnLine = {} /\ ExtensionOps \intersect OnLine = {}
  BY DEF WorkspaceOps, ExtensionOps, OnExtension, OnLine, ProvisionStep, DisconnectStep
<1> QED
  BY <1>1, <1>2, <1>3, <1>4, WorkspaceMoves, ExtensionMoves DEF officeVars, telephonyVars, workspaceVars

LEMMA EveryLineStep ==
  ASSUME Typed, TrunkFirst, Serial, Alone, LineI, Next \/ UNCHANGED officeVars
  PROVE  LineStep
<1>1. CASE TelephonyStep
  BY <1>1, TelephonyLineStep
<1>2. CASE ~TelephonyStep
  <2>1. NoneStarts
    BY <1>2, NoLineStarts DEF Next
  <2>2. UNCHANGED lineVars
    BY <1>2 DEF Next, officeVars, telephonyVars
  <2>3. LineI'
    BY <2>1, <2>2, LineStays
  <2>4. Calls \subseteq OnLine
    BY DEF Calls, OnLine
  <2>5. Forgetless /\ (ReadyI => ReadyI')
    BY <2>1, <2>2, <2>4, RowsKept DEF NoneStarts, lineVars
  <2> QED BY <2>3, <2>5 DEF LineStep
<1> QED BY <1>1, <1>2

SerialLines == Serial => Alone /\ LineI /\ (~Asked("enable") => ReadyI)

LEMMA SerialLinesHold == Spec => []SerialLines
<1>1. Init => SerialLines
  <2>1. ASSUME Init PROVE \A q \in Requests : req[q].op = "idle"
    BY <2>1 DEF Init, WorkspaceInit, Idle
  <2>2. ASSUME Init PROVE \A c \in Connections : line[c] = None
    BY <2>2 DEF Init, TelephonyInit
  <2> QED
    BY <2>1, <2>2 DEF SerialLines, Alone, LineI, StoppedBare, MakingBare, DroppedFirst, RemovedBare,
       ReadyI, CallsRouted, Calls, ProvisionStep, DisconnectStep
<1>2. Typed /\ TrunkFirst /\ SerialLines /\ [Next]_officeVars => SerialLines'
  <2>1. ASSUME Typed, TrunkFirst, SerialLines, [Next]_officeVars, Serial'
        PROVE  Alone' /\ LineI' /\ (~Asked("enable")' => ReadyI')
    <3>1. Serial /\ (Asked("enable")' <=> Asked("enable"))
      BY <2>1, EnvStays DEF Serial, Asked
    <3> QED BY <2>1, <3>1, AloneStep, EveryLineStep DEF SerialLines, LineStep
  <2> QED BY <2>1 DEF SerialLines
<1> QED BY <1>1, <1>2, TypedInvariant, PTL DEF Spec

(* As long as requests do not overlap, and whatever crashes or goes        *)
(* unanswered, a connection's row stops naming a trunk or a route, or is   *)
(* deleted, only when that trunk or route is gone.                         *)
THEOREM ProviderThingsNamed == Spec => NeverForgotten
<1>1. Typed /\ TrunkFirst /\ SerialLines /\ [Next]_officeVars =>
        [~Suffers({"parallel"}) => Forgetless]_telephonyVars
  <2>1. ~Suffers({"parallel"}) => Serial
    BY DEF Suffers, Serial
  <2> QED BY <2>1, EveryLineStep DEF SerialLines, LineStep
<1>2. [~Suffers({"parallel"}) => Forgetless]_telephonyVars =>
        [~Suffers({"parallel"}) =>
           \A c \in Connections :
             /\ Forgets(c, "trunk") => line[c].trunk \notin trunks'
             /\ Forgets(c, "route") /\ line[c].route => c \notin routes']_telephonyVars
  BY DEF Forgetless
<1> QED BY <1>1, <1>2, TypedInvariant, SerialLinesHold, PTL DEF Spec, NeverForgotten

(* A number is switched on, or its connection active, only while the row   *)
(* names the route that is to be taken down again, also when an inbound    *)
(* call that found it so is admitted and activates it later.               *)
THEOREM ReadyLinesRouted == Spec => []ReadyIsProvisioned
<1>1. SerialLines => ReadyIsProvisioned
  BY DEF SerialLines, Serial, ReadyI, Routed, ReadyIsProvisioned, Suffers
<1> QED BY <1>1, SerialLinesHold, PTL

-----------------------------------------------------------------------------
(* Extensions, one request at a time.  A request that is to change a row   *)
(* has told Asterisk what the row will say, and the row is still as it was *)
(* read.                                                                   *)

Told ==
  \A q \in Requests :
    /\ req[q].op = "new_row" => endpoint[req[q].extension] = req[q].new
    /\ req[q].op = "change_row" =>
         row[req[q].extension] = req[q].seen /\ endpoint[req[q].extension] = req[q].new
    /\ req[q].op = "delete_row" => endpoint[req[q].extension] = None

Follows == \A x \in Extensions : row'[x] # row[x] => endpoint'[x] = row'[x]

LEMMA ToldEnds ==
  ASSUME NEW q \in Requests, Only(q), Alters(q), req'[q].op \notin OnExtension \ {"forget"}
  PROVE  Told'
<1>1. \A r \in Requests : req'[r].op \notin OnExtension \ {"forget"}
  BY DEF Only, Alters, OnExtension
<1> QED BY <1>1 DEF Told, OnExtension

(* Asterisk is told, and the request goes on only if it answers.           *)
LEMMA Telling ==
  ASSUME Typed, Told, NEW q \in Requests, Only(q), NEW x \in Extensions, NEW state, NEW d,
         Tell(q, x, state, d), UNCHANGED row,
         \/ d.op \notin OnExtension \ {"forget"}
         \/ /\ d.op \in OnExtension /\ d.extension = x
            /\ d.op \in {"new_row", "change_row"} => d.new = state
            /\ d.op = "change_row" => d.seen = row[x]
            /\ d.op = "delete_row" => state = None
  PROVE  Told' /\ Follows
<1>1. Follows
  BY DEF Follows
<1>2. CASE Become(q, Idle)
  <2>1. req'[q].op = "idle" /\ Alters(q)
    BY <1>2, BecomeAlters DEF Idle
  <2> QED BY <1>1, <2>1, ToldEnds DEF OnExtension
<1>3. CASE Become(q, d) /\ endpoint' = [endpoint EXCEPT ![x] = state]
  <2>1. req'[q] = d /\ Alters(q) /\ endpoint'[x] = state
    BY <1>3, BecomeAlters DEF Typed, ExtensionsTypeOK
  <2>2. CASE d.op \notin OnExtension \ {"forget"}
    BY <1>1, <2>1, <2>2, ToldEnds
  <2>3. CASE d.op \in OnExtension \ {"forget"}
    <3>1. \A r \in Requests : r # q => req'[r].op = "idle"
      BY <2>1 DEF Only, Alters
    <3>2. Told'
      BY <2>1, <2>3, <3>1 DEF Told, OnExtension
    <3> QED BY <1>1, <3>2
  <2> QED BY <2>2, <2>3
<1> QED BY <1>2, <1>3 DEF Tell

LEMMA ExtensionTold ==
  ASSUME Typed, Serial, Alone, Told, ExtensionStep
  PROVE  Told' /\ Follows
<1>0. req \in [Requests -> AnyRequest]
  BY DEF Typed
<1>1. PICK q \in Requests :
        \/ CreateExtension(q) \/ StoreExtension(q) \/ ForgetExtension(q)
        \/ ChangeExtension(q) \/ StoreChange(q) \/ DeleteExtension(q) \/ RemoveRow(q)
  BY DEF ExtensionStep
<1>2. Only(q)
  <2>1. Free(q) \/ req[q].op # "idle"
    BY <1>1 DEF CreateExtension, StoreExtension, ForgetExtension, ChangeExtension, StoreChange,
                DeleteExtension, RemoveRow
  <2> QED BY <2>1, FreeOrBusy
<1>3. CASE CreateExtension(q)
  <2>1. CASE UNCHANGED <<endpoint, req>>
    BY <1>3, <2>1 DEF CreateExtension, Told, Follows
  <2>2. ASSUME NEW x \in Fresh, NEW new,
               Tell(q, x, new, [op |-> "new_row", extension |-> x, new |-> new])
        PROVE  Told' /\ Follows
    <3> DEFINE d == [op |-> "new_row", extension |-> x, new |-> new]
    <3>1. d.op = "new_row" /\ d.extension = x /\ d.new = new
      OBVIOUS
    <3>2. x \in Extensions /\ UNCHANGED row
      BY <1>3 DEF Fresh, CreateExtension
    <3>3. Tell(q, x, new, d)
      BY <2>2
    <3> HIDE DEF d
    <3> QED BY <1>2, <3>1, <3>2, <3>3, Telling DEF OnExtension
  <2> QED BY <1>3, <2>1, <2>2 DEF CreateExtension
<1>4. CASE ForgetExtension(q)
  <2>1. req[q].extension \in Extensions /\ UNCHANGED row /\ Tell(q, req[q].extension, None, Idle)
    BY <1>0, <1>4, ExtensionParts DEF ForgetExtension
  <2>2. Idle.op \notin OnExtension
    BY DEF Idle, OnExtension
  <2> QED BY <1>2, <2>1, <2>2, Telling
<1>5. CASE ChangeExtension(q)
  <2>1. PICK x \in Extensions : \E new \in Changes(x) :
          Tell(q, x, new, [op |-> "change_row", extension |-> x, seen |-> row[x], new |-> new])
    BY <1>5 DEF ChangeExtension
  <2>2. PICK new \in Changes(x) :
          Tell(q, x, new, [op |-> "change_row", extension |-> x, seen |-> row[x], new |-> new])
    BY <2>1
  <2> DEFINE d == [op |-> "change_row", extension |-> x, seen |-> row[x], new |-> new]
  <2>3. d.op = "change_row" /\ d.extension = x /\ d.seen = row[x] /\ d.new = new
    OBVIOUS
  <2>4. Tell(q, x, new, d) /\ UNCHANGED row
    BY <1>5, <2>2 DEF ChangeExtension
  <2> HIDE DEF d
  <2> QED BY <1>2, <2>3, <2>4, Telling DEF OnExtension
<1>6. CASE DeleteExtension(q)
  <2>1. PICK x \in Extensions : Tell(q, x, None, [op |-> "delete_row", extension |-> x])
    BY <1>6 DEF DeleteExtension
  <2> DEFINE d == [op |-> "delete_row", extension |-> x]
  <2>2. d.op = "delete_row" /\ d.extension = x
    OBVIOUS
  <2>3. Tell(q, x, None, d) /\ UNCHANGED row
    BY <1>6, <2>1 DEF DeleteExtension
  <2> HIDE DEF d
  <2> QED BY <1>2, <2>2, <2>3, Telling DEF OnExtension
<1>7. CASE StoreExtension(q) \/ StoreChange(q) \/ RemoveRow(q)
  <2>1. req'[q].op \notin OnExtension \ {"forget"} /\ Alters(q)
    <3>1. Become(q, Idle) \/ Become(q, [op |-> "forget", extension |-> req[q].extension])
      BY <1>7 DEF StoreExtension, StoreChange, RemoveRow
    <3> QED BY <3>1, BecomeAlters DEF Idle, OnExtension
  <2>2. Told'
    BY <1>2, <2>1, ToldEnds
  <2>3. endpoint' = endpoint
    BY <1>7 DEF StoreExtension, StoreChange, RemoveRow
  <2> DEFINE x == req[q].extension
  <2>4. CASE StoreExtension(q)
    <3>1. x \in Extensions /\ endpoint[x] = req[q].new /\ row' \in {row, [row EXCEPT ![x] = req[q].new]}
      BY <1>0, <2>4, ExtensionParts DEF StoreExtension, Told
    <3>2. Follows
      BY <2>3, <3>1 DEF Follows, Typed, ExtensionsTypeOK
    <3> QED BY <2>2, <3>2
  <2>5. CASE StoreChange(q)
    <3> DEFINE seen == req[q].seen  new == req[q].new
               y == [row[x] EXCEPT !.password = Column(@, seen.password, new.password),
                                   !.enabled = Column(@, seen.enabled, new.enabled),
                                   !.name = Column(@, seen.name, new.name)]
    <3>1. /\ x \in Extensions /\ seen \in Extension /\ new \in Extension
          /\ row[x] = seen /\ endpoint[x] = new
      BY <1>0, <2>5, ExtensionParts DEF StoreChange, Told
    <3>2. row[x] # None
      BY <3>1, ExtensionsAssumption
    <3>3. UNCHANGED row \/ row' = [row EXCEPT ![x] = y]
      BY <2>5, <3>2 DEF StoreChange
    <3>4. y = new
      BY <3>1 DEF Column, Extension
    <3> HIDE DEF y, seen, new, x
    <3>5. Follows
      BY <2>3, <3>1, <3>3, <3>4 DEF Follows, Typed, ExtensionsTypeOK
    <3> QED BY <2>2, <3>5
  <2>6. CASE RemoveRow(q)
    <3>1. x \in Extensions /\ endpoint[x] = None /\ row' \in {row, [row EXCEPT ![x] = None]}
      BY <1>0, <2>6, ExtensionParts DEF RemoveRow, Told
    <3>2. Follows
      BY <2>3, <3>1 DEF Follows, Typed, ExtensionsTypeOK
    <3> QED BY <2>2, <3>2
  <2> QED BY <1>7, <2>4, <2>5, <2>6
<1> QED BY <1>1, <1>3, <1>4, <1>5, <1>6, <1>7

LEMMA OtherTold ==
  ASSUME Typed, Told, UNCHANGED extensionVars,
         WorkspaceStep \/ TelephonyStep \/ UNCHANGED officeVars
  PROVE  Told' /\ Follows
<1>1. Follows
  BY DEF Follows, extensionVars
<1>2. ASSUME \A r \in Requests : req'[r].op \in OnExtension => req'[r] = req[r] PROVE Told'
  BY <1>2 DEF Told, OnExtension, extensionVars
<1>3. ASSUME NEW q \in Requests, NEW ops, Moves(q, ops), ops \intersect OnExtension = {} PROVE Told'
  BY <1>2, <1>3 DEF Moves, Alters
<1>4. ASSUME NEW q \in Requests, Admit(q) \/ Activate(q) PROVE Told'
  <2>1. PICK d : Become(q, d) /\ d.op \in {"idle", "admit"}
    BY <1>4 DEF Admit, Activate, Idle
  <2> QED BY <1>2, <2>1, BecomeAlters DEF Alters, OnExtension
<1>5. ASSUME NEW p \in Processes, ProcessDies(p) PROVE Told'
  BY <1>2, <1>5 DEF ProcessDies, Idle, OnExtension
<1>6. UNCHANGED req => Told'
  BY <1>2
<1>7. WorkspaceOps \intersect OnExtension = {} /\ TelephonyOps \intersect OnExtension = {}
  BY DEF WorkspaceOps, TelephonyOps, OnExtension, ProvisionStep, DisconnectStep
<1> QED
  BY <1>1, <1>3, <1>4, <1>5, <1>6, <1>7, WorkspaceMoves, TelephonyMoves
  DEF officeVars, telephonyVars, workspaceVars

SerialTold == Serial => Alone /\ Told

LEMMA ToldStep ==
  ASSUME Typed, TrunkFirst, SerialTold, Serial, Next \/ UNCHANGED officeVars
  PROVE  Told' /\ Follows
<1>1. CASE ExtensionStep
  BY <1>1, ExtensionTold DEF SerialTold
<1>2. CASE ~ExtensionStep
  BY <1>2, OtherTold DEF SerialTold, Next, officeVars
<1> QED BY <1>1, <1>2

(* Whatever becomes of an extension's row, Asterisk has it already: when a *)
(* row appears, changes or goes, its endpoint is exactly what the row now  *)
(* says, also after crashes and lost answers, unless requests overlap.     *)
THEOREM AsteriskComesFirst == Spec => RowFollowsEndpoint
<1>1. Init => SerialTold
  BY DEF Init, WorkspaceInit, Idle, SerialTold, Alone, Told
<1>2. Typed /\ TrunkFirst /\ SerialTold /\ [Next]_officeVars => SerialTold'
  <2>1. ASSUME Typed, TrunkFirst, SerialTold, [Next]_officeVars, Serial' PROVE Alone' /\ Told'
    <3>1. Serial
      BY <2>1, EnvStays DEF Serial
    <3> QED BY <2>1, <3>1, AloneStep, ToldStep DEF SerialTold
  <2> QED BY <2>1 DEF SerialTold
<1>3. Typed /\ TrunkFirst /\ SerialTold /\ [Next]_officeVars =>
        [\A x \in Extensions :
           "parallel" \notin env.faults /\ row'[x] # row[x] => endpoint'[x] = row'[x]
        ]_<<extensionVars, workspaceVars>>
  BY ToldStep DEF Serial, Follows
<1> QED BY <1>1, <1>2, <1>3, TypedInvariant, PTL DEF Spec, RowFollowsEndpoint

-----------------------------------------------------------------------------
(* Provisioning that is refused undoes everything.  A trunk is made before *)
(* its list and both before the route, and every way back passes what was  *)
(* made: what a request knows it made is all that its row does not name.   *)

Benign == ~Suffers({"parallel", "crash", "lost", "cleanup", "database"})

Storing(c) == \E q \in Requests : req[q].op = "store" /\ req[q].line = c

TrunksNamed ==
  \A t \in trunks :
    \/ \E c \in Connections : line[c] # None /\ line[c].trunk = t
    \/ \E q \in Requests : req[q].op \in ProvisionStep /\ req[q].made.trunk = t
ListsNamed ==
  \A t \in lists :
    \/ \E c \in Connections : line[c] # None /\ line[c].list = t
    \/ \E q \in Requests : req[q].op \in ProvisionStep /\ req[q].made.list = t
RoutesNamed == \A c \in routes : line[c] # None /\ (line[c].route \/ Storing(c))

(* A row without a trunk may name a list that is gone, never one that is   *)
(* there.                                                                  *)
RowsClean ==
  \A c \in Connections : line[c] # None /\ line[c].trunk = None => line[c].list \notin lists

CleanMaking(c, op, made, T, L) ==
  /\ made.list \in {None, made.trunk}
  /\ made.trunk # None =>
       Twilio(c) /\ \A d \in Connections : line[d] # None => line[d].list # made.trunk
  /\ op = "claim" => made = Nothing
  /\ op = "new_trunk" => Twilio(c) /\ made = Nothing
  /\ op = "new_list" => made.list = None
  /\ op \in {"undo_list", "back_list", "back_route", "failed"} => made.trunk \notin T
  /\ op \in {"back_route", "failed"} => made.list \notin L
  /\ made.route => op = "store"
MakingClean ==
  \A q \in Requests : req[q].op \in ProvisionStep =>
    CleanMaking(req[q].line, req[q].op, req[q].made, trunks, lists)
DroppingClean ==
  \A q \in Requests : req[q].op \in {"drop_route", "disconnected"} => req[q].seen.list \notin lists

CleanI == TrunksNamed /\ ListsNamed /\ RoutesNamed /\ RowsClean /\ MakingClean /\ DroppingClean

(* A request that has made nothing.                                        *)
Unmade(r) == r.op \in ProvisionStep => r.op = "claim" /\ r.made = Nothing

LEMMA NothingParts == Nothing.trunk = None /\ Nothing.list = None /\ ~Nothing.route
  BY DEF Nothing

LEMMA NoneOutside ==
  ASSUME Typed
  PROVE  None \notin trunks /\ None \notin lists
  BY TelephonyAssumption DEF Typed, TelephonyTypeOK

(* Requests that provision go on; rows stay.                               *)
LEMMA CleanMakes ==
  ASSUME Typed, CleanI, NEW q \in Requests, Only(q), req[q].op \in ProvisionStep \ {"store"},
         NEW op \in ProvisionStep, NEW made, Step(q, op, made), UNCHANGED line,
         trunks' \subseteq trunks \union {made.trunk},
         req[q].made.trunk \in trunks' => made.trunk = req[q].made.trunk,
         lists' \subseteq lists \union {made.list},
         req[q].made.list \in lists' => made.list = req[q].made.list,
         routes' \subseteq routes \union (IF op = "store" THEN {req[q].line} ELSE {}),
         op = "store" => line[req[q].line] # None,
         None \notin lists',
         CleanMaking(req[q].line, op, made, trunks', lists')
  PROVE  CleanI'
<1>1. /\ req'[q].op = op /\ req'[q].line = req[q].line /\ req'[q].made = made /\ Alters(q)
  BY StepParts
<1>2. \A r \in Requests : r # q => req[r].op = "idle" /\ req'[r].op = "idle"
  BY <1>1 DEF Only, Alters
<1>3. "idle" \notin ProvisionStep \union {"store", "drop_route", "disconnected"}
  BY DEF ProvisionStep
<1>4. TrunksNamed'
  BY <1>1, <1>2, <1>3 DEF CleanI, TrunksNamed
<1>5. ListsNamed'
  BY <1>1, <1>2, <1>3 DEF CleanI, ListsNamed
<1>6. RoutesNamed'
  BY <1>1, <1>2, <1>3 DEF CleanI, RoutesNamed, Storing
<1>7. RowsClean'
  BY DEF CleanI, RowsClean, CleanMaking
<1>8. MakingClean'
  BY <1>1, <1>2, <1>3 DEF MakingClean, CleanMaking
<1>9. DroppingClean'
  BY <1>1, <1>2, <1>3 DEF DroppingClean, ProvisionStep
<1> QED BY <1>4, <1>5, <1>6, <1>7, <1>8, <1>9 DEF CleanI

(* A request that has made nothing goes on; less is there than before.     *)
LEMMA CleanDrops ==
  ASSUME Typed, CleanI, NEW q \in Requests, Only(q), Alters(q), UNCHANGED line,
         Unmade(req[q]), Unmade(req'[q]),
         trunks' \subseteq trunks, lists' \subseteq lists, routes' \subseteq routes,
         req'[q].op \in {"drop_route", "disconnected"} => req'[q].seen.list \notin lists'
  PROVE  CleanI'
<1>1. \A r \in Requests : r # q => req[r].op = "idle" /\ req'[r].op = "idle"
  BY DEF Only, Alters
<1>2. "idle" \notin ProvisionStep \union {"drop_route", "disconnected"} /\ "store" \in ProvisionStep
  BY DEF ProvisionStep
<1>3. TrunksNamed' /\ ListsNamed'
  BY <1>1, <1>2, NothingParts, NoneOutside DEF CleanI, TrunksNamed, ListsNamed, Unmade
<1>4. RoutesNamed'
  BY <1>1, <1>2 DEF CleanI, RoutesNamed, Storing, Unmade
<1>5. RowsClean'
  BY DEF CleanI, RowsClean
<1>6. MakingClean' /\ DroppingClean'
  BY <1>1, <1>2, NothingParts DEF MakingClean, CleanMaking, DroppingClean, Unmade
<1> QED BY <1>3, <1>4, <1>5, <1>6 DEF CleanI

(* A row is written, and takes over what its request had made.             *)
LEMMA CleanWritten ==
  ASSUME Typed, CleanI, NEW q \in Requests, Only(q), Alters(q), NEW c \in Connections, NEW x,
         line' = [line EXCEPT ![c] = x], UNCHANGED <<trunks, lists, routes>>,
         x # None /\ x.trunk = None => x.list \notin lists,
         \A t \in trunks :
           \/ line[c] # None /\ line[c].trunk = t
           \/ req[q].op \in ProvisionStep /\ req[q].made.trunk = t
           => x # None /\ x.trunk = t,
         \A t \in lists :
           \/ line[c] # None /\ line[c].list = t
           \/ req[q].op \in ProvisionStep /\ req[q].made.list = t
           => x # None /\ x.list = t,
         c \in routes => x # None /\ x.route,
         req[q].op = "store" => req[q].line = c,
         \/ req'[q].op \in {"idle", "remove"}
         \/ /\ req'[q].op \in {"new_trunk", "route"} /\ req'[q].made = Nothing
            /\ req'[q].op = "new_trunk" => Twilio(req'[q].line)
  PROVE  CleanI'
<1>0. line'[c] = x /\ \A d \in Connections : d # c => line'[d] = line[d]
  BY DEF Typed, TelephonyTypeOK
<1>1. \A r \in Requests : r # q => req[r].op = "idle" /\ req'[r].op = "idle"
  BY DEF Only, Alters
<1>2. "idle" \notin ProvisionStep \union {"store", "drop_route", "disconnected"}
  BY DEF ProvisionStep
<1>3. TrunksNamed'
  <2>1. ASSUME NEW t \in trunks PROVE \E d \in Connections : line'[d] # None /\ line'[d].trunk = t
    BY <1>0, <1>1, <1>2, <2>1 DEF CleanI, TrunksNamed
  <2> QED BY <2>1 DEF TrunksNamed
<1>4. ListsNamed'
  <2>1. ASSUME NEW t \in lists PROVE \E d \in Connections : line'[d] # None /\ line'[d].list = t
    BY <1>0, <1>1, <1>2, <2>1 DEF CleanI, ListsNamed
  <2> QED BY <2>1 DEF ListsNamed
<1>5. RoutesNamed'
  <2>1. ASSUME NEW d \in routes PROVE line'[d] # None /\ line'[d].route
    <3>1. d \in Connections
      BY DEF Typed, TelephonyTypeOK
    <3>2. CASE d = c
      BY <1>0, <3>2
    <3>3. CASE d # c
      BY <1>0, <1>1, <1>2, <3>1, <3>3 DEF CleanI, RoutesNamed, Storing
    <3> QED BY <3>2, <3>3
  <2> QED BY <2>1 DEF RoutesNamed
<1>6. RowsClean'
  BY <1>0 DEF CleanI, RowsClean
<1>7. MakingClean'
  BY <1>1, <1>2, NothingParts, NoneOutside DEF MakingClean, CleanMaking, ProvisionStep
<1>8. DroppingClean'
  BY <1>1, <1>2 DEF DroppingClean
<1> QED BY <1>3, <1>4, <1>5, <1>6, <1>7, <1>8 DEF CleanI

LEMMA BenignMeans ==
  ASSUME Benign
  PROVE  /\ Serial /\ "crash" \notin env.faults /\ ~Lost /\ "cleanup" \notin env.faults
         /\ "database" \notin env.faults
  BY DEF Benign, Suffers, Serial, Lost

LEMMA MakingCleanStep ==
  ASSUME Typed, Typed', LineI, CleanI, Benign, NEW q \in Requests, Only(q), Provisioning(q)
  PROVE  CleanI'
<1> DEFINE c == req[q].line  m == req[q].made
<1>0. /\ ~Lost /\ "cleanup" \notin env.faults
      /\ None \notin trunks /\ None \notin lists /\ None \notin lists' /\ None \notin trunks'
      /\ UNCHANGED line /\ None \notin Trunks /\ None \notin Line
  <2>1. UNCHANGED line
    BY DEF Provisioning, CreateTrunk, CreateList, Attach, UndoTrunk, UndoList, PutRoute, BackTrunk,
           BackList, BackRoute, lineVars
  <2>2. None \notin lists' /\ None \notin trunks'
    BY TelephonyAssumption DEF Typed, TelephonyTypeOK
  <2> QED BY <2>1, <2>2, NoneOutside, BenignMeans, TelephonyAssumption, LinesAssumption
<1>1. req[q].op \in ProvisionStep \ {"store"}
  BY DEF Provisioning, CreateTrunk, CreateList, Attach, UndoTrunk, UndoList, PutRoute, BackTrunk,
         BackList, BackRoute, At, ProvisionStep
<1>2. m \in Made /\ c \in Connections /\ CleanMaking(c, req[q].op, m, trunks, lists) /\ line[c] # None
  <2>1. CleanMaking(c, req[q].op, m, trunks, lists)
    BY <1>1 DEF CleanI, MakingClean
  <2>2. ~Spoilt(q)
    BY <2>1 DEF CleanMaking, Spoilt
  <2>3. m \in Made /\ c \in Connections /\ req[q].seen \in Line
    BY <1>1, TelephonyParts DEF Typed
  <2>4. line[c] \in Line
    BY <1>1, <2>2, <2>3 DEF LineI, MakingBare
  <2> QED BY <1>0, <2>1, <2>3, <2>4
<1>3. /\ {"new_trunk", "new_list", "attach", "undo_trunk", "undo_list", "route", "store", "back_trunk",
          "back_list", "back_route", "failed"} \subseteq ProvisionStep
  BY DEF ProvisionStep
<1> HIDE DEF c, m
<1>4. CASE CreateTrunk(q)
  <2>1. m = Nothing /\ Twilio(c)
    BY <1>2, <1>4 DEF CreateTrunk, At, CleanMaking, m, c
  <2>2. CASE Step(q, "failed", Nothing) /\ UNCHANGED trunks
    <3>1. UNCHANGED <<lists, routes>>
      BY <1>4 DEF CreateTrunk
    <3>2. CleanMaking(c, "failed", Nothing, trunks', lists')
      BY <1>0, <2>2, <3>1, NothingParts DEF CleanMaking
    <3> QED BY <1>0, <1>1, <1>2, <1>3, <2>1, <2>2, <3>1, <3>2, CleanMakes DEF m, c
  <2>3. ASSUME NEW t \in Unclaimed, trunks' = trunks \union {t},
               Step(q, "new_list", [Nothing EXCEPT !.trunk = t])
        PROVE  CleanI'
    <3> DEFINE made == [Nothing EXCEPT !.trunk = t]
    <3>1. UNCHANGED <<lists, routes>>
      BY <1>4 DEF CreateTrunk
    <3>2. made.trunk = t /\ made.list = None /\ ~made.route
      BY DEF Nothing
    <3>3. \A d \in Connections : line[d] # None => line[d].list # t
      BY DEF Unclaimed
    <3>4. Step(q, "new_list", made)
      BY <2>3
    <3> HIDE DEF made
    <3>5. CleanMaking(c, "new_list", made, trunks', lists')
      BY <1>0, <2>1, <3>1, <3>2, <3>3 DEF CleanMaking
    <3> QED
      BY <1>0, <1>1, <1>2, <1>3, <2>1, <2>3, <3>1, <3>2, <3>4, <3>5, NothingParts, CleanMakes DEF m, c
  <2> QED BY <1>0, <1>4, <2>2, <2>3 DEF CreateTrunk
<1>5. CASE CreateList(q)
  <2>1. m.list = None /\ UNCHANGED <<trunks, routes>> /\ ~m.route
    BY <1>2, <1>5 DEF CreateList, At, CleanMaking, m, c
  <2>2. CASE Step(q, "undo_trunk", m) /\ UNCHANGED lists
    <3>1. CleanMaking(c, "undo_trunk", m, trunks', lists')
      BY <1>2, <2>1 DEF CleanMaking
    <3> QED BY <1>0, <1>1, <1>2, <1>3, <2>1, <2>2, <3>1, CleanMakes DEF m, c
  <2>3. CASE lists' = lists \union {m.trunk} /\ Step(q, "attach", [m EXCEPT !.list = m.trunk])
    <3> DEFINE made == [m EXCEPT !.list = m.trunk]
    <3>1. made.trunk = m.trunk /\ made.list = m.trunk /\ (made.route => m.route)
      BY <1>2 DEF Made
    <3>2. Step(q, "attach", made)
      BY <2>3
    <3> HIDE DEF made
    <3>3. CleanMaking(c, "attach", made, trunks', lists')
      BY <1>2, <2>1, <3>1 DEF CleanMaking
    <3>4. req[q].made.list \in lists' => made.list = req[q].made.list
      BY <1>0, <2>1 DEF m
    <3> QED
      BY <1>0, <1>1, <1>2, <1>3, <2>1, <2>3, <3>1, <3>2, <3>3, <3>4, CleanMakes DEF m, c
  <2> QED BY <1>0, <1>5, <2>2, <2>3 DEF CreateList, m
<1>6. CASE Attach(q)
  <2>1. UNCHANGED <<trunks, lists, routes>>
    BY <1>6 DEF Attach, lineVars
  <2>2. \A op \in {"route", "undo_trunk"} : CleanMaking(c, op, m, trunks', lists')
    BY <1>2, <1>6, <2>1 DEF CleanMaking, Attach, At
  <2>3. Step(q, "route", m) \/ Step(q, "undo_trunk", m)
    BY <1>6 DEF Attach, m
  <2> QED BY <1>0, <1>1, <1>2, <1>3, <2>1, <2>2, <2>3, CleanMakes DEF m, c
<1>7. CASE UndoTrunk(q)
  <2>1. /\ trunks' = trunks \ {m.trunk} /\ UNCHANGED <<lists, routes>> /\ req[q].op = "undo_trunk"
        /\ \/ m.list = None /\ Step(q, "failed", m)
           \/ m.list # None /\ Step(q, "undo_list", m)
    BY <1>0, <1>7 DEF UndoTrunk, Removed, Stays, At, m
  <2>2. /\ m.list = None => CleanMaking(c, "failed", m, trunks', lists')
        /\ CleanMaking(c, "undo_list", m, trunks', lists')
    BY <1>0, <1>2, <2>1 DEF CleanMaking
  <2> QED BY <1>0, <1>1, <1>2, <1>3, <2>1, <2>2, CleanMakes DEF m, c
<1>8. CASE UndoList(q)
  <2>1. /\ lists' = lists \ {m.list} /\ UNCHANGED <<trunks, routes>> /\ req[q].op = "undo_list"
        /\ Step(q, "failed", Nothing)
    BY <1>0, <1>8 DEF UndoList, Removed, Stays, At, m
  <2>2. CleanMaking(c, "failed", Nothing, trunks', lists')
    BY <1>0, NothingParts DEF CleanMaking
  <2>3. m.trunk \notin trunks'
    BY <1>2, <2>1 DEF CleanMaking
  <2> QED BY <1>0, <1>1, <1>2, <1>3, <2>1, <2>2, <2>3, CleanMakes DEF m, c
<1>9. ASSUME RollBack(q, m), UNCHANGED <<trunks, lists, routes>>, req[q].op = "route" PROVE CleanI'
  <2>1. ~m.route /\ (m.trunk = None => m.list = None)
    BY <1>2, <1>9 DEF CleanMaking
  <2>2. \/ m.trunk # None /\ Step(q, "back_trunk", m)
        \/ m.trunk = None /\ Step(q, "failed", m)
    BY <1>9, <2>1 DEF RollBack
  <2>3. /\ CleanMaking(c, "back_trunk", m, trunks', lists')
        /\ m.trunk = None => CleanMaking(c, "failed", m, trunks', lists')
    BY <1>0, <1>2, <1>9, <2>1 DEF CleanMaking
  <2> QED BY <1>0, <1>1, <1>2, <1>3, <1>9, <2>2, <2>3, CleanMakes DEF m, c
<1>10. CASE PutRoute(q)
  <2>1. UNCHANGED <<trunks, lists>> /\ req[q].op = "route"
    BY <1>10 DEF PutRoute, At
  <2>2. CASE routes' = routes \union {c} /\ Step(q, "store", [m EXCEPT !.route = TRUE])
    <3> DEFINE made == [m EXCEPT !.route = TRUE]
    <3>1. made.trunk = m.trunk /\ made.list = m.list
      BY <1>2 DEF Made
    <3>2. Step(q, "store", made)
      BY <2>2
    <3> HIDE DEF made
    <3>3. CleanMaking(c, "store", made, trunks', lists')
      BY <1>2, <2>1, <3>1 DEF CleanMaking
    <3> QED BY <1>0, <1>1, <1>2, <1>3, <2>1, <2>2, <3>1, <3>2, <3>3, CleanMakes DEF m, c
  <2>3. CASE UNCHANGED routes /\ RollBack(q, m)
    BY <1>9, <2>1, <2>3
  <2> QED BY <1>0, <1>10, <2>2, <2>3 DEF PutRoute, m, c
<1>11. CASE BackTrunk(q)
  <2>1. /\ trunks' = trunks \ {m.trunk} /\ UNCHANGED <<lists, routes>> /\ req[q].op = "back_trunk"
        /\ Step(q, "back_list", m)
    BY <1>0, <1>11 DEF BackTrunk, Removed, Stays, At, m
  <2>2. CleanMaking(c, "back_list", m, trunks', lists')
    BY <1>2, <2>1 DEF CleanMaking
  <2> QED BY <1>0, <1>1, <1>2, <1>3, <2>1, <2>2, CleanMakes DEF m, c
<1>12. CASE BackList(q)
  <2>1. /\ lists' = lists \ {m.list} /\ UNCHANGED <<trunks, routes>> /\ req[q].op = "back_list"
        /\ Step(q, "back_route", m) \/ Step(q, "failed", m)
    BY <1>0, <1>12 DEF BackList, Removed, Stays, At, m
  <2>2. \A op \in {"back_route", "failed"} : CleanMaking(c, op, m, trunks', lists')
    BY <1>2, <2>1 DEF CleanMaking
  <2> QED BY <1>0, <1>1, <1>2, <1>3, <2>1, <2>2, CleanMakes DEF m, c
<1>13. CASE BackRoute(q)
  <2>1. /\ routes' \subseteq routes /\ UNCHANGED <<trunks, lists>> /\ req[q].op = "back_route"
        /\ Step(q, "failed", m)
    BY <1>13 DEF BackRoute, Removed, Stays, At, m
  <2>2. CleanMaking(c, "failed", m, trunks', lists')
    BY <1>2, <2>1 DEF CleanMaking
  <2> QED BY <1>0, <1>1, <1>2, <1>3, <2>1, <2>2, CleanMakes DEF m, c
<1> QED
  BY <1>4, <1>5, <1>6, <1>7, <1>8, <1>10, <1>11, <1>12, <1>13 DEF Provisioning

LEMMA DroppingCleanStep ==
  ASSUME Typed, LineI, CleanI, Benign, NEW q \in Requests, Only(q), Dropping(q)
  PROVE  CleanI'
<1> DEFINE s == req[q].seen
<1>0. ~Lost /\ "cleanup" \notin env.faults /\ None \notin lists /\ UNCHANGED line
  <2>1. UNCHANGED line
    BY DEF Dropping, DropTrunk, DropList, DropRoute
  <2> QED BY <2>1, NoneOutside, BenignMeans
<1>1. req[q].op \in DisconnectStep
  BY DroppingSteps
<1>2. DisconnectStep \intersect ProvisionStep = {}
  BY DEF DisconnectStep, ProvisionStep
<1>3. ASSUME NEW op \in DisconnectStep, Proceed(q, op),
             trunks' \subseteq trunks, lists' \subseteq lists, routes' \subseteq routes,
             op \in {"drop_route", "disconnected"} => s.list \notin lists'
      PROVE  CleanI'
  <2>1. req'[q].op = op /\ req'[q].seen = s /\ Alters(q)
    BY <1>1, <1>3, ProceedParts
  <2>2. req[q].op \notin ProvisionStep /\ req'[q].op \notin ProvisionStep
    BY <1>1, <1>2, <2>1
  <2> QED BY <1>0, <1>3, <2>1, <2>2, CleanDrops DEF Unmade
<1>4. NextDrop(q) \in DisconnectStep /\ "drop_list" \in DisconnectStep /\ "disconnected" \in DisconnectStep
  BY DEF NextDrop, DisconnectStep
<1>5. CASE DropTrunk(q)
  <2>1. /\ Proceed(q, IF s.list # None THEN "drop_list" ELSE NextDrop(q))
        /\ trunks' \subseteq trunks /\ UNCHANGED <<lists, routes>>
    BY <1>0, <1>5 DEF DropTrunk, DropFails, Stays, Removed
  <2> QED BY <1>0, <1>3, <1>4, <2>1
<1>6. CASE DropList(q)
  <2>1. Proceed(q, NextDrop(q)) /\ lists' = lists \ {s.list} /\ UNCHANGED <<trunks, routes>>
    BY <1>0, <1>6 DEF DropList, DropFails, Stays, Removed
  <2> QED BY <1>3, <1>4, <2>1
<1>7. CASE DropRoute(q)
  <2>1. /\ Proceed(q, "disconnected") /\ routes' \subseteq routes /\ UNCHANGED <<trunks, lists>>
        /\ req[q].op = "drop_route"
    BY <1>0, <1>7 DEF DropRoute, DropFails, Stays, Removed, At
  <2>2. s.list \notin lists
    BY <2>1 DEF CleanI, DroppingClean
  <2> QED BY <1>3, <1>4, <2>1, <2>2
<1> QED BY <1>5, <1>6, <1>7 DEF Dropping

LEMMA StartingCleanStep ==
  ASSUME Typed, CleanI, NEW q \in Requests, Only(q),
         Provision(q) \/ DisconnectNumber(q) \/ Ring(q) \/ Admit(q)
  PROVE  CleanI'
<1>1. UNCHANGED <<line, trunks, lists, routes>>
  BY DEF Provision, DisconnectNumber, Ring, Admit, lineVars
<1>2. req[q].op \notin ProvisionStep
  BY DEF Provision, DisconnectNumber, Ring, Admit, At, Free, Idle, ProvisionStep
<1>3. CASE DisconnectNumber(q)
  <2>1. PICK c \in Connections, delete \in BOOLEAN :
          /\ line[c] # None
          /\ Become(q, [op |-> FirstDrop(line[c]), line |-> c, seen |-> line[c], delete |-> delete])
    BY <1>3 DEF DisconnectNumber
  <2>2. req'[q].op = FirstDrop(line[c]) /\ req'[q].seen = line[c] /\ Alters(q)
    BY <2>1, BecomeAlters
  <2>3. FirstDrop(line[c]) \notin ProvisionStep
    BY DEF FirstDrop, ProvisionStep
  <2>4. FirstDrop(line[c]) \in {"drop_route", "disconnected"} => line[c].list \notin lists
    BY <2>1 DEF FirstDrop, CleanI, RowsClean
  <2> QED BY <1>1, <1>2, <2>2, <2>3, <2>4, CleanDrops DEF Unmade
<1>4. CASE Ring(q) \/ Admit(q)
  <2>1. PICK d : Become(q, d) /\ d.op \in {"idle", "ring", "admit"}
    <3>1. Ring(q) => \E d : Become(q, d) /\ d.op \in {"idle", "ring", "admit"}
      BY DEF Ring
    <3>2. Admit(q) => \E d : Become(q, d) /\ d.op \in {"idle", "ring", "admit"}
      BY DEF Admit, Idle
    <3> QED BY <1>4, <3>1, <3>2
  <2>2. req'[q].op \in {"idle", "ring", "admit"} /\ Alters(q)
    BY <2>1, BecomeAlters
  <2>3. req'[q].op \notin ProvisionStep
    BY <2>2 DEF ProvisionStep
  <2> QED BY <1>1, <1>2, <2>2, <2>3, CleanDrops DEF Unmade
<1>5. CASE Provision(q)
  <2>1. PICK c \in Connections :
          Become(q, [op |-> "claim", line |-> c, seen |-> line[c], made |-> Nothing])
    BY <1>5 DEF Provision
  <2>2. req'[q].op = "claim" /\ req'[q].made = Nothing /\ Alters(q)
    BY <2>1, BecomeAlters
  <2> QED BY <1>1, <1>2, <2>2, CleanDrops DEF Unmade
<1> QED BY <1>3, <1>4, <1>5

(* A row without a trunk or a route, with nobody storing what was made for *)
(* it, has no list either, and no calls reach it.                          *)
LEMMA BareClean ==
  ASSUME CleanI, NEW q \in Requests, Only(q), req[q].op # "store", NEW c \in Connections,
         line[c] # None, Bare(line[c])
  PROVE  line[c].list \notin lists /\ c \notin routes
<1>1. ~Storing(c)
  BY DEF Only, Storing
<1> QED BY <1>1 DEF CleanI, RowsClean, RoutesNamed, Bare

LEMMA WritingCleanStep ==
  ASSUME Typed, LineI, CleanI, Benign, NEW q \in Requests, Only(q),
         \/ StoreProvisioned(q) \/ StoreFailed(q) \/ StoreDisconnected(q) \/ Remove(q)
  PROVE  CleanI'
<1>0. /\ None \notin trunks /\ None \notin lists /\ None \notin Line /\ req[q] \in AnyRequest
      /\ "database" \notin env.faults /\ UNCHANGED <<trunks, lists, routes>>
  BY NoneOutside, BenignMeans, LinesAssumption
  DEF Typed, StoreProvisioned, StoreFailed, StoreDisconnected, Remove
<1> DEFINE c == req[q].line  seen == req[q].seen  made == req[q].made
<1>1. CASE StoreProvisioned(q)
  <2> DEFINE x == MadeLine(c, seen, made)
  <2>1. /\ c \in Connections /\ seen \in Line /\ made \in Made /\ line[c] = seen /\ Bare(seen)
        /\ line' = [line EXCEPT ![c] = x] /\ Become(q, Idle)
    BY <1>0, <1>1, StoreProvisionedParts
  <2>2. x \in Line /\ x.trunk = made.trunk /\ x.route /\ x.list = IF Twilio(c) THEN made.list ELSE seen.list
    BY <2>1, MadeLineParts
  <2>3. req[q].op = "store" /\ req[q].op \in ProvisionStep
    BY <1>1 DEF StoreProvisioned, At, ProvisionStep
  <2>4. made.list \in {None, made.trunk} /\ (made.trunk # None => Twilio(c))
    BY <2>3 DEF CleanI, MakingClean, CleanMaking
  <2>5. seen # None /\ seen.trunk = None /\ seen.list \notin lists
    BY <1>0, <2>1 DEF CleanI, RowsClean, Bare
  <2>6. req'[q].op = "idle" /\ Alters(q)
    BY <2>1, BecomeAlters DEF Idle
  <2> HIDE DEF x
  <2>7. x # None /\ (x.trunk = None => x.list \notin lists)
    BY <1>0, <2>2, <2>4, <2>5
  <2>8. ASSUME NEW t \in trunks, (line[c] # None /\ line[c].trunk = t) \/ made.trunk = t
        PROVE  x.trunk = t
    BY <1>0, <2>1, <2>2, <2>5, <2>8
  <2>9. ASSUME NEW t \in lists, (line[c] # None /\ line[c].list = t) \/ made.list = t
        PROVE  x.list = t
    BY <1>0, <2>1, <2>2, <2>4, <2>5, <2>9
  <2>10. c \in Connections /\ line' = [line EXCEPT ![c] = x]
    BY <2>1
  <2>11. c \in routes => x # None /\ x.route
    BY <2>2, <2>7
  <2>12. /\ \A t \in trunks :
              \/ line[c] # None /\ line[c].trunk = t
              \/ req[q].op \in ProvisionStep /\ req[q].made.trunk = t
              => x # None /\ x.trunk = t
         /\ \A t \in lists :
              \/ line[c] # None /\ line[c].list = t
              \/ req[q].op \in ProvisionStep /\ req[q].made.list = t
              => x # None /\ x.list = t
    BY <2>7, <2>8, <2>9
  <2>13. req[q].op = "store" => req[q].line = c
    OBVIOUS
  <2>14. UNCHANGED <<trunks, lists, routes>> /\ req'[q].op \in {"idle", "remove"} /\ Alters(q)
    BY <1>0, <2>6
  <2>15. x # None /\ x.trunk = None => x.list \notin lists
    BY <2>7
  <2> HIDE DEF c
  <2> QED BY <2>10, <2>11, <2>12, <2>13, <2>14, <2>15, CleanWritten, ZenonT(40)
<1>2. CASE StoreFailed(q)
  <2> DEFINE x == FailedLine(seen, made)
  <2>1. /\ c \in Connections /\ seen \in Line /\ made \in Made /\ line[c] = seen /\ Bare(seen)
        /\ line' = [line EXCEPT ![c] = x] /\ Become(q, Idle)
    <3>1. ~made.route
      BY <1>2 DEF StoreFailed, At, ProvisionStep, CleanI, MakingClean, CleanMaking
    <3> QED BY <1>0, <1>2, <3>1, StoreFailedParts
  <2>2. /\ x \in Line /\ x.trunk = seen.trunk
        /\ x.list = IF made.list # None THEN made.list ELSE seen.list
    BY <2>1, FailedLineParts
  <2>3. req[q].op = "failed" /\ req[q].op \in ProvisionStep
    BY <1>2 DEF StoreFailed, At, ProvisionStep
  <2>4. made.trunk \notin trunks /\ made.list \notin lists
    BY <2>3 DEF CleanI, MakingClean, CleanMaking
  <2>5. seen # None /\ seen.trunk = None /\ seen.list \notin lists /\ c \notin routes
    BY <1>0, <2>1, <2>3, BareClean DEF Bare
  <2>6. req'[q].op = "idle" /\ Alters(q)
    BY <2>1, BecomeAlters DEF Idle
  <2> HIDE DEF x
  <2>7. x # None /\ x.list \notin lists
    BY <1>0, <2>2, <2>4, <2>5
  <2>8. ASSUME NEW t \in trunks PROVE ~(line[c] # None /\ line[c].trunk = t) /\ made.trunk # t
    BY <1>0, <2>1, <2>4, <2>5, <2>8
  <2>9. ASSUME NEW t \in lists PROVE ~(line[c] # None /\ line[c].list = t) /\ made.list # t
    BY <2>1, <2>4, <2>5, <2>9
  <2> QED BY <1>0, <2>1, <2>3, <2>5, <2>6, <2>7, <2>8, <2>9, CleanWritten
<1>3. CASE StoreDisconnected(q)
  <2> DEFINE x == DroppedLine(seen)
  <2>1. /\ c \in Connections /\ seen \in Line /\ line[c] = seen
        /\ seen.trunk \notin trunks /\ (seen.route => c \notin routes)
        /\ line' = [line EXCEPT ![c] = x]
        /\ Become(q, Idle) \/ Become(q, [op |-> "remove", line |-> c])
    BY <1>0, <1>3, StoreDisconnectedParts
  <2>2. x \in Line /\ x.trunk = None /\ x.list = seen.list
    BY <2>1, DroppedLineParts
  <2>3. req[q].op = "disconnected" /\ req[q].op \notin ProvisionStep
    BY <1>3 DEF StoreDisconnected, At, ProvisionStep
  <2>4. seen # None /\ seen.list \notin lists
    BY <1>0, <2>1, <2>3 DEF CleanI, DroppingClean
  <2>5. c \notin routes
    <3>1. ~Storing(c)
      BY <2>3 DEF Only, Storing
    <3> QED BY <2>1, <3>1 DEF CleanI, RoutesNamed
  <2>6. req'[q].op \in {"idle", "remove"} /\ Alters(q)
    BY <2>1, BecomeAlters DEF Idle
  <2> HIDE DEF x
  <2>7. x # None /\ x.list \notin lists
    BY <1>0, <2>2, <2>4
  <2>8. ASSUME NEW t \in trunks PROVE ~(line[c] # None /\ line[c].trunk = t)
    BY <2>1, <2>8
  <2>9. ASSUME NEW t \in lists PROVE ~(line[c] # None /\ line[c].list = t)
    BY <2>1, <2>4, <2>9
  <2>10. c \in Connections /\ line' = [line EXCEPT ![c] = x]
    BY <2>1
  <2> QED BY <1>0, <2>3, <2>5, <2>6, <2>7, <2>8, <2>9, <2>10, CleanWritten
<1>4. CASE Remove(q)
  <2>1. req[q].op = "remove" /\ req[q].op \notin ProvisionStep /\ Become(q, Idle)
    BY <1>4 DEF Remove, At, ProvisionStep
  <2>2. c \in Connections /\ line[c] # None /\ Bare(line[c])
    BY <1>0, <2>1, TelephonyParts DEF LineI, RemovedBare
  <2>3. line[c].list \notin lists /\ c \notin routes /\ line[c].trunk \notin trunks
    BY <1>0, <2>1, <2>2, BareClean DEF Bare
  <2>4. req'[q].op = "idle" /\ Alters(q)
    BY <2>1, BecomeAlters DEF Idle
  <2>5. CASE line' = [line EXCEPT ![c] = None]
    <3> HIDE DEF c
    <3> QED BY <1>0, <2>1, <2>2, <2>3, <2>4, <2>5, CleanWritten
  <2>6. CASE UNCHANGED line
    BY <1>0, <2>1, <2>4, <2>6, CleanDrops DEF ProvisionStep, Unmade
  <2> QED BY <1>4, <2>5, <2>6 DEF Remove
<1> QED BY <1>1, <1>2, <1>3, <1>4

(* A row is written by a request that made nothing, and keeps what it      *)
(* names.                                                                  *)
LEMMA CleanKeeps ==
  ASSUME Typed, CleanI, NEW q \in Requests, Only(q), Alters(q), NEW c \in Connections, NEW x,
         line' = [line EXCEPT ![c] = x], UNCHANGED <<trunks, lists, routes>>,
         Unmade(req[q]), line[c] # None, x # None,
         x.trunk = line[c].trunk, x.list = line[c].list, x.route = line[c].route,
         \/ req'[q].op \in {"idle", "remove"}
         \/ /\ req'[q].op \in {"new_trunk", "route"} /\ req'[q].made = Nothing
            /\ req'[q].op = "new_trunk" => Twilio(req'[q].line)
  PROVE  CleanI'
<1>1. "store" \in ProvisionStep
  BY DEF ProvisionStep
<1>2. ~Storing(c)
  BY <1>1 DEF Only, Storing, Unmade
<1>3. c \in routes => x.route
  BY <1>2 DEF CleanI, RoutesNamed
<1>4. x.trunk = None => x.list \notin lists
  BY DEF CleanI, RowsClean
<1>5. /\ \A t \in trunks :
           \/ line[c] # None /\ line[c].trunk = t
           \/ req[q].op \in ProvisionStep /\ req[q].made.trunk = t
           => x # None /\ x.trunk = t
      /\ \A t \in lists :
           \/ line[c] # None /\ line[c].list = t
           \/ req[q].op \in ProvisionStep /\ req[q].made.list = t
           => x # None /\ x.list = t
  BY NothingParts, NoneOutside DEF Unmade
<1>6. c \in routes => x # None /\ x.route
  BY <1>3
<1>7. req[q].op = "store" => req[q].line = c
  BY <1>1 DEF Unmade
<1>8. x # None /\ x.trunk = None => x.list \notin lists
  BY <1>4
<1> QED BY <1>5, <1>6, <1>7, <1>8, CleanWritten, ZenonT(40)

LEMMA OtherCleanStep ==
  ASSUME Typed, CleanI, NEW q \in Requests, Only(q),
         AddNumber(q) \/ SetEnabled(q) \/ Claim(q) \/ Activate(q)
  PROVE  CleanI'
<1>0. /\ None \notin lists /\ req[q] \in AnyRequest /\ None \notin Line
      /\ \A c \in Connections : line[c] # None => line[c] \in Line
      /\ UNCHANGED <<trunks, lists, routes>>
  BY NoneOutside, LinesAssumption
  DEF Typed, TelephonyTypeOK, AddNumber, SetEnabled, Claim, Activate
<1>1. Unmade(req[q])
  <2>1. CASE Claim(q)
    BY <2>1 DEF Claim, At, Unmade, CleanI, MakingClean, CleanMaking
  <2>2. CASE AddNumber(q) \/ SetEnabled(q) \/ Activate(q)
    BY <2>2 DEF AddNumber, SetEnabled, Activate, Free, Idle, At, ProvisionStep, Unmade
  <2> QED BY <2>1, <2>2
<1>2. CASE AddNumber(q)
  <2>1. req' = req /\ req[q].op = "idle"
    BY <1>2 DEF AddNumber, Free, Idle
  <2>2. Alters(q) /\ req'[q].op = "idle" /\ "idle" \notin ProvisionStep
    BY <2>1 DEF Alters, ProvisionStep
  <2>3. CASE UNCHANGED line
    BY <1>0, <1>1, <2>2, <2>3, CleanDrops DEF Unmade
  <2>4. CASE ~UNCHANGED line
    <3>1. PICK c \in FreshLines : line' = [line EXCEPT ![c] = NewLine]
      BY <1>2, <2>4 DEF AddNumber, NewLine
    <3>2. c \in Connections /\ line[c] = None /\ c \notin routes
      BY LinesAssumption DEF FreshLines, Typed, WorkspaceTypeOK
    <3>3. NewLine.list = None /\ NewLine # None
      BY NewLineParts DEF NewLine
    <3>4. req[q].op # "store" /\ req[q].op \notin ProvisionStep
      BY <2>1, <2>2
    <3> QED BY <1>0, <1>1, <2>2, <3>1, <3>2, <3>3, <3>4, CleanWritten
  <2> QED BY <2>3, <2>4
<1>3. CASE SetEnabled(q)
  <2>1. req' = req /\ req[q].op = "idle"
    BY <1>3 DEF SetEnabled, Free, Idle
  <2>2. Alters(q) /\ req'[q].op = "idle"
    BY <2>1 DEF Alters
  <2>3. PICK c \in Connections, e \in BOOLEAN : line[c] # None /\ line' = [line EXCEPT ![c].enabled = e]
    BY <1>3 DEF SetEnabled
  <2> DEFINE x == [line[c] EXCEPT !.enabled = e]
  <2>4. line' = [line EXCEPT ![c] = x]
    BY <2>3
  <2>5. x \in Line
    BY <1>0, <2>3 DEF Line
  <2>6. x.trunk = line[c].trunk /\ x.list = line[c].list /\ x.route = line[c].route
    BY <1>0, <2>3 DEF Line
  <2> HIDE DEF x
  <2>7. x # None
    BY <1>0, <2>5
  <2> QED BY <1>0, <1>1, <2>2, <2>3, <2>4, <2>6, <2>7, CleanKeeps
<1>4. CASE Claim(q)
  <2>0. CASE UNCHANGED line /\ Become(q, Idle)
    <3>1. req'[q].op = "idle" /\ Alters(q) /\ "idle" \notin ProvisionStep
      BY <2>0, BecomeAlters DEF Idle, ProvisionStep
    <3> QED BY <1>0, <1>1, <2>0, <3>1, CleanDrops DEF Unmade
  <2> SUFFICES ASSUME ~(UNCHANGED line /\ Become(q, Idle)) PROVE CleanI'
    BY <2>0
  <2> DEFINE c == req[q].line  x == [line[c] EXCEPT !.status = "provisioning"]
  <2>1. /\ c \in Connections /\ line[c] # None /\ Become(q, Claimed(q))
        /\ line' = [line EXCEPT ![c].status = "provisioning"]
    BY <1>4, ClaimSteps
  <2>2. line' = [line EXCEPT ![c] = x]
    BY <2>1
  <2>3. x \in Line
    BY <1>0, <2>1 DEF Line, LineStatus
  <2>4. x.trunk = line[c].trunk /\ x.list = line[c].list /\ x.route = line[c].route
    BY <1>0, <2>1 DEF Line
  <2>5. /\ req'[q].op = IF Twilio(c) THEN "new_trunk" ELSE "route"
        /\ req'[q].line = c /\ req'[q].made = Nothing /\ Alters(q)
    BY <2>1, BecomeAlters DEF Claimed
  <2> HIDE DEF x, c
  <2>6. x # None
    BY <1>0, <2>3
  <2>7. /\ req'[q].op \in {"new_trunk", "route"} /\ req'[q].made = Nothing
        /\ req'[q].op = "new_trunk" => Twilio(req'[q].line)
    BY <2>5
  <2> QED BY <1>0, <1>1, <2>1, <2>2, <2>4, <2>5, <2>6, <2>7, CleanKeeps
<1>5. CASE Activate(q)
  <2> DEFINE c == req[q].line
  <2>1. req[q].op = "admit" /\ Become(q, Idle) /\ c \in Connections
    BY <1>0, <1>5, TelephonyParts DEF Activate, At
  <2>2. req'[q].op = "idle" /\ Alters(q) /\ "idle" \notin ProvisionStep
    BY <2>1, BecomeAlters DEF Idle, ProvisionStep
  <2>3. CASE UNCHANGED line
    BY <1>0, <1>1, <2>2, <2>3, CleanDrops DEF Unmade
  <2>4. CASE line[c] # None /\ ~UNCHANGED line
    <3> DEFINE x == [[line[c] EXCEPT !.status = "active"] EXCEPT
                       !.state = Column(line[c].state, req[q].state, "connected")]
    <3>1. line[c] \in Line
      BY <1>0, <2>1, <2>4
    <3>2. line' = [line EXCEPT ![c] = x]
      <4>1. line' = [line EXCEPT ![c].status = "active",
                                 ![c].state = Column(@, req[q].state, "connected")]
        BY <1>5, <2>4 DEF Activate
      <4> QED BY <2>1, <3>1, <4>1 DEF Typed, TelephonyTypeOK, Line
    <3>3. x.trunk = line[c].trunk /\ x.list = line[c].list /\ x.route = line[c].route
      BY <3>1 DEF Line
    <3>4. x \in Line
      <4>1. req[q].state \in PhoneState
        BY <1>0, <2>1, TelephonyParts
      <4> QED BY <3>1, <4>1 DEF Line, LineStatus, PhoneState, Column
    <3> HIDE DEF x, c
    <3>5. x # None
      BY <1>0, <3>4
    <3> QED BY <1>0, <1>1, <2>1, <2>2, <2>4, <3>2, <3>3, <3>5, CleanKeeps
  <2> QED BY <1>5, <2>3, <2>4 DEF Activate
<1> QED BY <1>2, <1>3, <1>4, <1>5

LEMMA TelephonyCleanStep ==
  ASSUME Typed, Typed', Benign, Alone, LineI, CleanI, TelephonyStep
  PROVE  CleanI'
<1>1. PICK q \in Requests :
        \/ Provisioning(q) \/ Dropping(q)
        \/ Provision(q) \/ DisconnectNumber(q) \/ Ring(q) \/ Admit(q)
        \/ StoreProvisioned(q) \/ StoreFailed(q) \/ StoreDisconnected(q) \/ Remove(q)
        \/ AddNumber(q) \/ SetEnabled(q) \/ Claim(q) \/ Activate(q)
  BY DEF TelephonyStep, Provisioning, Dropping
<1>2. Free(q) \/ req[q].op # "idle"
  <2>1. "idle" \notin ProvisionStep \union DisconnectStep
    BY DEF ProvisionStep, DisconnectStep
  <2>2. Provisioning(q) \/ Dropping(q) => req[q].op # "idle"
    BY <2>1, ProvisioningSteps, DroppingSteps
  <2> QED
    BY <1>1, <2>2 DEF DisconnectNumber, Ring, Admit, StoreProvisioned, StoreFailed, StoreDisconnected,
       Remove, AddNumber, SetEnabled, Provision, Claim, Activate, At
<1>3. Only(q)
  BY <1>2, FreeOrBusy, BenignMeans
<1> QED
  BY <1>1, <1>3, MakingCleanStep, DroppingCleanStep, StartingCleanStep, WritingCleanStep, OtherCleanStep

(* The steps of other parts neither start nor end anything on a line, when *)
(* no process dies.                                                        *)
LEMMA OthersClean ==
  ASSUME Typed, Benign, CleanI, UNCHANGED lineVars, WorkspaceStep \/ ExtensionStep \/ UNCHANGED officeVars
  PROVE  CleanI'
<1>1. UNCHANGED req \/ \E q \in Requests : \E ops : Moves(q, ops) /\ ops \intersect OnLine = {}
  <2>1. WorkspaceOps \intersect OnLine = {} /\ ExtensionOps \intersect OnLine = {}
    BY DEF WorkspaceOps, ExtensionOps, OnExtension, OnLine, ProvisionStep, DisconnectStep
  <2>2. \A p \in Processes : ~ProcessDies(p)
    BY BenignMeans DEF ProcessDies
  <2> QED
    BY <2>1, <2>2, WorkspaceMoves, ExtensionMoves DEF officeVars, telephonyVars, workspaceVars
<1>2. \A q \in Requests : req[q].op \in OnLine \/ req'[q].op \in OnLine => req'[q] = req[q]
  BY <1>1 DEF Moves, Alters
<1>3. ProvisionStep \subseteq OnLine /\ "store" \in OnLine /\ {"drop_route", "disconnected"} \subseteq OnLine
  BY DEF OnLine, ProvisionStep, DisconnectStep
<1>4. UNCHANGED line /\ UNCHANGED trunks /\ UNCHANGED lists /\ UNCHANGED routes
  BY DEF lineVars
<1>5. TrunksNamed'
  BY <1>2, <1>3, <1>4 DEF CleanI, TrunksNamed
<1>6. ListsNamed'
  BY <1>2, <1>3, <1>4 DEF CleanI, ListsNamed
<1>7. RoutesNamed'
  BY <1>2, <1>3, <1>4 DEF CleanI, RoutesNamed, Storing
<1>8. RowsClean'
  BY <1>4 DEF CleanI, RowsClean
<1>9. MakingClean'
  BY <1>2, <1>3, <1>4 DEF CleanI, MakingClean, CleanMaking
<1>10. DroppingClean'
  BY <1>2, <1>3, <1>4 DEF CleanI, DroppingClean
<1> QED BY <1>5, <1>6, <1>7, <1>8, <1>9, <1>10 DEF CleanI

(* Where a provider may refuse to create something and nothing else goes   *)
(* wrong, every trunk, credential list and route that exists is named by   *)
(* its row or belongs to a request still at work: the compensation leaves  *)
(* nothing behind at any of the points where provisioning can fail.        *)
THEOREM RefusedLeavesNothing == Spec => []CleanRollback
<1> DEFINE Inv == Benign => CleanI
<1>1. Init => Inv
  <2>1. ASSUME Init PROVE \A q \in Requests : req[q].op = "idle"
    BY <2>1 DEF Init, WorkspaceInit, Idle
  <2>2. ASSUME Init
        PROVE  trunks = {} /\ lists = {} /\ routes = {} /\ \A c \in Connections : line[c] = None
    BY <2>2 DEF Init, TelephonyInit
  <2> QED
    BY <2>1, <2>2 DEF CleanI, TrunksNamed, ListsNamed, RoutesNamed, RowsClean, MakingClean,
       DroppingClean, ProvisionStep
<1>2. Typed /\ Typed' /\ SerialLines /\ Inv /\ [Next]_officeVars => Inv'
  <2>1. ASSUME Typed, Typed', SerialLines, Inv, [Next]_officeVars, Benign' PROVE CleanI'
    <3>1. Benign
      BY <2>1, EnvStays DEF Benign, Suffers
    <3>2. Alone /\ LineI /\ CleanI
      BY <2>1, <3>1, BenignMeans DEF SerialLines
    <3>3. CASE TelephonyStep
      BY <2>1, <3>1, <3>2, <3>3, TelephonyCleanStep
    <3>4. CASE ~TelephonyStep
      <4>1. UNCHANGED lineVars /\ (WorkspaceStep \/ ExtensionStep \/ UNCHANGED officeVars)
        BY <2>1, <3>4 DEF Next, officeVars, telephonyVars
      <4> QED BY <2>1, <3>1, <3>2, <4>1, OthersClean
    <3> QED BY <3>3, <3>4
  <2> QED BY <2>1
<1>3. Inv => CleanRollback
  <2>1. ASSUME CleanI
        PROVE  /\ trunks \subseteq Named("trunk") \union InMaking("trunk")
               /\ lists \subseteq Named("list") \union InMaking("list")
               /\ \A c \in routes : (line[c] # None /\ line[c].route) \/ InWork(c)
    <3>1. ASSUME NEW t \in trunks PROVE t \in Named("trunk") \union InMaking("trunk")
      BY <2>1, <3>1 DEF CleanI, TrunksNamed, Named, InMaking, Working
    <3>2. ASSUME NEW t \in lists PROVE t \in Named("list") \union InMaking("list")
      BY <2>1, <3>2 DEF CleanI, ListsNamed, Named, InMaking, Working
    <3>3. ASSUME NEW c \in routes PROVE (line[c] # None /\ line[c].route) \/ InWork(c)
      BY <2>1, <3>3 DEF CleanI, RoutesNamed, Storing, InWork, Working, OnLine, ProvisionStep
    <3> QED BY <3>1, <3>2, <3>3
  <2> QED BY <2>1 DEF CleanRollback, Benign
<1> QED BY <1>1, <1>2, <1>3, TypedInvariant, SerialLinesHold, PTL DEF Spec
=============================================================================
