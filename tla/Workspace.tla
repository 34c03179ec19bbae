------------------------------ MODULE Workspace ------------------------------
(***************************************************************************)
(* What a company sets up for itself under the limits of its plan: agents  *)
(* and integrations, created by several API processes at once.  A create   *)
(* locks the subscription row, and the plan joined to it, counts, may      *)
(* import the agent's voice from the ElevenLabs library while it holds the *)
(* lock, and only then inserts its row.  Each process also keeps a cache   *)
(* of the voice library, guarded by a lock of its own.                     *)
(*                                                                         *)
(* An action is a database transaction or an exchange with a provider.     *)
(* Settings of an agent are left out, and so is who may call an operation. *)
(***************************************************************************)
EXTENDS Naturals, FiniteSets

CONSTANTS
  Agents, Integrations,  \* identities of rows, used again after a delete
  Voices,                \* voices of the public ElevenLabs library
  Configs,               \* WhatsApp configurations: instance_id and token
  Requests,              \* concurrent API requests
  Processes,             \* uvicorn worker processes
  ProcessOf,             \* the process that serves a request
  Limits, Unlimited,     \* what a plan may allow of a kind; Unlimited is NULL
  None,
  Environments  \* the environments of this instance

ASSUME WorkspaceAssumption ==
  /\ Limits \subseteq Nat \union {Unlimited} /\ Unlimited \notin Nat
  /\ ProcessOf \in [Requests -> Processes]
  /\ None \notin Voices \union Configs \union Requests

(* Definitions named Mutant... are plausible bugs; no definition uses them.*)
Kinds == {"agents", "integrations"}
IntegrationStatus == {"connected", "disconnected", "error", "pending"}

(* An environment says which faults there are, which operations are asked  *)
(* for, what the first plan allows, and which requests come at all.        *)
(* crash: a process dies.  refuse: a provider rejects a request or is not  *)
(* reached.  lost: it does what was asked and its answer does not arrive.  *)
(* parallel: several requests are served at the same time.                 *)
WorkspaceFaults == {"crash", "refuse", "lost", "parallel"}
WorkspaceOperations ==
  {"create_agent", "update_agent", "delete_agent", "onboarding", "list_voices",
   "create_integration", "update_integration", "delete_integration",
   "connect", "disconnect", "change_plan"}

Integration ==
  [type : {"whatsapp", "other"}, status : IntegrationStatus,
   config : Configs \union {None}]

ASSUME RowsAssumption ==
  /\ None \notin Integration
  /\ \A e \in Environments : e.limit \in Limits /\ e.requests \subseteq Requests

Request ==
  [op : {"idle"}]
  \union [op : {"template"}]
  \union [op : {"list"}, force : BOOLEAN]
  \union [op : {"listed"}, voices : SUBSET Voices]
  \union [op : {"create"}, kind : Kinds, voice : Voices \union {None},
          row : Integration \union {None}]
  \union [op : {"update"}, voice : Voices \union {None}]
  \union [op : {"save"}, row : Integrations, seen : Integration, new : Integration]

VARIABLES
  env,      \* what happens around the system in this behaviour
  sub,       \* subscription and plan: limit of each kind, usable, in its period
  holder,    \* the request that has locked them (SELECT ... FOR UPDATE), or None
  agents,    \* rows of agents
  integ,     \* rows of integrations, None where there is none
  tested,    \* configurations whose test succeeded while the row existed
  mine,      \* voices in My Voices at ElevenLabs
  catalog,   \* by process, the request that holds ElevenLabsVoiceCatalog._lock
  known,     \* by process, _my_voice_ids, None when there are none
  page,      \* by process, the voices a cached page marks as in My Voices, or None
  imported,  \* by process, the voices it has imported, history
  req        \* what each request is doing

catalogVars == <<mine, catalog, known, page, imported>>
workspaceVars == <<env, sub, holder, agents, integ, tested, catalogVars, req>>

WorkspaceTypeOK ==
  /\ env \in Environments
  /\ sub \in [limit : [Kinds -> Limits], usable : BOOLEAN, current : BOOLEAN]
  /\ holder \in Requests \union {None}
  /\ agents \subseteq Agents
  /\ integ \in [Integrations -> Integration \union {None}]
  /\ tested \in [Integrations -> SUBSET (Configs \union {None})]
  /\ mine \subseteq Voices
  /\ catalog \in [Processes -> Requests \union {None}]
  /\ known \in [Processes -> (SUBSET Voices) \union {None}]
  /\ page \in [Processes -> (SUBSET Voices) \union {None}]
  /\ imported \in [Processes -> SUBSET Voices]

-----------------------------------------------------------------------------
Idle == [op |-> "idle"]
Free(q) ==
  /\ req[q] = Idle /\ q \in env.requests
  /\ "parallel" \in env.faults \/ \A r \in Requests : req[r] = Idle
Asked(op) == op \in env.operations
Become(q, doing) == req' = [req EXCEPT ![q] = doing]

Held(k) == IF k = "agents" THEN agents ELSE {i \in Integrations : integ[i] # None}

WorkspaceInit ==
  /\ env \in Environments
  /\ sub = [limit |-> [k \in Kinds |-> env.limit], usable |-> TRUE, current |-> TRUE]
  /\ holder = None
  /\ agents = {}
  /\ integ = [i \in Integrations |-> None]
  /\ tested = [i \in Integrations |-> {}]
  /\ mine = {}
  /\ catalog = [p \in Processes |-> None]
  /\ known = [p \in Processes |-> None]
  /\ page = [p \in Processes |-> None]
  /\ imported = [p \in Processes |-> {}]
  /\ req = [q \in Requests |-> Idle]

-----------------------------------------------------------------------------
(* The plan's limits.  FOR UPDATE waits for another holder, and then reads *)
(* the row as it was committed.                                            *)

Active == sub.usable /\ sub.current
Capacity(k) ==
  Active /\ (sub.limit[k] = Unlimited \/ Cardinality(Held(k)) < sub.limit[k])

(* Identities bound how many rows there can be.                            *)
Spare(k) == Held(k) # IF k = "agents" THEN Agents ELSE Integrations

MutantReserve(q, kind, voice, row) ==
  /\ holder' = IF Capacity(kind) /\ Spare(kind) THEN q ELSE holder
  /\ Become(q, IF Capacity(kind) /\ Spare(kind)
                 THEN [op |-> "create", kind |-> kind, voice |-> voice, row |-> row]
                 ELSE Idle)
  /\ UNCHANGED <<env, sub, agents, integ, tested, catalogVars>>

Reserve(q, kind, voice, row) ==
  /\ holder = None
  /\ IF Capacity(kind) /\ Spare(kind)
       THEN /\ holder' = q
            /\ Become(q, [op |-> "create", kind |-> kind, voice |-> voice, row |-> row])
       ELSE Become(q, Idle) /\ UNCHANGED holder
  /\ UNCHANGED <<env, sub, agents, integ, tested, catalogVars>>

CreateAgent(q) ==
  /\ Free(q) /\ Asked("create_agent")
  /\ \E v \in Voices \union {None} : Reserve(q, "agents", v, None)

(* The configuration of a WhatsApp integration is validated here; another  *)
(* integration has none this model distinguishes.                          *)
NewIntegration ==
  {row \in Integration : row.status = "pending" /\ (row.type = "whatsapp" <=> row.config # None)}

CreateIntegration(q) ==
  /\ Free(q) /\ Asked("create_integration")
  /\ \E row \in NewIntegration : Reserve(q, "integrations", None, row)

(* Onboarding adds an agent from a template to a company that has none; it *)
(* looks before it takes the lock.                                         *)
TemplateRead(q) ==
  /\ Free(q) /\ Asked("onboarding") /\ agents = {}
  /\ Become(q, [op |-> "template"])
  /\ UNCHANGED <<env, sub, holder, agents, integ, tested, catalogVars>>

TemplateReserve(q) == req[q].op = "template" /\ Reserve(q, "agents", None, None)

(* The insert commits and lets go of the lock.  An identity is new: no     *)
(* request still holds the row that had it before.                         *)
InSave(i) == \E q \in Requests : req[q].op = "save" /\ req[q].row = i

Insert(q) ==
  /\ req[q].op = "create" /\ req[q].voice = None
  /\ \/ /\ req[q].kind = "agents"
        /\ \E a \in Agents \ agents : agents' = agents \union {a}
        /\ UNCHANGED <<integ, tested>>
     \/ /\ req[q].kind = "integrations"
        /\ \E i \in {j \in Integrations : integ[j] = None /\ ~InSave(j)} :
             /\ integ' = [integ EXCEPT ![i] = req[q].row]
             /\ tested' = [tested EXCEPT ![i] = {}]
        /\ UNCHANGED agents
  /\ holder' = None
  /\ Become(q, Idle)
  /\ UNCHANGED <<env, sub, catalogVars>>

(* Deleting takes no lock.                                                 *)
DeleteAgent(q) ==
  /\ Free(q) /\ Asked("delete_agent")
  /\ \E a \in agents : agents' = agents \ {a}
  /\ UNCHANGED <<env, sub, holder, integ, tested, catalogVars, req>>

DeleteIntegration(q) ==
  /\ Free(q) /\ Asked("delete_integration")
  /\ \E i \in Held("integrations") : integ' = [integ EXCEPT ![i] = None]
  /\ UNCHANGED <<env, sub, holder, agents, tested, catalogVars, req>>

(* Billing or an administrator changes the subscription or its plan: the   *)
(* UPDATE waits for the lock.  The period ends without asking anyone.      *)
ChangePlan ==
  /\ Asked("change_plan") /\ holder = None
  /\ \E limit \in [Kinds -> Limits], usable \in BOOLEAN :
       sub' = [sub EXCEPT !.limit = limit, !.usable = usable]
  /\ UNCHANGED <<env, holder, agents, integ, tested, catalogVars, req>>

PeriodTurns ==
  /\ Asked("change_plan")
  /\ sub' = [sub EXCEPT !.current = ~@]
  /\ UNCHANGED <<env, holder, agents, integ, tested, catalogVars, req>>

-----------------------------------------------------------------------------
(* The voice library.  A failed import fails the request it is part of.    *)

UpdateAgent(q) ==
  /\ Free(q) /\ Asked("update_agent") /\ agents # {}
  /\ \E v \in Voices : Become(q, [op |-> "update", voice |-> v])
  /\ UNCHANGED <<env, sub, holder, agents, integ, tested, catalogVars>>

(* The UPDATE changes settings only, or fails on a row deleted meanwhile.  *)
SaveAgent(q) ==
  /\ req[q].op = "update" /\ req[q].voice = None
  /\ Become(q, Idle)
  /\ UNCHANGED <<env, sub, holder, agents, integ, tested, catalogVars>>

NeedsVoice(q) == req[q].op \in {"create", "update"} /\ req[q].voice # None
Inside(q) == catalog[ProcessOf[q]] = q
Enter(q) ==
  /\ catalog[ProcessOf[q]] = None
  /\ catalog' = [catalog EXCEPT ![ProcessOf[q]] = q]
Leave(q) == catalog' = [catalog EXCEPT ![ProcessOf[q]] = None]

(* An import holds the lock of its process throughout, and first fetches   *)
(* My Voices, whatever is cached.                                          *)
LookUp(q) ==
  /\ NeedsVoice(q) /\ Enter(q)
  /\ known' = [known EXCEPT ![ProcessOf[q]] = mine]
  /\ UNCHANGED <<env, sub, holder, agents, integ, tested, mine, page, imported, req>>

Missing(q) == NeedsVoice(q) /\ Inside(q) /\ req[q].voice \notin known[ProcessOf[q]]

Present(q) ==
  /\ NeedsVoice(q) /\ Inside(q) /\ ~Missing(q)
  /\ Leave(q)
  /\ Become(q, [req[q] EXCEPT !.voice = None])
  /\ UNCHANGED <<env, sub, holder, agents, integ, tested, mine, known, page, imported>>

(* invalidate() forgets the cached pages as well.                          *)
Invalidate(p) ==
  /\ known' = [known EXCEPT ![p] = None]
  /\ page' = [page EXCEPT ![p] = None]

Import(q) ==
  /\ Missing(q)
  /\ mine' = mine \union {req[q].voice}
  /\ imported' = [imported EXCEPT ![ProcessOf[q]] = @ \union {req[q].voice}]
  /\ Invalidate(ProcessOf[q])
  /\ Leave(q)
  /\ Become(q, [req[q] EXCEPT !.voice = None])
  /\ UNCHANGED <<env, sub, holder, agents, integ, tested>>

(* The exception rolls back the transaction, and with it the lock.         *)
ImportFails(q) ==
  /\ NeedsVoice(q) /\ Inside(q)
  /\ \/ "refuse" \in env.faults /\ UNCHANGED mine
     \/ "lost" \in env.faults /\ Missing(q) /\ mine' = mine \union {req[q].voice}
  /\ Leave(q)
  /\ holder' = IF holder = q THEN None ELSE holder
  /\ Become(q, Idle)
  /\ UNCHANGED <<env, sub, agents, integ, tested, known, page, imported>>

ListVoices(q) ==
  /\ Free(q) /\ Asked("list_voices")
  /\ \E force \in {p \in BOOLEAN : p \/ page[ProcessOf[q]] = None} :
       Become(q, [op |-> "list", force |-> force])
  /\ UNCHANGED <<env, sub, holder, agents, integ, tested, catalogVars>>

MutantListFetch(q) ==
  /\ req[q].op = "list"
  /\ known' = [known EXCEPT ![ProcessOf[q]] = mine]
  /\ Become(q, [op |-> "listed", voices |-> mine])
  /\ UNCHANGED <<env, sub, holder, agents, integ, tested, mine, catalog, page, imported>>

(* Under the lock the cache is looked at again; My Voices is fetched when  *)
(* it is not cached, together with the page of the library.  When the call *)
(* fails the lock is released and the request too.                         *)
ListFetch(q) ==
  /\ req[q].op = "list" /\ catalog[ProcessOf[q]] = None
  /\ LET p == ProcessOf[q] IN
       IF page[p] # None /\ ~req[q].force
         THEN Become(q, Idle) /\ UNCHANGED <<catalog, known>>
         ELSE \/ /\ Enter(q)
                 /\ known' = IF known[p] = None \/ req[q].force
                               THEN [known EXCEPT ![p] = mine] ELSE known
                 /\ Become(q, [op |-> "listed", voices |-> known'[p]])
              \/ "refuse" \in env.faults /\ Become(q, Idle) /\ UNCHANGED <<catalog, known>>
  /\ UNCHANGED <<env, sub, holder, agents, integ, tested, mine, page, imported>>

ListStore(q) ==
  /\ req[q].op = "listed"
  /\ page' = [page EXCEPT ![ProcessOf[q]] = req[q].voices]
  /\ Leave(q)
  /\ Become(q, Idle)
  /\ UNCHANGED <<env, sub, holder, agents, integ, tested, mine, known, imported>>

(* My Voices came, and stays cached, but the page of the library did not.  *)
ListFails(q) ==
  /\ req[q].op = "listed" /\ "refuse" \in env.faults
  /\ Leave(q)
  /\ Become(q, Idle)
  /\ UNCHANGED <<env, sub, holder, agents, integ, tested, mine, known, page, imported>>

(* Cached entries expire by the clock.                                     *)
CacheExpires(p) ==
  /\ Asked("list_voices") /\ catalog[p] = None
  /\ \/ known' = [known EXCEPT ![p] = None] /\ UNCHANGED page
     \/ page' = [page EXCEPT ![p] = None] /\ UNCHANGED known
  /\ UNCHANGED <<env, sub, holder, agents, integ, tested, mine, catalog, imported, req>>

-----------------------------------------------------------------------------
(* Integrations.  A save writes the columns that differ from the row it    *)
(* loaded, and fails on a row deleted meanwhile.                           *)

Column(now, seen, new) == IF new = seen THEN now ELSE new

Load(q, i, new) ==
  Become(q, [op |-> "save", row |-> i, seen |-> integ[i], new |-> new])

MutantUntested(status, new) == [new EXCEPT !.status = status]
Untested(status, new) == [new EXCEPT !.status = "pending"]

(* A new instance or token makes a WhatsApp integration pending; only      *)
(* other integrations take a status from the request.                      *)
UpdateIntegration(q) ==
  /\ Free(q) /\ Asked("update_integration")
  /\ \E i \in Held("integrations") :
       \/ /\ integ[i].type = "whatsapp"
          /\ \E c \in Configs \ {integ[i].config} :
               Load(q, i, Untested(integ[i].status, [integ[i] EXCEPT !.config = c]))
       \/ /\ integ[i].type = "other"
          /\ \E s \in IntegrationStatus : Load(q, i, [integ[i] EXCEPT !.status = s])
  /\ UNCHANGED <<env, sub, holder, agents, integ, tested, catalogVars>>

(* connect() tests the WhatsApp configuration it has read, and stores the  *)
(* outcome afterwards; another integration is not tested.                  *)
Connect(q) ==
  /\ Free(q) /\ Asked("connect")
  /\ \E i \in Held("integrations") :
       \/ /\ Load(q, i, [integ[i] EXCEPT !.status = "connected"])
          /\ tested' = IF integ[i].type = "whatsapp"
                         THEN [tested EXCEPT ![i] = @ \union {integ[i].config}] ELSE tested
       \/ /\ "refuse" \in env.faults /\ integ[i].type = "whatsapp"
          /\ Load(q, i, [integ[i] EXCEPT !.status = "error"])
          /\ UNCHANGED tested
  /\ UNCHANGED <<env, sub, holder, agents, integ, catalogVars>>

Disconnect(q) ==
  /\ Free(q) /\ Asked("disconnect")
  /\ \E i \in Held("integrations") : Load(q, i, [integ[i] EXCEPT !.status = "disconnected"])
  /\ UNCHANGED <<env, sub, holder, agents, integ, tested, catalogVars>>

Save(q) ==
  /\ req[q].op = "save"
  /\ LET i == req[q].row  seen == req[q].seen  new == req[q].new IN
       integ' = IF integ[i] = None THEN integ
                ELSE [integ EXCEPT ![i].status = Column(@, seen.status, new.status),
                                   ![i].config = Column(@, seen.config, new.config)]
  /\ Become(q, Idle)
  /\ UNCHANGED <<env, sub, holder, agents, tested, catalogVars>>

-----------------------------------------------------------------------------
(* A process dies with its requests, their transactions and its caches.    *)
ProcessDies(p) ==
  /\ "crash" \in env.faults
  /\ req' = [q \in Requests |-> IF ProcessOf[q] = p THEN Idle ELSE req[q]]
  /\ holder' = IF holder # None /\ ProcessOf[holder] = p THEN None ELSE holder
  /\ catalog' = [catalog EXCEPT ![p] = None]
  /\ imported' = [imported EXCEPT ![p] = {}]
  /\ Invalidate(p)
  /\ UNCHANGED <<env, sub, agents, integ, tested, mine>>

WorkspaceStep ==
  \/ \E q \in Requests :
       \/ CreateAgent(q) \/ CreateIntegration(q) \/ TemplateRead(q) \/ TemplateReserve(q)
       \/ Insert(q) \/ DeleteAgent(q) \/ DeleteIntegration(q)
       \/ UpdateAgent(q) \/ SaveAgent(q)
       \/ LookUp(q) \/ Present(q) \/ Import(q) \/ ImportFails(q)
       \/ ListVoices(q) \/ ListFetch(q) \/ ListStore(q) \/ ListFails(q)
       \/ UpdateIntegration(q) \/ Connect(q) \/ Disconnect(q) \/ Save(q)
  \/ \E p \in Processes : CacheExpires(p) \/ ProcessDies(p)
  \/ ChangePlan \/ PeriodTurns

WorkspaceSpec == WorkspaceInit /\ [][WorkspaceStep]_workspaceVars

-----------------------------------------------------------------------------
(* Creating agents and integrations, by any number of requests on any      *)
(* number of processes, is the promise of the plan: the lock, the count    *)
(* and the insert act as one step, although the voice provider is called   *)
(* between them, and whatever dies, is deleted or is sold meanwhile.       *)
Promise == INSTANCE Allotment WITH
  Things <- Agents \union Integrations,
  held <- [k \in Kinds |-> Held(k)], limit <- sub.limit, usable <- sub.usable

PlanKept == Promise!Spec

(* A WhatsApp integration that is connected has passed a test with the     *)
(* instance and token it has now, unless requests for it overlapped.       *)
ConnectedWasTested ==
  "parallel" \notin env.faults =>
    \A i \in Held("integrations") :
      integ[i].type = "whatsapp" /\ integ[i].status = "connected"
        => integ[i].config \in tested[i]

(* A page of voices served from the cache never shows as missing a voice   *)
(* that the same process has imported, however listing, importing, expiry  *)
(* and failed calls interleave.                                            *)
CacheKnowsImports ==
  \A p \in Processes : page[p] # None => imported[p] \subseteq page[p]
=============================================================================
