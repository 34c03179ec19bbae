--------------------------- MODULE BackOfficeProofs ---------------------------
(***************************************************************************)
(* Theorems about BackOffice as a whole, for any number of requests and    *)
(* workers, any rows, tokens, campaigns and retries, and any environments: *)
(* its types, and that a deleted company leaves nothing behind.            *)
(***************************************************************************)
EXTENDS BackOffice, TLAPS, FiniteSetTheorems

-----------------------------------------------------------------------------
(* The broker, a bag.                                                      *)
LEMMA QueueAdded ==
  ASSUME NEW B, IsABag(B), NEW m
  PROVE  /\ IsABag(B (+) SetToBag({m}))
         /\ BagToSet(B (+) SetToBag({m})) = BagToSet(B) \union {m}
  BY DEF IsABag, BagToSet, (+), SetToBag

LEMMA QueueTaken ==
  ASSUME NEW B, IsABag(B), NEW m \in BagToSet(B)
  PROVE  /\ IsABag(B (-) SetToBag({m}))
         /\ BagToSet(B (-) SetToBag({m})) \subseteq BagToSet(B)
  BY DEF IsABag, BagToSet, (-), SetToBag

LEMMA QueueEmpty == IsABag(EmptyBag) /\ BagToSet(EmptyBag) = {}
  BY DEF IsABag, BagToSet, EmptyBag, SetToBag

-----------------------------------------------------------------------------
(* What requests and jobs are made of.  The operations of the parts are    *)
(* different ones.                                                         *)
AnyRequest ==
  {Idle} \union ConversationRequest \union LibraryRequest \union AccountRequest
  \union CampaignRequest \union DeletionRequest

ConversationOps == {"search", "insert", "sync", "confirm", "recorded"}
LibraryOps == {"bump", "template"} \union OnDocument
AccountOps == {"log_in", "fail", "verify", "reset", "refresh", "resend", "forgot", "mail"}
CampaignOps == {"edit", "store_audio", "send_audio", "save_audio", "import", "save_import",
                "launch", "save_launch", "set_status", "add_contact"}
DeletionOps == {"delete_rows", "delete_files"}

LEMMA ConversationKind ==
  ASSUME NEW r \in AnyRequest, r.op \in ConversationOps
  PROVE  r \in ConversationRequest
  BY DEF AnyRequest, ConversationRequest, LibraryRequest, AccountRequest, CampaignRequest,
         DeletionRequest, ConversationOps, Idle

LEMMA LibraryKind ==
  ASSUME NEW r \in AnyRequest, r.op \in LibraryOps
  PROVE  r \in LibraryRequest
  BY DEF AnyRequest, ConversationRequest, LibraryRequest, AccountRequest, CampaignRequest,
         DeletionRequest, LibraryOps, OnDocument, Idle

LEMMA AccountKind ==
  ASSUME NEW r \in AnyRequest, r.op \in AccountOps
  PROVE  r \in AccountRequest
  BY DEF AnyRequest, ConversationRequest, LibraryRequest, AccountRequest, CampaignRequest,
         DeletionRequest, AccountOps, Idle

LEMMA CampaignKind ==
  ASSUME NEW r \in AnyRequest, r.op \in CampaignOps
  PROVE  r \in CampaignRequest
  BY DEF AnyRequest, ConversationRequest, LibraryRequest, AccountRequest, CampaignRequest,
         DeletionRequest, CampaignOps, Idle

LEMMA DeletionKind ==
  ASSUME NEW r \in AnyRequest, r.op \in DeletionOps
  PROVE  r \in DeletionRequest
  BY DEF AnyRequest, ConversationRequest, LibraryRequest, AccountRequest, CampaignRequest,
         DeletionRequest, DeletionOps, Idle

LEMMA ConversationParts ==
  ASSUME NEW r \in AnyRequest
  PROVE  /\ r.op \in {"search", "insert"} =>
              /\ r.call \in Calls /\ r.outcome \in Outcome
              /\ r.booking \in BOOLEAN /\ r.phone \in BOOLEAN
              /\ r = [op |-> r.op, call |-> r.call, outcome |-> r.outcome,
                      booking |-> r.booking, phone |-> r.phone]
         /\ r.op = "sync" => r.row \in Rows /\ r.outcome \in Outcome
         /\ r.op = "confirm" => r.row \in Rows
         /\ r.op = "recorded" => r.call \in Calls /\ r.seen \in Call
<1>1. r.op \in ConversationOps => r \in ConversationRequest
  BY ConversationKind
<1> QED BY <1>1 DEF ConversationOps, ConversationRequest

LEMMA LibraryParts ==
  ASSUME NEW r \in AnyRequest
  PROVE  /\ r.op = "template" => r.found \in SUBSET Questions
         /\ r.op \in OnDocument =>
              r.document \in Documents /\ r = [op |-> r.op, document |-> r.document]
<1>1. r.op \in LibraryOps => r \in LibraryRequest
  BY LibraryKind
<1> QED BY <1>1 DEF LibraryOps, OnDocument, LibraryRequest

LEMMA AccountParts ==
  ASSUME NEW r \in AnyRequest
  PROVE  /\ r.op \in {"log_in", "fail", "verify", "reset"} =>
              /\ r.user \in Users /\ r.seen \in User /\ r.token \in Tokens \union {None}
              /\ r.status \in CompanyStatus \union {None}
         /\ r.op \in {"refresh", "resend", "forgot"} =>
              r.user \in Users /\ r.token \in Tokens \union {None}
         /\ r.op = "mail" => r.token \in Tokens
<1>1. r.op \in AccountOps => r \in AccountRequest
  BY AccountKind
<1> QED BY <1>1 DEF AccountOps, AccountRequest

LEMMA CampaignParts ==
  ASSUME NEW r \in AnyRequest
  PROVE  /\ r.op \in CampaignOps => r.campaign \in Campaigns /\ r.seen \in Campaign
         /\ r.op = "edit" => r.text \in Audio
         /\ r.op \in {"store_audio", "send_audio", "save_audio"} =>
              /\ r.text \in Texts /\ r.launches \in BOOLEAN
              /\ r = [op |-> r.op, campaign |-> r.campaign, seen |-> r.seen, text |-> r.text,
                      launches |-> r.launches]
         /\ r.op = "import" =>
              r.removed \in SUBSET Numbers /\ r.file \in SUBSET Numbers
              /\ r.marked \in SUBSET Numbers
         /\ r.op = "save_import" =>
              r.removed \in SUBSET Numbers /\ r.found \in SUBSET Numbers
              /\ r.added \in SUBSET Numbers /\ r.blocked \in SUBSET Numbers
         /\ r.op \in {"launch", "save_launch", "set_status"} =>
              /\ r.to \in CampaignStatus
              /\ r = [op |-> r.op, campaign |-> r.campaign, seen |-> r.seen, to |-> r.to]
         /\ r.op = "add_contact" => r.new \in Campaign /\ r.number \in Numbers
<1>1. r.op \in CampaignOps => r \in CampaignRequest
  BY CampaignKind
<1> QED BY <1>1 DEF CampaignOps, CampaignRequest

LEMMA ImportParts ==
  ASSUME NEW r \in AnyRequest, r.op = "import", NEW gone
  PROVE  [r EXCEPT !.removed = @ \ gone] \in AnyRequest
<1>1. r \in CampaignRequest
  BY CampaignKind DEF CampaignOps
<1>2. r.removed \ gone \in SUBSET Numbers
  BY CampaignParts
<1> QED BY <1>1, <1>2 DEF CampaignRequest, AnyRequest

LEMMA DeletionParts ==
  ASSUME NEW r \in AnyRequest, r.op \in DeletionOps
  PROVE  /\ r.documents \in SUBSET Documents /\ r.calls \in SUBSET Calls
         /\ r.audios \in SUBSET Texts
         /\ [r EXCEPT !.op = "delete_files"] \in DeletionRequest
         /\ [r EXCEPT !.op = "delete_files"]
              = [op |-> "delete_files", documents |-> r.documents, calls |-> r.calls,
                 audios |-> r.audios]
<1>1. r \in DeletionRequest
  BY DeletionKind
<1> QED BY <1>1 DEF DeletionRequest

(* A job, and what it may have seen.                                       *)
AnyJob ==
  [task : {"sync", "confirm"}, of : Rows, tries : Tries, at : TaskStep \ {"reference"},
   saw : Docs \union {Unlinked, None}]
  \union [task : {"sync"}, of : Rows, tries : Tries, at : {"reference"}, saw : Docs \union {None}]
  \union [task : {"process"}, of : Documents, tries : Tries, at : TaskStep,
          saw : {Clash, None}]
  \union [task : {"email"}, of : Tokens, tries : Tries, at : TaskStep, saw : {None}]

LEMMA JobParts ==
  ASSUME NEW j \in AnyJob
  PROVE  /\ [task |-> j.task, of |-> j.of, tries |-> j.tries] \in Task
         /\ j.task \in {"sync", "confirm"} =>
              j.of \in Rows /\ j.saw \in Docs \union {Unlinked, None}
         /\ j.task = "sync" /\ j.at = "reference" => j.saw \in Docs \union {None}
         /\ j.task = "process" => j.of \in Documents
         /\ j.task = "email" => j.of \in Tokens
         /\ j.tries \in Tries /\ j.at \in TaskStep /\ j.saw \in Docs \union {Clash, Unlinked, None}
         /\ \A at \in TaskStep \ {"reference"} : [j EXCEPT !.at = at] \in AnyJob
<1>1. "reference" \in TaskStep
  BY DEF TaskStep
<1> QED BY <1>1 DEF AnyJob, Task

LEMMA StartedJob ==
  ASSUME NEW m \in Task
  PROVE  [task |-> m.task, of |-> m.of, tries |-> m.tries, at |-> "start", saw |-> None] \in AnyJob
  BY DEF AnyJob, Task, TaskStep

-----------------------------------------------------------------------------
(* The types, and what they rest on: a token belongs to a user there is,   *)
(* also the one a request holds, and a broadcast that is to be spoken has  *)
(* something to say.                                                       *)
TypedQueue == IsABag(queue) /\ BagToSet(queue) \subseteq Task
TypedJobs == job \in [Workers -> AnyJob \union {None}]
TypedRequests == req \in [Requests -> AnyRequest]
TypedCompany == env \in Environments /\ company \in CompanyStatus \union {None}

TokensOwned == \A t \in Tokens : tokens[t] # None => users[tokens[t].user] \in User

Holding == {"verify", "reset", "refresh"}
TokensHeld ==
  \A q \in Requests : req[q].op \in Holding =>
    /\ req[q].token \in Tokens
    /\ tokens[req[q].token] # None => tokens[req[q].token].user = req[q].user

SomethingToSay ==
  \A q \in Requests :
    req[q].op = "add_contact" /\ req[q].new.kind = "broadcast" /\ req[q].new.media = None
      => req[q].new.text \in Texts

TypedState ==
  /\ ConversationsTypeOK /\ LibraryTypeOK /\ AccountsTypeOK /\ CampaignsTypeOK /\ TypedCompany
Typed ==
  /\ TypedState /\ TypedQueue /\ TypedJobs /\ TypedRequests
  /\ TokensOwned /\ TokensHeld /\ SomethingToSay

LEMMA TypedIsTypeOK == Typed => BackOfficeTypeOK
<1> SUFFICES ASSUME Typed PROVE BackOfficeTypeOK
  OBVIOUS
<1>1. ASSUME NEW w \in Workers, job[w] # None
      PROVE  /\ [task |-> job[w].task, of |-> Of(w), tries |-> job[w].tries] \in Task
             /\ job[w].at \in TaskStep /\ job[w].saw \in Docs \union {Clash, Unlinked, None}
  BY <1>1, JobParts DEF Typed, TypedJobs, Of
<1>2. req \in [Requests -> {Idle} \union ConversationRequest \union LibraryRequest
                           \union AccountRequest \union CampaignRequest \union DeletionRequest]
  BY DEF Typed, TypedRequests, AnyRequest
<1> QED BY <1>1, <1>2 DEF Typed, TypedState, TypedCompany, TypedQueue, BackOfficeTypeOK

-----------------------------------------------------------------------------
(* What a step does to requests, to the broker and to jobs.                *)
Goes(q) == UNCHANGED req \/ \E d \in AnyRequest : Become(q, d)

LEMMA GoesType ==
  ASSUME TypedRequests, NEW q \in Requests, Goes(q)
  PROVE  TypedRequests' /\ \A p \in Requests \ {q} : req'[p] = req[p]
  BY DEF Goes, TypedRequests, Become

LEMMA IdleGoes ==
  ASSUME NEW q \in Requests, Become(q, Idle) PROVE Goes(q)
  BY DEF Goes, AnyRequest

LEMMA QueueType ==
  ASSUME TypedQueue, NEW m \in Task, Queue(m)
  PROVE  TypedQueue' /\ BagToSet(queue') = BagToSet(queue) \union {m}
<1>1. queue' = queue (+) SetToBag({m})
  BY DEF Queue
<1>2. /\ IsABag(queue (+) SetToBag({m}))
      /\ BagToSet(queue (+) SetToBag({m})) = BagToSet(queue) \union {m}
  BY QueueAdded DEF TypedQueue
<1> QED BY <1>1, <1>2 DEF TypedQueue, IsABag, BagToSet

LEMMA PublishType ==
  ASSUME TypedQueue, NEW task, NEW of, Message(task, of) \in Task, Publish(task, of)
  PROVE  TypedQueue'
  BY QueueType DEF Publish, TypedQueue, IsABag, BagToSet

LEMMA MessageType ==
  /\ \A r \in Rows : Message("sync", r) \in Task /\ Message("confirm", r) \in Task
  /\ \A d \in Documents : Message("process", d) \in Task
  /\ \A t \in Tokens : Message("email", t) \in Task
  BY TasksAssumption DEF Message, Task, Tries

(* A worker that is done with its task, or goes on with it.                *)
LEMMA FinishType ==
  ASSUME TypedQueue, TypedJobs, NEW w \in Workers, Finish(w)
  PROVE  TypedQueue' /\ TypedJobs'
  BY DEF TypedQueue, TypedJobs, Finish, IsABag, BagToSet

LEMMA ProceedType ==
  ASSUME TypedJobs, NEW w \in Workers, job[w] # None, NEW at \in TaskStep \ {"reference"},
         Proceed(w, at)
  PROVE  TypedJobs'
  BY JobParts DEF TypedJobs, Proceed

LEMMA TryAgainType ==
  ASSUME TypedQueue, TypedJobs, NEW w \in Workers, job[w] # None, TryAgain(w)
  PROVE  TypedQueue' /\ TypedJobs'
<1>1. TypedJobs'
  BY DEF TypedJobs, TryAgain
<1>2. CASE UNCHANGED queue
  BY <1>1, <1>2 DEF TypedQueue, IsABag, BagToSet
<1>3. CASE job[w].tries < Retries /\ Queue(Again(w))
  <2>1. job[w] \in AnyJob
    BY DEF TypedJobs
  <2>2. [task |-> job[w].task, of |-> Of(w), tries |-> job[w].tries] \in Task
    BY <2>1, JobParts DEF Of
  <2>3. job[w].tries + 1 \in Tries
    <3>1. job[w].tries \in 0..Retries
      BY <2>1, JobParts DEF Tries
    <3> QED BY <1>3, <3>1, TasksAssumption DEF Tries
  <2>4. Again(w) \in Task
    BY <2>2, <2>3 DEF Again, Task
  <2> QED BY <1>3, <2>4, <1>1, QueueType
<1> QED BY <1>1, <1>2, <1>3 DEF TryAgain

-----------------------------------------------------------------------------
(* Conversations.                                                          *)
LEMMA CallUpdates ==
  ASSUME NEW x \in Call, NEW status \in CallStatus, NEW outcome \in Outcome
  PROVE  /\ [[x EXCEPT !.status = status] EXCEPT !.outcome = outcome] \in Call
         /\ [x EXCEPT !.status = status] \in Call
         /\ \A url, key \in Calls \union {None}, linked \in BOOLEAN :
              [[[x EXCEPT !.url = url] EXCEPT !.key = key] EXCEPT !.linked = linked] \in Call
  BY DEF Call

LEMMA CallTypes ==
  ASSUME TypedState, TypedRequests, NEW q \in Requests,
         \/ AnswerCall(q) \/ TestCall(q) \/ ResolveCall(q) \/ UpdateCall(q) \/ Complete(q)
         \/ StoreRecording(q)
  PROVE  ConversationsTypeOK' /\ Goes(q) /\ UNCHANGED <<env, company, queue, job>>
<1> USE DEF TypedState, ConversationsTypeOK, OnlyCalls
<1>1. ASSUME NEW source \in {"telephony", "web_test"}, NewCall(source)
      PROVE  ConversationsTypeOK' /\ Goes(q) /\ UNCHANGED <<env, company, queue, job>>
  BY <1>1 DEF NewCall, Call, CallStatus, Goes
<1>2. CASE AnswerCall(q) \/ TestCall(q)
  BY <1>1, <1>2 DEF AnswerCall, TestCall
<1>3. CASE ResolveCall(q)
  BY <1>3 DEF ResolveCall, Call, CallStatus, Goes
<1>4. CASE UpdateCall(q)
  BY <1>4 DEF UpdateCall, Call, Goes
<1>5. CASE Complete(q)
  <2>1. PICK c \in Calls, outcome \in Outcome, booking \in BOOLEAN, phone \in BOOLEAN :
          /\ calls[c] # None
          /\ calls' = [calls EXCEPT ![c].status = "completed", ![c].outcome = outcome]
          /\ \/ Become(q, [op |-> "search", call |-> c, outcome |-> outcome,
                            booking |-> booking, phone |-> phone])
             \/ UNCHANGED req
    BY <1>5 DEF Complete
  <2>2. [op |-> "search", call |-> c, outcome |-> outcome,
         booking |-> booking, phone |-> phone] \in AnyRequest
    BY DEF AnyRequest, ConversationRequest
  <2>3. Goes(q)
    BY <2>1, <2>2 DEF Goes
  <2>4. calls' \in [Calls -> Call \union {None}]
    BY <2>1, CallUpdates DEF CallStatus
  <2> QED BY <1>5, <2>3, <2>4 DEF Complete
<1>6. CASE StoreRecording(q)
  <2> DEFINE c == req[q].call  seen == req[q].seen
  <2>1. c \in Calls /\ seen \in Call
    BY <1>6, ConversationParts DEF StoreRecording, At, TypedRequests
  <2>2. CASE /\ calls[c] # None
             /\ calls' = [calls EXCEPT ![c].url = Written(@, seen.url, c),
                                       ![c].key = Written(@, seen.key, c),
                                       ![c].linked = @ \/ seen.key # c]
    <3>1. calls[c] \in Call
      BY <2>1, <2>2
    <3> DEFINE url == Written(calls[c].url, seen.url, c)
               key == Written(calls[c].key, seen.key, c)
               linked == calls[c].linked \/ seen.key # c
    <3>2. url \in Calls \union {None} /\ key \in Calls \union {None} /\ linked \in BOOLEAN
      BY <2>1, <3>1 DEF Written, Call
    <3>3. [[[calls[c] EXCEPT !.url = url] EXCEPT !.key = key] EXCEPT !.linked = linked] \in Call
      BY <3>1, <3>2, CallUpdates DEF CallStatus, Outcome
    <3>4. calls' = [calls EXCEPT ![c] =
                      [[[@ EXCEPT !.url = url] EXCEPT !.key = key] EXCEPT !.linked = linked]]
      BY <2>1, <2>2, <3>1 DEF Written, Call
    <3>5. calls' \in [Calls -> Call \union {None}]
      BY <2>1, <3>3, <3>4
    <3> QED BY <1>6, <3>5, IdleGoes DEF StoreRecording
  <2>3. CASE UNCHANGED calls
    BY <1>6, <2>3, IdleGoes DEF StoreRecording
  <2> QED BY <1>6, <2>2, <2>3 DEF StoreRecording
<1> QED BY <1>2, <1>3, <1>4, <1>5, <1>6

LEMMA RowUpdates ==
  ASSUME NEW x \in Row
  PROVE  /\ [x EXCEPT !.phone = TRUE] \in Row
         /\ \A d \in Docs \union {None} : [x EXCEPT !.ref = d] \in Row
  BY DEF Row

LEMMA RowTypes ==
  ASSUME TypedState, TypedRequests, NEW q \in Requests,
         \/ SearchRequest(q) \/ InsertRequest(q) \/ CreateRequest(q) \/ UpdateRequest(q)
  PROVE  ConversationsTypeOK' /\ Goes(q) /\ UNCHANGED <<env, company, queue, job>>
<1> USE DEF TypedState, ConversationsTypeOK, OnlyRows
<1>0. Unused # {} => NewRow \in Rows
  BY DEF Unused, NewRow
<1>1. CASE SearchRequest(q)
  <2>1. [req[q] EXCEPT !.op = "insert"] \in AnyRequest
    <3>1. req[q] \in AnyRequest /\ req[q].op = "search"
      BY <1>1 DEF SearchRequest, At, TypedRequests
    <3>2. [req[q] EXCEPT !.op = "insert"]
            = [op |-> "insert", call |-> req[q].call, outcome |-> req[q].outcome,
               booking |-> req[q].booking, phone |-> req[q].phone]
      BY <3>1, ConversationParts
    <3> QED BY <3>1, <3>2, ConversationParts DEF AnyRequest, ConversationRequest
  <2> QED BY <1>1, <2>1, IdleGoes DEF SearchRequest, Goes
<1>2. CASE InsertRequest(q)
  <2>1. /\ req[q].call \in Calls /\ req[q].outcome \in Outcome
        /\ req[q].booking \in BOOLEAN /\ req[q].phone \in BOOLEAN
    BY <1>2, ConversationParts DEF InsertRequest, At, TypedRequests
  <2>2. CASE Become(q, Idle) /\ UNCHANGED rows
    BY <1>2, <2>2, IdleGoes DEF InsertRequest
  <2>3. CASE /\ Unused # {}
             /\ rows' = [rows EXCEPT ![NewRow] =
                   [call |-> req[q].call, made |-> "complete", booking |-> req[q].booking,
                    phone |-> req[q].phone, ref |-> None]]
             /\ Become(q, [op |-> "sync", row |-> NewRow, outcome |-> req[q].outcome])
    <3>1. [op |-> "sync", row |-> NewRow, outcome |-> req[q].outcome] \in AnyRequest
      BY <1>0, <2>1, <2>3 DEF AnyRequest, ConversationRequest
    <3>2. [call |-> req[q].call, made |-> "complete", booking |-> req[q].booking,
           phone |-> req[q].phone, ref |-> None] \in Row
      BY <2>1 DEF Row
    <3> QED BY <1>0, <1>2, <2>3, <3>1, <3>2 DEF InsertRequest, Goes
  <2> QED BY <1>2, <2>2, <2>3 DEF InsertRequest
<1>3. CASE CreateRequest(q)
  <2>1. PICK c \in Calls \union {None}, booking \in BOOLEAN, phone \in BOOLEAN :
          /\ rows' = [rows EXCEPT ![NewRow] = [call |-> c, made |-> "user", booking |-> booking,
                                               phone |-> phone, ref |-> None]]
          /\ IF booking THEN Become(q, [op |-> "confirm", row |-> NewRow]) ELSE UNCHANGED req
    BY <1>3 DEF CreateRequest
  <2>2. NewRow \in Rows /\ [op |-> "confirm", row |-> NewRow] \in AnyRequest
    BY <1>0, <1>3 DEF CreateRequest, AnyRequest, ConversationRequest
  <2>3. [call |-> c, made |-> "user", booking |-> booking, phone |-> phone, ref |-> None] \in Row
    BY DEF Row
  <2> QED BY <1>3, <2>1, <2>2, <2>3 DEF CreateRequest, Goes
<1>4. CASE UpdateRequest(q)
  BY <1>4, RowUpdates DEF UpdateRequest, Goes
<1> QED BY <1>1, <1>2, <1>3, <1>4

LEMMA OtherConversationTypes ==
  ASSUME TypedState, TypedRequests, NEW q \in Requests, UploadRecording(q) \/ Link(q)
  PROVE  ConversationsTypeOK' /\ Goes(q) /\ UNCHANGED <<env, company, queue, job>>
<1> USE DEF TypedState, ConversationsTypeOK
<1>1. ASSUME NEW c \in Calls, calls[c] # None
      PROVE  [op |-> "recorded", call |-> c, seen |-> calls[c]] \in AnyRequest
  <2>1. calls[c] \in Call
    BY <1>1
  <2> QED BY <2>1 DEF AnyRequest, ConversationRequest
<1>2. CASE UploadRecording(q)
  <2>1. PICK c \in Calls :
          /\ calls[c] # None /\ recordings' \in {recordings, recordings \union {c}}
          /\ Become(q, [op |-> "recorded", call |-> c, seen |-> calls[c]]) \/ UNCHANGED req
    BY <1>2 DEF UploadRecording
  <2>2. recordings' \subseteq Calls /\ Goes(q)
    BY <1>1, <2>1 DEF Goes
  <2> QED BY <1>2, <2>2 DEF UploadRecording
<1>3. CASE Link(q)
  <2>1. UNCHANGED <<env, company, req, queue, job, calls, rows, docs, customers, sent, recordings>>
    BY <1>3 DEF Link, taskVars
  <2>2. links' \in [erp : 0..Many, whatsapp : BOOLEAN]
    BY <1>3 DEF Link
  <2> QED BY <2>1, <2>2 DEF Goes
<1> QED BY <1>2, <1>3

(* Deleting an integration reaches into the tasks that have loaded it.     *)
LEMMA UnlinkTypes ==
  ASSUME TypedState, TypedJobs, NEW q \in Requests, Unlink(q)
  PROVE  /\ ConversationsTypeOK' /\ TypedJobs' /\ UNCHANGED <<env, company, req, queue>>
         /\ \A w \in Workers : job'[w] # None => job[w] # None
<1>1. PICK erp \in 0..links.erp, whatsapp \in BOOLEAN, holders \in SUBSET Loaded :
        /\ links' = [erp |-> erp, whatsapp |-> whatsapp]
        /\ job' = [w \in Workers |-> IF w \in holders THEN [job[w] EXCEPT !.saw = Unlinked]
                                                   ELSE job[w]]
  BY DEF Unlink
<1>2. links' \in [erp : 0..Many, whatsapp : BOOLEAN]
  <2>1. links.erp \in 0..Many
    BY DEF TypedState, ConversationsTypeOK
  <2>2. erp \in 0..Many
    BY <2>1 DEF Many
  <2> QED BY <1>1, <2>2
<1>3. ASSUME NEW w \in Workers, w \in Loaded
      PROVE  /\ job[w] # None
             /\ [job[w] EXCEPT !.saw = Unlinked] \in AnyJob
  <2>1. /\ job[w] \in AnyJob /\ job[w] # None
        /\ job[w].at \in {"find", "customer", "create", "send", "log"}
    BY <1>3 DEF Loaded, Jobs, TypedJobs
  <2>2. job[w].task \in {"sync", "confirm"}
    BY <1>3 DEF Loaded, Jobs
  <2> QED BY <2>1, <2>2 DEF AnyJob
<1>4. TypedJobs' /\ \A w \in Workers : job'[w] # None => job[w] # None
  BY <1>1, <1>3 DEF TypedJobs
<1>5. ConversationsTypeOK'
  BY <1>2 DEF Unlink, TypedState, ConversationsTypeOK
<1> QED BY <1>4, <1>5 DEF Unlink

LEMMA QueuingTypes ==
  ASSUME TypedState, TypedRequests, TypedQueue, NEW q \in Requests,
         QueueSync(q) \/ QueueConfirmation(q)
  PROVE  /\ TypedQueue' /\ Goes(q)
         /\ UNCHANGED <<env, company, job, conversationVars>>
<1>1. CASE QueueSync(q)
  <2>1. req[q].row \in Rows
    BY <1>1, ConversationParts DEF QueueSync, At, TypedRequests
  <2>2. [op |-> "confirm", row |-> req[q].row] \in AnyRequest
    BY <2>1 DEF AnyRequest, ConversationRequest
  <2>3. TypedQueue'
    BY <1>1, <2>1, MessageType, PublishType DEF QueueSync
  <2> QED BY <1>1, <2>2, <2>3, IdleGoes DEF QueueSync, OnlyQueue, Goes
<1>2. CASE QueueConfirmation(q)
  <2>1. req[q].row \in Rows
    BY <1>2, ConversationParts DEF QueueConfirmation, At, TypedRequests
  <2>2. TypedQueue'
    BY <1>2, <2>1, MessageType, PublishType DEF QueueConfirmation
  <2> QED BY <1>2, <2>2, IdleGoes DEF QueueConfirmation, OnlyQueue
<1> QED BY <1>1, <1>2

LEMMA SyncTypes ==
  ASSUME TypedState, TypedQueue, TypedJobs, NEW w \in Workers,
         \/ StartSync(w) \/ FindCustomer(w) \/ MakeCustomer(w) \/ MakeDocument(w)
         \/ LogDocument(w) \/ StoreReference(w)
  PROVE  /\ ConversationsTypeOK' /\ TypedQueue' /\ TypedJobs'
         /\ UNCHANGED <<env, company, req, calls, sent, recordings, links>>
<1> USE DEF TypedState, ConversationsTypeOK, AtErp
<1>0. /\ job[w] # None /\ job[w] \in AnyJob /\ job[w].task = "sync" /\ Of(w) \in Rows
      /\ job[w].saw \in Docs \union {Unlinked, None}
  BY JobParts DEF StartSync, FindCustomer, MakeCustomer, MakeDocument, LogDocument,
                  StoreReference, InJob, TypedJobs, Of
<1>1. ASSUME Finish(w) \/ TryAgain(w) PROVE TypedQueue' /\ TypedJobs'
  BY <1>0, <1>1, FinishType, TryAgainType
<1>2. ASSUME NEW at \in TaskStep \ {"reference"}, Proceed(w, at), UNCHANGED queue
      PROVE  TypedQueue' /\ TypedJobs'
  BY <1>0, <1>2, ProceedType DEF TypedQueue, IsABag, BagToSet
<1>3. {"find", "create", "customer"} \subseteq TaskStep \ {"reference"}
  BY DEF TaskStep
<1>4. CASE StartSync(w)
  BY <1>1, <1>2, <1>3, <1>4 DEF StartSync
<1>5. CASE FindCustomer(w)
  BY <1>1, <1>2, <1>3, <1>5 DEF FindCustomer
<1>6. CASE MakeCustomer(w)
  <2>1. OneMore(customers) \in 0..Many
    BY DEF OneMore, Many
  <2> QED BY <1>1, <1>2, <1>3, <1>6, <2>1 DEF MakeCustomer
<1>7. CASE MakeDocument(w)
  <2>1. CASE \E d \in Docs : docs[d] = None
    <3> DEFINE d == CHOOSE d \in Docs : docs[d] = None
    <3>1. d \in Docs
      BY <2>1
    <3>2. CASE docs' = [docs EXCEPT ![d] = Of(w)]
      <4>1. docs' \in [Docs -> Rows \union {None}]
        BY <1>0, <3>1, <3>2
      <4>2. TypedQueue' /\ TypedJobs'
        <5>1. CASE /\ job' = [job EXCEPT ![w].at = "log",
                                          ![w].saw = IF @ = Unlinked THEN Unlinked ELSE d]
                   /\ UNCHANGED queue
          <6>1. \A saw \in Docs \union {Unlinked} :
                  [[job[w] EXCEPT !.at = "log"] EXCEPT !.saw = saw] \in AnyJob
            BY <1>0, <3>1 DEF AnyJob, TaskStep
          <6> QED BY <3>1, <5>1, <6>1 DEF TypedJobs, TypedQueue, IsABag, BagToSet
        <5>2. CASE TryAgain(w)
          BY <1>1, <5>2
        <5> QED BY <1>7, <3>2, <5>1, <5>2 DEF MakeDocument
      <4> QED BY <1>7, <4>1, <4>2 DEF MakeDocument
    <3>3. CASE UNCHANGED docs /\ TryAgain(w)
      BY <1>1, <1>7, <3>3 DEF MakeDocument
    <3> QED BY <1>7, <3>2, <3>3 DEF MakeDocument
  <2>2. CASE ~ \E d \in Docs : docs[d] = None
    BY <1>1, <1>7, <2>2 DEF MakeDocument
  <2> QED BY <2>1, <2>2
<1>8. CASE StoreReference(w)
  <2>1. ASSUME rows[Of(w)] # None, rows' = [rows EXCEPT ![Of(w)].ref = job[w].saw]
        PROVE  rows' \in [Rows -> Row \union {None}]
    <3>1. job[w].saw \in Docs \union {None}
      BY <1>0, <1>8, JobParts DEF StoreReference, InJob
    <3> QED BY <1>0, <2>1, <3>1, RowUpdates
  <2>2. rows' \in [Rows -> Row \union {None}]
    BY <1>8, <2>1 DEF StoreReference
  <2>3. TypedQueue' /\ TypedJobs'
    BY <1>1, <1>8 DEF StoreReference
  <2> QED BY <1>8, <2>2, <2>3 DEF StoreReference
<1>9. CASE LogDocument(w)
  <2>1. CASE job[w].saw # Unlinked /\ Proceed(w, "reference") /\ UNCHANGED queue
    <3>1. [job[w] EXCEPT !.at = "reference"] \in AnyJob
      BY <1>0, <2>1 DEF AnyJob
    <3>2. TypedJobs' /\ TypedQueue'
      BY <2>1, <3>1 DEF Proceed, TypedJobs, TypedQueue, IsABag, BagToSet
    <3> QED BY <1>9, <3>2 DEF LogDocument
  <2>2. CASE TryAgain(w)
    BY <1>1, <1>9, <2>2 DEF LogDocument
  <2> QED BY <1>9, <2>1, <2>2 DEF LogDocument, Logged
<1> QED BY <1>4, <1>5, <1>6, <1>7, <1>8, <1>9

LEMMA ConfirmationTypes ==
  ASSUME TypedState, TypedQueue, TypedJobs, NEW w \in Workers,
         StartConfirmation(w) \/ SendConfirmation(w) \/ LogConfirmation(w)
  PROVE  /\ ConversationsTypeOK' /\ TypedQueue' /\ TypedJobs'
         /\ UNCHANGED <<env, company, req, calls, rows, docs, customers, recordings, links>>
<1> USE DEF TypedState, ConversationsTypeOK
<1>0. job[w] # None /\ job[w] \in AnyJob /\ job[w].task = "confirm" /\ Of(w) \in Rows
  BY JobParts DEF StartConfirmation, SendConfirmation, LogConfirmation, InJob, TypedJobs, Of
<1>1. ASSUME Finish(w) \/ TryAgain(w) PROVE TypedQueue' /\ TypedJobs'
  BY <1>0, <1>1, FinishType, TryAgainType
<1>4. ASSUME NEW at \in {"send", "log"}, Proceed(w, at), UNCHANGED queue
      PROVE  TypedQueue' /\ TypedJobs'
  BY <1>0, <1>4, ProceedType DEF TypedQueue, IsABag, BagToSet, TaskStep
<1>5. UNCHANGED conversationVars => ConversationsTypeOK'
  BY DEF conversationVars
<1>2. CASE StartConfirmation(w)
  BY <1>1, <1>2, <1>4, <1>5 DEF StartConfirmation, conversationVars
<1>3. CASE SendConfirmation(w)
  <2>1. \A n \in 0..Many : OneMore(n) \in 0..Many
    BY DEF OneMore, Many
  <2>2. sent' \in [Rows -> 0..Many]
    BY <1>0, <1>3, <2>1 DEF SendConfirmation
  <2> QED BY <1>1, <1>3, <1>4, <2>2 DEF SendConfirmation
<1>6. CASE LogConfirmation(w)
  BY <1>1, <1>5, <1>6 DEF LogConfirmation, Logged, conversationVars
<1> QED BY <1>2, <1>3, <1>6

-----------------------------------------------------------------------------
(* The knowledge base.                                                     *)
Knowledge == items \subseteq Item /\ documents \in [Documents -> DocumentStatus \union {None}]
Snapshots ==
  /\ reading \in [items : (SUBSET Item) \union {None}, current : BOOLEAN] \union {None}
  /\ kept \in Contents \union {None}

LEMMA LibraryTypeSplit ==
  LibraryTypeOK <=> Knowledge /\ Snapshots /\ objects \subseteq Documents
  BY DEF LibraryTypeOK, Knowledge, Snapshots

LEMMA BumpTypes ==
  ASSUME LibraryTypeOK, Bump \/ NoBump
  PROVE  Snapshots'
  BY DEF LibraryTypeOK, Snapshots, Bump, NoBump

LEMMA SetTypes ==
  ASSUME LibraryTypeOK, NEW d \in Documents, NEW s \in DocumentStatus, Set(d, s), UNCHANGED items
  PROVE  Knowledge'
  BY DEF LibraryTypeOK, Knowledge, Set

LEMMA OnDocumentRequest ==
  ASSUME NEW op \in OnDocument, NEW d \in Documents
  PROVE  [op |-> op, document |-> d] \in AnyRequest
  BY DEF OnDocument, AnyRequest, LibraryRequest

LEMMA NextType ==
  ASSUME TypedRequests, NEW q \in Requests, req[q].op \in OnDocument, NEW op \in OnDocument,
         Next_(q, op)
  PROVE  Goes(q)
<1>1. req[q] \in AnyRequest
  BY DEF TypedRequests
<1>2. [req[q] EXCEPT !.op = op] = [op |-> op, document |-> req[q].document]
  BY <1>1, LibraryParts
<1>3. [req[q] EXCEPT !.op = op] \in AnyRequest
  BY <1>1, <1>2, LibraryParts, OnDocumentRequest
<1> QED BY <1>3 DEF Next_, Goes

LEMMA ItemTypes ==
  ASSUME TypedState, TypedRequests, NEW q \in Requests,
         \/ CreateItem(q) \/ UpdateItem(q) \/ DeleteItem(q) \/ BumpVersion(q)
         \/ ReadTemplate(q) \/ ApplyTemplate(q)
  PROVE  LibraryTypeOK' /\ Goes(q) /\ UNCHANGED <<env, company, queue, job>>
<1> USE DEF TypedState, OnlyItems
<1>1. ASSUME items' \subseteq Item, Bump \/ NoBump, UNCHANGED <<documents, objects>>
      PROVE  LibraryTypeOK'
  BY <1>1, BumpTypes DEF LibraryTypeOK, Snapshots
<1>2. [op |-> "bump"] \in AnyRequest
  BY DEF AnyRequest, LibraryRequest
<1>3. CASE CreateItem(q) \/ UpdateItem(q) \/ DeleteItem(q)
  <2>1. items' \subseteq Item
    BY <1>3 DEF CreateItem, UpdateItem, DeleteItem, LibraryTypeOK
  <2> QED BY <1>1, <1>2, <1>3, <2>1 DEF CreateItem, UpdateItem, DeleteItem, NewVersion, Goes
<1>4. CASE BumpVersion(q)
  BY <1>1, <1>4, IdleGoes DEF BumpVersion, LibraryTypeOK
<1>5. CASE ReadTemplate(q)
  <2>1. {i[1] : i \in items} \subseteq Questions
    BY DEF LibraryTypeOK, Item
  <2>2. [op |-> "template", found |-> {i[1] : i \in items}] \in AnyRequest
    BY <2>1 DEF AnyRequest, LibraryRequest
  <2> QED BY <1>1, <1>5, <2>2 DEF ReadTemplate, Goes, LibraryTypeOK
<1>6. CASE ApplyTemplate(q)
  <2>1. items' \subseteq Item /\ (Bump \/ NoBump)
    BY <1>6 DEF ApplyTemplate, LibraryTypeOK, Item
  <2> QED BY <1>1, <1>6, <2>1, IdleGoes DEF ApplyTemplate
<1> QED BY <1>3, <1>4, <1>5, <1>6

LEMMA DocumentTypes ==
  ASSUME TypedState, TypedRequests, TypedQueue, NEW q \in Requests,
         \/ Upload(q) \/ StoreDocument(q) \/ UndoUpload(q) \/ Register(q) \/ QueueDocument(q)
         \/ Retry(q) \/ QueueAgain(q) \/ DeleteDocument(q) \/ BumpRemoved(q) \/ RemoveObject(q)
  PROVE  /\ LibraryTypeOK' /\ Goes(q) /\ TypedQueue'
         /\ UNCHANGED <<env, company, job>>
<1> USE DEF TypedState, OnlyDocuments
<1>1. ASSUME documents' \in [Documents -> DocumentStatus \union {None}], objects' \subseteq Documents,
             Bump \/ NoBump, UNCHANGED items
      PROVE  LibraryTypeOK'
  BY <1>1, BumpTypes DEF LibraryTypeOK, Snapshots
<1>2. UNCHANGED queue => TypedQueue'
  BY DEF TypedQueue, IsABag, BagToSet
<1>3. External \subseteq Documents
  BY LibraryAssumption
<1>4. {"pending", "failed"} \subseteq DocumentStatus
  BY DEF DocumentStatus
<1> USE DEF LibraryTypeOK
<1>5. ASSUME req[q].op \in OnDocument PROVE req[q].document \in Documents
  BY <1>5, LibraryParts DEF TypedRequests
<1>6. CASE Upload(q)
  <2>1. PICK d \in Documents :
          /\ objects' \in {objects, objects \union {d}}
          /\ Become(q, [op |-> "store_document", document |-> d]) \/ UNCHANGED req
    BY <1>6 DEF Upload
  <2>2. Goes(q)
    BY <2>1, OnDocumentRequest DEF Goes, OnDocument
  <2> QED BY <1>1, <1>2, <1>6, <2>1, <2>2 DEF Upload
<1>7. CASE StoreDocument(q)
  <2>1. req[q].op \in OnDocument
    BY <1>7 DEF StoreDocument, At, OnDocument
  <2>2. Next_(q, "queue_document") \/ Next_(q, "undo_upload")
    BY <1>7 DEF StoreDocument
  <2>3. Goes(q)
    BY <2>1, <2>2, NextType DEF OnDocument
  <2>4. documents' \in [Documents -> DocumentStatus \union {None}]
    BY <1>4, <1>5, <1>7, <2>1 DEF StoreDocument
  <2> QED BY <1>1, <1>2, <1>7, <2>3, <2>4 DEF StoreDocument
<1>8. CASE UndoUpload(q) \/ RemoveObject(q)
  <2>1. objects' \subseteq Documents
    BY <1>8 DEF UndoUpload, RemoveObject, RemoveFile
  <2> QED BY <1>1, <1>2, <1>8, <2>1, IdleGoes DEF UndoUpload, RemoveObject
<1>9. CASE Register(q)
  <2>1. PICK d \in External :
          /\ documents' = [documents EXCEPT ![d] = "pending"]
          /\ Become(q, [op |-> "queue_document", document |-> d]) \/ UNCHANGED req
    BY <1>9 DEF Register
  <2>2. documents' \in [Documents -> DocumentStatus \union {None}]
    BY <1>3, <1>4, <2>1
  <2>3. Goes(q)
    BY <1>3, <2>1, OnDocumentRequest DEF Goes, OnDocument
  <2> QED BY <1>1, <1>2, <1>9, <2>2, <2>3 DEF Register
<1>10. CASE QueueDocument(q)
  <2>1. req[q].document \in Documents
    BY <1>5, <1>10 DEF QueueDocument, At, OnDocument
  <2>2. TypedQueue'
    BY <1>2, <1>10, <2>1, MessageType, QueueType DEF QueueDocument
  <2>3. documents' \in [Documents -> DocumentStatus \union {None}]
    BY <1>4, <1>10, <2>1 DEF QueueDocument, Set
  <2>4. Become(q, Idle) \/ Next_(q, "undo_upload")
    BY <1>10 DEF QueueDocument
  <2>5. Goes(q)
    BY <1>10, <2>4, IdleGoes, NextType DEF QueueDocument, At, OnDocument
  <2> QED BY <1>1, <1>10, <2>2, <2>3, <2>5 DEF QueueDocument
<1>11. CASE Retry(q)
  <2>1. PICK d \in Documents :
          Set(d, "pending") /\ Become(q, [op |-> "queue_again", document |-> d])
    BY <1>11 DEF Retry
  <2>2. documents' \in [Documents -> DocumentStatus \union {None}]
    BY <1>4, <2>1 DEF Set
  <2>3. Goes(q)
    BY <2>1, OnDocumentRequest DEF Goes, OnDocument
  <2> QED BY <1>1, <1>2, <1>11, <2>2, <2>3 DEF Retry
<1>12. CASE QueueAgain(q)
  <2>1. req[q].document \in Documents
    BY <1>5, <1>12 DEF QueueAgain, At, OnDocument
  <2>2. TypedQueue'
    BY <1>12, <2>1, MessageType, PublishType DEF QueueAgain
  <2> QED BY <1>1, <1>12, <2>2, IdleGoes DEF QueueAgain
<1>13. CASE DeleteDocument(q)
  <2>1. PICK d \in Documents :
          /\ documents' = [documents EXCEPT ![d] = None]
          /\ Become(q, [op |-> "bump_removed", document |-> d])
    BY <1>13 DEF DeleteDocument
  <2>2. Goes(q)
    BY <2>1, OnDocumentRequest DEF Goes, OnDocument
  <2> QED BY <1>1, <1>2, <1>13, <2>1, <2>2 DEF DeleteDocument
<1>14. CASE BumpRemoved(q)
  <2>1. req[q].op \in OnDocument
    BY <1>14 DEF BumpRemoved, At, OnDocument
  <2>2. /\ Bump \/ NoBump
        /\ Become(q, Idle) \/ Next_(q, "remove_object")
    BY <1>14 DEF BumpRemoved
  <2>3. Goes(q)
    BY <2>1, <2>2, NextType, IdleGoes DEF OnDocument
  <2> QED BY <1>1, <1>2, <1>14, <2>2, <2>3 DEF BumpRemoved
<1> QED BY <1>6, <1>7, <1>8, <1>9, <1>10, <1>11, <1>12, <1>13, <1>14

LEMMA ProcessingTypes ==
  ASSUME TypedState, TypedQueue, TypedJobs, NEW w \in Workers, LibraryTask(w)
  PROVE  /\ LibraryTypeOK' /\ TypedQueue' /\ TypedJobs'
         /\ UNCHANGED <<env, company, req, items, objects>>
<1> USE DEF TypedState, OnlyWork
<1>0. job[w] # None /\ job[w] \in AnyJob /\ job[w].task = "process" /\ Of(w) \in Documents
  BY JobParts DEF LibraryTask, StartProcessing, Download, Clear, PublishChunks, MarkFailed,
                  RetryProcessing, InJob, TypedJobs, Of
<1>1. ASSUME Knowledge', Bump \/ NoBump, UNCHANGED objects PROVE LibraryTypeOK'
  BY <1>1, BumpTypes DEF LibraryTypeOK, Knowledge, Snapshots
<1>2. ASSUME UNCHANGED <<documents, items>> PROVE Knowledge'
  BY <1>2 DEF LibraryTypeOK, Knowledge
<1>3. ASSUME NEW at \in TaskStep \ {"reference"}, Proceed(w, at) PROVE TypedJobs'
  BY <1>0, <1>3, ProceedType
<1>4. UNCHANGED queue => TypedQueue'
  BY DEF TypedQueue, IsABag, BagToSet
<1>5. {"download", "clear", "fail", "publish", "again"} \subseteq TaskStep \ {"reference"}
  BY DEF TaskStep
<1>6. CASE StartProcessing(w)
  <2>1. TypedQueue' /\ TypedJobs'
    BY <1>0, <1>3, <1>4, <1>5, <1>6, FinishType DEF StartProcessing
  <2>2. UNCHANGED documents \/ Set(Of(w), "processing")
    BY <1>6 DEF StartProcessing
  <2>3. Knowledge'
    BY <1>0, <1>2, <1>6, <2>2, SetTypes DEF DocumentStatus, StartProcessing
  <2> QED BY <1>1, <1>6, <2>1, <2>3 DEF StartProcessing
<1>7. CASE Download(w)
  BY <1>1, <1>2, <1>3, <1>4, <1>5, <1>7 DEF Download
<1>8. CASE Clear(w)
  BY <1>1, <1>2, <1>3, <1>4, <1>5, <1>8 DEF Clear
<1>9. CASE PublishChunks(w)
  <2>1. CASE Proceed(w, "fail") /\ UNCHANGED documents /\ NoBump
    BY <1>1, <1>2, <1>3, <1>4, <1>5, <1>9, <2>1 DEF PublishChunks
  <2>2. CASE /\ Set(Of(w), "completed") /\ Bump
             /\ job' = [v \in Workers |-> IF v = w THEN None
                                          ELSE IF v \in Others(w)
                                            THEN [job[v] EXCEPT !.saw = Clash] ELSE job[v]]
    <3>1. Knowledge'
      BY <1>0, <1>9, <2>2, SetTypes DEF DocumentStatus, PublishChunks
    <3>2. ASSUME NEW v \in Others(w) PROVE [job[v] EXCEPT !.saw = Clash] \in AnyJob
      <4>1. job[v] \in AnyJob /\ job[v].task = "process"
        BY DEF Others, Jobs, TypedJobs
      <4> QED BY <4>1 DEF AnyJob
    <3>3. TypedJobs'
      BY <2>2, <3>2 DEF TypedJobs
    <3> QED BY <1>1, <1>4, <1>9, <2>2, <3>1, <3>3 DEF PublishChunks
  <2> QED BY <1>9, <2>1, <2>2 DEF PublishChunks
<1>10. CASE MarkFailed(w)
  <2>1. Knowledge'
    BY <1>0, <1>2, <1>10, SetTypes DEF DocumentStatus, MarkFailed
  <2>2. TypedQueue' /\ TypedJobs'
    BY <1>0, <1>3, <1>4, <1>5, <1>10, FinishType DEF MarkFailed
  <2> QED BY <1>1, <1>10, <2>1, <2>2 DEF MarkFailed
<1>11. CASE RetryProcessing(w)
  <2>1. TypedQueue' /\ TypedJobs'
    BY <1>0, <1>11, TryAgainType DEF RetryProcessing
  <2> QED BY <1>1, <1>2, <1>11, <2>1 DEF RetryProcessing
<1> QED BY <1>6, <1>7, <1>8, <1>9, <1>10, <1>11 DEF LibraryTask

LEMMA SnapshotTypes ==
  ASSUME TypedState, LibrarySnapshot
  PROVE  LibraryTypeOK' /\ UNCHANGED <<taskVars, items, documents, objects>>
<1> USE DEF TypedState, LibraryTypeOK, OnlyReading
<1>1. CASE ReadVersion
  BY <1>1 DEF ReadVersion
<1>2. CASE ReadItems
  BY <1>2 DEF ReadItems
<1>3. CASE ReadChunks
  <2>1. reading.items \in SUBSET Item /\ Visible \subseteq Documents
    BY <1>3 DEF ReadChunks, Visible
  <2>2. [items |-> reading.items, documents |-> Visible] \in Contents
    BY <2>1 DEF Contents
  <2> QED BY <1>3, <2>2 DEF ReadChunks
<1> QED BY <1>1, <1>2, <1>3 DEF LibrarySnapshot

-----------------------------------------------------------------------------
(* Each part moves only requests of its own operations.                    *)
Moves(q, ops) ==
  /\ req[q].op \in ops \union {"idle"}
  /\ UNCHANGED req \/ \E d : d.op \in ops \union {"idle"} /\ Become(q, d)

LEMMA Moved ==
  ASSUME TypedRequests, NEW q \in Requests, NEW ops, Moves(q, ops)
  PROVE  /\ \A p \in Requests \ {q} : req'[p] = req[p]
         /\ req'[q].op \in ops \union {"idle"}
         /\ \A p \in Requests : req'[p].op \notin ops \union {"idle"} => req'[p] = req[p]
         /\ \A p \in Requests : req[p].op \notin ops \union {"idle"} => req'[p] = req[p]
  BY DEF Moves, Become, TypedRequests

LEMMA FreeIsIdle ==
  ASSUME NEW q, Free(q) PROVE req[q].op = "idle" /\ Idle.op = "idle"
  BY DEF Free, Idle

LEMMA ConversationMoves ==
  ASSUME TypedRequests, NEW q \in Requests, ConversationAsked(q) \/ ConversationGoesOn(q)
  PROVE  Moves(q, ConversationOps)
<1>0. Idle.op = "idle"
  BY DEF Idle
<1> USE DEF Moves, ConversationOps
<1>1. CASE AnswerCall(q) \/ TestCall(q) \/ ResolveCall(q) \/ UpdateCall(q) \/ UpdateRequest(q)
  BY <1>1, FreeIsIdle DEF AnswerCall, TestCall, NewCall, ResolveCall, UpdateCall, UpdateRequest
<1>2. CASE Complete(q)
  BY <1>2, FreeIsIdle DEF Complete
<1>3. CASE CreateRequest(q)
  BY <1>3, FreeIsIdle DEF CreateRequest
<1>4. CASE UploadRecording(q)
  BY <1>4, FreeIsIdle DEF UploadRecording
<1>5. CASE Link(q) \/ Unlink(q)
  BY <1>5, FreeIsIdle DEF Link, Unlink, taskVars
<1>6. CASE SearchRequest(q)
  <2>1. [req[q] EXCEPT !.op = "insert"].op = "insert"
    BY <1>6, ConversationParts DEF SearchRequest, At, TypedRequests
  <2> QED BY <1>0, <1>6, <2>1 DEF SearchRequest, At
<1>7. CASE InsertRequest(q) \/ QueueSync(q)
  BY <1>0, <1>7 DEF InsertRequest, QueueSync, At
<1>8. CASE QueueConfirmation(q) \/ StoreRecording(q)
  BY <1>0, <1>8 DEF QueueConfirmation, StoreRecording, At
<1> QED
  BY <1>1, <1>2, <1>3, <1>4, <1>5, <1>6, <1>7, <1>8 DEF ConversationAsked, ConversationGoesOn

LEMMA LibraryMoves ==
  ASSUME TypedRequests, NEW q \in Requests, LibraryAsked(q) \/ LibraryGoesOn(q)
  PROVE  Moves(q, LibraryOps)
<1>0. Idle.op = "idle"
  BY DEF Idle
<1> USE DEF Moves, LibraryOps, OnDocument
<1>1. CASE CreateItem(q) \/ UpdateItem(q) \/ DeleteItem(q) \/ ReadTemplate(q)
  BY <1>1, FreeIsIdle DEF CreateItem, UpdateItem, DeleteItem, ReadTemplate, NewVersion
<1>2. CASE Upload(q) \/ Register(q)
  BY <1>2, FreeIsIdle DEF Upload, Register
<1>3. CASE Retry(q) \/ DeleteDocument(q)
  BY <1>3, FreeIsIdle DEF Retry, DeleteDocument
<1>4. CASE BumpVersion(q) \/ ApplyTemplate(q)
  BY <1>0, <1>4 DEF BumpVersion, ApplyTemplate, At
<1>5. CASE UndoUpload(q) \/ QueueAgain(q) \/ RemoveObject(q)
  BY <1>0, <1>5 DEF UndoUpload, QueueAgain, RemoveObject, At
<1>6. ASSUME req[q].op \in OnDocument, NEW op PROVE [req[q] EXCEPT !.op = op].op = op
  BY <1>6, LibraryParts DEF TypedRequests
<1>7. CASE StoreDocument(q)
  BY <1>6, <1>7 DEF StoreDocument, At, Next_
<1>8. CASE BumpRemoved(q) \/ QueueDocument(q)
  BY <1>0, <1>6, <1>8 DEF BumpRemoved, QueueDocument, At, Next_
<1> QED
  BY <1>1, <1>2, <1>3, <1>4, <1>5, <1>7, <1>8 DEF LibraryAsked, LibraryGoesOn

LEMMA AccountMoves ==
  ASSUME TypedRequests, NEW q \in Requests, AccountAsked(q) \/ AccountGoesOn(q)
  PROVE  Moves(q, AccountOps)
<1>0. Idle.op = "idle"
  BY DEF Idle
<1> USE DEF Moves, AccountOps
<1>1. CASE Signup(q)
  BY <1>1, FreeIsIdle DEF Signup
<1>2. CASE Login(q) \/ ReadRefresh(q)
  BY <1>2, FreeIsIdle DEF Login, ReadRefresh
<1>3. CASE ReadVerification(q) \/ ReadReset(q)
  BY <1>3, FreeIsIdle DEF ReadVerification, ReadReset, Follow
<1>4. CASE ReadResend(q) \/ ReadForgot(q)
  BY <1>4, FreeIsIdle DEF ReadResend, ReadForgot
<1>5. CASE CreateUser(q) \/ UpdateUser(q) \/ DeleteUser(q) \/ SetCompanyStatus(q)
  BY <1>5, FreeIsIdle DEF CreateUser, UpdateUser, DeleteUser, SetCompanyStatus
<1>6. CASE Mail(q) \/ FailLogin(q) \/ LogIn(q) \/ Refresh(q) \/ VerifyEmail(q) \/ ResetPassword(q)
  BY <1>0, <1>6 DEF Mail, FailLogin, LogIn, Refresh, VerifyEmail, ResetPassword, At
<1>7. CASE ResendVerification(q) \/ ForgotPassword(q)
  BY <1>0, <1>7 DEF ResendVerification, ForgotPassword, NewLink, At
<1> QED
  BY <1>1, <1>2, <1>3, <1>4, <1>5, <1>6, <1>7 DEF AccountAsked, AccountGoesOn

LEMMA CampaignMoves ==
  ASSUME TypedRequests, NEW q \in Requests, CampaignAsked(q) \/ CampaignGoesOn(q), ~SaveImport(q)
  PROVE  Moves(q, CampaignOps)
<1>0. Idle.op = "idle"
  BY DEF Idle
<1> USE DEF Moves, CampaignOps, Loads
<1>1. CASE CreateCampaign(q) \/ AddDnc(q) \/ DeleteDnc(q)
  BY <1>1, FreeIsIdle DEF CreateCampaign, AddDnc, DeleteDnc
<1>2. CASE LoadEdit(q) \/ LoadAudio(q)
  BY <1>2, FreeIsIdle DEF LoadEdit, LoadAudio, Speak
<1>3. CASE LoadImport(q) \/ LoadStatus(q)
  BY <1>3, FreeIsIdle DEF LoadImport, LoadStatus
<1>4. CASE LoadLaunch(q)
  <2>1. \A k, to : [Starts(k, campaigns[k]) EXCEPT !.to = to].op = "launch"
    BY DEF Starts
  <2> QED BY <1>4, <2>1, FreeIsIdle DEF LoadLaunch
<1>5. CASE SingleCall(q) \/ TestCampaign(q)
  BY <1>5, FreeIsIdle DEF SingleCall, TestCampaign, AddsContact
<1>6. CASE Edit(q) \/ SaveLaunch(q) \/ SetStatus(q)
  BY <1>0, <1>6 DEF Edit, SaveLaunch, SetStatus, At
<1>7. ASSUME req[q].op \in {"store_audio", "send_audio", "launch"}, NEW op
      PROVE  [req[q] EXCEPT !.op = op].op = op
  BY <1>7, CampaignParts DEF TypedRequests
<1>8. CASE StoreAudio(q)
  BY <1>0, <1>7, <1>8 DEF StoreAudio, At, GoOn
<1>9. CASE SendAudio(q)
  BY <1>0, <1>7, <1>9 DEF SendAudio, At, GoOn
<1>10. CASE Launch(q)
  BY <1>0, <1>7, <1>10 DEF Launch, At, GoOn
<1>11. CASE SaveAudio(q) \/ ReadImport(q)
  BY <1>0, <1>11 DEF SaveAudio, ReadImport, At, Starts
<1>12. CASE AddContact(q)
  BY <1>0, <1>12 DEF AddContact, At, Starts, Speak
<1> QED
  BY <1>1, <1>2, <1>3, <1>4, <1>5, <1>6, <1>8, <1>9, <1>10, <1>11, <1>12
  DEF CampaignAsked, CampaignGoesOn

(* Only an import that is saved reaches another: what that one is still to *)
(* delete.                                                                 *)
LEMMA ImportMoves ==
  ASSUME TypedRequests, NEW q \in Requests, SaveImport(q)
  PROVE  /\ req[q].op = "save_import" /\ req'[q] = Idle
         /\ \A p \in Requests \ {q} :
              \/ req'[p] = req[p]
              \/ /\ req[p].op = "import"
                 /\ req'[p] = [req[p] EXCEPT !.removed = @ \ req[q].removed]
         /\ req' \in [Requests -> AnyRequest]
<1>1. CASE Become(q, Idle)
  BY <1>1 DEF SaveImport, At, Become, TypedRequests, AnyRequest
<1>2. CASE Forget(q, req[q].campaign, req[q].removed)
  BY <1>2, ImportParts DEF SaveImport, At, Forget, TypedRequests, AnyRequest
<1> QED BY <1>1, <1>2 DEF SaveImport

LEMMA ImportKeeps ==
  ASSUME TypedRequests, NEW q \in Requests, SaveImport(q)
  PROVE  \A p \in Requests :
           /\ req'[p].op \notin {"idle", "import"} => req'[p] = req[p]
           /\ req[p].op \notin {"import", "save_import"} => req'[p] = req[p]
           /\ req'[p].op \in {"idle", req[p].op}
<1> SUFFICES ASSUME NEW p \in Requests
             PROVE  /\ req'[p].op \notin {"idle", "import"} => req'[p] = req[p]
                    /\ req[p].op \notin {"import", "save_import"} => req'[p] = req[p]
                    /\ req'[p].op \in {"idle", req[p].op}
  OBVIOUS
<1>1. CASE p = q
  BY <1>1, ImportMoves DEF Idle
<1>2. CASE p # q /\ req'[p] = req[p]
  BY <1>2
<1>3. CASE req[p].op = "import" /\ req'[p] = [req[p] EXCEPT !.removed = @ \ req[q].removed]
  <2>1. req[p] \in CampaignRequest
    BY <1>3, CampaignKind DEF CampaignOps, TypedRequests
  <2>2. req'[p].op = "import"
    BY <1>3, <2>1 DEF CampaignRequest
  <2> QED BY <1>3, <2>2
<1> QED BY <1>1, <1>2, <1>3, ImportMoves

LEMMA DeletionMoves ==
  ASSUME TypedRequests, NEW q \in Requests, ShowCompany(q) \/ DeleteRows(q) \/ DeleteFiles(q)
  PROVE  Moves(q, DeletionOps)
<1>0. Idle.op = "idle"
  BY DEF Idle
<1>1. CASE ShowCompany(q)
  BY <1>1, FreeIsIdle DEF ShowCompany, Moves, DeletionOps
<1>2. CASE DeleteRows(q)
  <2>1. req[q] \in AnyRequest /\ req[q].op = "delete_rows"
    BY <1>2 DEF DeleteRows, At, TypedRequests
  <2>2. [req[q] EXCEPT !.op = "delete_files"].op = "delete_files"
    BY <2>1, DeletionParts DEF DeletionOps
  <2> QED BY <1>0, <1>2, <2>1, <2>2 DEF DeleteRows, Moves, DeletionOps
<1>3. CASE DeleteFiles(q)
  BY <1>0, <1>3 DEF DeleteFiles, At, Moves, DeletionOps
<1> QED BY <1>1, <1>2, <1>3

-----------------------------------------------------------------------------
(* Accounts.  Whatever changes tokens and users, a token is a new one of   *)
(* user u, or was there before and belongs to whom it did; and no user     *)
(* goes without their tokens.                                              *)
LEMMA FreshToken ==
  Fresh # {} =>
    /\ NewToken \in Tokens /\ tokens[NewToken] = None
    /\ \A q \in Requests : req[q].op \in OnToken => req[q].token # NewToken
<1> SUFFICES ASSUME Fresh # {}
             PROVE  /\ NewToken \in Tokens /\ tokens[NewToken] = None
                    /\ \A q \in Requests : req[q].op \in OnToken => req[q].token # NewToken
  OBVIOUS
<1>1. NewToken \in Fresh
  BY DEF NewToken
<1> QED BY <1>1 DEF Fresh, Working

Evolves(u) ==
  /\ tokens' \in [Tokens -> Token \union {None}]
  /\ users' \in [Users -> User \union {None}]
  /\ \A t \in Tokens : tokens'[t] # None =>
       \/ /\ Fresh # {} /\ t = NewToken
          /\ tokens'[t].user = u /\ users'[u] \in User
       \/ /\ tokens[t] # None /\ tokens'[t].user = tokens[t].user
          /\ users[tokens[t].user] \in User => users'[tokens[t].user] \in User

LEMMA EvolvesOwned ==
  ASSUME TokensOwned, NEW u, Evolves(u)
  PROVE  TokensOwned'
  BY DEF TokensOwned, Evolves

LEMMA EvolvesHeld ==
  ASSUME TokensHeld, NEW u, Evolves(u),
         \A p \in Requests : req'[p].op \in Holding =>
           \/ req'[p] = req[p]
           \/ /\ req'[p].token \in Tokens /\ tokens[req'[p].token] # None
              /\ tokens[req'[p].token].user = req'[p].user
  PROVE  TokensHeld'
<1> SUFFICES ASSUME NEW p \in Requests, req'[p].op \in Holding
             PROVE  /\ req'[p].token \in Tokens
                    /\ tokens'[req'[p].token] # None
                         => tokens'[req'[p].token].user = req'[p].user
  BY DEF TokensHeld
<1>1. /\ req'[p].token \in Tokens
      /\ tokens[req'[p].token] # None => tokens[req'[p].token].user = req'[p].user
  BY DEF TokensHeld
<1>2. Fresh # {} => req'[p].token # NewToken
  BY FreshToken DEF Holding, OnToken
<1> QED BY <1>1, <1>2 DEF Evolves

LEMMA TokenUpdates ==
  ASSUME NEW x \in Token
  PROVE  /\ \A s \in TokenState :
              [x EXCEPT !.state = s] \in Token /\ [x EXCEPT !.state = s].user = x.user
         /\ \A s \in TokenState, p \in Passwords :
              /\ [[x EXCEPT !.state = s] EXCEPT !.given = p] \in Token
              /\ [[x EXCEPT !.state = s] EXCEPT !.given = p].user = x.user
         /\ x.type \in TokenType /\ x.user \in Users /\ x.root \in Tokens
  BY DEF Token

(* Tokens that are used up, invalidated or expire, and those issued.       *)
Older(rest) ==
  /\ rest \in [Tokens -> Token \union {None}]
  /\ \A t \in Tokens : rest[t] # None => tokens[t] # None /\ rest[t].user = tokens[t].user

LEMMA OlderTokens ==
  ASSUME AccountsTypeOK
  PROVE  /\ Older(tokens)
         /\ \A u, type :
              /\ Older(Invalidate(u, type))
              /\ \A t \in Tokens : tokens[t] # None =>
                   /\ Invalidate(u, type)[t] \in Token
                   /\ Invalidate(u, type)[t].user = tokens[t].user
<1>1. Older(tokens)
  BY DEF Older, AccountsTypeOK
<1>2. ASSUME NEW u, NEW type
      PROVE  /\ Older(Invalidate(u, type))
             /\ \A t \in Tokens : tokens[t] # None =>
                  /\ Invalidate(u, type)[t] \in Token
                  /\ Invalidate(u, type)[t].user = tokens[t].user
  <2>1. \A t \in Tokens : tokens[t] # None =>
          /\ tokens[t] \in Token
          /\ [tokens[t] EXCEPT !.state = "used"] \in Token
          /\ [tokens[t] EXCEPT !.state = "used"].user = tokens[t].user
    BY TokenUpdates DEF AccountsTypeOK, TokenState
  <2> QED BY <1>1, <2>1 DEF Older, Invalidate, Usable
<1> QED BY <1>1, <1>2

LEMMA OlderUse ==
  ASSUME NEW rest, Older(rest), NEW t \in Tokens, tokens[t] # None,
         rest[t] \in Token, rest[t].user = tokens[t].user
  PROVE  Older(Use(rest, t))
  BY TokenUpdates DEF Older, Use, TokenState

LEMMA OlderEvolves ==
  ASSUME NEW rest, Older(rest), NEW u, tokens' = rest,
         users' \in [Users -> User \union {None}],
         \A t \in Tokens : rest[t] # None /\ users[tokens[t].user] \in User
                          => users'[tokens[t].user] \in User
  PROVE  Evolves(u)
  BY DEF Older, Evolves

LEMMA IssueEvolves ==
  ASSUME NEW rest, Older(rest), NEW u \in Users, NEW type \in TokenType, Fresh # {},
         tokens' = Issue(rest, type, u),
         users' \in [Users -> User \union {None}], users'[u] \in User,
         \A v \in Users : users[v] \in User => users'[v] \in User,
         AccountsTypeOK
  PROVE  Evolves(u)
<1> DEFINE new == [type |-> type, user |-> u, state |-> "unused",
                   root |-> NewToken, given |-> users'[u].password]
<1>1. NewToken \in Tokens
  BY FreshToken
<1>2. users'[u].password \in Passwords
  BY DEF User
<1>3. new \in Token /\ new.user = u
  BY <1>1, <1>2 DEF Token, TokenState
<1>4. tokens' = [rest EXCEPT ![NewToken] = new]
  BY DEF Issue
<1>5. \A t \in Tokens : tokens[t] # None => tokens[t].user \in Users
  BY TokenUpdates DEF AccountsTypeOK
<1> HIDE DEF new
<1> QED BY <1>1, <1>3, <1>4, <1>5 DEF Older, Evolves

LEMMA UserUpdates ==
  ASSUME NEW x \in User
  PROVE  /\ \A n \in 0..MaxFails, b \in BOOLEAN :
              [[x EXCEPT !.fails = n] EXCEPT !.locked = b] \in User
         /\ \A n \in 0..MaxFails : [x EXCEPT !.fails = n] \in User
         /\ \A b \in BOOLEAN : [x EXCEPT !.locked = b] \in User
         /\ \A b, c \in BOOLEAN : [[x EXCEPT !.verified = b] EXCEPT !.active = c] \in User
         /\ \A b \in BOOLEAN, p \in Passwords :
              [[x EXCEPT !.active = b] EXCEPT !.password = p] \in User
         /\ \A p \in Passwords, n \in 0..MaxFails, b \in BOOLEAN :
              [[[x EXCEPT !.password = p] EXCEPT !.fails = n] EXCEPT !.locked = b] \in User
  BY DEF User

LEMMA UserFields ==
  ASSUME NEW x \in User
  PROVE  /\ x.fails \in 0..MaxFails /\ x.locked \in BOOLEAN /\ x.verified \in BOOLEAN
         /\ x.active \in BOOLEAN /\ x.password \in Passwords
  BY DEF User

(* A user that is changed is still one; nobody else changes.               *)
UserKept(u) ==
  \E x \in User : users' = [users EXCEPT ![u] = x]

LEMMA KeptUsers ==
  ASSUME AccountsTypeOK, NEW u \in Users, UserKept(u) \/ UNCHANGED users
  PROVE  /\ users' \in [Users -> User \union {None}]
         /\ \A v \in Users : users[v] \in User => users'[v] \in User
         /\ UserKept(u) => users'[u] \in User
         /\ \A t \in Tokens : tokens[t] # None /\ users[tokens[t].user] \in User
              => users'[tokens[t].user] \in User
<1>1. /\ users' \in [Users -> User \union {None}]
      /\ \A v \in Users : users[v] \in User => users'[v] \in User
      /\ UserKept(u) => users'[u] \in User
  BY DEF UserKept, AccountsTypeOK
<1>2. \A t \in Tokens : tokens[t] # None => tokens[t].user \in Users
  BY TokenUpdates DEF AccountsTypeOK
<1> QED BY <1>1, <1>2

LEMMA UnchangedEvolves ==
  ASSUME AccountsTypeOK, UNCHANGED <<users, tokens>>
  PROVE  \A u : Evolves(u)
  BY OlderTokens, OlderEvolves DEF AccountsTypeOK

LEMMA NewUser ==
  ASSUME NEW b \in BOOLEAN PROVE New(b) \in User
<1>1. (CHOOSE p \in Passwords : TRUE) \in Passwords
  BY AccountsAssumption
<1>2. 0 \in 0..MaxFails
  BY AccountsAssumption
<1> QED BY <1>1, <1>2 DEF New, User

LEMMA LoginTypes ==
  ASSUME TypedState, TypedRequests, TokensOwned, NEW q \in Requests,
         Login(q) \/ FailLogin(q) \/ LogIn(q)
  PROVE  /\ \E u : Evolves(u)
         /\ Goes(q) /\ (req'[q].op \notin Holding)
         /\ UNCHANGED <<env, company, queue, job, inbox>>
<1> USE DEF TypedState, Keep
<1>1. CASE Login(q)
  <2>1. PICK u \in Users, right \in BOOLEAN :
          /\ users[u] # None
          /\ Become(q, [op |-> IF right THEN "log_in" ELSE "fail", user |-> u, seen |-> users[u],
                        token |-> None, status |-> None])
    BY <1>1 DEF Login
  <2>2. users[u] \in User
    BY <2>1 DEF AccountsTypeOK
  <2>3. [op |-> IF right THEN "log_in" ELSE "fail", user |-> u, seen |-> users[u],
         token |-> None, status |-> None] \in AnyRequest
    BY <2>2 DEF AnyRequest, AccountRequest
  <2>4. Goes(q) /\ req'[q].op \notin Holding
    BY <2>1, <2>3 DEF Goes, Become, Holding, TypedRequests
  <2> QED BY <1>1, <2>4, UnchangedEvolves DEF Login
<1>2. CASE FailLogin(q) \/ LogIn(q)
  <2>1. req[q].user \in Users /\ req[q].seen \in User
    BY <1>2, AccountParts DEF FailLogin, LogIn, At, TypedRequests
  <2>2. Goes(q) /\ req'[q].op \notin Holding
    BY <1>2, IdleGoes DEF FailLogin, LogIn, Become, Idle, Holding, TypedRequests
  <2>3. CASE FailLogin(q)
    <3> DEFINE u == req[q].user
               fails == req[q].seen.fails + 1
    <3>1. fails \in Nat /\ (fails < MaxFails => fails \in 0..MaxFails) /\ MaxFails \in 0..MaxFails
      <4>1. req[q].seen.fails \in 0..MaxFails
        BY <2>1, UserFields
      <4> QED BY <4>1, AccountsAssumption
    <3>2. CASE users[u] = None
      BY <1>2, <2>2, <2>3, <3>2, UnchangedEvolves DEF FailLogin
    <3>3. CASE users[u] # None
      <4>1. users[u] \in User /\ users[u].locked \in BOOLEAN
        BY <2>1, <3>3, UserFields DEF AccountsTypeOK
      <4>2. UserKept(u)
        <5> DEFINE n == IF fails < MaxFails THEN fails ELSE MaxFails
                   b == users[u].locked \/ fails >= MaxFails
        <5>1. users' = [users EXCEPT ![u] = [[users[u] EXCEPT !.fails = n] EXCEPT !.locked = b]]
          <6>1. users' = [users EXCEPT ![u].fails = n, ![u].locked = @ \/ fails >= MaxFails]
            BY <2>3, <3>3 DEF FailLogin
          <6> QED BY <2>1, <4>1, <6>1 DEF AccountsTypeOK, User
        <5>2. n \in 0..MaxFails /\ b \in BOOLEAN
          BY <3>1
        <5>3. [[users[u] EXCEPT !.fails = n] EXCEPT !.locked = b] \in User
          <6> HIDE DEF n, b
          <6> QED BY <4>1, <5>2, UserUpdates
        <5> QED BY <5>1, <5>3 DEF UserKept
      <4>3. \A v : Evolves(v)
        BY <2>1, <2>3, <4>2, KeptUsers, OlderTokens, OlderEvolves DEF FailLogin
      <4> QED BY <2>2, <2>3, <4>3 DEF FailLogin
    <3> QED BY <3>2, <3>3
  <2>4. CASE LogIn(q)
    <3> DEFINE u == req[q].user
    <3>1. CASE UNCHANGED <<users, tokens>>
      BY <2>2, <2>4, <3>1, UnchangedEvolves DEF LogIn
    <3>2. CASE ~ UNCHANGED <<users, tokens>>
      <4>1. /\ users[u] # None /\ Fresh # {}
            /\ users' = [users EXCEPT ![u].fails = Written(@, req[q].seen.fails, 0)]
            /\ tokens' = Issue(tokens, "refresh_token", u)
        BY <2>4, <3>2 DEF LogIn
      <4>2. users[u] \in User /\ Written(users[u].fails, req[q].seen.fails, 0) \in 0..MaxFails
        BY <2>1, <4>1, UserFields, AccountsAssumption DEF AccountsTypeOK, Written
      <4>3. UserKept(u)
        BY <2>1, <4>1, <4>2, UserUpdates DEF UserKept, AccountsTypeOK
      <4>4. Evolves(u)
        BY <2>1, <4>1, <4>3, KeptUsers, OlderTokens, IssueEvolves DEF TokenType
      <4> QED BY <2>2, <2>4, <4>4 DEF LogIn
    <3> QED BY <3>1, <3>2
  <2> QED BY <1>2, <2>3, <2>4
<1> QED BY <1>1, <1>2

(* A request that has read a token of a user, and may hold it.             *)
Reads(q) ==
  req'[q].op \in Holding =>
    /\ req'[q].token \in Tokens /\ tokens[req'[q].token] # None
    /\ tokens[req'[q].token].user = req'[q].user

LEMMA TokenReadTypes ==
  ASSUME TypedState, TypedRequests, TokensOwned, NEW q \in Requests,
         \/ ReadRefresh(q) \/ ReadVerification(q) \/ ReadReset(q) \/ ReadResend(q) \/ ReadForgot(q)
  PROVE  /\ \A u : Evolves(u)
         /\ Goes(q) /\ Reads(q)
         /\ UNCHANGED <<env, company, queue, job, inbox>>
<1> USE DEF TypedState, Keep
<1>1. \A t \in Tokens : tokens[t] # None =>
        tokens[t].user \in Users /\ users[tokens[t].user] \in User
  BY TokenUpdates DEF TokensOwned, AccountsTypeOK
<1>2. CASE ReadRefresh(q)
  <2>1. PICK t \in Tokens :
          Usable(t) /\ Become(q, [op |-> "refresh", user |-> tokens[t].user, token |-> t])
    BY <1>2 DEF ReadRefresh
  <2>2. tokens[t] # None
    BY <2>1 DEF Usable
  <2>3. [op |-> "refresh", user |-> tokens[t].user, token |-> t] \in AnyRequest
    BY <1>1, <2>2 DEF AnyRequest, AccountRequest
  <2>4. Goes(q) /\ Reads(q)
    BY <2>1, <2>2, <2>3 DEF Goes, Reads, Become, TypedRequests
  <2> QED BY <1>2, <2>4, UnchangedEvolves DEF ReadRefresh
<1>3. ASSUME NEW op \in {"verify", "reset"}, NEW type, Follow(q, op, type)
      PROVE  Goes(q) /\ Reads(q)
  <2>1. PICK t \in inbox :
          /\ Usable(t)
          /\ Become(q, [op |-> op, user |-> tokens[t].user, seen |-> users[tokens[t].user],
                        token |-> t, status |-> company])
    BY <1>3 DEF Follow
  <2>2. t \in Tokens /\ tokens[t] # None
    BY <2>1 DEF Usable, AccountsTypeOK
  <2>3. [op |-> op, user |-> tokens[t].user, seen |-> users[tokens[t].user],
         token |-> t, status |-> company] \in AnyRequest
    BY <1>1, <2>2 DEF AnyRequest, AccountRequest, TypedCompany
  <2> QED BY <2>1, <2>2, <2>3 DEF Goes, Reads, Become, TypedRequests
<1>4. CASE ReadVerification(q) \/ ReadReset(q)
  BY <1>3, <1>4, UnchangedEvolves DEF ReadVerification, ReadReset
<1>5. CASE ReadResend(q) \/ ReadForgot(q)
  <2>1. PICK u \in Users, op \in {"resend", "forgot"} :
          Become(q, [op |-> op, user |-> u, token |-> None])
    BY <1>5 DEF ReadResend, ReadForgot
  <2>2. [op |-> op, user |-> u, token |-> None] \in AnyRequest
    BY DEF AnyRequest, AccountRequest
  <2>3. Goes(q) /\ Reads(q)
    BY <2>1, <2>2 DEF Goes, Reads, Become, TypedRequests, Holding
  <2> QED BY <1>5, <2>3, UnchangedEvolves DEF ReadResend, ReadForgot
<1> QED BY <1>2, <1>4, <1>5

LEMMA RefreshTypes ==
  ASSUME TypedState, TypedRequests, TokensOwned, TokensHeld, NEW q \in Requests, Refresh(q)
  PROVE  /\ \E u : Evolves(u)
         /\ Goes(q) /\ req'[q].op \notin Holding
         /\ UNCHANGED <<env, company, queue, job, inbox>>
<1> USE DEF TypedState, Keep
<1> DEFINE t == req[q].token
           u == req[q].user
<1>1. Goes(q) /\ req'[q].op \notin Holding
  BY IdleGoes DEF Refresh, Become, Idle, Holding, TypedRequests
<1>2. t \in Tokens /\ u \in Users /\ (tokens[t] # None => tokens[t].user = u)
  BY AccountParts DEF Refresh, At, TokensHeld, Holding, TypedRequests
<1>3. CASE UNCHANGED tokens
  BY <1>1, <1>3, UnchangedEvolves DEF Refresh
<1>4. CASE ~UNCHANGED tokens
  <2>1. /\ tokens[t] # None /\ Fresh # {}
        /\ tokens' = [Use(tokens, t) EXCEPT ![NewToken] =
                        [[tokens[t] EXCEPT !.state = "unused"] EXCEPT !.given = users[u].password]]
    BY <1>4 DEF Refresh, Rotate
  <2>2. tokens[t] \in Token /\ users[u] \in User /\ NewToken \in Tokens
    BY <1>2, <2>1, FreshToken DEF AccountsTypeOK, TokensOwned
  <2> DEFINE new == [[tokens[t] EXCEPT !.state = "unused"] EXCEPT !.given = users[u].password]
  <2>3. new \in Token /\ new.user = u
    BY <1>2, <2>1, <2>2, TokenUpdates, UserFields DEF TokenState
  <2>4. Older(Use(tokens, t))
    BY <1>2, <2>1, <2>2, OlderTokens, OlderUse
  <2> HIDE DEF new
  <2>5. Evolves(u)
    BY <2>1, <2>2, <2>3, <2>4 DEF Older, Evolves, Refresh, AccountsTypeOK, new
  <2> QED BY <1>1, <2>5 DEF Refresh
<1> QED BY <1>3, <1>4

LEMMA VerifyTypes ==
  ASSUME TypedState, TypedRequests, TokensOwned, TokensHeld, NEW q \in Requests, VerifyEmail(q)
  PROVE  /\ \E u : Evolves(u)
         /\ Goes(q) /\ req'[q].op \notin Holding
         /\ TypedCompany' /\ UNCHANGED <<env, queue, job, inbox>>
<1> USE DEF TypedState, Keep, TypedCompany
<1> DEFINE t == req[q].token
           u == req[q].user
           seen == req[q].seen
<1>1. Goes(q) /\ req'[q].op \notin Holding
  BY IdleGoes DEF VerifyEmail, Become, Idle, Holding, TypedRequests
<1>2. t \in Tokens /\ u \in Users /\ seen \in User /\ (tokens[t] # None => tokens[t].user = u)
  BY AccountParts DEF VerifyEmail, At, TokensHeld, Holding, TypedRequests
<1>3. CASE UNCHANGED <<company, users, tokens>>
  BY <1>1, <1>3, UnchangedEvolves DEF VerifyEmail
<1>4. CASE ~UNCHANGED <<company, users, tokens>>
  <2>1. /\ tokens[t] # None /\ Fresh # {}
        /\ users' = [users EXCEPT ![u].verified = Written(@, seen.verified, TRUE),
                                  ![u].active = Written(@, seen.active, TRUE)]
        /\ company' \in {"trial", company}
        /\ tokens' = Issue(Use(tokens, t), "refresh_token", u)
    BY <1>4 DEF VerifyEmail
  <2>2. tokens[t] \in Token /\ users[u] \in User
    BY <1>2, <2>1 DEF AccountsTypeOK, TokensOwned
  <2>3. UserKept(u)
    <3> DEFINE v == Written(users[u].verified, seen.verified, TRUE)
               a == Written(users[u].active, seen.active, TRUE)
    <3>1. v \in BOOLEAN /\ a \in BOOLEAN
      BY <2>2, UserFields DEF Written
    <3>2. users' = [users EXCEPT ![u] = [[users[u] EXCEPT !.verified = v] EXCEPT !.active = a]]
      BY <1>2, <2>1, <2>2 DEF AccountsTypeOK, User
    <3>3. [[users[u] EXCEPT !.verified = v] EXCEPT !.active = a] \in User
      <4> HIDE DEF v, a
      <4> QED BY <2>2, <3>1, UserUpdates
    <3> QED BY <3>2, <3>3 DEF UserKept
  <2>4. Older(Use(tokens, t))
    BY <1>2, <2>1, <2>2, OlderTokens, OlderUse
  <2>5. Evolves(u)
    BY <1>2, <2>1, <2>3, <2>4, KeptUsers, IssueEvolves DEF TokenType
  <2> QED BY <1>1, <2>1, <2>5 DEF VerifyEmail, CompanyStatus
<1> QED BY <1>3, <1>4

LEMMA LinkTypes ==
  ASSUME TypedState, TypedRequests, TokensOwned, NEW q \in Requests,
         ResendVerification(q) \/ ForgotPassword(q)
  PROVE  /\ \E u : Evolves(u)
         /\ Goes(q) /\ req'[q].op \notin Holding
         /\ UNCHANGED <<env, company, queue, job, inbox>>
<1> USE DEF TypedState, Keep
<1>1. PICK op \in {"resend", "forgot"}, type \in TokenType : NewLink(q, op, type)
  BY DEF ResendVerification, ForgotPassword, TokenType
<1> DEFINE u == req[q].user
<1>2. u \in Users
  BY <1>1, AccountParts DEF NewLink, At, TypedRequests
<1>3. CASE UNCHANGED tokens /\ Become(q, Idle)
  <2>1. Goes(q) /\ req'[q].op \notin Holding
    BY <1>3, IdleGoes DEF Become, Idle, Holding, TypedRequests
  <2> QED BY <1>1, <1>3, <2>1, UnchangedEvolves DEF NewLink
<1>4. CASE ~(UNCHANGED tokens /\ Become(q, Idle))
  <2>1. /\ users[u] # None /\ Fresh # {}
        /\ tokens' = Issue(Invalidate(u, type), type, u)
        /\ Become(q, [op |-> "mail", token |-> NewToken])
        /\ UNCHANGED users
    BY <1>1, <1>4 DEF NewLink
  <2>2. [op |-> "mail", token |-> NewToken] \in AnyRequest
    BY <2>1, FreshToken DEF AnyRequest, AccountRequest
  <2>3. Goes(q) /\ req'[q].op \notin Holding
    BY <2>1, <2>2 DEF Goes, Become, Holding, TypedRequests
  <2>4. users'[u] \in User /\ \A v \in Users : users[v] \in User => users'[v] \in User
    BY <1>2, <2>1 DEF AccountsTypeOK
  <2>5. Evolves(u)
    BY <1>2, <2>1, <2>4, OlderTokens, IssueEvolves DEF AccountsTypeOK
  <2> QED BY <1>1, <2>3, <2>5 DEF NewLink
<1> QED BY <1>3, <1>4

LEMMA ResetTypes ==
  ASSUME TypedState, TypedRequests, TokensOwned, TokensHeld, NEW q \in Requests, ResetPassword(q)
  PROVE  /\ \E u : Evolves(u)
         /\ Goes(q) /\ req'[q].op \notin Holding
         /\ UNCHANGED <<env, company, queue, job, inbox>>
<1> USE DEF TypedState, Keep
<1> DEFINE t == req[q].token
           u == req[q].user
           seen == req[q].seen
<1>1. Goes(q) /\ req'[q].op \notin Holding
  BY IdleGoes DEF ResetPassword, Become, Idle, Holding, TypedRequests
<1>2. t \in Tokens /\ u \in Users /\ seen \in User /\ (tokens[t] # None => tokens[t].user = u)
  BY AccountParts DEF ResetPassword, At, TokensHeld, Holding, TypedRequests
<1>3. CASE UNCHANGED <<users, tokens>>
  BY <1>1, <1>3, UnchangedEvolves DEF ResetPassword
<1>4. CASE ~UNCHANGED <<users, tokens>>
  <2>1. PICK p \in Passwords :
          /\ tokens[t] # None
          /\ users' = [users EXCEPT ![u].password = p,
                         ![u].fails = Written(@, seen.fails, 0),
                         ![u].locked = Written(@, seen.locked, FALSE)]
          /\ tokens' = Use(Invalidate(u, "refresh_token"), t)
    BY <1>4 DEF ResetPassword
  <2>2. tokens[t] \in Token /\ users[u] \in User
    BY <1>2, <2>1 DEF AccountsTypeOK, TokensOwned
  <2>3. UserKept(u)
    <3> DEFINE n == Written(users[u].fails, seen.fails, 0)
               b == Written(users[u].locked, seen.locked, FALSE)
               x == [[[users[u] EXCEPT !.password = p] EXCEPT !.fails = n] EXCEPT !.locked = b]
    <3>1. n \in 0..MaxFails /\ b \in BOOLEAN
      <4>1. users[u].fails \in 0..MaxFails /\ users[u].locked \in BOOLEAN
        BY <2>2, UserFields
      <4>2. n \in 0..MaxFails
        BY <4>1, AccountsAssumption DEF Written
      <4>3. b \in BOOLEAN
        BY <4>1 DEF Written
      <4> QED BY <4>2, <4>3
    <3>2. users' = [users EXCEPT ![u] = x]
      BY <1>2, <2>1, <2>2 DEF AccountsTypeOK, User
    <3>3. x \in User
      <4> HIDE DEF n, b
      <4> QED BY <2>2, <3>1, UserUpdates
    <3> QED BY <3>2, <3>3 DEF UserKept
  <2>4. Older(Use(Invalidate(u, "refresh_token"), t))
    BY <1>2, <2>1, OlderTokens, OlderUse
  <2>5. /\ users' \in [Users -> User \union {None}]
        /\ \A s \in Tokens : tokens[s] # None /\ users[tokens[s].user] \in User
             => users'[tokens[s].user] \in User
    BY <1>2, <2>3, KeptUsers
  <2>6. Evolves(u)
    BY <2>1, <2>4, <2>5, OlderEvolves DEF Older
  <2> QED BY <1>1, <2>6 DEF ResetPassword
<1> QED BY <1>3, <1>4

LEMMA SignupTypes ==
  ASSUME TypedState, TypedRequests, NEW q \in Requests, Signup(q)
  PROVE  /\ \E u : Evolves(u)
         /\ Goes(q) /\ req'[q].op \notin Holding
         /\ TypedCompany' /\ UNCHANGED <<env, queue, job, inbox>>
<1> USE DEF TypedState, Keep, TypedCompany
<1>1. PICK u \in Users :
        /\ users[u] = None
        /\ users' = [users EXCEPT ![u] = New(FALSE)]
        /\ tokens' = Issue(tokens, "email_verification", u)
        /\ Become(q, [op |-> "mail", token |-> NewToken])
  BY DEF Signup
<1>2. Fresh # {} /\ company' = "pending_verification"
  BY DEF Signup
<1>3. [op |-> "mail", token |-> NewToken] \in AnyRequest
  BY <1>2, FreshToken DEF AnyRequest, AccountRequest
<1>4. Goes(q) /\ req'[q].op \notin Holding
  BY <1>1, <1>3 DEF Goes, Become, Holding, TypedRequests
<1>5. UserKept(u)
  BY <1>1, NewUser DEF UserKept
<1>6. Evolves(u)
  BY <1>1, <1>2, <1>5, KeptUsers, OlderTokens, IssueEvolves DEF TokenType
<1> QED BY <1>2, <1>4, <1>6 DEF Signup, CompanyStatus

LEMMA MailTypes ==
  ASSUME TypedState, TypedRequests, TypedQueue, NEW q \in Requests, Mail(q)
  PROVE  /\ \A u : Evolves(u)
         /\ Goes(q) /\ req'[q].op \notin Holding
         /\ TypedQueue' /\ UNCHANGED <<env, company, job, inbox>>
<1>1. req[q].token \in Tokens
  BY AccountParts DEF Mail, At, TypedRequests
<1>2. TypedQueue'
  BY <1>1, MessageType, PublishType DEF Mail
<1>3. Goes(q) /\ req'[q].op \notin Holding
  BY IdleGoes DEF Mail, Become, Idle, Holding, TypedRequests
<1> QED BY <1>2, <1>3, UnchangedEvolves DEF Mail, accountVars, TypedState

LEMMA AdministratorTypes ==
  ASSUME TypedState, TypedRequests, TokensOwned, NEW q \in Requests,
         CreateUser(q) \/ UpdateUser(q) \/ DeleteUser(q) \/ SetCompanyStatus(q)
  PROVE  /\ \E u : Evolves(u)
         /\ TypedCompany' /\ UNCHANGED <<env, req, queue, job, inbox>>
<1> USE DEF TypedState, Keep, TypedCompany
<1>1. ASSUME NEW u \in Users, UserKept(u), UNCHANGED tokens PROVE Evolves(u)
  BY <1>1, KeptUsers, OlderTokens, OlderEvolves
<1>2. CASE CreateUser(q)
  <2>1. PICK u \in Users : users' = [users EXCEPT ![u] = New(TRUE)]
    BY <1>2 DEF CreateUser
  <2>2. UserKept(u)
    BY <2>1, NewUser DEF UserKept
  <2> QED BY <1>1, <1>2, <2>2 DEF CreateUser
<1>3. CASE UpdateUser(q)
  <2>1. PICK u \in Users, a \in BOOLEAN, p \in Passwords :
          users[u] # None /\ users' = [users EXCEPT ![u].active = a, ![u].password = p]
    BY <1>3 DEF UpdateUser
  <2>2. users[u] \in User
    BY <2>1 DEF AccountsTypeOK
  <2>3. users' = [users EXCEPT ![u] = [[users[u] EXCEPT !.active = a] EXCEPT !.password = p]]
    BY <2>1, <2>2 DEF AccountsTypeOK, User
  <2>4. UserKept(u)
    BY <2>2, <2>3, UserUpdates DEF UserKept
  <2> QED BY <1>1, <1>3, <2>4 DEF UpdateUser
<1>4. CASE DeleteUser(q)
  <2>1. PICK u \in Users : users' = [users EXCEPT ![u] = None] /\ tokens' = Orphaned({u})
    BY <1>4 DEF DeleteUser
  <2>2. users' \in [Users -> User \union {None}] /\ Older(tokens')
    BY <2>1 DEF AccountsTypeOK, Older, Orphaned
  <2>3. \A t \in Tokens : tokens'[t] # None =>
          tokens[t] # None /\ tokens[t].user # u /\ tokens'[t] = tokens[t]
    BY <2>1 DEF Orphaned
  <2>4. \A t \in Tokens : tokens[t] # None => tokens[t].user \in Users
    BY TokenUpdates DEF AccountsTypeOK
  <2>5. \A v \in Users \ {u} : users'[v] = users[v]
    BY <2>1 DEF AccountsTypeOK
  <2>6. Evolves(u)
    BY <2>2, <2>3, <2>4, <2>5 DEF Evolves, Older
  <2> QED BY <1>4, <2>6 DEF DeleteUser
<1>5. CASE SetCompanyStatus(q)
  BY <1>5, UnchangedEvolves DEF SetCompanyStatus
<1> QED BY <1>2, <1>3, <1>4, <1>5

LEMMA TimeTypes ==
  ASSUME TypedState, TimePasses
  PROVE  /\ \E u : Evolves(u)
         /\ UNCHANGED <<env, company, req, queue, job, inbox>>
<1> USE DEF TypedState, Keep
<1>1. ASSUME NEW u \in Users, users[u] # None, users' = [users EXCEPT ![u].locked = FALSE],
             UNCHANGED tokens
      PROVE  Evolves(u)
  <2>1. users[u] \in User
    BY <1>1 DEF AccountsTypeOK
  <2>2. UserKept(u)
    BY <1>1, <2>1, UserUpdates DEF UserKept
  <2> QED BY <1>1, <2>2, KeptUsers, OlderTokens, OlderEvolves
<1>2. ASSUME NEW t \in Tokens, Usable(t), tokens' = [tokens EXCEPT ![t].state = "expired"],
             UNCHANGED users
      PROVE  \E u : Evolves(u)
  <2>1. tokens[t] \in Token /\ tokens[t] # None
    BY <1>2 DEF AccountsTypeOK, Usable
  <2>2. Older(tokens')
    BY <1>2, <2>1, TokenUpdates DEF Older, AccountsTypeOK, TokenState
  <2> QED BY <1>2, <2>2, OlderEvolves DEF AccountsTypeOK
<1> QED BY <1>1, <1>2 DEF TimePasses

LEMMA EmailTypes ==
  ASSUME TypedState, TypedQueue, TypedJobs, NEW w \in Workers, SendEmail(w)
  PROVE  /\ AccountsTypeOK' /\ TypedQueue' /\ TypedJobs'
         /\ UNCHANGED <<env, company, req, users, tokens>>
<1>1. job[w] # None /\ Of(w) \in Tokens
  BY JobParts DEF SendEmail, InJob, TypedJobs, Of
<1>2. TypedQueue' /\ TypedJobs'
  BY <1>1, FinishType, TryAgainType DEF SendEmail
<1>3. inbox' \subseteq Tokens
  BY <1>1 DEF SendEmail, TypedState, AccountsTypeOK
<1> QED BY <1>2, <1>3 DEF SendEmail, TypedState, AccountsTypeOK

-----------------------------------------------------------------------------
(* The setup of campaigns.                                                 *)
LEMMA CampaignFields ==
  ASSUME NEW x \in Campaign
  PROVE  /\ x.status \in CampaignStatus /\ x.kind \in {"ai", "broadcast"}
         /\ x.text \in Audio /\ x.media \in Audio /\ x.key \in Audio
         /\ x = [status |-> x.status, kind |-> x.kind, text |-> x.text, media |-> x.media,
                 key |-> x.key]
  BY DEF Campaign

LEMMA StatusUpdate ==
  ASSUME NEW x \in Campaign, NEW s \in CampaignStatus
  PROVE  /\ [x EXCEPT !.status = s] \in Campaign
         /\ [x EXCEPT !.status = s] = [status |-> s, kind |-> x.kind, text |-> x.text,
                                      media |-> x.media, key |-> x.key]
  BY DEF Campaign

LEMMA TextUpdate ==
  ASSUME NEW x \in Campaign, NEW t \in Audio
  PROVE  /\ [x EXCEPT !.text = t, !.media = None] \in Campaign
         /\ [x EXCEPT !.text = t, !.media = None]
              = [status |-> x.status, kind |-> x.kind, text |-> t, media |-> None, key |-> x.key]
<1> DEFINE y == [x EXCEPT !.text = t, !.media = None]
<1>1. y \in Campaign
  BY DEF Campaign, Audio
<1>2. y.status = x.status /\ y.kind = x.kind /\ y.text = t /\ y.media = None /\ y.key = x.key
  BY DEF Campaign
<1> HIDE DEF y
<1> QED BY <1>1, <1>2, CampaignFields DEF y

LEMMA AudioUpdate ==
  ASSUME NEW x \in Campaign, NEW t \in Audio
  PROVE  /\ [x EXCEPT !.text = t, !.media = t, !.key = t] \in Campaign
         /\ [x EXCEPT !.text = t, !.media = t, !.key = t]
              = [status |-> x.status, kind |-> x.kind, text |-> t, media |-> t, key |-> t]
<1> DEFINE y == [x EXCEPT !.text = t, !.media = t, !.key = t]
<1>1. y \in Campaign
  BY DEF Campaign
<1>2. y.status = x.status /\ y.kind = x.kind /\ y.text = t /\ y.media = t /\ y.key = t
  BY DEF Campaign
<1> HIDE DEF y
<1> QED BY <1>1, <1>2, CampaignFields DEF y

LEMMA MediaUpdate ==
  ASSUME NEW x \in Campaign, NEW b \in Audio, NEW c \in Audio
  PROVE  /\ [x EXCEPT !.status = "ready", !.media = b, !.key = c] \in Campaign
         /\ [x EXCEPT !.status = "ready", !.media = b, !.key = c]
              = [status |-> "ready", kind |-> x.kind, text |-> x.text, media |-> b, key |-> c]
<1> DEFINE y == [x EXCEPT !.status = "ready", !.media = b, !.key = c]
<1>1. y \in Campaign
  BY DEF Campaign, CampaignStatus
<1>2. y.status = "ready" /\ y.kind = x.kind /\ y.text = x.text /\ y.media = b /\ y.key = c
  BY DEF Campaign
<1> HIDE DEF y
<1> QED BY <1>1, <1>2, CampaignFields DEF y

LEMMA SaveParts ==
  ASSUME CampaignsTypeOK, NEW k \in Campaigns, NEW seen \in Campaign, NEW new \in Campaign,
         Save(k, seen, new)
  PROVE  /\ campaigns' \in [Campaigns -> Campaign \union {None}]
         /\ \A j \in Campaigns : j # k \/ campaigns[j] = None => campaigns'[j] = campaigns[j]
         /\ campaigns[k] # None => campaigns'[k] =
              [status |-> Written(campaigns[k].status, seen.status, new.status),
               kind |-> Written(campaigns[k].kind, seen.kind, new.kind),
               text |-> Written(campaigns[k].text, seen.text, new.text),
               media |-> Written(campaigns[k].media, seen.media, new.media),
               key |-> Written(campaigns[k].key, seen.key, new.key)]
<1>1. CASE campaigns[k] = None
  BY <1>1 DEF Save, CampaignsTypeOK
<1>2. CASE campaigns[k] # None
  <2> DEFINE row == [c \in DOMAIN new |-> Written(campaigns[k][c], seen[c], new[c])]
             set == [status |-> Written(campaigns[k].status, seen.status, new.status),
                     kind |-> Written(campaigns[k].kind, seen.kind, new.kind),
                     text |-> Written(campaigns[k].text, seen.text, new.text),
                     media |-> Written(campaigns[k].media, seen.media, new.media),
                     key |-> Written(campaigns[k].key, seen.key, new.key)]
  <2>1. campaigns[k] \in Campaign
    BY <1>2 DEF CampaignsTypeOK
  <2>2. row = set
    BY <2>1, CampaignFields
  <2>3. set \in Campaign
    <3>1. \A now, was, new_ : Written(now, was, new_) \in {now, new_}
      BY DEF Written
    <3>2. /\ set.status \in CampaignStatus /\ set.kind \in {"ai", "broadcast"}
          /\ set.text \in Audio /\ set.media \in Audio /\ set.key \in Audio
      BY <2>1, <3>1, CampaignFields
    <3> QED BY <3>2 DEF Campaign
  <2>4. campaigns' = [campaigns EXCEPT ![k] = set]
    BY <1>2, <2>2 DEF Save
  <2> HIDE DEF set, row
  <2>5. campaigns' \in [Campaigns -> Campaign \union {None}] /\ campaigns'[k] = set
    BY <2>3, <2>4 DEF CampaignsTypeOK
  <2> QED BY <1>2, <2>4, <2>5 DEF set, CampaignsTypeOK
<1> QED BY <1>1, <1>2

LEMMA InsertParts ==
  ASSUME CampaignsTypeOK, NEW k \in Campaigns, NEW kind \in {"ai", "broadcast"},
         NEW text \in Audio, Insert(k, kind, text)
  PROVE  /\ campaigns' \in [Campaigns -> Campaign \union {None}]
         /\ Blank(kind, text) \in Campaign
         /\ campaigns[k] = None /\ campaigns' = [campaigns EXCEPT ![k] = Blank(kind, text)]
<1>1. Blank(kind, text) \in Campaign
  BY DEF Blank, Campaign, CampaignStatus, Audio
<1> QED BY <1>1 DEF Insert, CampaignsTypeOK

LEMMA SayingParts ==
  ASSUME NEW s \in Sayings
  PROVE  /\ s[1] \in {"ai", "broadcast"} /\ s[2] \in Audio
         /\ s[1] = "broadcast" => s[2] \in Texts
  BY DEF Sayings, Audio

LEMMA SpeakType ==
  ASSUME NEW k \in Campaigns, NEW seen \in Campaign, NEW t \in Texts, NEW b \in BOOLEAN,
         NEW op \in {"store_audio", "send_audio", "save_audio"}
  PROVE  [op |-> op, campaign |-> k, seen |-> seen, text |-> t, launches |-> b] \in AnyRequest
  BY DEF AnyRequest, CampaignRequest

LEMMA StartsType ==
  ASSUME NEW k \in Campaigns, NEW seen \in Campaign, NEW to \in CampaignStatus,
         NEW op \in {"launch", "save_launch", "set_status"}
  PROVE  [op |-> op, campaign |-> k, seen |-> seen, to |-> to] \in AnyRequest
  BY DEF AnyRequest, CampaignRequest

LEMMA AddsContactType ==
  ASSUME NEW k \in Campaigns, NEW n \in Numbers, NEW seen \in Campaign, NEW media \in Audio,
         NEW key \in Audio
  PROVE  /\ AddsContact(k, n, seen, media, key) \in AnyRequest
         /\ AddsContact(k, n, seen, media, key).op = "add_contact"
         /\ AddsContact(k, n, seen, media, key).new.kind = seen.kind
         /\ AddsContact(k, n, seen, media, key).new.text = seen.text
         /\ AddsContact(k, n, seen, media, key).new.media = media
         /\ AddsContact(k, n, seen, media, key).new.key = key
         /\ AddsContact(k, n, seen, media, key).new.status = "ready"
         /\ AddsContact(k, n, seen, media, key).campaign = k
         /\ AddsContact(k, n, seen, media, key).seen = seen
<1> DEFINE new == [seen EXCEPT !.status = "ready", !.media = media, !.key = key]
<1>1. new \in Campaign
  BY MediaUpdate
<1>2. /\ new.kind = seen.kind /\ new.text = seen.text /\ new.media = media /\ new.key = key
      /\ new.status = "ready"
  <2>1. new = [status |-> "ready", kind |-> seen.kind, text |-> seen.text, media |-> media,
               key |-> key]
    BY MediaUpdate
  <2> HIDE DEF new
  <2> QED BY <2>1
<1>3. AddsContact(k, n, seen, media, key) =
        [op |-> "add_contact", campaign |-> k, number |-> n, seen |-> seen, new |-> new]
  BY DEF AddsContact
<1> HIDE DEF new
<1> QED BY <1>1, <1>2, <1>3 DEF AnyRequest, CampaignRequest

(* A campaign's row is read and its request begins.                        *)
LEMMA LoadTypes ==
  ASSUME TypedState, TypedRequests, NEW q \in Requests,
         LoadEdit(q) \/ LoadAudio(q) \/ LoadImport(q) \/ LoadLaunch(q) \/ LoadStatus(q)
  PROVE  /\ Goes(q) /\ req'[q].op # "add_contact"
         /\ UNCHANGED <<env, company, queue, job, campaignVars>>
<1> USE DEF TypedState, OnlyCampaigns, OnlyRequest
<1>0. \A k \in Campaigns : campaigns[k] # None => campaigns[k] \in Campaign
  BY DEF CampaignsTypeOK
<1>1. ASSUME NEW d \in AnyRequest, d.op # "add_contact", Become(q, d)
      PROVE  Goes(q) /\ req'[q].op # "add_contact"
  BY <1>1 DEF Goes, Become, TypedRequests
<1>2. CASE LoadEdit(q)
  <2>1. PICK k \in Campaigns, t \in Audio :
          /\ campaigns[k] # None
          /\ Become(q, [op |-> "edit", campaign |-> k, seen |-> campaigns[k], text |-> t])
    BY <1>2 DEF LoadEdit, Loads
  <2>2. [op |-> "edit", campaign |-> k, seen |-> campaigns[k], text |-> t] \in AnyRequest
    BY <1>0, <2>1 DEF AnyRequest, CampaignRequest
  <2> QED BY <1>1, <1>2, <2>1, <2>2 DEF LoadEdit, campaignVars
<1>3. CASE LoadAudio(q)
  <2>1. PICK k \in Campaigns, t \in Texts :
          campaigns[k] # None /\ Become(q, Speak(k, campaigns[k], t, FALSE))
    BY <1>3 DEF LoadAudio, Loads
  <2>2. Speak(k, campaigns[k], t, FALSE) \in AnyRequest
    BY <1>0, <2>1, SpeakType DEF Speak
  <2>3. Speak(k, campaigns[k], t, FALSE).op # "add_contact"
    BY DEF Speak
  <2> QED BY <1>1, <1>3, <2>1, <2>2, <2>3 DEF LoadAudio, campaignVars
<1>4. CASE LoadImport(q)
  <2>1. PICK k \in Campaigns, file \in SUBSET Numbers, marked \in SUBSET Numbers, all \in BOOLEAN :
          /\ campaigns[k] # None
          /\ Become(q, [op |-> "import", campaign |-> k, seen |-> campaigns[k],
                        removed |-> IF all THEN ContactsOf(k) ELSE {},
                        file |-> file, marked |-> marked])
    BY <1>4 DEF LoadImport, Loads
  <2>2. ContactsOf(k) \in SUBSET Numbers
    BY DEF ContactsOf
  <2>3. [op |-> "import", campaign |-> k, seen |-> campaigns[k],
         removed |-> IF all THEN ContactsOf(k) ELSE {}, file |-> file, marked |-> marked]
          \in AnyRequest
    BY <1>0, <2>1, <2>2 DEF AnyRequest, CampaignRequest
  <2> QED BY <1>1, <1>4, <2>1, <2>3 DEF LoadImport, campaignVars
<1>5. CASE LoadLaunch(q)
  <2>1. PICK k \in Campaigns, to \in {"scheduled", "running"} :
          campaigns[k] # None /\ Become(q, [Starts(k, campaigns[k]) EXCEPT !.to = to])
    BY <1>5 DEF LoadLaunch, Loads
  <2>2. [Starts(k, campaigns[k]) EXCEPT !.to = to]
          = [op |-> "launch", campaign |-> k, seen |-> campaigns[k], to |-> to]
    BY DEF Starts
  <2>3. [op |-> "launch", campaign |-> k, seen |-> campaigns[k], to |-> to] \in AnyRequest
    BY <1>0, <2>1, StartsType DEF CampaignStatus
  <2> QED BY <1>1, <1>5, <2>1, <2>2, <2>3 DEF LoadLaunch, campaignVars
<1>6. CASE LoadStatus(q)
  <2>1. PICK k \in Campaigns, op \in {"pause", "resume", "cancel"} :
          /\ campaigns[k] # None
          /\ Become(q, [op |-> "set_status", campaign |-> k, seen |-> campaigns[k],
                        to |-> Target(op)])
    BY <1>6 DEF LoadStatus, Loads
  <2>2. Target(op) \in CampaignStatus
    BY DEF Target, CampaignStatus
  <2>3. [op |-> "set_status", campaign |-> k, seen |-> campaigns[k], to |-> Target(op)]
          \in AnyRequest
    BY <1>0, <2>1, <2>2, StartsType
  <2> QED BY <1>1, <1>6, <2>1, <2>3 DEF LoadStatus, campaignVars
<1> QED BY <1>2, <1>3, <1>4, <1>5, <1>6

LEMMA SpeaksOn ==
  ASSUME NEW r \in AnyRequest, r.op \in {"store_audio", "send_audio"},
         NEW op \in {"send_audio", "save_audio"}
  PROVE  /\ [r EXCEPT !.op = op] \in AnyRequest
         /\ [r EXCEPT !.op = op] = [op |-> op, campaign |-> r.campaign, seen |-> r.seen,
                                   text |-> r.text, launches |-> r.launches]
<1>1. /\ r.campaign \in Campaigns /\ r.seen \in Campaign /\ r.text \in Texts
      /\ r.launches \in BOOLEAN
      /\ r = [op |-> r.op, campaign |-> r.campaign, seen |-> r.seen, text |-> r.text,
              launches |-> r.launches]
  BY CampaignParts DEF CampaignOps
<1>2. [r EXCEPT !.op = op] = [op |-> op, campaign |-> r.campaign, seen |-> r.seen,
                              text |-> r.text, launches |-> r.launches]
  BY <1>1
<1>3. [op |-> op, campaign |-> r.campaign, seen |-> r.seen, text |-> r.text,
       launches |-> r.launches] \in AnyRequest
  BY <1>1, SpeakType
<1> QED BY <1>2, <1>3

LEMMA LaunchesOn ==
  ASSUME NEW r \in AnyRequest, r.op = "launch"
  PROVE  /\ [r EXCEPT !.op = "save_launch"] \in AnyRequest
         /\ [r EXCEPT !.op = "save_launch"] = [op |-> "save_launch", campaign |-> r.campaign,
                                              seen |-> r.seen, to |-> r.to]
<1>1. /\ r.campaign \in Campaigns /\ r.seen \in Campaign /\ r.to \in CampaignStatus
      /\ r = [op |-> r.op, campaign |-> r.campaign, seen |-> r.seen, to |-> r.to]
  BY CampaignParts DEF CampaignOps
<1>2. [r EXCEPT !.op = "save_launch"] = [op |-> "save_launch", campaign |-> r.campaign,
                                         seen |-> r.seen, to |-> r.to]
  BY <1>1
<1>3. [op |-> "save_launch", campaign |-> r.campaign, seen |-> r.seen, to |-> r.to]
        \in AnyRequest
  BY <1>1, StartsType
<1> QED BY <1>2, <1>3

(* The steps between, and those that write the row.                        *)
LEMMA AudioTypes ==
  ASSUME TypedState, TypedRequests, NEW q \in Requests,
         StoreAudio(q) \/ SendAudio(q) \/ ReadImport(q) \/ Launch(q)
  PROVE  /\ CampaignsTypeOK' /\ Goes(q) /\ req'[q].op # "add_contact"
         /\ UNCHANGED <<env, company, queue, job, campaigns, contacts, listed>>
<1> USE DEF TypedState, OnlyCampaigns, OnlyRequest, CampaignsTypeOK
<1>0. req[q] \in AnyRequest
  BY DEF TypedRequests
<1>1. ASSUME NEW d \in AnyRequest, d.op # "add_contact", Become(q, d)
      PROVE  Goes(q) /\ req'[q].op # "add_contact"
  BY <1>1 DEF Goes, Become, TypedRequests
<1>2. Idle \in AnyRequest /\ Idle.op # "add_contact"
  BY DEF AnyRequest, Idle
<1>3. CASE StoreAudio(q)
  <2>1. req[q].text \in Texts
    BY <1>0, <1>3, CampaignParts DEF StoreAudio, At
  <2>2. Goes(q) /\ req'[q].op # "add_contact"
    <3>0. req[q].op = "store_audio"
      BY <1>3 DEF StoreAudio, At
    <3>1. [req[q] EXCEPT !.op = "send_audio"] \in AnyRequest
          /\ [req[q] EXCEPT !.op = "send_audio"].op # "add_contact"
      <4>1. /\ [req[q] EXCEPT !.op = "send_audio"] \in AnyRequest
            /\ [req[q] EXCEPT !.op = "send_audio"]
                 = [op |-> "send_audio", campaign |-> req[q].campaign, seen |-> req[q].seen,
                    text |-> req[q].text, launches |-> req[q].launches]
        BY <1>0, <3>0, SpeaksOn
      <4> QED BY <4>1
    <3>2. Become(q, [req[q] EXCEPT !.op = "send_audio"]) \/ Become(q, Idle)
      BY <1>3 DEF StoreAudio, GoOn
    <3> QED BY <1>1, <1>2, <3>1, <3>2
  <2>3. audios' \subseteq Texts
    BY <1>3, <2>1 DEF StoreAudio
  <2> QED BY <1>3, <2>2, <2>3 DEF StoreAudio
<1>4. CASE SendAudio(q)
  <2>1. req[q].text \in Texts
    BY <1>0, <1>4, CampaignParts DEF SendAudio, At
  <2>2. Goes(q) /\ req'[q].op # "add_contact"
    <3>0. req[q].op = "send_audio"
      BY <1>4 DEF SendAudio, At
    <3>1. [req[q] EXCEPT !.op = "save_audio"] \in AnyRequest
          /\ [req[q] EXCEPT !.op = "save_audio"].op # "add_contact"
      <4>1. /\ [req[q] EXCEPT !.op = "save_audio"] \in AnyRequest
            /\ [req[q] EXCEPT !.op = "save_audio"]
                 = [op |-> "save_audio", campaign |-> req[q].campaign, seen |-> req[q].seen,
                    text |-> req[q].text, launches |-> req[q].launches]
        BY <1>0, <3>0, SpeaksOn
      <4> QED BY <4>1
    <3>2. Become(q, [req[q] EXCEPT !.op = "save_audio"]) \/ Become(q, Idle)
      BY <1>4 DEF SendAudio, GoOn
    <3> QED BY <1>1, <1>2, <3>1, <3>2
  <2>3. atAsterisk' \subseteq Texts
    BY <1>4, <2>1 DEF SendAudio
  <2> QED BY <1>4, <2>2, <2>3 DEF SendAudio
<1>5. CASE ReadImport(q)
  <2> DEFINE r == req[q]
             found == ContactsOf(r.campaign) \ r.removed
             d == [op |-> "save_import", campaign |-> r.campaign, seen |-> r.seen,
                   removed |-> r.removed, found |-> found, added |-> r.file \ found,
                   blocked |-> (r.file \ found) \intersect (listed \union r.marked)]
  <2>1. /\ r.campaign \in Campaigns /\ r.seen \in Campaign /\ r.removed \in SUBSET Numbers
        /\ r.file \in SUBSET Numbers
    BY <1>0, <1>5, CampaignParts DEF ReadImport, At, CampaignOps
  <2>2. found \in SUBSET Numbers
    BY DEF ContactsOf
  <2>3. d \in AnyRequest /\ d.op # "add_contact"
    <3> HIDE DEF found
    <3> QED BY <2>1, <2>2 DEF AnyRequest, CampaignRequest
  <2>4. Become(q, d)
    BY <1>5 DEF ReadImport
  <2> HIDE DEF d
  <2> QED BY <1>1, <1>5, <2>3, <2>4 DEF ReadImport
<1>6. CASE Launch(q)
  <2>1. [req[q] EXCEPT !.op = "save_launch"] \in AnyRequest
        /\ [req[q] EXCEPT !.op = "save_launch"].op # "add_contact"
    <3>1. req[q].op = "launch"
      BY <1>6 DEF Launch, At
    <3>2. /\ [req[q] EXCEPT !.op = "save_launch"] \in AnyRequest
          /\ [req[q] EXCEPT !.op = "save_launch"]
               = [op |-> "save_launch", campaign |-> req[q].campaign, seen |-> req[q].seen,
                  to |-> req[q].to]
      BY <1>0, <3>1, LaunchesOn
    <3> QED BY <3>2
  <2>2. Become(q, [req[q] EXCEPT !.op = "save_launch"]) \/ Become(q, Idle)
    BY <1>6 DEF Launch, GoOn
  <2> QED BY <1>1, <1>2, <1>6, <2>1, <2>2 DEF Launch
<1> QED BY <1>3, <1>4, <1>5, <1>6

LEMMA SaveTypes ==
  ASSUME TypedState, TypedRequests, NEW q \in Requests,
         Edit(q) \/ SaveAudio(q) \/ SaveLaunch(q) \/ SetStatus(q)
  PROVE  /\ CampaignsTypeOK' /\ Goes(q) /\ req'[q].op # "add_contact"
         /\ UNCHANGED <<env, company, queue, job, contacts, listed, audios, atAsterisk>>
<1> USE DEF TypedState, OnlyCampaigns, OnlyRequest
<1>0. req[q] \in AnyRequest
  BY DEF TypedRequests
<1>1. ASSUME NEW d \in AnyRequest, d.op # "add_contact", Become(q, d)
      PROVE  Goes(q) /\ req'[q].op # "add_contact"
  BY <1>1 DEF Goes, Become, TypedRequests
<1>2. Idle \in AnyRequest /\ Idle.op # "add_contact"
  BY DEF AnyRequest, Idle
<1>3. ASSUME NEW k \in Campaigns, NEW seen \in Campaign, NEW new \in Campaign,
             Save(k, seen, new) \/ UNCHANGED campaigns, UNCHANGED <<contacts, listed, audios, atAsterisk>>
      PROVE  CampaignsTypeOK'
  BY <1>3, SaveParts DEF CampaignsTypeOK
<1>4. req[q].op \in CampaignOps => req[q].campaign \in Campaigns /\ req[q].seen \in Campaign
  BY <1>0, CampaignParts
<1>5. CASE Edit(q)
  <2>1. req[q].campaign \in Campaigns /\ req[q].seen \in Campaign /\ req[q].text \in Audio
    BY <1>0, <1>5, CampaignParts DEF Edit, At, CampaignOps
  <2>2. [req[q].seen EXCEPT !.text = req[q].text, !.media = None] \in Campaign
    BY <2>1, TextUpdate
  <2> QED BY <1>1, <1>2, <1>3, <1>5, <2>1, <2>2 DEF Edit
<1>6. CASE SaveAudio(q)
  <2>1. req[q].campaign \in Campaigns /\ req[q].seen \in Campaign /\ req[q].text \in Audio
    BY <1>0, <1>6, CampaignParts DEF SaveAudio, At, CampaignOps, Audio
  <2> DEFINE new == [req[q].seen EXCEPT !.text = req[q].text, !.media = req[q].text,
                                        !.key = req[q].text]
  <2>2. new \in Campaign
    BY <2>1, AudioUpdate
  <2>3. Save(req[q].campaign, req[q].seen, new)
        /\ (Become(q, Starts(req[q].campaign, new)) \/ Become(q, Idle))
    BY <1>6 DEF SaveAudio
  <2> HIDE DEF new
  <2>4. Starts(req[q].campaign, new) \in AnyRequest /\ Starts(req[q].campaign, new).op # "add_contact"
    BY <2>1, <2>2, StartsType DEF Starts, CampaignStatus
  <2> QED BY <1>1, <1>2, <1>3, <1>6, <2>1, <2>2, <2>3, <2>4 DEF SaveAudio
<1>7. CASE SaveLaunch(q) \/ SetStatus(q)
  <2>1. req[q].campaign \in Campaigns /\ req[q].seen \in Campaign /\ req[q].to \in CampaignStatus
    BY <1>0, <1>7, CampaignParts DEF SaveLaunch, SetStatus, At, CampaignOps
  <2>2. [req[q].seen EXCEPT !.status = req[q].to] \in Campaign
    BY <2>1, StatusUpdate
  <2>3. Save(req[q].campaign, req[q].seen, [req[q].seen EXCEPT !.status = req[q].to])
        \/ UNCHANGED campaigns
    BY <1>7 DEF SaveLaunch, SetStatus
  <2> QED BY <1>1, <1>2, <1>3, <1>7, <2>1, <2>2, <2>3 DEF SaveLaunch, SetStatus
<1> QED BY <1>5, <1>6, <1>7

LEMMA ImportTypes ==
  ASSUME TypedState, TypedRequests, NEW q \in Requests, SaveImport(q)
  PROVE  /\ CampaignsTypeOK' /\ TypedRequests'
         /\ UNCHANGED <<env, company, queue, job, listed, audios, atAsterisk>>
<1> DEFINE r == req[q]
           k == r.campaign
           rest == ContactsOf(k) \ r.removed
           set == [n \in Numbers |-> IF n \in r.blocked THEN "blocked"
                                     ELSE IF n \in r.added THEN "callable"
                                     ELSE IF n \in rest THEN contacts[k][n] ELSE None]
           new == [r.seen EXCEPT !.status =
                     IF r.added \union r.found # {} THEN "ready" ELSE "draft"]
<1>1. TypedRequests'
  BY ImportMoves DEF TypedRequests
<1>2. UNCHANGED <<env, company, queue, job, listed, audios, atAsterisk>>
  BY DEF SaveImport, OnlyRequest
<1>3. r \in AnyRequest /\ k \in Campaigns /\ r.seen \in Campaign
  BY CampaignParts DEF SaveImport, At, TypedRequests, CampaignOps
<1>4. new \in Campaign
  BY <1>3, StatusUpdate DEF CampaignStatus
<1>5. \/ UNCHANGED <<campaigns, contacts>>
      \/ contacts' = [contacts EXCEPT ![k] = set] /\ Save(k, r.seen, new)
  BY DEF SaveImport
<1>6. set \in [Numbers -> {None, "callable", "blocked"}]
  BY <1>3 DEF TypedState, CampaignsTypeOK
<1> HIDE DEF set, new, r, k
<1>7. CASE UNCHANGED <<campaigns, contacts>>
  BY <1>1, <1>2, <1>7 DEF TypedState, CampaignsTypeOK
<1>8. CASE contacts' = [contacts EXCEPT ![k] = set] /\ Save(k, r.seen, new)
  <2>1. CampaignsTypeOK
    BY DEF TypedState
  <2>2. campaigns' \in [Campaigns -> Campaign \union {None}]
    BY <1>3, <1>4, <1>8, <2>1, SaveParts DEF k, r
  <2>3. contacts' \in [Campaigns -> [Numbers -> {None, "callable", "blocked"}]]
    BY <1>6, <1>8, <2>1 DEF CampaignsTypeOK
  <2> QED BY <1>1, <1>2, <2>1, <2>2, <2>3 DEF CampaignsTypeOK
<1> QED BY <1>5, <1>7, <1>8

LEMMA CreateTypes ==
  ASSUME TypedState, TypedRequests, NEW q \in Requests,
         CreateCampaign(q) \/ AddDnc(q) \/ DeleteDnc(q)
  PROVE  CampaignsTypeOK' /\ UNCHANGED <<env, company, queue, job, req>>
<1> USE DEF TypedState, OnlyRequest, OnlyCampaigns
<1>1. CASE CreateCampaign(q)
  <2>1. PICK k \in Created, s \in Sayings : Insert(k, s[1], s[2])
    BY <1>1 DEF CreateCampaign
  <2>2. k \in Campaigns
    BY CampaignsAssumption
  <2>3. campaigns' \in [Campaigns -> Campaign \union {None}]
    BY <2>1, <2>2, InsertParts, SayingParts
  <2> QED BY <1>1, <2>3 DEF CreateCampaign, CampaignsTypeOK
<1>2. CASE AddDnc(q) \/ DeleteDnc(q)
  BY <1>2 DEF AddDnc, DeleteDnc, CampaignsTypeOK
<1> QED BY <1>1, <1>2

LEMMA SingleTypes ==
  ASSUME TypedState, TypedRequests, NEW q \in Requests, SingleCall(q) \/ TestCampaign(q)
  PROVE  /\ CampaignsTypeOK' /\ Goes(q)
         /\ req'[q].new.kind = "broadcast" /\ req'[q].new.media = None
              => req'[q].new.text \in Texts
         /\ UNCHANGED <<env, company, queue, job, contacts, listed, audios, atAsterisk>>
<1> USE DEF TypedState, OnlyRequest, OnlyCampaigns
<1>1. ASSUME NEW k \in Campaigns, NEW n \in Numbers, NEW kind \in {"ai", "broadcast"},
             NEW text \in Audio, NEW media \in Audio, NEW key \in Audio,
             kind = "broadcast" /\ media = None => text \in Texts,
             Insert(k, kind, text), Become(q, AddsContact(k, n, Blank(kind, text), media, key)),
             UNCHANGED <<contacts, listed, audios, atAsterisk>>
      PROVE  /\ CampaignsTypeOK' /\ Goes(q)
             /\ req'[q].new.kind = "broadcast" /\ req'[q].new.media = None
                  => req'[q].new.text \in Texts
  <2>1. campaigns' \in [Campaigns -> Campaign \union {None}] /\ Blank(kind, text) \in Campaign
    BY <1>1, InsertParts
  <2>2. Blank(kind, text).kind = kind /\ Blank(kind, text).text = text
    BY DEF Blank
  <2> DEFINE d == AddsContact(k, n, Blank(kind, text), media, key)
  <2>3. d \in AnyRequest /\ d.new.kind = kind /\ d.new.text = text /\ d.new.media = media
    BY <2>1, <2>2, AddsContactType
  <2>4. Become(q, d)
    BY <1>1
  <2> HIDE DEF d
  <2>5. Goes(q) /\ req'[q] = d
    BY <2>3, <2>4 DEF Goes, Become, TypedRequests
  <2>6. CampaignsTypeOK'
    BY <1>1, <2>1 DEF CampaignsTypeOK
  <2> QED BY <1>1, <2>3, <2>5, <2>6
<1>2. CASE SingleCall(q)
  <2>1. PICK k \in Campaigns \ Created, s \in Sayings, n \in Unlisted :
          /\ Insert(k, s[1], s[2])
          /\ Become(q, AddsContact(k, n, Blank(s[1], s[2]), None, None))
    BY <1>2 DEF SingleCall
  <2>2. /\ s[1] \in {"ai", "broadcast"} /\ s[2] \in Audio /\ n \in Numbers /\ None \in Audio
        /\ s[1] = "broadcast" => s[2] \in Texts
    BY SayingParts DEF Unlisted, Audio
  <2>3. UNCHANGED <<env, company, queue, job, contacts, listed, audios, atAsterisk>>
    BY <1>2 DEF SingleCall
  <2> QED BY <1>1, <2>1, <2>2, <2>3
<1>3. CASE TestCampaign(q)
  <2>1. PICK k \in Campaigns, t \in Campaigns \ Created, n \in Unlisted :
          /\ campaigns[k] # None
          /\ campaigns[k].kind = "ai" \/ campaigns[k].media # None
          /\ Insert(t, campaigns[k].kind, campaigns[k].text)
          /\ Become(q, AddsContact(t, n, Blank(campaigns[k].kind, campaigns[k].text),
                                   campaigns[k].media, campaigns[k].key))
    BY <1>3 DEF TestCampaign, Loads
  <2>2. campaigns[k] \in Campaign
    BY <2>1 DEF CampaignsTypeOK
  <2>3. n \in Numbers
    BY DEF Unlisted
  <2>4. UNCHANGED <<env, company, queue, job, contacts, listed, audios, atAsterisk>>
    BY <1>3 DEF TestCampaign
  <2>5. /\ campaigns[k].kind \in {"ai", "broadcast"} /\ campaigns[k].text \in Audio
        /\ campaigns[k].media \in Audio /\ campaigns[k].key \in Audio
    BY <2>2, CampaignFields
  <2> QED BY <1>1, <2>1, <2>3, <2>4, <2>5
<1> QED BY <1>2, <1>3

LEMMA AddContactTypes ==
  ASSUME TypedState, TypedRequests, SomethingToSay, NEW q \in Requests, AddContact(q)
  PROVE  /\ CampaignsTypeOK' /\ Goes(q) /\ req'[q].op # "add_contact"
         /\ UNCHANGED <<env, company, queue, job, listed, audios, atAsterisk>>
<1> DEFINE r == req[q]
           k == r.campaign
<1>1. /\ r \in AnyRequest /\ r.op = "add_contact" /\ k \in Campaigns /\ r.seen \in Campaign
      /\ r.new \in Campaign /\ r.number \in Numbers
  BY CampaignParts DEF AddContact, At, TypedRequests, CampaignOps
<1>2. UNCHANGED <<env, company, queue, job, listed, audios, atAsterisk>>
  BY DEF AddContact, OnlyRequest
<1>3. CampaignsTypeOK
  BY DEF TypedState
<1>4. ASSUME NEW d \in AnyRequest, d.op # "add_contact", Become(q, d)
      PROVE  Goes(q) /\ req'[q].op # "add_contact"
  BY <1>4 DEF Goes, Become, TypedRequests
<1>5. Idle \in AnyRequest /\ Idle.op # "add_contact"
  BY DEF AnyRequest, Idle
<1>6. CASE UNCHANGED <<campaigns, contacts>> /\ Become(q, Idle)
  BY <1>2, <1>3, <1>4, <1>5, <1>6 DEF CampaignsTypeOK
<1>7. CASE /\ Save(k, r.seen, r.new)
           /\ contacts' = [contacts EXCEPT ![k][r.number] = "callable"]
           /\ Become(q, IF r.new.kind = "broadcast" /\ r.new.media = None
                          THEN Speak(k, r.new, r.new.text, TRUE) ELSE Starts(k, r.new))
  <2>1. campaigns' \in [Campaigns -> Campaign \union {None}]
    BY <1>1, <1>3, <1>7, SaveParts
  <2>2. contacts' \in [Campaigns -> [Numbers -> {None, "callable", "blocked"}]]
    BY <1>1, <1>3, <1>7 DEF CampaignsTypeOK
  <2>3. CampaignsTypeOK'
    BY <1>2, <1>3, <2>1, <2>2 DEF CampaignsTypeOK
  <2>4. CASE r.new.kind = "broadcast" /\ r.new.media = None
    <3>1. r.new.text \in Texts
      BY <1>1, <2>4 DEF SomethingToSay
    <3>2. /\ Speak(k, r.new, r.new.text, TRUE) \in AnyRequest
          /\ Speak(k, r.new, r.new.text, TRUE).op # "add_contact"
      BY <1>1, <3>1, SpeakType DEF Speak
    <3> QED BY <1>2, <1>4, <1>7, <2>3, <2>4, <3>2
  <2>5. CASE ~(r.new.kind = "broadcast" /\ r.new.media = None)
    <3>1. Starts(k, r.new) \in AnyRequest /\ Starts(k, r.new).op # "add_contact"
      BY <1>1, StartsType DEF Starts, CampaignStatus
    <3> QED BY <1>2, <1>4, <1>7, <2>3, <2>5, <3>1
  <2> QED BY <2>4, <2>5
<1> QED BY <1>6, <1>7 DEF AddContact

LEMMA DialTypes ==
  ASSUME TypedState, Dial
  PROVE  CampaignsTypeOK' /\ UNCHANGED <<env, company, queue, job, req, audios, atAsterisk>>
<1>1. UNCHANGED <<env, company, queue, job, req, audios, atAsterisk>>
  BY DEF Dial, OnlyRequest
<1>2. PICK k \in Campaigns :
        /\ campaigns[k] # None
        /\ \/ /\ \E s \in CampaignStatus : campaigns' = [campaigns EXCEPT ![k].status = s]
              /\ UNCHANGED <<contacts, listed>>
           \/ /\ \E n \in CallableOf(k) :
                   /\ contacts' = [contacts EXCEPT ![k][n] = "blocked"]
                   /\ listed' = listed \union {n}
              /\ UNCHANGED campaigns
  BY DEF Dial, CampaignStatus
<1>3. campaigns[k] \in Campaign
  BY <1>2 DEF TypedState, CampaignsTypeOK
<1>4. campaigns' \in [Campaigns -> Campaign \union {None}]
  <2>1. ASSUME NEW s \in CampaignStatus, campaigns' = [campaigns EXCEPT ![k].status = s]
        PROVE  campaigns' \in [Campaigns -> Campaign \union {None}]
    <3>1. [campaigns[k] EXCEPT !.status = s] \in Campaign
      BY <1>3, StatusUpdate
    <3>2. campaigns' = [campaigns EXCEPT ![k] = [campaigns[k] EXCEPT !.status = s]]
      BY <2>1
    <3> QED BY <3>1, <3>2 DEF TypedState, CampaignsTypeOK
  <2> QED BY <1>2, <2>1 DEF TypedState, CampaignsTypeOK
<1>5. /\ contacts' \in [Campaigns -> [Numbers -> {None, "callable", "blocked"}]]
      /\ listed' \subseteq Numbers
  BY <1>2 DEF TypedState, CampaignsTypeOK, CallableOf
<1> QED BY <1>1, <1>4, <1>5 DEF TypedState, CampaignsTypeOK

-----------------------------------------------------------------------------
(* The deletion of the company, and the workers.                           *)
LEMMA ShowTypes ==
  ASSUME TypedState, TypedRequests, NEW q \in Requests, ShowCompany(q)
  PROVE  /\ Goes(q)
         /\ UNCHANGED <<env, company, queue, job, conversationVars, libraryVars, accountVars,
                        campaignVars>>
<1> DEFINE d == [op |-> "delete_rows",
                 documents |-> {x \in Documents \ External : documents[x] # None},
                 calls |-> RecordingsNamed,
                 audios |-> KeysOf]
<1>1. KeysOf \in SUBSET Texts
  BY CampaignFields DEF KeysOf, TypedState, CampaignsTypeOK, Audio
<1>4. RecordingsNamed \in SUBSET Calls
  BY DEF RecordingsNamed, RecordingsOf, TypedState, ConversationsTypeOK, Call
<1>2. d \in DeletionRequest
  BY <1>1, <1>4 DEF DeletionRequest
<1>3. Become(q, d)
  BY DEF ShowCompany
<1> HIDE DEF d
<1> QED BY <1>2, <1>3 DEF ShowCompany, Goes, AnyRequest

LEMMA DeleteRowsTypes ==
  ASSUME TypedState, TypedRequests, TokensOwned, NEW q \in Requests, DeleteRows(q)
  PROVE  /\ TypedState' /\ TokensOwned' /\ Goes(q)
         /\ \/ UNCHANGED tokens
            \/ tokens' = [t \in Tokens |-> None]
         /\ UNCHANGED <<env, queue, job>>
<1>1. UNCHANGED <<env, queue, job, docs, customers, sent, recordings, links,
                  objects, reading, kept, inbox, audios, atAsterisk>>
  BY DEF DeleteRows
<1>2. CASE /\ Become(q, Idle)
           /\ UNCHANGED <<company, calls, rows, items, documents, users, tokens,
                          campaigns, contacts, listed>>
  <2>1. Goes(q)
    BY <1>2, IdleGoes
  <2> QED BY <1>1, <1>2, <2>1
      DEF TypedState, ConversationsTypeOK, LibraryTypeOK, AccountsTypeOK, CampaignsTypeOK,
          TypedCompany, TokensOwned
<1>3. CASE /\ Become(q, [req[q] EXCEPT !.op = "delete_files"])
           /\ company' = None
           /\ calls' = [c \in Calls |-> None] /\ rows' = [r \in Rows |-> None]
           /\ items' = {} /\ documents' = [d \in Documents |-> None]
           /\ users' = [u \in Users |-> None] /\ tokens' = [t \in Tokens |-> None]
           /\ campaigns' = [k \in Campaigns |-> None] /\ contacts' = NoContacts /\ listed' = {}
  <2>1. req[q] \in AnyRequest /\ req[q].op = "delete_rows"
    BY DEF DeleteRows, At, TypedRequests
  <2>2. [req[q] EXCEPT !.op = "delete_files"] \in AnyRequest
    BY <2>1, DeletionParts DEF DeletionOps, AnyRequest
  <2>3. Goes(q)
    BY <1>3, <2>2 DEF Goes
  <2>4. ConversationsTypeOK'
    BY <1>1, <1>3 DEF TypedState, ConversationsTypeOK
  <2>5. LibraryTypeOK'
    BY <1>1, <1>3 DEF TypedState, LibraryTypeOK
  <2>6. AccountsTypeOK' /\ TokensOwned'
    BY <1>1, <1>3 DEF TypedState, AccountsTypeOK, TokensOwned
  <2>7. CampaignsTypeOK'
    BY <1>1, <1>3 DEF TypedState, CampaignsTypeOK, NoContacts
  <2>8. TypedCompany'
    BY <1>1, <1>3 DEF TypedState, TypedCompany
  <2> QED BY <1>1, <1>3, <2>3, <2>4, <2>5, <2>6, <2>7, <2>8 DEF TypedState
<1> QED BY <1>2, <1>3 DEF DeleteRows

LEMMA DeleteFilesTypes ==
  ASSUME TypedState, TypedRequests, NEW q \in Requests, DeleteFiles(q)
  PROVE  TypedState' /\ Goes(q) /\ UNCHANGED <<env, company, queue, job, accountVars>>
<1>1. UNCHANGED <<env, company, queue, job, calls, rows, docs, customers, sent, links,
                  items, documents, reading, kept, accountVars,
                  campaigns, contacts, listed, atAsterisk>>
  BY DEF DeleteFiles
<1>2. objects' \subseteq objects /\ recordings' \subseteq recordings /\ audios' \subseteq audios
  BY DEF DeleteFiles
<1>3. Goes(q)
  BY IdleGoes DEF DeleteFiles
<1> QED BY <1>1, <1>2, <1>3
    DEF TypedState, ConversationsTypeOK, LibraryTypeOK, AccountsTypeOK, CampaignsTypeOK,
        TypedCompany, accountVars

LEMMA TakeTypes ==
  ASSUME TypedQueue, TypedJobs, NEW w \in Workers, Take(w)
  PROVE  TypedQueue' /\ TypedJobs'
<1>1. PICK m \in BagToSet(queue) :
        /\ queue' = queue (-) SetToBag({m})
        /\ job' = [job EXCEPT ![w] = [task |-> m.task, of |-> m.of, tries |-> m.tries,
                                      at |-> "start", saw |-> None]]
  BY DEF Take
<1>2. m \in Task
  BY DEF TypedQueue
<1>3. TypedJobs'
  BY <1>1, <1>2, StartedJob DEF TypedJobs
<1>4. IsABag(queue (-) SetToBag({m})) /\ BagToSet(queue (-) SetToBag({m})) \subseteq BagToSet(queue)
  BY QueueTaken DEF TypedQueue
<1>5. TypedQueue'
  BY <1>1, <1>4 DEF TypedQueue, IsABag, BagToSet
<1> QED BY <1>3, <1>5

LEMMA WorkerDiesTypes ==
  ASSUME TypedQueue, TypedJobs, NEW w \in Workers, WorkerDies(w)
  PROVE  TypedQueue' /\ TypedJobs'
<1>1. TypedJobs'
  BY DEF TypedJobs, WorkerDies
<1>2. CASE UNCHANGED queue
  BY <1>1, <1>2 DEF TypedQueue, IsABag, BagToSet
<1>3. CASE Queue([task |-> job[w].task, of |-> Of(w), tries |-> job[w].tries])
  <2>1. job[w] \in AnyJob
    BY DEF TypedJobs, WorkerDies
  <2>2. [task |-> job[w].task, of |-> Of(w), tries |-> job[w].tries] \in Task
    BY <2>1, JobParts DEF Of
  <2> QED BY <1>1, <1>3, <2>2, QueueType
<1> QED BY <1>1, <1>2, <1>3 DEF WorkerDies

-----------------------------------------------------------------------------
(* What a step of one part leaves of the others.                           *)
LEMMA KeepTypes ==
  /\ ConversationsTypeOK /\ UNCHANGED conversationVars => ConversationsTypeOK'
  /\ LibraryTypeOK /\ UNCHANGED libraryVars => LibraryTypeOK'
  /\ AccountsTypeOK /\ UNCHANGED accountVars => AccountsTypeOK'
  /\ CampaignsTypeOK /\ UNCHANGED campaignVars => CampaignsTypeOK'
  /\ TypedCompany /\ UNCHANGED <<env, company>> => TypedCompany'
  /\ TypedJobs /\ UNCHANGED job => TypedJobs'
  /\ TypedRequests /\ UNCHANGED req => TypedRequests'
  /\ TypedQueue /\ UNCHANGED queue => TypedQueue'
<1>1. ConversationsTypeOK /\ UNCHANGED conversationVars => ConversationsTypeOK'
  BY DEF ConversationsTypeOK, conversationVars
<1>2. LibraryTypeOK /\ UNCHANGED libraryVars => LibraryTypeOK'
  BY DEF LibraryTypeOK, libraryVars
<1>3. AccountsTypeOK /\ UNCHANGED accountVars => AccountsTypeOK'
  BY DEF AccountsTypeOK, accountVars
<1>4. CampaignsTypeOK /\ UNCHANGED campaignVars => CampaignsTypeOK'
  BY DEF CampaignsTypeOK, campaignVars
<1>5. TypedQueue /\ UNCHANGED queue => TypedQueue'
  BY DEF TypedQueue, IsABag, BagToSet
<1> QED BY <1>1, <1>2, <1>3, <1>4, <1>5 DEF TypedCompany, TypedJobs, TypedRequests

LEMMA KeptOwned ==
  ASSUME TokensOwned, UNCHANGED <<users, tokens>>
  PROVE  TokensOwned'
  BY DEF TokensOwned

LEMMA KeptHeld ==
  ASSUME TokensHeld,
         \A p \in Requests : req'[p].op \in Holding => req'[p] = req[p],
         \A t \in Tokens : tokens'[t] # None => tokens'[t] = tokens[t]
  PROVE  TokensHeld'
<1> SUFFICES ASSUME NEW p \in Requests, req'[p].op \in Holding
             PROVE  /\ req'[p].token \in Tokens
                    /\ tokens'[req'[p].token] # None
                         => tokens'[req'[p].token].user = req'[p].user
  BY DEF TokensHeld
<1> QED BY DEF TokensHeld

LEMMA KeptSayings ==
  ASSUME SomethingToSay, \A p \in Requests : req'[p].op = "add_contact" => req'[p] = req[p]
  PROVE  SomethingToSay'
  BY DEF SomethingToSay

(* A request's next operation, when only it moves.                         *)
LEMMA OthersMove ==
  ASSUME TypedRequests, NEW q \in Requests, NEW ops, Moves(q, ops), NEW those,
         those \intersect (ops \union {"idle"}) = {}
  PROVE  \A p \in Requests : req'[p].op \in those => req'[p] = req[p]
  BY Moved

LEMMA OthersGo ==
  ASSUME TypedRequests, NEW q \in Requests, Goes(q), NEW those, req'[q].op \notin those
  PROVE  \A p \in Requests : req'[p].op \in those => req'[p] = req[p]
  BY GoesType

LEMMA NotHeld ==
  /\ Holding \intersect (ConversationOps \union {"idle"}) = {}
  /\ Holding \intersect (LibraryOps \union {"idle"}) = {}
  /\ Holding \intersect (CampaignOps \union {"idle"}) = {}
  /\ Holding \intersect (DeletionOps \union {"idle"}) = {}
  /\ {"add_contact"} \intersect (ConversationOps \union {"idle"}) = {}
  /\ {"add_contact"} \intersect (LibraryOps \union {"idle"}) = {}
  /\ {"add_contact"} \intersect (AccountOps \union {"idle"}) = {}
  /\ {"add_contact"} \intersect (DeletionOps \union {"idle"}) = {}
  BY DEF Holding, ConversationOps, LibraryOps, OnDocument, AccountOps, CampaignOps, DeletionOps

-----------------------------------------------------------------------------
(* The steps of each part.                                                 *)
LEMMA ConversationStep ==
  ASSUME Typed, NEW q \in Requests, ConversationAsked(q) \/ ConversationGoesOn(q),
         UNCHANGED <<libraryVars, accountVars, campaignVars>>
  PROVE  Typed'
<1> USE DEF Typed
<1>1. /\ ConversationsTypeOK' /\ Goes(q) /\ TypedQueue' /\ TypedJobs'
      /\ UNCHANGED <<env, company>>
  <2>1. CASE QueueSync(q) \/ QueueConfirmation(q)
    BY <2>1, QueuingTypes, KeepTypes DEF TypedState
  <2>2. CASE \/ SearchRequest(q) \/ InsertRequest(q) \/ CreateRequest(q) \/ UpdateRequest(q)
    BY <2>2, RowTypes, KeepTypes
  <2>3. CASE UploadRecording(q) \/ Link(q)
    BY <2>3, OtherConversationTypes, KeepTypes
  <2>4. CASE \/ AnswerCall(q) \/ TestCall(q) \/ ResolveCall(q) \/ UpdateCall(q) \/ Complete(q)
             \/ StoreRecording(q)
    BY <2>4, CallTypes, KeepTypes
  <2>5. CASE Unlink(q)
    BY <2>5, UnlinkTypes, KeepTypes DEF Goes
  <2> QED BY <2>1, <2>2, <2>3, <2>4, <2>5 DEF ConversationAsked, ConversationGoesOn
<1>2. TypedState' /\ TypedRequests'
  BY <1>1, GoesType, KeepTypes DEF TypedState
<1>3. Moves(q, ConversationOps)
  BY ConversationMoves
<1>4. TokensOwned'
  BY KeptOwned DEF accountVars
<1>5. TokensHeld'
  <2>1. \A p \in Requests : req'[p].op \in Holding => req'[p] = req[p]
    BY <1>3, NotHeld, OthersMove
  <2> QED BY <2>1, KeptHeld DEF accountVars
<1>6. SomethingToSay'
  <2>1. \A p \in Requests : req'[p].op \in {"add_contact"} => req'[p] = req[p]
    BY <1>3, NotHeld, OthersMove
  <2> QED BY <2>1, KeptSayings
<1> QED BY <1>1, <1>2, <1>4, <1>5, <1>6

LEMMA LibraryStep ==
  ASSUME Typed, NEW q \in Requests, LibraryAsked(q) \/ LibraryGoesOn(q),
         UNCHANGED <<conversationVars, accountVars, campaignVars>>
  PROVE  Typed'
<1> USE DEF Typed
<1>1. /\ LibraryTypeOK' /\ Goes(q) /\ TypedQueue'
      /\ UNCHANGED <<env, company, job>>
  <2>1. CASE \/ CreateItem(q) \/ UpdateItem(q) \/ DeleteItem(q) \/ BumpVersion(q)
             \/ ReadTemplate(q) \/ ApplyTemplate(q)
    BY <2>1, ItemTypes, KeepTypes
  <2>2. CASE \/ Upload(q) \/ StoreDocument(q) \/ UndoUpload(q) \/ Register(q)
             \/ QueueDocument(q) \/ Retry(q) \/ QueueAgain(q) \/ DeleteDocument(q)
             \/ BumpRemoved(q) \/ RemoveObject(q)
    BY <2>2, DocumentTypes
  <2> QED BY <2>1, <2>2 DEF LibraryAsked, LibraryGoesOn
<1>2. TypedState' /\ TypedJobs' /\ TypedRequests'
  BY <1>1, GoesType, KeepTypes DEF TypedState
<1>3. Moves(q, LibraryOps)
  BY LibraryMoves
<1>4. TokensOwned'
  BY KeptOwned DEF accountVars
<1>5. TokensHeld'
  <2>1. \A p \in Requests : req'[p].op \in Holding => req'[p] = req[p]
    BY <1>3, NotHeld, OthersMove
  <2> QED BY <2>1, KeptHeld DEF accountVars
<1>6. SomethingToSay'
  <2>1. \A p \in Requests : req'[p].op \in {"add_contact"} => req'[p] = req[p]
    BY <1>3, NotHeld, OthersMove
  <2> QED BY <2>1, KeptSayings
<1> QED BY <1>1, <1>2, <1>4, <1>5, <1>6

LEMMA AccountStep ==
  ASSUME Typed, NEW q \in Requests, AccountAsked(q) \/ AccountGoesOn(q),
         UNCHANGED <<conversationVars, libraryVars, campaignVars>>
  PROVE  Typed' /\ \E u : Evolves(u)
<1> USE DEF Typed
<1>1. /\ \E u : Evolves(u)
      /\ Goes(q) /\ (req'[q].op \notin Holding \/ Reads(q))
      /\ TypedCompany' /\ TypedQueue' /\ UNCHANGED <<env, job, inbox>>
  <2>1. CASE Login(q) \/ FailLogin(q) \/ LogIn(q)
    BY <2>1, LoginTypes, KeepTypes DEF TypedState
  <2>2. CASE \/ ReadRefresh(q) \/ ReadVerification(q) \/ ReadReset(q) \/ ReadResend(q)
             \/ ReadForgot(q)
    BY <2>2, TokenReadTypes, KeepTypes DEF TypedState
  <2>3. CASE Refresh(q)
    BY <2>3, RefreshTypes, KeepTypes DEF TypedState
  <2>4. CASE VerifyEmail(q)
    BY <2>4, VerifyTypes, KeepTypes
  <2>5. CASE ResendVerification(q) \/ ForgotPassword(q)
    BY <2>5, LinkTypes, KeepTypes DEF TypedState
  <2>6. CASE ResetPassword(q)
    BY <2>6, ResetTypes, KeepTypes DEF TypedState
  <2>7. CASE Signup(q)
    BY <2>7, SignupTypes, KeepTypes
  <2>8. CASE Mail(q)
    BY <2>8, MailTypes, KeepTypes DEF TypedState
  <2>9. CASE CreateUser(q) \/ UpdateUser(q) \/ DeleteUser(q) \/ SetCompanyStatus(q)
    <3>1. /\ \E u : Evolves(u)
          /\ TypedCompany' /\ UNCHANGED <<env, req, queue, job, inbox>>
      BY <2>9, AdministratorTypes
    <3>2. req[q].op = "idle"
      BY <2>9, FreeIsIdle DEF CreateUser, UpdateUser, DeleteUser, SetCompanyStatus
    <3> QED BY <3>1, <3>2, KeepTypes DEF Goes, Holding
  <2> QED BY <2>1, <2>2, <2>3, <2>4, <2>5, <2>6, <2>7, <2>8, <2>9
      DEF AccountAsked, AccountGoesOn
<1>2. Moves(q, AccountOps)
  BY AccountMoves
<1>3. Goes(q)
  BY <1>1
<1>4. AccountsTypeOK'
  BY <1>1 DEF Evolves, TypedState, AccountsTypeOK
<1>5. TypedState' /\ TypedJobs' /\ TypedRequests'
  BY <1>1, <1>3, <1>4, GoesType, KeepTypes DEF TypedState
<1>6. TokensOwned'
  BY <1>1, EvolvesOwned
<1>7. TokensHeld'
  <2>1. \A p \in Requests : req'[p].op \in Holding =>
           \/ req'[p] = req[p]
           \/ /\ req'[p].token \in Tokens /\ tokens[req'[p].token] # None
              /\ tokens[req'[p].token].user = req'[p].user
    <3>1. CASE Reads(q)
      BY <1>3, <3>1, GoesType DEF Reads
    <3>2. CASE req'[q].op \notin Holding
      BY <1>3, <3>2, GoesType
    <3> QED BY <1>1, <3>1, <3>2
  <2> QED BY <1>1, <2>1, EvolvesHeld
<1>8. SomethingToSay'
  <2>1. \A p \in Requests : req'[p].op \in {"add_contact"} => req'[p] = req[p]
    BY <1>2, NotHeld, OthersMove
  <2> QED BY <2>1, KeptSayings
<1> QED BY <1>1, <1>5, <1>6, <1>7, <1>8

LEMMA CampaignStep ==
  ASSUME Typed, NEW q \in Requests, CampaignAsked(q) \/ CampaignGoesOn(q),
         UNCHANGED <<conversationVars, libraryVars, accountVars>>
  PROVE  Typed'
<1> USE DEF Typed
<1>1. /\ CampaignsTypeOK' /\ TypedRequests' /\ SomethingToSay'
      /\ UNCHANGED <<env, company, queue, job>>
  <2>1. ASSUME CampaignsTypeOK', Goes(q),
               \/ req'[q].op # "add_contact"
               \/ req'[q].new.kind = "broadcast" /\ req'[q].new.media = None
                    => req'[q].new.text \in Texts,
               UNCHANGED <<env, company, queue, job>>
        PROVE  /\ CampaignsTypeOK' /\ TypedRequests' /\ SomethingToSay'
               /\ UNCHANGED <<env, company, queue, job>>
    <3>1. TypedRequests' /\ \A p \in Requests \ {q} : req'[p] = req[p]
      BY <2>1, GoesType
    <3> QED BY <2>1, <3>1 DEF SomethingToSay
  <2>2. CASE LoadEdit(q) \/ LoadAudio(q) \/ LoadImport(q) \/ LoadLaunch(q) \/ LoadStatus(q)
    BY <2>1, <2>2, LoadTypes, KeepTypes DEF TypedState
  <2>3. CASE StoreAudio(q) \/ SendAudio(q) \/ ReadImport(q) \/ Launch(q)
    BY <2>1, <2>3, AudioTypes
  <2>4. CASE Edit(q) \/ SaveAudio(q) \/ SaveLaunch(q) \/ SetStatus(q)
    BY <2>1, <2>4, SaveTypes
  <2>5. CASE SaveImport(q)
    <3>1. \A p \in Requests : req'[p].op = "add_contact" => req'[p] = req[p]
      BY <2>5, ImportKeeps
    <3> QED BY <2>5, <3>1, ImportTypes, KeptSayings
  <2>6. CASE CreateCampaign(q) \/ AddDnc(q) \/ DeleteDnc(q)
    BY <2>6, CreateTypes, KeepTypes DEF SomethingToSay
  <2>7. CASE SingleCall(q) \/ TestCampaign(q)
    BY <2>1, <2>7, SingleTypes
  <2>8. CASE AddContact(q)
    BY <2>1, <2>8, AddContactTypes
  <2> QED BY <2>2, <2>3, <2>4, <2>5, <2>6, <2>7, <2>8 DEF CampaignAsked, CampaignGoesOn
<1>2. TypedState' /\ TypedJobs' /\ TypedQueue'
  BY <1>1, KeepTypes DEF TypedState
<1>3. TokensOwned'
  BY KeptOwned DEF accountVars
<1>4. TokensHeld'
  <2>1. \A p \in Requests : req'[p].op \in Holding => req'[p] = req[p]
    <3>1. CASE SaveImport(q)
      BY <3>1, ImportKeeps DEF Holding
    <3>2. CASE ~SaveImport(q)
      BY <3>2, CampaignMoves, NotHeld, OthersMove
    <3> QED BY <3>1, <3>2
  <2> QED BY <2>1, KeptHeld DEF accountVars
<1> QED BY <1>1, <1>2, <1>3, <1>4

LEMMA DeletionStep ==
  ASSUME Typed, NEW q \in Requests, ShowCompany(q) \/ DeleteRows(q) \/ DeleteFiles(q)
  PROVE  Typed'
<1> USE DEF Typed
<1>1. /\ TypedState' /\ TokensOwned' /\ Goes(q)
      /\ \A t \in Tokens : tokens'[t] # None => tokens'[t] = tokens[t]
      /\ UNCHANGED <<env, queue, job>>
  <2>1. CASE ShowCompany(q)
    BY <2>1, ShowTypes, KeepTypes, KeptOwned DEF TypedState, accountVars
  <2>2. CASE DeleteRows(q)
    BY <2>2, DeleteRowsTypes
  <2>3. CASE DeleteFiles(q)
    BY <2>3, DeleteFilesTypes, KeptOwned DEF accountVars
  <2> QED BY <2>1, <2>2, <2>3
<1>2. TypedRequests' /\ TypedJobs' /\ TypedQueue'
  BY <1>1, GoesType, KeepTypes
<1>3. Moves(q, DeletionOps)
  BY DeletionMoves
<1>4. TokensHeld'
  <2>1. \A p \in Requests : req'[p].op \in Holding => req'[p] = req[p]
    BY <1>3, NotHeld, OthersMove
  <2> QED BY <1>1, <2>1, KeptHeld
<1>5. SomethingToSay'
  <2>1. \A p \in Requests : req'[p].op \in {"add_contact"} => req'[p] = req[p]
    BY <1>3, NotHeld, OthersMove
  <2> QED BY <2>1, KeptSayings
<1> QED BY <1>1, <1>2, <1>4, <1>5

LEMMA WorkStep ==
  ASSUME Typed, NEW w \in Workers, Work(w)
  PROVE  Typed' /\ UNCHANGED <<env, company, req, users, tokens>>
<1> USE DEF Typed
<1>1. TypedState' /\ TypedQueue' /\ TypedJobs' /\ UNCHANGED <<env, company, req, users, tokens>>
  <2>1. CASE Take(w) /\ UNCHANGED <<env, company, req, conversationVars, libraryVars,
                                    accountVars, campaignVars>>
    BY <2>1, TakeTypes, KeepTypes DEF TypedState, accountVars
  <2>2. CASE ConversationTask(w) /\ UNCHANGED <<libraryVars, accountVars, campaignVars>>
    <3>1. /\ ConversationsTypeOK' /\ TypedQueue' /\ TypedJobs' /\ UNCHANGED <<env, company, req>>
      BY <2>2, SyncTypes, ConfirmationTypes DEF ConversationTask
    <3> QED BY <2>2, <3>1, KeepTypes DEF TypedState, accountVars
  <2>3. CASE LibraryTask(w) /\ UNCHANGED <<conversationVars, accountVars, campaignVars>>
    BY <2>3, ProcessingTypes, KeepTypes DEF TypedState, accountVars
  <2>4. CASE AccountTask(w) /\ UNCHANGED <<conversationVars, libraryVars, campaignVars>>
    BY <2>4, EmailTypes, KeepTypes DEF TypedState, AccountTask
  <2> QED BY <2>1, <2>2, <2>3, <2>4 DEF Work
<1>2. TypedRequests'
  BY <1>1, KeepTypes
<1>3. TokensOwned' /\ TokensHeld' /\ SomethingToSay'
  BY <1>1 DEF TokensOwned, TokensHeld, SomethingToSay
<1> QED BY <1>1, <1>2, <1>3

LEMMA ElsewhereStep ==
  ASSUME Typed, Elsewhere
  PROVE  Typed' /\ UNCHANGED <<env, company, req, queue, job>>
<1> USE DEF Typed
<1>1. CASE LibrarySnapshot /\ UNCHANGED <<conversationVars, accountVars, campaignVars>>
  <2>1. TypedState' /\ TypedQueue' /\ TypedJobs' /\ TypedRequests' /\ UNCHANGED taskVars
    BY <1>1, SnapshotTypes, KeepTypes DEF TypedState, taskVars
  <2> QED BY <1>1, <2>1 DEF TokensOwned, TokensHeld, SomethingToSay, taskVars, accountVars
<1>2. CASE TimePasses /\ UNCHANGED <<conversationVars, libraryVars, campaignVars>>
  <2>1. \E u : Evolves(u)
    BY <1>2, TimeTypes
  <2>2. UNCHANGED <<env, company, req, queue, job, inbox>>
    BY <1>2, TimeTypes
  <2>3. AccountsTypeOK'
    BY <2>1, <2>2 DEF Evolves, TypedState, AccountsTypeOK
  <2>4. TypedState' /\ TypedQueue' /\ TypedJobs' /\ TypedRequests'
    BY <1>2, <2>2, <2>3, KeepTypes DEF TypedState
  <2>5. TokensOwned' /\ TokensHeld'
    BY <2>1, <2>2, EvolvesOwned, EvolvesHeld
  <2> QED BY <2>2, <2>4, <2>5 DEF SomethingToSay
<1>3. CASE Dial /\ UNCHANGED <<conversationVars, libraryVars, accountVars>>
  <2>1. CampaignsTypeOK' /\ UNCHANGED <<env, company, queue, job, req>>
    BY <1>3, DialTypes
  <2>2. TypedState' /\ TypedQueue' /\ TypedJobs' /\ TypedRequests'
    BY <1>3, <2>1, KeepTypes DEF TypedState
  <2> QED BY <1>3, <2>1, <2>2 DEF TokensOwned, TokensHeld, SomethingToSay, accountVars
<1> QED BY <1>1, <1>2, <1>3 DEF Elsewhere

LEMMA DiesStep ==
  ASSUME Typed, Dies
  PROVE  Typed' /\ UNCHANGED <<env, company, conversationVars, libraryVars, accountVars, campaignVars>>
<1> USE DEF Typed
<1>1. UNCHANGED <<env, company, conversationVars, libraryVars, accountVars, campaignVars>>
  BY DEF Dies
<1>2. TypedState' /\ TokensOwned'
  BY <1>1, KeepTypes, KeptOwned DEF TypedState, accountVars
<1>3. ASSUME NEW q \in Requests, RequestDies(q), UNCHANGED <<queue, job>>
      PROVE  Typed'
  <2>1. Goes(q) /\ req'[q] = Idle
    BY <1>3, IdleGoes DEF RequestDies, Become, TypedRequests
  <2>2. TypedRequests' /\ \A p \in Requests \ {q} : req'[p] = req[p]
    BY <2>1, GoesType
  <2>3. TokensHeld' /\ SomethingToSay'
    BY <1>1, <2>1, <2>2 DEF TokensHeld, SomethingToSay, Idle, Holding, accountVars
  <2> QED BY <1>2, <1>3, <2>2, <2>3, KeepTypes
<1>4. ASSUME NEW w \in Workers, WorkerDies(w), UNCHANGED req
      PROVE  Typed'
  <2>1. TypedQueue' /\ TypedJobs'
    BY <1>4, WorkerDiesTypes
  <2> QED BY <1>1, <1>2, <1>4, <2>1, KeepTypes DEF TokensHeld, SomethingToSay, accountVars
<1> QED BY <1>1, <1>3, <1>4 DEF Dies

-----------------------------------------------------------------------------
LEMMA TypedInit == Init => Typed
<1> SUFFICES ASSUME Init PROVE Typed
  OBVIOUS
<1> USE DEF Init, TasksInit
<1>1. ConversationsTypeOK
  BY DEF ConversationsInit, ConversationsTypeOK, Many
<1>2. LibraryTypeOK
  BY DEF LibraryInit, LibraryTypeOK
<1>3. AccountsTypeOK /\ TokensOwned
  BY DEF AccountsInit, AccountsTypeOK, TokensOwned
<1>4. CampaignsTypeOK
  BY DEF CampaignsInit, CampaignsTypeOK, NoContacts
<1>5. TypedQueue
  BY QueueEmpty DEF TypedQueue
<1>6. TypedJobs /\ TypedRequests
  BY DEF TypedJobs, TypedRequests, AnyRequest, Idle
<1>7. TokensHeld /\ SomethingToSay
  BY DEF TokensHeld, SomethingToSay, Holding
<1>8. TypedCompany
  BY BackOfficeAssumption DEF TypedCompany
<1> QED BY <1>1, <1>2, <1>3, <1>4, <1>5, <1>6, <1>7, <1>8 DEF Typed, TypedState

LEMMA TypedNext == Typed /\ [Next]_backOfficeVars => Typed'
<1> SUFFICES ASSUME Typed, [Next]_backOfficeVars PROVE Typed'
  OBVIOUS
<1>1. ASSUME NEW q \in Requests, Ask(q) \/ Serve(q)
      PROVE  Typed'
  BY <1>1, ConversationStep, LibraryStep, AccountStep, CampaignStep, DeletionStep
  DEF Ask, Serve
<1>2. ASSUME NEW w \in Workers, Work(w)
      PROVE  Typed'
  BY <1>2, WorkStep
<1>3. CASE UNCHANGED backOfficeVars
  <2>1. UNCHANGED <<taskVars, conversationVars, libraryVars, accountVars, campaignVars>>
    BY <1>3 DEF backOfficeVars
  <2> QED BY <2>1, KeepTypes, KeptOwned
      DEF Typed, TypedState, TokensHeld, SomethingToSay, taskVars, accountVars
<1> QED BY <1>1, <1>2, <1>3, ElsewhereStep, DiesStep DEF Next

(* Every variable of the back office keeps its type, whatever requests and *)
(* workers do at the same time, die or are refused: among others no worker *)
(* takes a task it cannot read, and no request goes on with a record of    *)
(* another's operation.  It needs that a token belongs to a user there is. *)
THEOREM TypeCorrect == Spec => []BackOfficeTypeOK
<1>1. Typed => BackOfficeTypeOK
  BY TypedIsTypeOK
<1> QED BY <1>1, TypedInit, TypedNext, PTL DEF Spec

-----------------------------------------------------------------------------
(* Without overlap one request and one worker are at work at most, and a   *)
(* company that is not there has nothing.                                  *)
Serial == ~Fault("parallel")
Alone ==
  Serial =>
    /\ \A q \in Requests : req[q].op # "idle" => q = One(Requests)
    /\ \A w \in Workers : job[w] # None => w = One(Workers)

Cleared ==
  company = None =>
    /\ \A c \in Calls : calls[c] = None
    /\ \A r \in Rows : rows[r] = None
    /\ \A d \in Documents : documents[d] = None
    /\ \A u \in Users : users[u] = None
    /\ \A t \in Tokens : tokens[t] = None
    /\ \A k \in Campaigns : campaigns[k] = None
    /\ items = {}

(* The company has been deleted.                                           *)
Deleted == company = None /\ env.company # None

(* A company that signs up while the system runs is not deleted.           *)
DeletionAsked == \A q \in Requests : req[q].op \in DeletionOps => env.company # None

Sound == Typed /\ Alone /\ Cleared /\ DeletionAsked

LEMMA AskedFree ==
  ASSUME NEW q \in Requests, Ask(q)
  PROVE  Free(q)
<1>1. ConversationAsked(q) => Free(q)
  BY DEF ConversationAsked, AnswerCall, TestCall, ResolveCall, UpdateCall, Complete,
         CreateRequest, UpdateRequest, UploadRecording, Link, Unlink
<1>2. LibraryAsked(q) => Free(q)
  BY DEF LibraryAsked, CreateItem, UpdateItem, DeleteItem, ReadTemplate, Upload, Register,
         Retry, DeleteDocument
<1>3. AccountAsked(q) => Free(q)
  BY DEF AccountAsked, Signup, Login, ReadRefresh, ReadVerification, ReadResend, ReadForgot,
         ReadReset, CreateUser, UpdateUser, DeleteUser, SetCompanyStatus
<1>4. CampaignAsked(q) => Free(q)
  BY DEF CampaignAsked, CreateCampaign, LoadEdit, LoadAudio, LoadImport, AddDnc, DeleteDnc,
         LoadLaunch, LoadStatus, SingleCall, TestCampaign, Loads
<1> QED BY <1>1, <1>2, <1>3, <1>4 DEF Ask, ShowCompany

LEMMA ServedBusy ==
  ASSUME NEW q \in Requests, Serve(q)
  PROVE  req[q].op # "idle"
<1>1. ConversationGoesOn(q) => req[q].op # "idle"
  BY DEF ConversationGoesOn, SearchRequest, InsertRequest, QueueSync, QueueConfirmation,
         StoreRecording, At
<1>2. LibraryGoesOn(q) => req[q].op # "idle"
  BY DEF LibraryGoesOn, BumpVersion, ApplyTemplate, StoreDocument, UndoUpload,
         QueueDocument, QueueAgain, BumpRemoved, RemoveObject, At
<1>3. AccountGoesOn(q) => req[q].op # "idle"
  BY DEF AccountGoesOn, Mail, FailLogin, LogIn, Refresh, VerifyEmail, ResendVerification,
         ForgotPassword, ResetPassword, NewLink, At
<1>4. CampaignGoesOn(q) => req[q].op # "idle"
  BY DEF CampaignGoesOn, Edit, StoreAudio, SendAudio, SaveAudio, ReadImport, SaveImport,
         Launch, SaveLaunch, SetStatus, AddContact, At
<1> QED BY <1>1, <1>2, <1>3, <1>4 DEF Serve, DeleteRows, DeleteFiles, At

(* Who does not delete an integration leaves the jobs alone.               *)
LEMMA ConversationFrame ==
  ASSUME Typed, NEW q \in Requests, ConversationAsked(q) \/ ConversationGoesOn(q)
  PROVE  /\ UNCHANGED <<env, company>> /\ (job' = job \/ Unlink(q))
         /\ \A w \in Workers : job'[w] # None => job[w] # None
<1> USE DEF Typed
<1>1. CASE Unlink(q)
  BY <1>1, UnlinkTypes
<1>2. CASE ~Unlink(q)
  BY <1>2, CallTypes, RowTypes, OtherConversationTypes, QueuingTypes
  DEF ConversationAsked, ConversationGoesOn
<1> QED BY <1>1, <1>2

LEMMA AccountFrame ==
  ASSUME Typed, NEW q \in Requests, AccountAsked(q) \/ AccountGoesOn(q),
         UNCHANGED <<conversationVars, libraryVars, campaignVars>>
  PROVE  UNCHANGED <<env, job>>
  BY LoginTypes, TokenReadTypes, RefreshTypes, VerifyTypes, LinkTypes, ResetTypes, SignupTypes,
     MailTypes, AdministratorTypes DEF Typed, AccountAsked, AccountGoesOn

(* What a request's step moves: its own request, and only SaveImport       *)
(* another that works already.                                             *)
LEMMA RequestMoves ==
  ASSUME Typed, NEW q \in Requests, Ask(q) \/ Serve(q)
  PROVE  /\ \A p \in Requests \ {q} : req'[p].op # "idle" => req[p].op # "idle"
         /\ env' = env /\ (job' = job \/ Unlink(q))
         /\ \A w \in Workers : job'[w] # None => job[w] # None
<1> USE DEF Typed
<1>1. ASSUME NEW ops, Moves(q, ops)
      PROVE  \A p \in Requests \ {q} : req'[p].op # "idle" => req[p].op # "idle"
  BY <1>1, Moved
<1>2. CASE /\ ConversationAsked(q) \/ ConversationGoesOn(q)
           /\ UNCHANGED <<libraryVars, accountVars, campaignVars>>
  BY <1>1, <1>2, ConversationMoves, ConversationFrame
<1>3. CASE /\ LibraryAsked(q) \/ LibraryGoesOn(q)
           /\ UNCHANGED <<conversationVars, accountVars, campaignVars>>
  <2>1. env' = env /\ job' = job
    BY <1>3, ItemTypes, DocumentTypes DEF LibraryAsked, LibraryGoesOn
  <2> QED BY <1>1, <1>3, <2>1, LibraryMoves
<1>4. CASE /\ AccountAsked(q) \/ AccountGoesOn(q)
           /\ UNCHANGED <<conversationVars, libraryVars, campaignVars>>
  BY <1>1, <1>4, AccountMoves, AccountFrame
<1>5. CASE /\ CampaignAsked(q) \/ CampaignGoesOn(q)
           /\ UNCHANGED <<conversationVars, libraryVars, accountVars>>
  <2>1. env' = env /\ job' = job
    BY <1>5, LoadTypes, AudioTypes, SaveTypes, ImportTypes, CreateTypes, SingleTypes,
       AddContactTypes DEF CampaignAsked, CampaignGoesOn
  <2>2. CASE SaveImport(q)
    BY <2>1, <2>2, ImportKeeps
  <2>3. CASE ~SaveImport(q)
    BY <1>1, <1>5, <2>1, <2>3, CampaignMoves
  <2> QED BY <2>2, <2>3
<1>6. CASE ShowCompany(q) \/ DeleteRows(q) \/ DeleteFiles(q)
  <2>1. env' = env /\ job' = job
    BY <1>6 DEF ShowCompany, DeleteRows, DeleteFiles
  <2> QED BY <1>1, <1>6, <2>1, DeletionMoves
<1> QED BY <1>2, <1>3, <1>4, <1>5, <1>6 DEF Ask, Serve

LEMMA WorkerMoves ==
  ASSUME Typed, NEW w \in Workers, Work(w)
  PROVE  /\ \A v \in Workers \ {w} : job'[v] # None => job[v] # None
         /\ job[w] # None \/ (Take(w) /\ (Fault("parallel") \/ w = One(Workers)))
<1> USE DEF Typed, TypedJobs
<1>1. CASE Take(w)
  BY <1>1 DEF Take
<1>2. ASSUME job[w] # None,
             \/ Finish(w) \/ TryAgain(w) \/ \E at : Proceed(w, at)
             \/ \E d : job' = [job EXCEPT ![w].at = "log", ![w].saw = d]
      PROVE  \A v \in Workers \ {w} : job'[v] # None => job[v] # None
  BY <1>2 DEF Finish, TryAgain, Proceed
<1>3. CASE ConversationTask(w)
  <2>1. job[w] # None
    BY <1>3 DEF ConversationTask, StartSync, FindCustomer, MakeCustomer, MakeDocument,
                LogDocument, StoreReference, StartConfirmation, SendConfirmation,
                LogConfirmation, InJob
  <2>2. \/ Finish(w) \/ TryAgain(w) \/ \E at : Proceed(w, at)
        \/ \E d : job' = [job EXCEPT ![w].at = "log", ![w].saw = d]
    <3>1. CASE MakeDocument(w)
      BY <3>1 DEF MakeDocument
    <3>2. CASE ~MakeDocument(w)
      BY <1>3, <3>2 DEF ConversationTask, StartSync, FindCustomer, MakeCustomer, LogDocument,
                        Logged, StoreReference, StartConfirmation, SendConfirmation,
                        LogConfirmation
    <3> QED BY <3>1, <3>2
  <2> QED BY <1>2, <2>1, <2>2
<1>4. CASE LibraryTask(w)
  <2>1. job[w] # None
    BY <1>4 DEF LibraryTask, StartProcessing, Download, Clear, PublishChunks, MarkFailed,
                RetryProcessing, InJob
  <2>2. CASE PublishChunks(w)
    BY <1>2, <2>1, <2>2 DEF PublishChunks, Others, Jobs
  <2>3. CASE ~PublishChunks(w)
    <3>1. \/ Finish(w) \/ TryAgain(w) \/ \E at : Proceed(w, at)
      BY <1>4, <2>3 DEF LibraryTask, StartProcessing, Download, Clear, MarkFailed,
                        RetryProcessing, Proceed
    <3> QED BY <1>2, <2>1, <3>1
  <2> QED BY <2>1, <2>2, <2>3
<1>5. CASE AccountTask(w)
  BY <1>2, <1>5 DEF AccountTask, SendEmail, InJob
<1> QED BY <1>1, <1>3, <1>4, <1>5 DEF Work

LEMMA AloneNext == Typed /\ Alone /\ [Next]_backOfficeVars => Alone'
<1> SUFFICES ASSUME Typed, Alone, [Next]_backOfficeVars PROVE Alone'
  OBVIOUS
<1> USE DEF Alone, Serial, Fault
<1>1. ASSUME NEW q \in Requests, Ask(q) \/ Serve(q)
      PROVE  Alone'
  <2>1. /\ \A p \in Requests \ {q} : req'[p].op # "idle" => req[p].op # "idle"
        /\ env' = env /\ \A w \in Workers : job'[w] # None => job[w] # None
    BY <1>1, RequestMoves
  <2>2. q = One(Requests) \/ "parallel" \in env.faults
    BY <1>1, AskedFree, ServedBusy DEF Free
  <2> QED BY <2>1, <2>2
<1>2. ASSUME NEW w \in Workers, Work(w)
      PROVE  Alone'
  <2>1. UNCHANGED <<env, req>>
    BY <1>2, WorkStep
  <2>2. /\ \A v \in Workers \ {w} : job'[v] # None => job[v] # None
        /\ job[w] # None \/ "parallel" \in env.faults \/ w = One(Workers)
    BY <1>2, WorkerMoves
  <2> QED BY <2>1, <2>2
<1>3. CASE Elsewhere
  BY <1>3, ElsewhereStep
<1>4. CASE Dies
  <2>1. env' = env
    BY <1>4, DiesStep
  <2>2. /\ \A q \in Requests : req'[q].op # "idle" => req[q].op # "idle"
        /\ \A w \in Workers : job'[w] # None => job[w] # None
    <3>1. ASSUME NEW q \in Requests, RequestDies(q), UNCHANGED job
          PROVE  /\ \A p \in Requests : req'[p].op # "idle" => req[p].op # "idle"
                 /\ \A w \in Workers : job'[w] # None => job[w] # None
      <4>1. Idle.op = "idle"
        BY DEF Idle
      <4>2. req' = [req EXCEPT ![q] = Idle]
        BY <3>1 DEF RequestDies, Become
      <4> QED BY <3>1, <4>1, <4>2 DEF Typed, TypedRequests
    <3>2. ASSUME NEW w \in Workers, WorkerDies(w), UNCHANGED req
          PROVE  /\ \A p \in Requests : req'[p].op # "idle" => req[p].op # "idle"
                 /\ \A v \in Workers : job'[v] # None => job[v] # None
      BY <3>2 DEF WorkerDies, Typed, TypedJobs
    <3> QED BY <1>4, <3>1, <3>2 DEF Dies
  <2> QED BY <2>1, <2>2
<1>5. CASE UNCHANGED backOfficeVars
  BY <1>5 DEF backOfficeVars, taskVars
<1> QED BY <1>1, <1>2, <1>3, <1>4, <1>5 DEF Next

(* Where there is no company nothing is made.                              *)
LEMMA NoConversations ==
  ASSUME Typed, Cleared, company = None, NEW q \in Requests,
         ConversationAsked(q) \/ ConversationGoesOn(q)
  PROVE  (\A c \in Calls : calls'[c] = None) /\ (\A r \in Rows : rows'[r] = None)
<1> USE DEF Cleared, Typed
<1>1. CASE AnswerCall(q) \/ TestCall(q) \/ CreateRequest(q)
  BY <1>1 DEF AnswerCall, TestCall, NewCall, CreateRequest
<1>2. CASE ResolveCall(q) \/ UpdateCall(q) \/ Complete(q)
  BY <1>2 DEF ResolveCall, UpdateCall, Complete
<1>3. CASE UpdateRequest(q) \/ UploadRecording(q) \/ Link(q) \/ Unlink(q)
  BY <1>3 DEF UpdateRequest, UploadRecording, Link, Unlink
<1>4. CASE SearchRequest(q) \/ QueueSync(q) \/ QueueConfirmation(q)
  BY <1>4 DEF SearchRequest, QueueSync, QueueConfirmation, OnlyRows, OnlyQueue, conversationVars
<1>5. CASE InsertRequest(q) \/ StoreRecording(q)
  <2>1. req[q].call \in Calls
    BY <1>5, ConversationParts DEF InsertRequest, StoreRecording, At, TypedRequests
  <2> QED BY <1>5, <2>1 DEF InsertRequest, StoreRecording, OnlyRows, OnlyCalls
<1> QED BY <1>1, <1>2, <1>3, <1>4, <1>5 DEF ConversationAsked, ConversationGoesOn

LEMMA NoLibrary ==
  ASSUME Typed, Cleared, company = None, NEW q \in Requests, LibraryAsked(q) \/ LibraryGoesOn(q)
  PROVE  items' = {} /\ (\A d \in Documents : documents'[d] = None)
<1> USE DEF Cleared, Typed
<1>1. CASE CreateItem(q) \/ UpdateItem(q) \/ DeleteItem(q) \/ ReadTemplate(q) \/ BumpVersion(q)
           \/ ApplyTemplate(q)
  BY <1>1 DEF CreateItem, UpdateItem, DeleteItem, ReadTemplate, BumpVersion, ApplyTemplate,
              OnlyItems
<1>2. CASE Upload(q) \/ Register(q) \/ Retry(q) \/ DeleteDocument(q)
  BY <1>2 DEF Upload, Register, Retry, DeleteDocument, OnlyDocuments
<1>3. CASE StoreDocument(q) \/ UndoUpload(q) \/ QueueAgain(q) \/ BumpRemoved(q) \/ RemoveObject(q)
  BY <1>3 DEF StoreDocument, UndoUpload, QueueAgain, BumpRemoved, RemoveObject, OnlyDocuments
<1>4. CASE QueueDocument(q)
  <2>1. req[q].document \in Documents
    BY <1>4, LibraryParts DEF QueueDocument, At, TypedRequests, OnDocument
  <2> QED BY <1>4, <2>1 DEF QueueDocument, OnlyDocuments, Set
<1> QED BY <1>1, <1>2, <1>3, <1>4 DEF LibraryAsked, LibraryGoesOn

LEMMA NoAccounts ==
  ASSUME Typed, Cleared, company = None, NEW q \in Requests, AccountAsked(q) \/ AccountGoesOn(q),
         company' = None
  PROVE  (\A u \in Users : users'[u] = None) /\ (\A t \in Tokens : tokens'[t] = None)
<1> USE DEF Cleared, Typed, Keep
<1>0. req[q] \in AnyRequest
  BY DEF TypedRequests
<1>1. ~Signup(q)
  BY TasksAssumption DEF Signup, CompanyStatus
<1>2. ~CreateUser(q) /\ ~SetCompanyStatus(q)
  BY DEF CreateUser, SetCompanyStatus
<1>3. CASE \/ Login(q) \/ ReadRefresh(q) \/ ReadVerification(q) \/ ReadResend(q)
           \/ ReadForgot(q) \/ ReadReset(q) \/ UpdateUser(q) \/ DeleteUser(q)
  BY <1>3 DEF Login, ReadRefresh, ReadVerification, ReadResend, ReadForgot, ReadReset,
              UpdateUser, DeleteUser
<1>4. CASE Mail(q)
  BY <1>4 DEF Mail, accountVars
<1>5. CASE FailLogin(q) \/ LogIn(q)
  <2>1. req[q].user \in Users
    BY <1>0, <1>5, AccountParts DEF FailLogin, LogIn, At
  <2> QED BY <1>5, <2>1 DEF FailLogin, LogIn
<1>6. CASE ResendVerification(q) \/ ForgotPassword(q)
  <2>1. req[q].user \in Users
    BY <1>0, <1>6, AccountParts DEF ResendVerification, ForgotPassword, NewLink, At
  <2> QED BY <1>6, <2>1 DEF ResendVerification, ForgotPassword, NewLink
<1>7. CASE Refresh(q) \/ VerifyEmail(q) \/ ResetPassword(q)
  <2>1. req[q].token \in Tokens
    BY <1>7 DEF Refresh, VerifyEmail, ResetPassword, At, TokensHeld, Holding
  <2> QED BY <1>7, <2>1 DEF Refresh, VerifyEmail, ResetPassword
<1> QED BY <1>1, <1>2, <1>3, <1>4, <1>5, <1>6, <1>7 DEF AccountAsked, AccountGoesOn

LEMMA NoCampaigns ==
  ASSUME Typed, Cleared, company = None, NEW q \in Requests, CampaignAsked(q) \/ CampaignGoesOn(q)
  PROVE  \A k \in Campaigns : campaigns'[k] = None
<1> USE DEF Cleared, Typed, OnlyCampaigns
<1>0. req[q] \in AnyRequest
  BY DEF TypedRequests
<1>1. ~SingleCall(q) /\ ~TestCampaign(q) /\ ~CreateCampaign(q)
  BY DEF SingleCall, TestCampaign, CreateCampaign, Insert
<1>2. CASE \/ LoadEdit(q) \/ LoadAudio(q) \/ LoadImport(q) \/ LoadLaunch(q) \/ LoadStatus(q)
           \/ AddDnc(q) \/ DeleteDnc(q) \/ StoreAudio(q) \/ SendAudio(q) \/ ReadImport(q)
           \/ Launch(q)
  BY <1>2 DEF LoadEdit, LoadAudio, LoadImport, LoadLaunch, LoadStatus, AddDnc, DeleteDnc,
              StoreAudio, SendAudio, ReadImport, Launch
<1>3. CASE Edit(q) \/ SaveAudio(q) \/ SaveLaunch(q) \/ SetStatus(q) \/ AddContact(q) \/ SaveImport(q)
  <2>1. req[q].campaign \in Campaigns
    BY <1>0, <1>3, CampaignParts DEF Edit, SaveAudio, SaveLaunch, SetStatus, AddContact,
       SaveImport, At, CampaignOps
  <2>2. \A seen, new : Save(req[q].campaign, seen, new) => UNCHANGED campaigns
    BY <2>1 DEF Save
  <2> QED BY <1>3, <2>2 DEF Edit, SaveAudio, SaveLaunch, SetStatus, AddContact, SaveImport
<1> QED BY <1>1, <1>2, <1>3 DEF CampaignAsked, CampaignGoesOn

LEMMA NoWork ==
  ASSUME Typed, Cleared, company = None, NEW w \in Workers, Work(w)
  PROVE  /\ \A r \in Rows : rows'[r] = None
         /\ \A d \in Documents : documents'[d] = None
         /\ UNCHANGED <<calls, items, campaigns>>
<1> USE DEF Cleared, Typed
<1>1. CASE Take(w) /\ UNCHANGED <<env, company, req, conversationVars, libraryVars,
                                  accountVars, campaignVars>>
  BY <1>1 DEF conversationVars, libraryVars, campaignVars
<1>2. CASE ConversationTask(w) /\ UNCHANGED <<libraryVars, accountVars, campaignVars>>
  <2>1. UNCHANGED calls
    BY <1>2 DEF ConversationTask, StartSync, FindCustomer, MakeCustomer, MakeDocument,
                LogDocument, StoreReference, StartConfirmation, SendConfirmation,
                LogConfirmation, AtErp, conversationVars
  <2>2. CASE StoreReference(w)
    <3>1. Of(w) \in Rows
      BY <2>2, JobParts DEF StoreReference, InJob, TypedJobs, Of
    <3> QED BY <1>2, <2>1, <2>2, <3>1 DEF StoreReference, libraryVars, campaignVars
  <2>3. CASE ~StoreReference(w)
    <3>1. UNCHANGED rows
      BY <1>2, <2>3 DEF ConversationTask, StartSync, FindCustomer, MakeCustomer, MakeDocument,
                        LogDocument, StartConfirmation, SendConfirmation, LogConfirmation, AtErp,
                        conversationVars
    <3> QED BY <1>2, <2>1, <3>1 DEF libraryVars, campaignVars
  <2> QED BY <2>2, <2>3
<1>3. CASE LibraryTask(w) /\ UNCHANGED <<conversationVars, accountVars, campaignVars>>
  <2>1. Of(w) \in Documents
    BY <1>3, JobParts DEF LibraryTask, StartProcessing, Download, Clear, PublishChunks,
       MarkFailed, RetryProcessing, InJob, TypedJobs, Of
  <2>2. \A s : Set(Of(w), s) => UNCHANGED documents
    BY <2>1 DEF Set
  <2>3. UNCHANGED documents
    BY <1>3, <2>2 DEF LibraryTask, StartProcessing, Download, Clear, PublishChunks,
       MarkFailed, RetryProcessing
  <2>4. UNCHANGED items
    BY <1>3, ProcessingTypes
  <2> QED BY <1>3, <2>3, <2>4 DEF conversationVars, campaignVars
<1>4. CASE AccountTask(w) /\ UNCHANGED <<conversationVars, libraryVars, campaignVars>>
  BY <1>4 DEF conversationVars, libraryVars, campaignVars
<1> QED BY <1>1, <1>2, <1>3, <1>4 DEF Work

(* Only the deletion takes the company away.                               *)
LEMMA CompanyKept ==
  ASSUME Typed, NEW q \in Requests, Ask(q) \/ Serve(q), company # None, ~DeleteRows(q)
  PROVE  company' # None
<1> USE DEF Typed
<1>1. CASE ConversationAsked(q) \/ ConversationGoesOn(q)
  BY <1>1, ConversationFrame
<1>2. CASE LibraryAsked(q) \/ LibraryGoesOn(q)
  BY <1>2, ItemTypes, DocumentTypes DEF LibraryAsked, LibraryGoesOn
<1>3. CASE AccountAsked(q) \/ AccountGoesOn(q)
  <2>1. CASE SetCompanyStatus(q)
    BY <2>1, TasksAssumption DEF SetCompanyStatus
  <2>2. CASE VerifyEmail(q)
    BY <2>2, TasksAssumption DEF VerifyEmail, CompanyStatus
  <2>3. CASE ~SetCompanyStatus(q) /\ ~VerifyEmail(q)
    <3>1. ~Signup(q)
      BY DEF Signup
    <3> QED BY <1>3, <2>3, <3>1 DEF AccountAsked, AccountGoesOn, Login, ReadRefresh, ReadVerification,
            ReadResend, ReadForgot, ReadReset, CreateUser, UpdateUser, DeleteUser, Mail,
            FailLogin, LogIn, Refresh, ResendVerification, ForgotPassword, NewLink,
            ResetPassword
  <2> QED BY <2>1, <2>2, <2>3
<1>4. CASE CampaignAsked(q) \/ CampaignGoesOn(q)
  BY <1>4, LoadTypes, AudioTypes, SaveTypes, ImportTypes, CreateTypes, SingleTypes,
     AddContactTypes DEF CampaignAsked, CampaignGoesOn
<1>5. CASE ShowCompany(q) \/ DeleteFiles(q)
  BY <1>5 DEF ShowCompany, DeleteFiles
<1> QED BY <1>1, <1>2, <1>3, <1>4, <1>5 DEF Ask, Serve

LEMMA ClearedNext == Typed /\ Cleared /\ [Next]_backOfficeVars => Cleared'
<1> SUFFICES ASSUME Typed, Cleared, [Next]_backOfficeVars, company' = None PROVE Cleared'
  BY DEF Cleared
<1>1. ASSUME NEW q \in Requests, Ask(q) \/ Serve(q), company # None
      PROVE  Cleared'
  <2>1. DeleteRows(q)
    BY <1>1, CompanyKept
  <2>2. /\ company' = None
        /\ calls' = [c \in Calls |-> None] /\ rows' = [r \in Rows |-> None]
        /\ items' = {} /\ documents' = [d \in Documents |-> None]
        /\ users' = [u \in Users |-> None] /\ tokens' = [t \in Tokens |-> None]
        /\ campaigns' = [k \in Campaigns |-> None]
    BY <1>1, <2>1 DEF DeleteRows
  <2> QED BY <2>2 DEF Cleared
<1>2. ASSUME NEW q \in Requests, Ask(q) \/ Serve(q), company = None
      PROVE  Cleared'
  <2>1. CASE /\ ConversationAsked(q) \/ ConversationGoesOn(q)
             /\ UNCHANGED <<libraryVars, accountVars, campaignVars>>
    BY <1>2, <2>1, NoConversations DEF Cleared, libraryVars, accountVars, campaignVars
  <2>2. CASE /\ LibraryAsked(q) \/ LibraryGoesOn(q)
             /\ UNCHANGED <<conversationVars, accountVars, campaignVars>>
    BY <1>2, <2>2, NoLibrary DEF Cleared, conversationVars, accountVars, campaignVars
  <2>3. CASE /\ AccountAsked(q) \/ AccountGoesOn(q)
             /\ UNCHANGED <<conversationVars, libraryVars, campaignVars>>
    BY <1>2, <2>3, NoAccounts DEF Cleared, conversationVars, libraryVars, campaignVars
  <2>4. CASE /\ CampaignAsked(q) \/ CampaignGoesOn(q)
             /\ UNCHANGED <<conversationVars, libraryVars, accountVars>>
    BY <1>2, <2>4, NoCampaigns DEF Cleared, conversationVars, libraryVars, accountVars
  <2>5. CASE ShowCompany(q) \/ DeleteFiles(q)
    BY <2>5 DEF ShowCompany, DeleteFiles, Cleared, conversationVars, libraryVars, accountVars,
                campaignVars
  <2>6. CASE DeleteRows(q)
    BY <1>2, <2>6 DEF DeleteRows, Cleared
  <2> QED BY <1>2, <2>1, <2>2, <2>3, <2>4, <2>5, <2>6 DEF Ask, Serve
<1>3. ASSUME NEW w \in Workers, Work(w)
      PROVE  Cleared'
  <2>1. UNCHANGED <<company, users, tokens>>
    BY <1>3, WorkStep
  <2> QED BY <1>3, <2>1, NoWork DEF Cleared
<1>4. CASE Elsewhere
  <2>1. UNCHANGED company
    BY <1>4, ElsewhereStep
  <2>2. CASE LibrarySnapshot /\ UNCHANGED <<conversationVars, accountVars, campaignVars>>
    BY <2>1, <2>2, SnapshotTypes DEF Typed, Cleared, conversationVars, accountVars, campaignVars
  <2>3. CASE TimePasses /\ UNCHANGED <<conversationVars, libraryVars, campaignVars>>
    BY <2>1, <2>3 DEF TimePasses, Usable, Cleared, conversationVars, libraryVars, campaignVars
  <2>4. CASE Dial /\ UNCHANGED <<conversationVars, libraryVars, accountVars>>
    BY <2>1, <2>4 DEF Dial, Cleared, conversationVars, libraryVars, accountVars
  <2> QED BY <1>4, <2>2, <2>3, <2>4 DEF Elsewhere
<1>5. CASE Dies
  BY <1>5, DiesStep DEF Cleared, conversationVars, libraryVars, accountVars, campaignVars
<1>6. CASE UNCHANGED backOfficeVars
  BY <1>6 DEF backOfficeVars, taskVars, Cleared, conversationVars, libraryVars, accountVars,
              campaignVars
<1> QED BY <1>1, <1>2, <1>3, <1>4, <1>5, <1>6 DEF Next

(* A company is deleted only where it was from the start, and stays so.    *)
LEMMA OnlyDeletion ==
  ASSUME Typed, NEW q \in Requests, Ask(q) \/ Serve(q),
         ~ShowCompany(q), ~DeleteRows(q), ~DeleteFiles(q)
  PROVE  \A p \in Requests : req'[p].op \in DeletionOps => req'[p] = req[p]
<1> USE DEF Typed
<1>1. /\ DeletionOps \intersect (ConversationOps \union {"idle"}) = {}
      /\ DeletionOps \intersect (LibraryOps \union {"idle"}) = {}
      /\ DeletionOps \intersect (AccountOps \union {"idle"}) = {}
      /\ DeletionOps \intersect (CampaignOps \union {"idle"}) = {}
  BY DEF DeletionOps, ConversationOps, LibraryOps, OnDocument, AccountOps, CampaignOps
<1>2. CASE ConversationAsked(q) \/ ConversationGoesOn(q)
  BY <1>1, <1>2, ConversationMoves, OthersMove
<1>3. CASE LibraryAsked(q) \/ LibraryGoesOn(q)
  BY <1>1, <1>3, LibraryMoves, OthersMove
<1>4. CASE AccountAsked(q) \/ AccountGoesOn(q)
  BY <1>1, <1>4, AccountMoves, OthersMove
<1>5. CASE CampaignAsked(q) \/ CampaignGoesOn(q)
  <2>1. CASE SaveImport(q)
    BY <2>1, ImportKeeps DEF DeletionOps
  <2>2. CASE ~SaveImport(q)
    BY <1>1, <1>5, <2>2, CampaignMoves, OthersMove
  <2> QED BY <2>1, <2>2
<1> QED BY <1>2, <1>3, <1>4, <1>5 DEF Ask, Serve

LEMMA OthersRequest ==
  ASSUME Typed, Elsewhere \/ Dies \/ UNCHANGED backOfficeVars \/ \E w \in Workers : Work(w)
  PROVE  /\ env' = env /\ company' = company
         /\ \A p \in Requests : req'[p].op # "idle" => req'[p] = req[p]
<1>1. CASE Elsewhere
  BY <1>1, ElsewhereStep
<1>2. CASE \E w \in Workers : Work(w)
  BY <1>2, WorkStep
<1>3. CASE UNCHANGED backOfficeVars
  BY <1>3 DEF backOfficeVars, taskVars
<1>4. CASE Dies
  <2>1. env' = env /\ company' = company
    BY <1>4, DiesStep
  <2>2. ASSUME NEW q \in Requests, RequestDies(q)
        PROVE  \A p \in Requests : req'[p].op # "idle" => req'[p] = req[p]
    <3>1. Idle.op = "idle"
      BY DEF Idle
    <3>2. req' = [req EXCEPT ![q] = Idle]
      BY <2>2 DEF RequestDies, Become
    <3> QED BY <3>1, <3>2 DEF Typed, TypedRequests
  <2> QED BY <1>4, <2>1, <2>2 DEF Dies
<1> QED BY <1>1, <1>2, <1>3, <1>4

LEMMA DeletionAskedNext == Typed /\ DeletionAsked /\ [Next]_backOfficeVars => DeletionAsked'
<1> SUFFICES ASSUME Typed, DeletionAsked, [Next]_backOfficeVars PROVE DeletionAsked'
  OBVIOUS
<1>1. ASSUME NEW q \in Requests, Ask(q) \/ Serve(q)
      PROVE  DeletionAsked'
  <2>1. env' = env
    BY <1>1, RequestMoves
  <2>2. CASE ShowCompany(q)
    <3>1. "delete_company" \in env.operations
      BY <2>2 DEF ShowCompany, Asked
    <3>2. env.company # None
      BY <3>1, BackOfficeAssumption DEF Typed, TypedState, TypedCompany
    <3> QED BY <2>1, <3>2 DEF DeletionAsked
  <2>3. CASE DeleteRows(q) \/ DeleteFiles(q)
    <3>1. req[q].op \in DeletionOps
      BY <2>3 DEF DeleteRows, DeleteFiles, At, DeletionOps
    <3> QED BY <2>1, <3>1 DEF DeletionAsked
  <2>4. CASE ~ShowCompany(q) /\ ~DeleteRows(q) /\ ~DeleteFiles(q)
    BY <1>1, <2>1, <2>4, OnlyDeletion DEF DeletionAsked
  <2> QED BY <2>2, <2>3, <2>4
<1>2. CASE Elsewhere \/ Dies \/ UNCHANGED backOfficeVars \/ \E w \in Workers : Work(w)
  BY <1>2, OthersRequest DEF DeletionAsked, DeletionOps
<1> QED BY <1>1, <1>2 DEF Next

LEMMA DeletedStays == Sound /\ [Next]_backOfficeVars /\ Deleted => Deleted'
<1> SUFFICES ASSUME Sound, [Next]_backOfficeVars, Deleted PROVE Deleted'
  OBVIOUS
<1> USE DEF Sound, Deleted, Typed
<1>1. ASSUME NEW q \in Requests, Ask(q) \/ Serve(q)
      PROVE  Deleted'
  <2>1. env' = env
    BY <1>1, RequestMoves
  <2>2. CASE ConversationAsked(q) \/ ConversationGoesOn(q)
    BY <2>1, <2>2, ConversationFrame
  <2>3. CASE LibraryAsked(q) \/ LibraryGoesOn(q)
    BY <2>1, <2>3, ItemTypes, DocumentTypes DEF LibraryAsked, LibraryGoesOn
  <2>4. CASE AccountAsked(q) \/ AccountGoesOn(q)
    <3>1. CASE VerifyEmail(q)
      <4>1. req[q].token \in Tokens
        BY <3>1 DEF VerifyEmail, At, TokensHeld, Holding
      <4> QED BY <2>1, <3>1, <4>1 DEF VerifyEmail, Cleared
    <3>2. CASE ~VerifyEmail(q)
      <4>1. ~Signup(q) /\ ~SetCompanyStatus(q)
        BY DEF Signup, SetCompanyStatus
      <4> QED BY <2>1, <2>4, <3>2, <4>1 DEF AccountAsked, AccountGoesOn, Login, ReadRefresh,
              ReadVerification, ReadResend, ReadForgot, ReadReset, CreateUser, UpdateUser,
              DeleteUser, Mail, FailLogin, LogIn, Refresh, ResendVerification, ForgotPassword,
              NewLink, ResetPassword
    <3> QED BY <3>1, <3>2
  <2>5. CASE CampaignAsked(q) \/ CampaignGoesOn(q)
    BY <2>1, <2>5, LoadTypes, AudioTypes, SaveTypes, ImportTypes, CreateTypes, SingleTypes,
       AddContactTypes DEF CampaignAsked, CampaignGoesOn
  <2>6. CASE ShowCompany(q) \/ DeleteRows(q) \/ DeleteFiles(q)
    BY <2>1, <2>6 DEF ShowCompany, DeleteRows, DeleteFiles
  <2> QED BY <1>1, <2>2, <2>3, <2>4, <2>5, <2>6 DEF Ask, Serve
<1>2. CASE Elsewhere \/ Dies \/ UNCHANGED backOfficeVars \/ \E w \in Workers : Work(w)
  BY <1>2, OthersRequest
<1> QED BY <1>1, <1>2 DEF Next

LEMMA SoundInit == Init => Sound
<1> SUFFICES ASSUME Init PROVE Sound
  OBVIOUS
<1>1. Typed
  BY TypedInit
<1>2. Alone
  BY DEF Init, TasksInit, Alone
<1>3. Cleared
  BY DEF Init, ConversationsInit, LibraryInit, AccountsInit, CampaignsInit, Cleared
<1>4. DeletionAsked
  BY DEF Init, TasksInit, DeletionAsked, DeletionOps
<1> QED BY <1>1, <1>2, <1>3, <1>4 DEF Sound

LEMMA SoundNext == Sound /\ [Next]_backOfficeVars => Sound'
  BY TypedNext, AloneNext, ClearedNext, DeletionAskedNext DEF Sound

LEMMA SoundAlways == Spec => []Sound
  BY SoundInit, SoundNext, PTL DEF Spec

(* Without overlap the others are idle before and after a step.            *)
LEMMA OthersIdle ==
  ASSUME Sound, Serial, NEW q \in Requests, Ask(q) \/ Serve(q)
  PROVE  /\ env' = env /\ Serial'
         /\ \A p \in Requests \ {q} : req[p].op = "idle" /\ req'[p].op = "idle"
<1> USE DEF Sound
<1>1. /\ \A p \in Requests \ {q} : req'[p].op # "idle" => req[p].op # "idle"
      /\ env' = env
  BY RequestMoves
<1>2. q = One(Requests)
  BY AskedFree, ServedBusy DEF Free, Alone, Serial
<1>3. \A p \in Requests \ {q} : req[p].op = "idle"
  BY <1>2 DEF Alone
<1> QED BY <1>1, <1>3 DEF Serial, Fault

-----------------------------------------------------------------------------
(* Requests that a step of another part leaves alone: they are what they   *)
(* were, and unless requests die they are still there.                     *)
Keeps(ops) ==
  /\ \A q \in Requests : req'[q].op \in ops => req'[q] = req[q]
  /\ ~Fault("crash") => \A q \in Requests : req[q].op \in ops => req'[q] = req[q]

LEMMA MovesKeep ==
  ASSUME TypedRequests, NEW q \in Requests, NEW own, Moves(q, own),
         NEW ops, ops \intersect (own \union {"idle"}) = {}
  PROVE  Keeps(ops)
  BY Moved DEF Keeps

LEMMA ConversationKeeps ==
  ASSUME Typed, NEW q \in Requests, ConversationAsked(q) \/ ConversationGoesOn(q),
         NEW ops, ops \intersect (ConversationOps \union {"idle"}) = {}
  PROVE  Keeps(ops) /\ UNCHANGED <<env, company>> /\ (job' = job \/ Unlink(q))
<1> USE DEF Typed
<1> QED BY ConversationFrame, ConversationMoves, MovesKeep

LEMMA LibraryKeeps ==
  ASSUME Typed, NEW q \in Requests, LibraryAsked(q) \/ LibraryGoesOn(q),
         NEW ops, ops \intersect (LibraryOps \union {"idle"}) = {}
  PROVE  Keeps(ops) /\ UNCHANGED <<env, company, job>>
<1> USE DEF Typed
<1>1. UNCHANGED <<env, company, job>>
  BY ItemTypes, DocumentTypes DEF LibraryAsked, LibraryGoesOn
<1> QED BY <1>1, LibraryMoves, MovesKeep

LEMMA AccountKeeps ==
  ASSUME Typed, NEW q \in Requests, AccountAsked(q) \/ AccountGoesOn(q),
         UNCHANGED <<conversationVars, libraryVars, campaignVars>>,
         NEW ops, ops \intersect (AccountOps \union {"idle"}) = {}
  PROVE  Keeps(ops) /\ UNCHANGED <<env, job>> /\ (company # None => company' # None)
<1> USE DEF Typed
<1>1. Moves(q, AccountOps)
  BY AccountMoves
<1>2. ~DeleteRows(q)
  BY <1>1 DEF Moves, AccountOps, DeleteRows, At
<1>3. Ask(q) \/ Serve(q)
  BY DEF Ask, Serve
<1>4. UNCHANGED <<env, job>> /\ (company # None => company' # None)
  BY <1>2, <1>3, AccountFrame, CompanyKept
<1> QED BY <1>1, <1>4, MovesKeep

LEMMA CampaignKeeps ==
  ASSUME Typed, NEW q \in Requests, CampaignAsked(q) \/ CampaignGoesOn(q),
         NEW ops, ops \intersect (CampaignOps \union {"idle"}) = {}
  PROVE  Keeps(ops) /\ UNCHANGED <<env, company, job>>
<1> USE DEF Typed
<1>1. UNCHANGED <<env, company, job>>
  BY LoadTypes, AudioTypes, SaveTypes, ImportTypes, CreateTypes, SingleTypes, AddContactTypes
  DEF CampaignAsked, CampaignGoesOn
<1>2. CASE SaveImport(q)
  <2>1. ops \intersect {"idle", "import", "save_import"} = {}
    BY DEF CampaignOps
  <2> QED BY <1>1, <1>2, <2>1, ImportKeeps DEF Keeps
<1>3. CASE ~SaveImport(q)
  BY <1>1, <1>3, CampaignMoves, MovesKeep
<1> QED BY <1>2, <1>3

LEMMA DeletionKeeps ==
  ASSUME Typed, NEW q \in Requests, ShowCompany(q) \/ DeleteRows(q) \/ DeleteFiles(q),
         NEW ops, ops \intersect (DeletionOps \union {"idle"}) = {}
  PROVE  Keeps(ops) /\ UNCHANGED <<env, job>>
<1> USE DEF Typed
<1>1. UNCHANGED <<env, job>>
  BY DEF ShowCompany, DeleteRows, DeleteFiles
<1> QED BY <1>1, DeletionMoves, MovesKeep

LEMMA OthersKeep ==
  ASSUME Typed, Elsewhere \/ Dies \/ UNCHANGED backOfficeVars \/ \E w \in Workers : Work(w),
         NEW ops, "idle" \notin ops
  PROVE  Keeps(ops) /\ UNCHANGED <<env, company>>
<1>1. UNCHANGED <<env, company>> /\ \A q \in Requests : req'[q].op \in ops => req'[q] = req[q]
  BY OthersRequest
<1>2. ~Fault("crash") => UNCHANGED req
  <2>1. CASE Elsewhere
    BY <2>1, ElsewhereStep
  <2>2. CASE Dies
    BY <2>2 DEF Dies, RequestDies
  <2>3. CASE UNCHANGED backOfficeVars
    BY <2>3 DEF backOfficeVars, taskVars
  <2>4. CASE \E w \in Workers : Work(w)
    BY <2>4, WorkStep
  <2> QED BY <2>1, <2>2, <2>3, <2>4
<1> QED BY <1>1, <1>2 DEF Keeps

(* scripts/delete_company: a company that is not there has no row of any   *)
(* kind, and one that was deleted never comes back, whatever was at work   *)
(* when it went: no request or worker inserts for a company it had seen.   *)
THEOREM DeletedIsGone == Spec => []Cleared /\ [][Deleted => Deleted']_backOfficeVars
<1>1. Sound => Cleared
  BY DEF Sound
<1>2. Sound /\ [Next]_backOfficeVars => [Deleted => Deleted']_backOfficeVars
  BY DeletedStays
<1> QED BY <1>1, <1>2, SoundAlways, PTL DEF Spec
=============================================================================
