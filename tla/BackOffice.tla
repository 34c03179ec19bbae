------------------------------ MODULE BackOffice ------------------------------
(***************************************************************************)
(* The parts behind the API together: conversations, the knowledge base,   *)
(* accounts and the setup of campaigns, served by one pool of requests and *)
(* one pool of workers; and the script that deletes a company, whose rows  *)
(* all of them hold.                                                       *)
(***************************************************************************)
EXTENDS Conversations, Library, Accounts, Campaigns

(* The company of a behaviour is one company: it may be deleted where it   *)
(* is there from the start, or sign up where it is not.                    *)
ASSUME BackOfficeAssumption ==
  \A e \in Environments :
    /\ e.company \in CompanyStatus \union {None}
    /\ e.company = None => "delete_company" \notin e.operations

backOfficeVars == <<taskVars, conversationVars, libraryVars, accountVars, campaignVars>>

(* The script keeps the keys it has shown before it asked for confirmation.*)
DeletionRequest ==
  [op : {"delete_rows", "delete_files"}, documents : SUBSET Documents, calls : SUBSET Calls,
   audios : SUBSET Texts]

Tries == 0..Retries
Task ==
  [task : {"sync", "confirm"}, of : Rows, tries : Tries]
  \union [task : {"process"}, of : Documents, tries : Tries]
  \union [task : {"email"}, of : Tokens, tries : Tries]

TaskStep == {"start", "find", "customer", "create", "log", "reference", "send",
             "download", "clear", "publish", "fail", "again"}

BackOfficeTypeOK ==
  /\ ConversationsTypeOK /\ LibraryTypeOK /\ AccountsTypeOK /\ CampaignsTypeOK
  /\ env \in Environments
  /\ company \in CompanyStatus \union {None}
  /\ req \in [Requests -> {Idle} \union ConversationRequest \union LibraryRequest
                           \union AccountRequest \union CampaignRequest \union DeletionRequest]
  /\ IsABag(queue) /\ BagToSet(queue) \subseteq Task
  /\ \A w \in Workers : job[w] # None =>
       /\ [task |-> job[w].task, of |-> Of(w), tries |-> job[w].tries] \in Task
       /\ job[w].at \in TaskStep /\ job[w].saw \in Docs \union {Clash, Unlinked, None}

Init == TasksInit /\ ConversationsInit /\ LibraryInit /\ AccountsInit /\ CampaignsInit

-----------------------------------------------------------------------------
(* scripts/delete_company: keys are listed for the operator to confirm.    *)
RecordingsOf(call) == {call.url, call.key} \ {None}
RecordingsNamed == UNION {RecordingsOf(calls[c]) : c \in {d \in Calls : calls[d] # None}}
KeysOf == {campaigns[k].key : k \in {j \in Campaigns : campaigns[j] # None}} \ {None}
ShowCompany(q) ==
  /\ Free(q) /\ Asked("delete_company") /\ company # None
  /\ Become(q, [op |-> "delete_rows",
                documents |-> {d \in Documents \ External : documents[d] # None},
                calls |-> RecordingsNamed,
                audios |-> KeysOf])
  /\ UNCHANGED <<env, company, queue, job, conversationVars, libraryVars, accountVars,
                 campaignVars>>

(* One transaction, through the cascades of the schema; or the operator    *)
(* does not confirm.                                                       *)
DeleteRows(q) ==
  /\ At(q, "delete_rows")
  /\ \/ /\ Become(q, Idle)
        /\ UNCHANGED <<company, calls, rows, items, documents, users, tokens,
                       campaigns, contacts, listed>>
     \/ /\ company # None
        /\ Become(q, [req[q] EXCEPT !.op = "delete_files"])
        /\ company' = None
        /\ calls' = [c \in Calls |-> None] /\ rows' = [r \in Rows |-> None]
        /\ items' = {} /\ documents' = [d \in Documents |-> None]
        /\ users' = [u \in Users |-> None] /\ tokens' = [t \in Tokens |-> None]
        /\ campaigns' = [k \in Campaigns |-> None] /\ contacts' = NoContacts /\ listed' = {}
  /\ UNCHANGED <<env, queue, job, docs, customers, sent, recordings, links,
                 objects, reading, kept, inbox, audios, atAsterisk>>

MutantDeleteFiles(q) ==
  /\ At(q, "delete_files")
  /\ objects' = objects \ req[q].documents /\ audios' = audios \ req[q].audios
  /\ UNCHANGED recordings
  /\ Become(q, Idle)
  /\ UNCHANGED <<env, company, queue, job, calls, rows, docs, customers, sent, links,
                 items, documents, reading, kept, accountVars,
                 campaigns, contacts, listed, atAsterisk>>

(* Then its files, each of which may fail and is then reported; all stay   *)
(* with --skip-storage.                                                    *)
DeleteFiles(q) ==
  /\ At(q, "delete_files")
  /\ \E kept_files \in SUBSET (IF Fault("storage") THEN req[q].documents ELSE {}),
        kept_calls \in SUBSET (IF Fault("storage") THEN req[q].calls ELSE {}),
        kept_audios \in SUBSET (IF Fault("storage") THEN req[q].audios ELSE {}) :
       /\ objects' = objects \ (req[q].documents \ kept_files)
       /\ recordings' = recordings \ (req[q].calls \ kept_calls)
       /\ audios' = audios \ (req[q].audios \ kept_audios)
  /\ Become(q, Idle)
  /\ UNCHANGED <<env, company, queue, job, calls, rows, docs, customers, sent, links,
                 items, documents, reading, kept, accountVars,
                 campaigns, contacts, listed, atAsterisk>>

-----------------------------------------------------------------------------
Serve(q) ==
  \/ ConversationGoesOn(q) /\ UNCHANGED <<libraryVars, accountVars, campaignVars>>
  \/ LibraryGoesOn(q) /\ UNCHANGED <<conversationVars, accountVars, campaignVars>>
  \/ AccountGoesOn(q) /\ UNCHANGED <<conversationVars, libraryVars, campaignVars>>
  \/ CampaignGoesOn(q) /\ UNCHANGED <<conversationVars, libraryVars, accountVars>>
  \/ DeleteRows(q) \/ DeleteFiles(q)

Ask(q) ==
  \/ ConversationAsked(q) /\ UNCHANGED <<libraryVars, accountVars, campaignVars>>
  \/ LibraryAsked(q) /\ UNCHANGED <<conversationVars, accountVars, campaignVars>>
  \/ AccountAsked(q) /\ UNCHANGED <<conversationVars, libraryVars, campaignVars>>
  \/ CampaignAsked(q) /\ UNCHANGED <<conversationVars, libraryVars, accountVars>>
  \/ ShowCompany(q)

Work(w) ==
  \/ Take(w) /\ UNCHANGED <<env, company, req, conversationVars, libraryVars, accountVars,
                            campaignVars>>
  \/ ConversationTask(w) /\ UNCHANGED <<libraryVars, accountVars, campaignVars>>
  \/ LibraryTask(w) /\ UNCHANGED <<conversationVars, accountVars, campaignVars>>
  \/ AccountTask(w) /\ UNCHANGED <<conversationVars, libraryVars, campaignVars>>

Elsewhere ==
  \/ LibrarySnapshot /\ UNCHANGED <<conversationVars, accountVars, campaignVars>>
  \/ TimePasses /\ UNCHANGED <<conversationVars, libraryVars, campaignVars>>
  \/ Dial /\ UNCHANGED <<conversationVars, libraryVars, accountVars>>

Dies ==
  /\ \/ (\E q \in Requests : RequestDies(q)) /\ UNCHANGED <<queue, job>>
     \/ (\E w \in Workers : WorkerDies(w)) /\ UNCHANGED req
  /\ UNCHANGED <<env, company, conversationVars, libraryVars, accountVars, campaignVars>>

Next ==
  \/ \E q \in Requests : Ask(q) \/ Serve(q)
  \/ \E w \in Workers : Work(w)
  \/ Elsewhere \/ Dies

Spec == Init /\ [][Next]_backOfficeVars

(* A request that has begun goes on, and a worker works on what it finds   *)
(* in its queues: each of their steps changes where they are.  Nobody has  *)
(* to ask for anything.                                                    *)
FairSpec ==
  /\ Spec
  /\ \A q \in Requests : WF_(req[q])(Serve(q))
  /\ \A w \in Workers : WF_(job[w])(Work(w))

-----------------------------------------------------------------------------
(* A row never names a file that is not there, whatever dies, is lost or   *)
(* overlaps: files come first and go last.  The exceptions are an upload   *)
(* whose row is committed and cannot be read again, and recordings where   *)
(* users write into calls what they like.  And where nothing dies and no   *)
(* deletion of a file or answer is lost, a file that no row names belongs  *)
(* to a request still at work, also while the whole company is deleted;    *)
(* but a commit that fails may leave the file of a document being deleted, *)
(* or a recording.                                                         *)
FilesOf(q) == {req[q].document} \ External
StorageMatches ==
  /\ ~Fault("reread") => \A d \in Documents \ External : documents[d] # None => d \in objects
  /\ ~Asked("update_call") => RecordingsNamed \subseteq recordings
  /\ KeysOf \subseteq audios
  /\ ~Suffers({"parallel", "crash", "lost", "storage"}) =>
       /\ ~(Fault("database") /\ Asked("delete_document")) =>
            objects \subseteq {d \in Documents : documents[d] # None}
              \union (UNION {FilesOf(q) : q \in Working(OnDocument)})
              \union (UNION {req[q].documents : q \in Working({"delete_files"})})
       /\ ~Fault("database") /\ ~Asked("update_call") =>
            recordings \subseteq RecordingsNamed
              \union {req[q].call : q \in Working({"recorded"})}
              \union (UNION {req[q].calls : q \in Working({"delete_files"})})
=============================================================================
