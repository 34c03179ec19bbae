------------------------------- MODULE Library -------------------------------
(***************************************************************************)
(* What the voice agent knows: questions and answers, and documents that   *)
(* are uploaded, queued, and cut into chunks by a worker.  The version of  *)
(* the company's knowledge is raised in the same transaction as a change   *)
(* or in the next one.  A voice process keeps the snapshot it downloaded   *)
(* under the version the snapshot carries, and looks it up by the version  *)
(* it is told of, so only the snapshot of the current version matters.     *)
(*                                                                         *)
(* Versions are not numbers here: raising one makes kept None, for the     *)
(* atomic increment never returns to an earlier version.                   *)
(***************************************************************************)
EXTENDS Tasks

CONSTANTS
  Questions, Answers,  \* what items ask and say; a template has all questions
  Documents,           \* identities of documents
  External,            \* documents registered by an address, not uploaded
  Backlog              \* users retry documents while fewer messages wait

DocumentStatus == {"pending", "processing", "completed", "failed"}

ASSUME LibraryAssumption ==
  External \subseteq Documents /\ Backlog \in Nat /\ None \notin DocumentStatus

LibraryRequest ==
  [op : {"bump"}]
  \union [op : {"template"}, found : SUBSET Questions]
  \union [op : {"store_document", "undo_upload", "queue_document", "queue_again",
                "bump_removed", "remove_object"}, document : Documents]

(* storage: deleting an object fails.                                      *)
LibraryFaults == {"storage"}
LibraryOperations ==
  {"create_item", "update_item", "delete_item", "apply_template",
   "upload", "register", "retry", "delete_document", "snapshot"}

VARIABLES
  items,      \* rows of items, by what they ask and say
  documents,  \* status of the rows of documents, None where there is none
  objects,    \* documents whose file is in the object storage
  reading,    \* a snapshot being put together, or None
  kept        \* the snapshot kept for the current version, or None

libraryVars == <<items, documents, objects, reading, kept>>

Item == Questions \X Answers
Contents == [items : SUBSET Item, documents : SUBSET Documents]

LibraryTypeOK ==
  /\ items \subseteq Item
  /\ documents \in [Documents -> DocumentStatus \union {None}]
  /\ objects \subseteq Documents
  /\ reading \in [items : (SUBSET Item) \union {None}, current : BOOLEAN] \union {None}
  /\ kept \in Contents \union {None}

LibraryInit ==
  /\ items = {}
  /\ documents = [d \in Documents |-> None]
  /\ objects = {}
  /\ reading = None
  /\ kept = None

-----------------------------------------------------------------------------
(* bump_knowledge_version: an atomic UPDATE, which raises without company. *)
Bump ==
  /\ kept' = None
  /\ reading' = IF reading = None THEN None ELSE [reading EXCEPT !.current = FALSE]
NoBump == UNCHANGED <<kept, reading>>

OnlyItems == UNCHANGED <<env, company, queue, job, documents, objects>>

(* A change to an item is committed, and the new version after it, unless  *)
(* the row of the item cannot be read again in between.                    *)
NewVersion(q) ==
  \/ Become(q, [op |-> "bump"])
  \/ Fault("reread") /\ UNCHANGED req

CreateItem(q) ==
  /\ Free(q) /\ Asked("create_item") /\ company # None
  /\ \E i \in Item \ items : items' = items \union {i}
  /\ NewVersion(q)
  /\ NoBump /\ OnlyItems

UpdateItem(q) ==
  /\ Free(q) /\ Asked("update_item")
  /\ \E i \in items, j \in Item : items' = (items \ {i}) \union {j}
  /\ NewVersion(q)
  /\ NoBump /\ OnlyItems

DeleteItem(q) ==
  /\ Free(q) /\ Asked("delete_item")
  /\ \E i \in items : items' = items \ {i}
  /\ Become(q, [op |-> "bump"])
  /\ NoBump /\ OnlyItems

BumpVersion(q) ==
  /\ At(q, "bump")
  /\ \/ company # None /\ Bump
     \/ (company = None \/ Fault("database")) /\ NoBump
  /\ Become(q, Idle)
  /\ UNCHANGED items /\ OnlyItems

(* A template skips the questions it has found; what it adds and the new   *)
(* version are one transaction.                                            *)
ReadTemplate(q) ==
  /\ Free(q) /\ Asked("apply_template") /\ company # None
  /\ Become(q, [op |-> "template", found |-> {i[1] : i \in items}])
  /\ UNCHANGED items /\ NoBump /\ OnlyItems

ApplyTemplate(q) ==
  /\ At(q, "template")
  /\ LET missing == Questions \ req[q].found IN
       \/ /\ company # None /\ missing # {} /\ Bump
          /\ \E a \in Answers : items' = items \union (missing \X {a})
       \/ /\ company = None \/ missing = {} \/ Fault("database")
          /\ UNCHANGED items /\ NoBump
  /\ Become(q, Idle)
  /\ OnlyItems

-----------------------------------------------------------------------------
(* Documents.  A new identity is new everywhere.                           *)
OnDocument == {"store_document", "undo_upload", "queue_document", "queue_again",
               "bump_removed", "remove_object"}
Unknown(d) ==
  /\ documents[d] = None /\ d \notin objects /\ ~Pending("process", d)
  /\ \A q \in Working(OnDocument) : req[q].document # d
  /\ \A w \in Jobs("process") : Of(w) # d

OnlyDocuments == NoBump /\ UNCHANGED <<env, company, items>>
Next_(q, op) == Become(q, [req[q] EXCEPT !.op = op])

(* A file is stored before its row.                                        *)
Upload(q) ==
  /\ Free(q) /\ Asked("upload") /\ company # None
  /\ \E d \in Documents \ External :
       /\ Unknown(d)
       /\ \/ objects' = objects \union {d} /\ Become(q, [op |-> "store_document", document |-> d])
          \/ Fault("lost") /\ objects' = objects \union {d} /\ UNCHANGED req
          \/ Fault("refuse") /\ UNCHANGED <<objects, req>>
  /\ UNCHANGED <<queue, job, documents>> /\ OnlyDocuments

(* An exception removes the file again: also when the row is there by then *)
(* and only could not be read again.                                       *)
StoreDocument(q) ==
  /\ At(q, "store_document")
  /\ LET d == req[q].document IN
       \/ /\ company # None
          /\ documents' = [documents EXCEPT ![d] = "pending"]
          /\ \/ Next_(q, "queue_document")
             \/ Fault("reread") /\ Next_(q, "undo_upload")
       \/ /\ Fault("database") \/ company = None
          /\ UNCHANGED documents
          /\ Next_(q, "undo_upload")
  /\ UNCHANGED <<queue, job, objects>> /\ OnlyDocuments

RemoveFile(d) ==
  \/ objects' = objects \ {d}
  \/ Fault("storage") /\ UNCHANGED objects

UndoUpload(q) ==
  /\ At(q, "undo_upload")
  /\ RemoveFile(req[q].document)
  /\ Become(q, Idle)
  /\ UNCHANGED <<queue, job, documents>> /\ OnlyDocuments

Register(q) ==
  /\ Free(q) /\ Asked("register") /\ company # None
  /\ \E d \in External :
       /\ Unknown(d)
       /\ documents' = [documents EXCEPT ![d] = "pending"]
       /\ \/ Become(q, [op |-> "queue_document", document |-> d])
          \/ Fault("reread") /\ UNCHANGED req
  /\ UNCHANGED <<queue, job, objects>> /\ OnlyDocuments

(* An UPDATE of a row deleted meanwhile raises and changes nothing.        *)
Set(d, status) ==
  documents' = IF documents[d] = None THEN documents ELSE [documents EXCEPT ![d] = status]

(* Without the broker the document is FAILED, for its user to retry; this  *)
(* is another commit, which may fail.  A row deleted before it was read    *)
(* again is one that could not be.                                         *)
QueueDocument(q) ==
  /\ At(q, "queue_document")
  /\ LET d == req[q].document IN
       \/ Queue(Message("process", d)) /\ Become(q, Idle) /\ UNCHANGED documents
       \/ /\ Fault("broker") /\ Become(q, Idle) /\ UNCHANGED queue
          /\ Set(d, "failed") \/ (Fault("database") /\ UNCHANGED documents)
       \/ /\ documents[d] = None /\ UNCHANGED <<documents, queue>>
          /\ IF d \in External THEN Become(q, Idle) ELSE Next_(q, "undo_upload")
  /\ UNCHANGED <<job, objects>> /\ OnlyDocuments

(* A retry, of a document in any status, is PENDING before it is queued,   *)
(* and stays so when it cannot be.                                         *)
Retry(q) ==
  /\ Free(q) /\ Asked("retry") /\ BagCardinality(queue) < Backlog
  /\ \E d \in Documents :
       /\ documents[d] # None
       /\ Set(d, "pending")
       /\ Become(q, [op |-> "queue_again", document |-> d])
  /\ UNCHANGED <<queue, job, objects>> /\ OnlyDocuments

QueueAgain(q) ==
  /\ At(q, "queue_again")
  /\ Publish("process", req[q].document)
  /\ Become(q, Idle)
  /\ UNCHANGED <<job, documents, objects>> /\ OnlyDocuments

(* The row goes, then the version is raised, then the file goes, unless    *)
(* the version could not be raised.                                        *)
DeleteDocument(q) ==
  /\ Free(q) /\ Asked("delete_document")
  /\ \E d \in Documents :
       /\ documents[d] # None
       /\ documents' = [documents EXCEPT ![d] = None]
       /\ Become(q, [op |-> "bump_removed", document |-> d])
  /\ UNCHANGED <<queue, job, objects>> /\ OnlyDocuments

BumpRemoved(q) ==
  /\ At(q, "bump_removed")
  /\ \/ /\ company # None /\ Bump
        /\ IF req[q].document \in External
             THEN Become(q, Idle) ELSE Next_(q, "remove_object")
     \/ /\ company = None \/ Fault("database")
        /\ NoBump /\ Become(q, Idle)
  /\ UNCHANGED <<env, company, queue, job, items, documents, objects>>

RemoveObject(q) ==
  /\ At(q, "remove_object")
  /\ RemoveFile(req[q].document)
  /\ Become(q, Idle)
  /\ UNCHANGED <<queue, job, documents>> /\ OnlyDocuments

-----------------------------------------------------------------------------
(* process_knowledge_document.                                             *)
OnlyWork == UNCHANGED <<env, company, req, items, objects>>

StartProcessing(w) ==
  /\ InJob(w, "process", "start")
  /\ IF documents[Of(w)] = None
       THEN Finish(w) /\ UNCHANGED documents
       ELSE /\ \/ Set(Of(w), "processing") /\ Proceed(w, "download")
               \/ Fault("database") /\ UNCHANGED documents /\ Proceed(w, "fail")
            /\ UNCHANGED queue
  /\ NoBump /\ OnlyWork

(* The file is fetched and its text extracted.                             *)
Download(w) ==
  /\ InJob(w, "process", "download")
  /\ \/ Of(w) \in objects \union External /\ Proceed(w, "clear")
     \/ /\ Fault("refuse") \/ Of(w) \notin objects \union External
        /\ Proceed(w, "fail")
  /\ UNCHANGED <<queue, documents>> /\ NoBump /\ OnlyWork

(* The old chunks are deleted as this statement sees them; the new ones    *)
(* are inserted at the commit, whose unique index does not admit them when *)
(* another worker has committed chunks of the document since.              *)
Clear(w) ==
  /\ InJob(w, "process", "clear")
  /\ Proceed(w, "publish")
  /\ UNCHANGED <<queue, documents>> /\ NoBump /\ OnlyWork

Clash == "clash"
Others(w) ==
  {v \in Jobs("process") \ {w} : Of(v) = Of(w) /\ job[v].at = "publish"}

PublishChunks(w) ==
  /\ InJob(w, "process", "publish")
  /\ \/ /\ documents[Of(w)] # None /\ job[w].saw # Clash
        /\ Set(Of(w), "completed") /\ Bump
        /\ job' = [v \in Workers |-> IF v = w THEN None
                                     ELSE IF v \in Others(w)
                                       THEN [job[v] EXCEPT !.saw = Clash] ELSE job[v]]
     \/ /\ documents[Of(w)] = None \/ job[w].saw = Clash \/ Fault("database")
        /\ Proceed(w, "fail") /\ UNCHANGED documents /\ NoBump
  /\ UNCHANGED queue /\ OnlyWork

MutantMarkFailed(w) ==
  /\ InJob(w, "process", "fail")
  /\ Proceed(w, "again")
  /\ UNCHANGED <<queue, documents>> /\ NoBump /\ OnlyWork

(* Any exception marks the document FAILED, then the task is retried; when *)
(* that cannot be committed there is no retry either.                      *)
MarkFailed(w) ==
  /\ InJob(w, "process", "fail")
  /\ \/ Set(Of(w), "failed") /\ Proceed(w, "again") /\ UNCHANGED queue
     \/ /\ Fault("database") /\ documents[Of(w)] # None
        /\ Finish(w) /\ UNCHANGED documents
  /\ NoBump /\ OnlyWork

RetryProcessing(w) ==
  /\ InJob(w, "process", "again")
  /\ TryAgain(w)
  /\ UNCHANGED documents /\ NoBump /\ OnlyWork

-----------------------------------------------------------------------------
(* The snapshot: the version is read first, then the items, and then the   *)
(* chunks of documents that are COMPLETED.  It is kept under the version   *)
(* it carries; under an older one nobody will look it up.                  *)
OnlyReading == UNCHANGED <<taskVars, items, documents, objects>>
Visible == {d \in Documents : documents[d] = "completed"}

ReadVersion ==
  /\ Asked("snapshot") /\ kept = None /\ reading = None /\ company # None
  /\ reading' = [items |-> None, current |-> TRUE]
  /\ UNCHANGED kept /\ OnlyReading

ReadItems ==
  /\ reading # None /\ reading.items = None
  /\ reading' = [reading EXCEPT !.items = items]
  /\ UNCHANGED kept /\ OnlyReading

MutantReadChunks ==
  /\ reading # None /\ reading.items # None
  /\ kept' = [items |-> reading.items, documents |-> Visible]
  /\ reading' = None
  /\ OnlyReading

ReadChunks ==
  /\ reading # None /\ reading.items # None
  /\ kept' = IF reading.current THEN [items |-> reading.items, documents |-> Visible] ELSE kept
  /\ reading' = None
  /\ OnlyReading

LibraryAsked(q) ==
  \/ CreateItem(q) \/ UpdateItem(q) \/ DeleteItem(q) \/ ReadTemplate(q)
  \/ Upload(q) \/ Register(q) \/ Retry(q) \/ DeleteDocument(q)

LibraryGoesOn(q) ==
  \/ BumpVersion(q) \/ ApplyTemplate(q) \/ StoreDocument(q) \/ UndoUpload(q)
  \/ QueueDocument(q) \/ QueueAgain(q) \/ BumpRemoved(q) \/ RemoveObject(q)

LibraryTask(w) ==
  \/ StartProcessing(w) \/ Download(w) \/ Clear(w) \/ PublishChunks(w)
  \/ MarkFailed(w) \/ RetryProcessing(w)

LibrarySnapshot == ReadVersion \/ ReadItems \/ ReadChunks

-----------------------------------------------------------------------------
(* When nobody is between a change and its new version, the snapshot kept  *)
(* for the current version has exactly the items there are, has every      *)
(* document that is ready, and none that was deleted: however reading and  *)
(* changing overlap.  A request that dies or fails between its two commits *)
(* leaves a stale snapshot, and so does a deleted company: both are        *)
(* excepted.                                                               *)
Quiet == Working({"bump", "bump_removed"}) = {}
SnapshotFresh ==
  ~Suffers({"crash", "database", "reread"}) /\ Quiet /\ kept # None /\ company # None =>
    /\ kept.items = items
    /\ Visible \subseteq kept.documents
    /\ kept.documents \subseteq {d \in Documents : documents[d] # None}

(* A document is not PENDING or PROCESSING for ever, whatever is refused   *)
(* outside and however its tasks clash, when its queue is served, nothing  *)
(* dies, and no retry by a user meets a broker that is away.  The database *)
(* is excepted: what says FAILED is a commit too, and nothing follows one  *)
(* that fails; an upload that cannot read its row again is never queued.   *)
DocumentsSettle == \A d \in Documents :
  (/\ ~Suffers({"crash", "database", "reread"}) /\ ~(Fault("broker") /\ Asked("retry"))
   /\ documents[d] \in {"pending", "processing"})
    ~> documents[d] \notin {"pending", "processing"}
=============================================================================
