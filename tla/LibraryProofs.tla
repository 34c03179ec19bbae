---------------------------- MODULE LibraryProofs ----------------------------
(***************************************************************************)
(* The snapshot that is kept for a voice process is the knowledge there    *)
(* is, and rows name files that are in the storage, for any number of      *)
(* items, documents, calls, campaigns, requests and workers, and whatever  *)
(* overlaps.                                                               *)
(***************************************************************************)
EXTENDS CampaignsProofs

(* The kept snapshot, and the one being put together for the version of    *)
(* the moment, have the items unless somebody is about to raise the        *)
(* version.  A kept one has every document that is ready, and none that    *)
(* was deleted unless somebody is about to raise the version for it.       *)
Survives == ~Suffers({"crash", "database", "reread"})
ItemsKept ==
  Survives /\ company # None /\ Working({"bump"}) = {} /\ kept # None => kept.items = items
ItemsRead ==
  Survives /\ company # None /\ Working({"bump"}) = {}
    /\ reading # None /\ reading.current /\ reading.items # None => reading.items = items
ReadyListed == kept # None => Visible \subseteq kept.documents
Existing == {d \in Documents : documents[d] # None}
NoneDeletedKept ==
  Survives /\ company # None /\ Working({"bump_removed"}) = {} /\ kept # None =>
    kept.documents \subseteq Existing

(* Nothing is read or kept before the company signs up.                    *)
NothingKept == company = None /\ env.company = None => kept = None /\ reading = None

FreshI == ItemsKept /\ ItemsRead /\ ReadyListed /\ NoneDeletedKept /\ NothingKept

(* Steps of the other parts, and the deletion of the company.              *)
Bumps == {"bump", "bump_removed"}
StillBumping ==
  Survives => \A q \in Requests : req[q].op \in Bumps => req'[q] = req[q]
Apart ==
  /\ UNCHANGED <<env, kept, reading>>
  /\ \/ UNCHANGED <<items, documents>> /\ (company # None => company' # None)
     \/ /\ company' = None /\ env.company # None
        /\ \A d \in Documents : documents'[d] = None
  /\ StillBumping

LEMMA BumpsWorking ==
  ASSUME StillBumping, Survives, NEW op \in Bumps, Working({op})' = {}
  PROVE  Working({op}) = {}
  BY DEF StillBumping, Working

LEMMA SurvivesMeans == Survives => \A f \in {"crash", "database", "reread"} : ~Fault(f)
  BY DEF Survives, Suffers, Fault

LEMMA VisibleExists == Visible \subseteq Existing
  BY LibraryAssumption DEF Visible, Existing, DocumentStatus

LEMMA FreshApart ==
  ASSUME Sound, FreshI, [Next]_backOfficeVars, Apart
  PROVE  FreshI'
<1>1. UNCHANGED <<env, kept, reading>>
  BY DEF Apart
<1>2. CASE company = None /\ company' # None
  <2>1. env.company = None
    BY <1>2, DeletedStays DEF Deleted
  <2>2. kept = None /\ reading = None
    BY <1>2, <2>1 DEF FreshI, NothingKept
  <2> QED BY <1>1, <1>2, <2>2 DEF FreshI, ItemsKept, ItemsRead, ReadyListed, NoneDeletedKept, NothingKept
<1>3. CASE company' = None
  <2>1. NothingKept'
    BY <1>1, <1>3 DEF Apart, FreshI, NothingKept
  <2>2. Visible' \subseteq Visible
    BY LibraryAssumption DEF Apart, Visible, DocumentStatus
  <2>3. ReadyListed'
    BY <1>1, <2>2 DEF FreshI, ReadyListed
  <2> QED BY <1>3, <2>1, <2>3 DEF FreshI, ItemsKept, ItemsRead, NoneDeletedKept
<1>4. CASE company # None /\ company' # None
  <2>1. UNCHANGED <<items, documents>>
    BY <1>4 DEF Apart
  <2>2. ASSUME Survives' PROVE Survives /\ \A op \in Bumps : Working({op})' = {} => Working({op}) = {}
    <3>1. Survives
      BY <1>1, <2>2 DEF Survives, Suffers
    <3> QED BY <3>1, BumpsWorking DEF Apart
  <2>3. ItemsKept' /\ ItemsRead'
    BY <1>1, <1>4, <2>1, <2>2 DEF FreshI, ItemsKept, ItemsRead, Bumps
  <2>4. ReadyListed' /\ NothingKept'
    BY <1>1, <1>4, <2>1 DEF FreshI, ReadyListed, NothingKept, Visible
  <2>5. NoneDeletedKept'
    BY <1>1, <1>4, <2>1, <2>2 DEF FreshI, NoneDeletedKept, Bumps, Existing
  <2> QED BY <2>3, <2>4, <2>5 DEF FreshI
<1> QED BY <1>2, <1>3, <1>4

-----------------------------------------------------------------------------
(* Every other part's step is apart.                                       *)
LEMMA RequestApart ==
  ASSUME Sound, NEW q \in Requests, Ask(q) \/ Serve(q), ~LibraryAsked(q), ~LibraryGoesOn(q)
  PROVE  Apart
<1> USE DEF Sound, Typed
<1>1. env' = env
  BY RequestMoves
<1>2. /\ Bumps \intersect (ConversationOps \union {"idle"}) = {}
      /\ Bumps \intersect (AccountOps \union {"idle"}) = {}
      /\ Bumps \intersect (CampaignOps \union {"idle"}) = {}
      /\ Bumps \intersect (DeletionOps \union {"idle"}) = {}
  BY DEF Bumps, ConversationOps, AccountOps, CampaignOps, DeletionOps
<1>3. ASSUME NEW ops, Moves(q, ops), Bumps \intersect (ops \union {"idle"}) = {}
      PROVE  StillBumping
  BY <1>3, Moved DEF StillBumping
<1>4. CASE /\ ConversationAsked(q) \/ ConversationGoesOn(q)
           /\ UNCHANGED <<libraryVars, accountVars, campaignVars>>
  <2>1. company' = company
    BY <1>4, ConversationFrame
  <2> QED BY <1>1, <1>2, <1>3, <1>4, <2>1, ConversationMoves DEF Apart, libraryVars
<1>5. CASE /\ AccountAsked(q) \/ AccountGoesOn(q)
           /\ UNCHANGED <<conversationVars, libraryVars, campaignVars>>
  <2>1. company # None => company' # None
    <3>1. ~DeleteRows(q)
      <4>1. Moves(q, AccountOps)
        BY <1>5, AccountMoves
      <4> QED BY <4>1 DEF Moves, AccountOps, DeleteRows, At
    <3> QED BY <3>1, CompanyKept
  <2> QED BY <1>1, <1>2, <1>3, <1>5, <2>1, AccountMoves DEF Apart, libraryVars
<1>6. CASE /\ CampaignAsked(q) \/ CampaignGoesOn(q)
           /\ UNCHANGED <<conversationVars, libraryVars, accountVars>>
  <2>1. company' = company
    BY <1>6, LoadTypes, AudioTypes, SaveTypes, ImportTypes, CreateTypes, SingleTypes,
       AddContactTypes DEF CampaignAsked, CampaignGoesOn
  <2>2. StillBumping
    <3>1. CASE SaveImport(q)
      BY <3>1, ImportKeeps DEF StillBumping, Bumps
    <3>2. CASE ~SaveImport(q)
      BY <1>2, <1>3, <1>6, <3>2, CampaignMoves
    <3> QED BY <3>1, <3>2
  <2> QED BY <1>1, <1>6, <2>1, <2>2 DEF Apart, libraryVars
<1>7. CASE ShowCompany(q) \/ DeleteRows(q) \/ DeleteFiles(q)
  <2>1. StillBumping
    BY <1>2, <1>3, <1>7, DeletionMoves
  <2>2. CASE ShowCompany(q)
    BY <1>1, <2>1, <2>2 DEF ShowCompany, Apart, libraryVars
  <2>3. CASE DeleteRows(q)
    <3>1. env.company # None
      BY <2>3 DEF DeleteRows, At, DeletionAsked, DeletionOps
    <3> QED BY <1>1, <2>1, <2>3, <3>1 DEF DeleteRows, Apart
  <2>4. CASE DeleteFiles(q)
    BY <1>1, <2>1, <2>4 DEF DeleteFiles, Apart
  <2> QED BY <1>7, <2>2, <2>3, <2>4
<1> QED BY <1>4, <1>5, <1>6, <1>7 DEF Ask, Serve

LEMMA OtherApart ==
  ASSUME Sound, Elsewhere \/ Dies \/ UNCHANGED backOfficeVars \/ \E w \in Workers : Work(w),
         ~LibrarySnapshot, \A w \in Workers : ~LibraryTask(w)
  PROVE  Apart
<1> USE DEF Sound, Typed
<1>1. env' = env /\ company' = company
  BY OthersRequest
<1>2. UNCHANGED libraryVars
  <2>1. CASE Elsewhere
    BY <2>1 DEF Elsewhere
  <2>2. CASE Dies
    BY <2>2 DEF Dies
  <2>3. CASE UNCHANGED backOfficeVars
    BY <2>3 DEF backOfficeVars
  <2>4. CASE \E w \in Workers : Work(w)
    BY <2>4 DEF Work
  <2> QED BY <2>1, <2>2, <2>3, <2>4
<1>3. StillBumping
  <2>1. CASE Elsewhere
    BY <2>1, ElsewhereStep DEF StillBumping
  <2>2. CASE Dies
    <3>1. ASSUME NEW q \in Requests, RequestDies(q)
          PROVE  StillBumping
      BY <3>1, SurvivesMeans DEF RequestDies, StillBumping
    <3> QED BY <2>2, <3>1 DEF Dies, StillBumping
  <2>3. CASE UNCHANGED backOfficeVars
    BY <2>3 DEF backOfficeVars, taskVars, StillBumping
  <2>4. CASE \E w \in Workers : Work(w)
    BY <2>4, WorkStep DEF StillBumping
  <2> QED BY <2>1, <2>2, <2>3, <2>4
<1> QED BY <1>1, <1>2, <1>3 DEF Apart, libraryVars

-----------------------------------------------------------------------------
(* The steps of the knowledge base.                                        *)
LEMMA FreshBump ==
  ASSUME Sound, FreshI, Bump, UNCHANGED <<env, company>>
  PROVE  FreshI'
<1>1. kept' = None
  BY DEF Bump
<1>2. reading # None => reading'.current = FALSE
  BY DEF Bump, Sound, Typed, TypedState, LibraryTypeOK
<1>3. reading = None => reading' = None
  BY DEF Bump
<1> QED BY <1>1, <1>2, <1>3
    DEF FreshI, ItemsKept, ItemsRead, ReadyListed, NoneDeletedKept, NothingKept

(* What a request that raises no version may do.                           *)
Prepares(q) ==
  /\ NoBump /\ UNCHANGED <<env, company>>
  /\ \/ UNCHANGED items /\ (company = None \/ req[q].op # "bump")
     \/ req'[q].op = "bump"
     \/ ~Survives
  /\ Visible' \subseteq Visible
  /\ \/ Existing \subseteq Existing' /\ (company = None \/ req[q].op # "bump_removed")
     \/ req'[q].op = "bump_removed"
     \/ ~Survives

LEMMA FreshPrepares ==
  ASSUME Sound, FreshI, NEW q \in Requests, Moves(q, LibraryOps), Prepares(q)
  PROVE  FreshI'
<1>1. UNCHANGED <<env, company, kept, reading>>
  BY DEF Prepares, NoBump
<1>2. \A p \in Requests \ {q} : req'[p] = req[p]
  BY Moved DEF Sound, Typed
<1>3. Survives' <=> Survives
  BY <1>1 DEF Survives, Suffers
<1>4. ASSUME NEW op, Working({op})' = {}
      PROVE  req'[q].op # op /\ (Working({op}) = {} \/ req[q].op = op)
  BY <1>2, <1>4 DEF Working
<1>5. ItemsKept' /\ ItemsRead'
  BY <1>1, <1>3, <1>4 DEF Prepares, FreshI, ItemsKept, ItemsRead
<1>6. ReadyListed' /\ NothingKept'
  BY <1>1 DEF Prepares, FreshI, ReadyListed, NothingKept
<1>7. NoneDeletedKept'
  BY <1>1, <1>3, <1>4 DEF Prepares, FreshI, NoneDeletedKept
<1> QED BY <1>5, <1>6, <1>7 DEF FreshI

LEMMA SetStatus_ ==
  ASSUME Sound, NEW d \in Documents, NEW s \in DocumentStatus, Set(d, s)
  PROVE  /\ Existing' = Existing
         /\ s # "completed" => Visible' \subseteq Visible
  BY LibraryAssumption
  DEF Sound, Typed, TypedState, LibraryTypeOK, Set, Existing, Visible

LEMMA LibraryRequestFresh ==
  ASSUME Sound, FreshI, NEW q \in Requests, LibraryAsked(q) \/ LibraryGoesOn(q)
  PROVE  FreshI'
<1> USE DEF Sound, Typed
<1>1. Moves(q, LibraryOps)
  BY LibraryMoves
<1>2. UNCHANGED <<env, company>>
  BY ItemTypes, DocumentTypes DEF LibraryAsked, LibraryGoesOn
<1>3. Idle.op = "idle"
  BY DEF Idle
<1>4. ASSUME NEW d, Become(q, d) PROVE req'[q] = d
  BY <1>4 DEF Become, TypedRequests
<1>5. ASSUME UNCHANGED documents PROVE Visible' = Visible /\ Existing' = Existing
  BY <1>5 DEF Visible, Existing
<1>6. CASE CreateItem(q) \/ UpdateItem(q) \/ DeleteItem(q)
  <2>1. (req'[q].op = "bump" \/ ~Survives) /\ NoBump /\ UNCHANGED documents
    BY <1>4, <1>6, SurvivesMeans DEF CreateItem, UpdateItem, DeleteItem, NewVersion, OnlyItems
  <2>2. req[q].op # "bump_removed"
    BY <1>6, FreeIsIdle DEF CreateItem, UpdateItem, DeleteItem
  <2>3. Prepares(q)
    BY <1>2, <1>5, <2>1, <2>2 DEF Prepares
  <2> QED BY <1>1, <2>3, FreshPrepares
<1>7. CASE BumpVersion(q)
  <2>1. CASE (company = None \/ ~Survives) /\ NoBump
    <3>1. Prepares(q)
      BY <1>2, <1>5, <1>7, <2>1 DEF BumpVersion, OnlyItems, Prepares, At
    <3> QED BY <1>1, <3>1, FreshPrepares
  <2>2. CASE Bump
    BY <1>2, <2>2, FreshBump
  <2> QED BY <1>7, <2>1, <2>2, SurvivesMeans DEF BumpVersion
<1>8. CASE ReadTemplate(q)
  <2>1. req[q].op = "idle"
    BY <1>8, FreeIsIdle DEF ReadTemplate
  <2>2. Prepares(q)
    BY <1>2, <1>5, <1>8, <2>1 DEF ReadTemplate, OnlyItems, Prepares
  <2> QED BY <1>1, <2>2, FreshPrepares
<1>9. CASE ApplyTemplate(q)
  <2>1. CASE Bump
    BY <1>2, <2>1, FreshBump
  <2>2. CASE ~Bump
    <3>1. Prepares(q)
      BY <1>2, <1>5, <1>9, <2>2 DEF ApplyTemplate, OnlyItems, Prepares, At
    <3> QED BY <1>1, <3>1, FreshPrepares
  <2> QED BY <2>1, <2>2
<1>10. ASSUME OnlyDocuments, Visible' \subseteq Visible,
              \/ Existing \subseteq Existing' /\ req[q].op # "bump_removed"
              \/ req'[q].op = "bump_removed",
              req[q].op # "bump"
       PROVE  FreshI'
  <2>1. Prepares(q)
    BY <1>2, <1>10 DEF OnlyDocuments, Prepares
  <2> QED BY <1>1, <2>1, FreshPrepares
<1>11. CASE \/ Upload(q) \/ UndoUpload(q) \/ QueueAgain(q) \/ RemoveObject(q)
  <2>1. UNCHANGED documents /\ OnlyDocuments /\ req[q].op \notin {"bump", "bump_removed"}
    BY <1>11, FreeIsIdle DEF Upload, UndoUpload, QueueAgain, RemoveObject, At
  <2> QED BY <1>5, <1>10, <2>1
<1>12. CASE StoreDocument(q) \/ Register(q)
  <2>1. OnlyDocuments /\ req[q].op \notin {"bump", "bump_removed"}
    BY <1>12, FreeIsIdle DEF StoreDocument, Register, At
  <2>2. UNCHANGED documents \/ \E d : documents' = [documents EXCEPT ![d] = "pending"]
    BY <1>12 DEF StoreDocument, Register
  <2>3. Visible' \subseteq Visible /\ Existing \subseteq Existing'
    BY <2>2, LibraryAssumption DEF Visible, Existing, TypedState, LibraryTypeOK, DocumentStatus
  <2> QED BY <1>10, <2>1, <2>3
<1>13. CASE QueueDocument(q)
  <2>1. OnlyDocuments /\ req[q].op \notin {"bump", "bump_removed"} /\ req[q].document \in Documents
    BY <1>13, LibraryParts DEF QueueDocument, At, TypedRequests, OnDocument
  <2>2. UNCHANGED documents \/ Set(req[q].document, "failed")
    BY <1>13 DEF QueueDocument
  <2>3. Visible' \subseteq Visible /\ Existing \subseteq Existing'
    BY <1>5, <2>1, <2>2, SetStatus_ DEF DocumentStatus
  <2> QED BY <1>10, <2>1, <2>3
<1>14. CASE Retry(q)
  <2>1. OnlyDocuments /\ req[q].op \notin {"bump", "bump_removed"}
    BY <1>14, FreeIsIdle DEF Retry
  <2>2. PICK d \in Documents : Set(d, "pending")
    BY <1>14 DEF Retry
  <2>3. Visible' \subseteq Visible /\ Existing \subseteq Existing'
    BY <2>2, SetStatus_ DEF DocumentStatus
  <2> QED BY <1>10, <2>1, <2>3
<1>15. CASE DeleteDocument(q)
  <2>1. OnlyDocuments /\ req[q].op # "bump"
    BY <1>15, FreeIsIdle DEF DeleteDocument
  <2>2. PICK d \in Documents :
          /\ documents' = [documents EXCEPT ![d] = None]
          /\ Become(q, [op |-> "bump_removed", document |-> d])
    BY <1>15 DEF DeleteDocument
  <2>3. req'[q].op = "bump_removed"
    BY <1>4, <2>2
  <2>4. Visible' \subseteq Visible
    BY <2>2, LibraryAssumption DEF Visible, TypedState, LibraryTypeOK, DocumentStatus
  <2> QED BY <1>10, <2>1, <2>3, <2>4
<1>16. CASE BumpRemoved(q)
  <2>1. CASE (company = None \/ ~Survives) /\ NoBump
    <3>1. Prepares(q)
      BY <1>2, <1>5, <1>16, <2>1 DEF BumpRemoved, Prepares, At
    <3> QED BY <1>1, <3>1, FreshPrepares
  <2>2. CASE Bump
    BY <1>2, <2>2, FreshBump
  <2> QED BY <1>16, <2>1, <2>2, SurvivesMeans DEF BumpRemoved
<1> QED
  BY <1>6, <1>7, <1>8, <1>9, <1>11, <1>12, <1>13, <1>14, <1>15, <1>16
  DEF LibraryAsked, LibraryGoesOn

LEMMA LibraryTaskFresh ==
  ASSUME Sound, FreshI, NEW w \in Workers, LibraryTask(w)
  PROVE  FreshI'
<1> USE DEF Sound, Typed
<1>1. UNCHANGED <<env, company, req, items>> /\ Of(w) \in Documents
  BY ProcessingTypes, JobParts
  DEF LibraryTask, StartProcessing, Download, Clear, PublishChunks, MarkFailed,
      RetryProcessing, InJob, TypedJobs, Of
<1>2. CASE Bump
  BY <1>1, <1>2, FreshBump
<1>3. CASE NoBump /\ \/ UNCHANGED documents
                     \/ \E s \in DocumentStatus \ {"completed"} : Set(Of(w), s)
  <2>1. UNCHANGED <<env, company, req, items, kept, reading>>
    BY <1>1, <1>3 DEF NoBump
  <2>2. CASE UNCHANGED documents
    BY <2>1, <2>2 DEF FreshI, ItemsKept, ItemsRead, ReadyListed, NoneDeletedKept, NothingKept,
       Survives, Suffers, Working, Existing, Visible
  <2>3. CASE \E s \in DocumentStatus \ {"completed"} : Set(Of(w), s)
    <3>1. Existing' = Existing /\ Visible' \subseteq Visible
      BY <1>1, <2>3, SetStatus_
    <3> QED BY <2>1, <3>1 DEF FreshI, ItemsKept, ItemsRead, ReadyListed, NoneDeletedKept,
            NothingKept, Survives, Suffers, Working
  <2> QED BY <1>3, <2>2, <2>3
<1>4. Bump \/ (NoBump /\ \/ UNCHANGED documents
                         \/ \E s \in DocumentStatus \ {"completed"} : Set(Of(w), s))
  BY DEF LibraryTask, StartProcessing, Download, Clear, PublishChunks, MarkFailed,
      RetryProcessing, DocumentStatus
<1> QED BY <1>2, <1>3, <1>4

LEMMA SnapshotStepFresh ==
  ASSUME Sound, FreshI, LibrarySnapshot
  PROVE  FreshI'
<1>1. UNCHANGED <<env, company, req, items, documents>>
  BY SnapshotTypes DEF Sound, Typed, taskVars
<1>2. /\ Survives' <=> Survives
      /\ Visible' = Visible /\ Existing' = Existing
      /\ \A op : Working({op})' = Working({op})
  BY <1>1 DEF Survives, Suffers, Visible, Existing, Working
<1>3. reading \in [items : (SUBSET Item) \union {None}, current : BOOLEAN] \union {None}
  BY DEF Sound, Typed, TypedState, LibraryTypeOK
<1>4. CASE ReadVersion
  BY <1>1, <1>2, <1>4
  DEF ReadVersion, FreshI, ItemsKept, ItemsRead, ReadyListed, NoneDeletedKept, NothingKept
<1>5. CASE ReadItems
  <2>1. reading'.items = items
    BY <1>3, <1>5 DEF ReadItems
  <2>2. UNCHANGED kept /\ reading # None
    BY <1>5 DEF ReadItems
  <2> QED BY <1>1, <1>2, <2>1, <2>2
      DEF FreshI, ItemsKept, ItemsRead, ReadyListed, NoneDeletedKept, NothingKept
<1>6. CASE ReadChunks /\ ~reading.current
  BY <1>1, <1>2, <1>6
  DEF ReadChunks, FreshI, ItemsKept, ItemsRead, ReadyListed, NoneDeletedKept, NothingKept
<1>7. CASE ReadChunks /\ reading.current
  <2>1. /\ kept' = [items |-> reading.items, documents |-> Visible] /\ reading' = None
        /\ reading # None /\ reading.items # None
    BY <1>7 DEF ReadChunks
  <2>2. kept'.items = reading.items /\ kept'.documents = Visible
    BY <2>1
  <2> QED BY <1>1, <1>2, <1>7, <2>1, <2>2, VisibleExists
      DEF FreshI, ItemsKept, ItemsRead, ReadyListed, NoneDeletedKept, NothingKept
<1> QED BY <1>4, <1>5, <1>6, <1>7 DEF LibrarySnapshot

LEMMA FreshInit == Init => FreshI
  BY DEF Init, LibraryInit, FreshI, ItemsKept, ItemsRead, ReadyListed, NoneDeletedKept, NothingKept

LEMMA FreshNext == Sound /\ FreshI /\ [Next]_backOfficeVars => FreshI'
<1> SUFFICES ASSUME Sound, FreshI, [Next]_backOfficeVars PROVE FreshI'
  OBVIOUS
<1>1. ASSUME NEW q \in Requests, Ask(q) \/ Serve(q)
      PROVE  FreshI'
  <2>1. CASE LibraryAsked(q) \/ LibraryGoesOn(q)
    BY <2>1, LibraryRequestFresh
  <2>2. CASE ~LibraryAsked(q) /\ ~LibraryGoesOn(q)
    BY <1>1, <2>2, RequestApart, FreshApart
  <2> QED BY <2>1, <2>2
<1>2. CASE Elsewhere \/ Dies \/ UNCHANGED backOfficeVars \/ \E w \in Workers : Work(w)
  <2>1. CASE LibrarySnapshot
    BY <2>1, SnapshotStepFresh
  <2>2. CASE \E w \in Workers : LibraryTask(w)
    BY <2>2, LibraryTaskFresh
  <2>3. CASE ~LibrarySnapshot /\ \A w \in Workers : ~LibraryTask(w)
    BY <1>2, <2>3, OtherApart, FreshApart
  <2> QED BY <2>1, <2>2, <2>3
<1> QED BY <1>1, <1>2 DEF Next

(* The snapshot of the current version: however items and documents change *)
(* while it is put together, and whoever else reads and writes meanwhile,  *)
(* it holds the items there are, every document that is ready and none     *)
(* that is gone, as soon as nobody is between a change and its version and *)
(* where no request dies or fails between the two.                         *)
THEOREM SnapshotIsFresh == Spec => []SnapshotFresh
<1>1. FreshI => SnapshotFresh
  <2> SUFFICES ASSUME FreshI, Survives, Quiet, kept # None, company # None
               PROVE  /\ kept.items = items
                      /\ Visible \subseteq kept.documents
                      /\ kept.documents \subseteq Existing
    BY DEF SnapshotFresh, Survives, Existing
  <2>1. Working({"bump"}) = {} /\ Working({"bump_removed"}) = {}
    BY DEF Quiet, Working
  <2> QED BY <2>1 DEF FreshI, ItemsKept, ReadyListed, NoneDeletedKept
<1> QED BY <1>1, FreshInit, FreshNext, SoundAlways, PTL DEF Spec

-----------------------------------------------------------------------------
(* Files.  What requests do about a document, told in the documents that   *)
(* have a row and the files there are.                                     *)
On(r, op, d) == r.op = op /\ r.document = d
Nobody(d) == \A p \in Requests : req[p].op \in OnDocument => req[p].document # d

Uploads(q, d) ==
  /\ req[q].op = "idle" /\ d \notin External \union Existing /\ Nobody(d)
  /\ Existing' = Existing /\ objects' = objects \union {d}
  /\ On(req'[q], "store_document", d) \/ (Fault("lost") /\ req'[q] = req[q])
Stores(q, d) ==
  /\ On(req[q], "store_document", d) /\ UNCHANGED objects
  /\ \/ /\ company # None /\ Existing' = Existing \union {d}
        /\ \/ On(req'[q], "queue_document", d)
           \/ Fault("reread") /\ On(req'[q], "undo_upload", d)
     \/ Existing' = Existing /\ On(req'[q], "undo_upload", d)
Removes(q, d) ==
  /\ On(req[q], "undo_upload", d) \/ On(req[q], "remove_object", d)
  /\ Existing' = Existing /\ req'[q] = Idle
  /\ objects' = objects \ {d} \/ (Fault("storage") /\ UNCHANGED objects)
Registers(q, d) ==
  /\ req[q].op = "idle" /\ d \in External /\ Nobody(d)
  /\ Existing' = Existing \union {d} /\ UNCHANGED objects
  /\ On(req'[q], "queue_document", d) \/ (Fault("reread") /\ req'[q] = req[q])
Queues(q, d) ==
  /\ On(req[q], "queue_document", d) \/ On(req[q], "queue_again", d)
  /\ Existing' = Existing /\ UNCHANGED objects
  /\ \/ req'[q] = Idle
     \/ d \notin Existing \union External /\ On(req'[q], "undo_upload", d)
Retries_(q, d) ==
  /\ req[q].op = "idle" /\ d \in Existing
  /\ Existing' = Existing /\ UNCHANGED objects /\ On(req'[q], "queue_again", d)
Drops(q, d) ==
  /\ req[q].op = "idle" /\ d \in Existing /\ Asked("delete_document")
  /\ Existing' = Existing \ {d} /\ UNCHANGED objects /\ On(req'[q], "bump_removed", d)
Bumped(q, d) ==
  /\ On(req[q], "bump_removed", d) /\ Existing' = Existing /\ UNCHANGED objects
  /\ \/ (company = None \/ d \in External \/ Fault("database")) /\ req'[q] = Idle
     \/ On(req'[q], "remove_object", d)

DocumentMove(q, d) ==
  \/ Uploads(q, d) \/ Stores(q, d) \/ Removes(q, d) \/ Registers(q, d)
  \/ Queues(q, d) \/ Retries_(q, d) \/ Drops(q, d) \/ Bumped(q, d)

DocumentRequest(q) ==
  \/ Upload(q) \/ StoreDocument(q) \/ UndoUpload(q) \/ Register(q) \/ QueueDocument(q)
  \/ Retry(q) \/ QueueAgain(q) \/ DeleteDocument(q) \/ BumpRemoved(q) \/ RemoveObject(q)

LEMMA DocumentMoved ==
  ASSUME Sound, NEW q \in Requests, DocumentRequest(q)
  PROVE  /\ UNCHANGED <<env, company>> /\ \A p \in Requests \ {q} : req'[p] = req[p]
         /\ \/ \E d \in Documents : DocumentMove(q, d)
            \/ UNCHANGED objects /\ Existing' = Existing /\ req'[q] = req[q]
<1> USE DEF Sound, Typed
<1>1. UNCHANGED <<env, company>>
  BY DocumentTypes DEF DocumentRequest
<1>2. \A p \in Requests \ {q} : req'[p] = req[p]
  <2>1. Moves(q, LibraryOps)
    BY LibraryMoves DEF DocumentRequest, LibraryAsked, LibraryGoesOn
  <2> QED BY <2>1, Moved
<1>3. ASSUME NEW d, Become(q, d) PROVE req'[q] = d
  BY <1>3 DEF Become, TypedRequests
<1>4. ASSUME UNCHANGED documents PROVE Existing' = Existing
  BY <1>4 DEF Existing
<1>5. ASSUME req[q].op \in OnDocument
      PROVE  /\ req[q].document \in Documents
             /\ \A op : Next_(q, op) => On(req'[q], op, req[q].document)
  <2>1. req[q].document \in Documents
    BY <1>5, LibraryParts DEF TypedRequests
  <2>2. ASSUME NEW op, Next_(q, op) PROVE On(req'[q], op, req[q].document)
    <3>1. [req[q] EXCEPT !.op = op] = [op |-> op, document |-> req[q].document]
      BY <1>5, LibraryParts DEF TypedRequests
    <3>2. req'[q] = [op |-> op, document |-> req[q].document]
      BY <1>3, <2>2, <3>1 DEF Next_
    <3> QED BY <3>2 DEF On
  <2> QED BY <2>1, <2>2
<1>6. ASSUME NEW op, NEW d, Become(q, [op |-> op, document |-> d]) PROVE On(req'[q], op, d)
  <2>1. req'[q] = [op |-> op, document |-> d]
    BY <1>3, <1>6
  <2> QED BY <2>1 DEF On
<1>7. ASSUME NEW d \in Documents, documents' = [documents EXCEPT ![d] = "pending"]
      PROVE  Existing' = Existing \union {d}
  <2>1. "pending" # None
    BY LibraryAssumption DEF DocumentStatus
  <2> QED BY <1>7, <2>1 DEF Existing, TypedState, LibraryTypeOK
<1>8. External \subseteq Documents
  BY LibraryAssumption
<1>9. ASSUME NEW d \in Documents, Unknown(d) PROVE d \notin Existing /\ Nobody(d)
  BY <1>9 DEF Unknown, Existing, Nobody, Working
<1> DEFINE Done == \/ \E d \in Documents : DocumentMove(q, d)
                   \/ UNCHANGED objects /\ Existing' = Existing /\ req'[q] = req[q]
<1>10. SUFFICES Done
  BY <1>1, <1>2
<1>11. CASE Upload(q)
  <2>1. PICK d \in Documents \ External :
          /\ Unknown(d)
          /\ \/ objects' = objects \union {d} /\ Become(q, [op |-> "store_document", document |-> d])
             \/ Fault("lost") /\ objects' = objects \union {d} /\ UNCHANGED req
             \/ UNCHANGED <<objects, req>>
    BY <1>11 DEF Upload
  <2>2. req[q].op = "idle" /\ UNCHANGED documents
    BY <1>11, FreeIsIdle DEF Upload
  <2> QED BY <1>4, <1>6, <1>9, <2>1, <2>2 DEF DocumentMove, Uploads
<1>12. CASE StoreDocument(q)
  <2>1. On(req[q], "store_document", req[q].document) /\ UNCHANGED objects
    BY <1>12 DEF StoreDocument, At, On
  <2>2. req[q].document \in Documents
    BY <1>5, <2>1 DEF On, OnDocument
  <2>3. CASE UNCHANGED documents /\ Next_(q, "undo_upload")
    BY <1>4, <1>5, <2>1, <2>2, <2>3 DEF DocumentMove, Stores, On, OnDocument
  <2>4. CASE /\ company # None /\ documents' = [documents EXCEPT ![req[q].document] = "pending"]
             /\ Next_(q, "queue_document") \/ (Fault("reread") /\ Next_(q, "undo_upload"))
    <3>1. Existing' = Existing \union {req[q].document}
      BY <1>7, <2>2, <2>4
    <3> QED BY <1>5, <2>1, <2>2, <2>4, <3>1 DEF DocumentMove, Stores, On, OnDocument
  <2> QED BY <1>12, <2>3, <2>4 DEF StoreDocument
<1>13. CASE UndoUpload(q) \/ RemoveObject(q)
  <2>1. /\ On(req[q], "undo_upload", req[q].document) \/ On(req[q], "remove_object", req[q].document)
        /\ UNCHANGED documents /\ req'[q] = Idle /\ RemoveFile(req[q].document)
    BY <1>3, <1>13 DEF UndoUpload, RemoveObject, At, On
  <2>2. req[q].document \in Documents
    BY <1>5, <2>1 DEF On, OnDocument
  <2> QED BY <1>4, <2>1, <2>2 DEF DocumentMove, Removes, RemoveFile
<1>14. CASE Register(q)
  <2>1. PICK d \in External :
          /\ Unknown(d) /\ documents' = [documents EXCEPT ![d] = "pending"]
          /\ \/ Become(q, [op |-> "queue_document", document |-> d])
             \/ Fault("reread") /\ UNCHANGED req
    BY <1>14 DEF Register
  <2>2. req[q].op = "idle" /\ UNCHANGED objects
    BY <1>14, FreeIsIdle DEF Register
  <2> QED BY <1>6, <1>7, <1>8, <1>9, <2>1, <2>2 DEF DocumentMove, Registers
<1>15. CASE QueueDocument(q) \/ QueueAgain(q)
  <2>1. /\ On(req[q], "queue_document", req[q].document) \/ On(req[q], "queue_again", req[q].document)
        /\ UNCHANGED objects
        /\ UNCHANGED documents \/ Set(req[q].document, "failed")
    BY <1>15 DEF QueueDocument, QueueAgain, At, On
  <2>2. req[q].document \in Documents
    BY <1>5, <2>1 DEF On, OnDocument
  <2>4. \/ req'[q] = Idle
        \/ req[q].document \notin Existing \union External
           /\ On(req'[q], "undo_upload", req[q].document)
    <3>1. \A op : Next_(q, op) => On(req'[q], op, req[q].document)
      BY <1>5, <2>1 DEF On, OnDocument
    <3> QED BY <1>3, <1>15, <3>1 DEF QueueDocument, QueueAgain, Existing
  <2>3. Existing' = Existing
    BY <1>4, <2>1, <2>2, SetStatus_ DEF DocumentStatus
  <2> QED BY <2>1, <2>2, <2>3, <2>4 DEF DocumentMove, Queues
<1>16. CASE Retry(q)
  <2>1. PICK d \in Documents :
          /\ documents[d] # None /\ Set(d, "pending")
          /\ Become(q, [op |-> "queue_again", document |-> d])
    BY <1>16 DEF Retry
  <2>2. req[q].op = "idle" /\ UNCHANGED objects
    BY <1>16, FreeIsIdle DEF Retry
  <2>3. Existing' = Existing /\ d \in Existing
    BY <2>1, SetStatus_ DEF DocumentStatus, Existing
  <2> QED BY <1>6, <2>1, <2>2, <2>3 DEF DocumentMove, Retries_
<1>17. CASE DeleteDocument(q)
  <2>1. PICK d \in Documents :
          /\ documents[d] # None /\ documents' = [documents EXCEPT ![d] = None]
          /\ Become(q, [op |-> "bump_removed", document |-> d])
    BY <1>17 DEF DeleteDocument
  <2>2. req[q].op = "idle" /\ UNCHANGED objects /\ Asked("delete_document")
    BY <1>17, FreeIsIdle DEF DeleteDocument
  <2>3. d \in Existing /\ Existing' = Existing \ {d}
    BY <2>1 DEF Existing, TypedState, LibraryTypeOK
  <2> QED BY <1>6, <2>1, <2>2, <2>3 DEF DocumentMove, Drops
<1>18. CASE BumpRemoved(q)
  <2>1. /\ On(req[q], "bump_removed", req[q].document) /\ UNCHANGED <<objects, documents>>
        /\ \/ /\ company = None \/ req[q].document \in External \/ Fault("database")
              /\ Become(q, Idle)
           \/ Next_(q, "remove_object")
    BY <1>18 DEF BumpRemoved, At, On
  <2>2. req[q].op \in OnDocument
    BY <2>1 DEF On, OnDocument
  <2> QED BY <1>3, <1>4, <1>5, <2>1, <2>2 DEF DocumentMove, Bumped
<1> QED
  BY <1>11, <1>12, <1>13, <1>14, <1>15, <1>16, <1>17, <1>18 DEF DocumentRequest

(* A row never names a file that is not there: a file that may yet be      *)
(* removed has no row, and one that waits for its row is nobody else's.    *)
(* Where a row can be committed and not read again this holds of the file  *)
(* that waits alone.                                                       *)
Removing == {"store_document", "undo_upload", "bump_removed", "remove_object"}
FilesThere ==
  /\ objects \intersect External = {}
  /\ ~Fault("reread") => Existing \ External \subseteq objects
  /\ ~Fault("reread") =>
       \A q \in Requests : req[q].op \in Removing => req[q].document \notin Existing
  /\ \A q \in Requests : req[q].op = "bump_removed" => Asked("delete_document")
  /\ \A q \in Requests : req[q].op = "store_document" =>
       /\ req[q].document \notin External \union Existing
       /\ Deleted \/ req[q].document \in objects
       /\ \A p \in Requests \ {q} :
            req[p].op \in OnDocument => req[p].document # req[q].document

(* What a request at work alone counts on.                                 *)
DocumentsExpected ==
  Serial => \A q \in Requests :
    /\ req[q].op = "bump_removed" => company # None
    /\ req[q].op \in {"queue_document", "queue_again"} => req[q].document \in External \union Existing
    /\ req[q].op = "delete_rows" => req[q].documents = Existing \ External

(* Whose a file is.                                                        *)
Tidy == ~Suffers({"parallel", "crash", "lost", "storage"})
FileOf(q, d) ==
  \/ req[q].op \in OnDocument /\ req[q].document = d
  \/ req[q].op = "delete_files" /\ d \in req[q].documents
Removed == Tidy /\ ~(Fault("database") /\ Asked("delete_document"))
FilesAccounted ==
  Removed => \A d \in objects : d \in Existing \/ \E q \in Requests : FileOf(q, d)

DeletedFirst == \A q \in Requests : req[q].op = "delete_files" => Deleted

FilesI == FilesThere /\ DocumentsExpected /\ FilesAccounted

LEMMA DocumentsThere ==
  ASSUME Sound, FilesThere, NEW q \in Requests, NEW d \in Documents, DocumentMove(q, d),
         UNCHANGED <<env, company>>, \A p \in Requests \ {q} : req'[p] = req[p]
  PROVE  FilesThere'
<1> USE DEF On, Removing, OnDocument
<1>1. /\ Deleted' <=> Deleted
      /\ Fault("reread")' <=> Fault("reread")
      /\ Asked("delete_document")' <=> Asked("delete_document")
  BY DEF Deleted, Fault, Asked
<1>2. Idle.op = "idle"
  BY DEF Idle
<1>3. CASE Uploads(q, d)
  <2>1. /\ d \notin External \union Existing /\ Nobody(d) /\ req[q].op = "idle"
        /\ Existing' = Existing /\ objects' = objects \union {d}
        /\ (req'[q].op = "store_document" /\ req'[q].document = d) \/ req'[q] = req[q]
    BY <1>3 DEF Uploads
  <2>2. /\ objects' \intersect External = {}
        /\ ~Fault("reread")' => Existing' \ External \subseteq objects'
    BY <1>1, <2>1 DEF FilesThere
  <2>3. /\ ~Fault("reread")' =>
             \A p \in Requests : req'[p].op \in Removing => req'[p].document \notin Existing'
        /\ \A p \in Requests : req'[p].op = "bump_removed" => Asked("delete_document")'
    BY <1>1, <2>1 DEF FilesThere
  <2>4. ASSUME NEW p \in Requests, req'[p].op = "store_document"
        PROVE  /\ req'[p].document \notin External \union Existing'
               /\ Deleted' \/ req'[p].document \in objects'
               /\ \A r \in Requests \ {p} :
                    req'[r].op \in OnDocument => req'[r].document # req'[p].document
    <3>1. CASE p = q
      BY <2>1, <2>4, <3>1 DEF Nobody
    <3>2. CASE p # q
      <4>1. req'[p] = req[p] /\ req[p].document # d
        BY <2>1, <2>4, <3>2 DEF Nobody
      <4>2. \A r \in Requests \ {p, q} : req'[r] = req[r]
        OBVIOUS
      <4> QED BY <1>1, <2>1, <2>4, <4>1, <4>2 DEF FilesThere
    <3> QED BY <3>1, <3>2
  <2> QED BY <2>2, <2>3, <2>4 DEF FilesThere
<1>4. CASE Stores(q, d)
  <2>1. /\ req[q].op = "store_document" /\ req[q].document = d /\ UNCHANGED objects
        /\ req'[q].op \in {"queue_document", "undo_upload"} /\ req'[q].document = d
    BY <1>4 DEF Stores
  <2>2. \A p \in Requests \ {q} : req[p].op \in OnDocument => req[p].document # d
    BY <2>1 DEF FilesThere
  <2>3. CASE Existing' = Existing
    BY <1>1, <2>1, <2>3 DEF FilesThere
  <2>4. CASE /\ Existing' = Existing \union {d} /\ company # None
             /\ req'[q].op = "queue_document" \/ Fault("reread")
    <3>1. d \in objects
      BY <2>1, <2>4 DEF FilesThere, Deleted
    <3> QED BY <1>1, <2>1, <2>2, <2>4, <3>1 DEF FilesThere
  <2> QED BY <1>4, <2>3, <2>4 DEF Stores
<1>5. CASE Removes(q, d)
  BY <1>1, <1>2, <1>5 DEF Removes, FilesThere
<1>6. CASE Registers(q, d)
  BY <1>1, <1>2, <1>6 DEF Registers, FilesThere, Nobody
<1>7. CASE Queues(q, d)
  BY <1>1, <1>2, <1>7 DEF Queues, FilesThere
<1>8. CASE Retries_(q, d)
  BY <1>1, <1>2, <1>8 DEF Retries_, FilesThere
<1>9. CASE Drops(q, d)
  BY <1>1, <1>2, <1>9 DEF Drops, FilesThere
<1>10. CASE Bumped(q, d)
  BY <1>1, <1>2, <1>10 DEF Bumped, FilesThere
<1> QED BY <1>3, <1>4, <1>5, <1>6, <1>7, <1>8, <1>9, <1>10 DEF DocumentMove

LEMMA DocumentsExpectedNext ==
  ASSUME Sound, DocumentsExpected, NEW q \in Requests, NEW d \in Documents, DocumentMove(q, d),
         Ask(q) \/ Serve(q), UNCHANGED <<env, company>>
  PROVE  DocumentsExpected'
<1>1. Serial' <=> Serial
  BY DEF Serial, Fault
<1>2. SUFFICES ASSUME Serial PROVE DocumentsExpected'
  BY <1>1 DEF DocumentsExpected
<1>3. \A p \in Requests \ {q} : req'[p].op = "idle"
  BY <1>2, OthersIdle
<1>4. Idle.op = "idle"
  BY DEF Idle
<1>5. /\ req'[q].op = "bump_removed" => company' # None
      /\ req'[q].op \in {"queue_document", "queue_again"} =>
           req'[q].document \in External' \union Existing'
      /\ req'[q].op # "delete_rows"
  <2>1. CASE Drops(q, d)
    <3>1. company # None
      BY <2>1 DEF Drops, Existing, Sound, Cleared
    <3> QED BY <2>1, <3>1 DEF Drops, On
  <2>2. CASE ~Drops(q, d)
    BY <1>2, <1>4, <2>2 DEF DocumentMove, Uploads, Stores, Removes, Registers, Queues, Retries_, Bumped,
       On, DocumentsExpected
  <2> QED BY <2>1, <2>2
<1> QED BY <1>3, <1>5 DEF DocumentsExpected

LEMMA TidyMeans == Tidy => Serial /\ \A f \in {"crash", "lost", "storage"} : ~Fault(f)
  BY DEF Tidy, Suffers, Serial, Fault

LEMMA RemovedSame == env' = env => (Removed' <=> Removed)
  BY DEF Removed, Tidy, Suffers, Fault, Asked

LEMMA DocumentsAccounted ==
  ASSUME Sound, FilesI, NEW q \in Requests, NEW d \in Documents, DocumentMove(q, d),
         UNCHANGED <<env, company>>, \A p \in Requests \ {q} : req'[p] = req[p]
  PROVE  FilesAccounted'
<1>1. Removed' <=> Removed
  BY RemovedSame
<1>2. SUFFICES ASSUME Removed, NEW f \in objects'
               PROVE  f \in Existing' \/ \E p \in Requests : FileOf(p, f)'
  BY <1>1 DEF FilesAccounted
<1>3. Serial /\ ~Fault("lost") /\ ~Fault("storage")
  BY <1>2, TidyMeans DEF Removed
<1>4. ASSUME f \in objects, f # d
      PROVE  f \in Existing' \/ \E p \in Requests : FileOf(p, f)'
  <2>1. f \in Existing => f \in Existing'
    BY <1>4 DEF DocumentMove, Uploads, Stores, Removes, Registers, Queues, Retries_, Drops, Bumped
  <2>2. ~FileOf(q, f)
    BY <1>4 DEF DocumentMove, Uploads, Stores, Removes, Registers, Queues, Retries_, Drops, Bumped,
       On, FileOf, OnDocument
  <2>3. ASSUME NEW p \in Requests, FileOf(p, f) PROVE FileOf(p, f)'
    BY <2>2, <2>3 DEF FileOf
  <2> QED BY <1>2, <1>4, <2>1, <2>3 DEF FilesI, FilesAccounted
<1>5. ASSUME f = d
      PROVE  d \in Existing' \/ \E p \in Requests : FileOf(p, d)'
  <2>1. d \notin External
    <3>1. d \in External => d \notin objects /\ ~Uploads(q, d)
      BY DEF FilesI, FilesThere, Uploads
    <3>2. objects' \subseteq objects \/ Uploads(q, d)
      BY DEF DocumentMove, Stores, Removes, Registers, Queues, Retries_, Drops, Bumped
    <3> QED BY <1>2, <1>5, <3>1, <3>2
  <2>2. CASE Queues(q, d)
    BY <1>3, <2>1, <2>2 DEF Queues, On, FilesI, DocumentsExpected, FileOf, OnDocument
  <2>3. CASE Bumped(q, d)
    BY <1>2, <1>3, <2>1, <2>3
    DEF Bumped, On, FilesI, FilesThere, DocumentsExpected, FileOf, OnDocument, Removed
  <2>4. CASE Removes(q, d)
    BY <1>2, <1>3, <1>5, <2>4 DEF Removes
  <2>5. CASE Uploads(q, d) \/ Stores(q, d) \/ Registers(q, d) \/ Retries_(q, d) \/ Drops(q, d)
    <3>1. (req'[q].op \in OnDocument /\ req'[q].document = d) \/ d \in Existing'
      BY <1>3, <2>5 DEF Uploads, Stores, Registers, Retries_, Drops, On, OnDocument
    <3> QED BY <3>1 DEF FileOf
  <2> QED BY <2>2, <2>3, <2>4, <2>5 DEF DocumentMove
<1> QED
  <2>1. f \in objects \/ f = d
    BY <1>2 DEF DocumentMove, Uploads, Stores, Removes, Registers, Queues, Retries_, Drops, Bumped
  <2> QED BY <1>4, <1>5, <2>1

-----------------------------------------------------------------------------
(* The deletion of the company, told in the same sets and in the           *)
(* recordings that the rows of calls name.                                 *)
Called == {c \in Calls : calls[c] # None}
Named(c) == IF calls[c] = None THEN {} ELSE RecordingsOf(calls[c])
StillNamed == Existing' = Existing /\ UNCHANGED calls

LEMMA NamedNow == \A x : x \in RecordingsNamed <=> \E c \in Calls : x \in Named(c)
  BY DEF RecordingsNamed, Named

LEMMA NamedNext == \A x : x \in RecordingsNamed' <=> \E c \in Calls : x \in Named(c)'
  BY DEF RecordingsNamed, Named

LEMMA NamedSame ==
  ASSUME UNCHANGED calls
  PROVE  RecordingsNamed' = RecordingsNamed /\ Called' = Called /\ \A c \in Calls : Named(c)' = Named(c)
<1>1. Called' = Called /\ \A c \in Calls : Named(c)' = Named(c)
  BY DEF Called, Named
<1>2. \A x : x \in RecordingsNamed' <=> x \in RecordingsNamed
  BY <1>1, NamedNow, NamedNext
<1> QED BY <1>1, <1>2

Shows(q) ==
  /\ req[q].op = "idle" /\ UNCHANGED <<company, objects, recordings>> /\ StillNamed
  /\ req'[q].op = "delete_rows" /\ req'[q].documents = Existing \ External
  /\ req'[q].calls = RecordingsNamed
Cancels(q) ==
  /\ req[q].op = "delete_rows" /\ UNCHANGED <<company, objects, recordings>> /\ StillNamed
  /\ req'[q] = Idle
DropsRows(q) ==
  /\ req[q].op = "delete_rows" /\ UNCHANGED <<objects, recordings>> /\ Deleted'
  /\ Existing' = {} /\ \A c \in Calls : calls'[c] = None
  /\ req'[q].op = "delete_files" /\ req'[q].documents = req[q].documents
  /\ req'[q].calls = req[q].calls
DropsFiles(q) ==
  /\ req[q].op = "delete_files" /\ UNCHANGED company /\ StillNamed /\ req'[q] = Idle
  /\ objects' \subseteq objects /\ recordings' \subseteq recordings
  /\ ~Fault("storage") => /\ objects' = objects \ req[q].documents
                          /\ recordings' = recordings \ req[q].calls

Deletes(q) == ShowCompany(q) \/ DeleteRows(q) \/ DeleteFiles(q)

LEMMA CompanyDeleted ==
  ASSUME Sound, NEW q \in Requests, Deletes(q)
  PROVE  /\ env' = env /\ \A p \in Requests \ {q} : req'[p] = req[p]
         /\ Shows(q) \/ Cancels(q) \/ DropsRows(q) \/ DropsFiles(q)
<1> USE DEF Sound, Typed
<1>1. env' = env /\ \A p \in Requests \ {q} : req'[p] = req[p]
  <2>1. env' = env
    BY DEF Deletes, ShowCompany, DeleteRows, DeleteFiles
  <2>2. Moves(q, DeletionOps)
    BY DeletionMoves DEF Deletes
  <2> QED BY <2>1, <2>2, Moved
<1>2. ASSUME NEW d, Become(q, d) PROVE req'[q] = d
  BY <1>2 DEF Become, TypedRequests
<1>3. ASSUME UNCHANGED <<documents, calls>> PROVE StillNamed
  BY <1>3 DEF StillNamed, Existing
<1>4. CASE ShowCompany(q)
  <2>1. /\ UNCHANGED <<company, objects, recordings, documents, calls>>
        /\ Become(q, [op |-> "delete_rows",
             documents |-> {d \in Documents \ External : documents[d] # None},
             calls |-> RecordingsNamed, audios |-> KeysOf])
    BY <1>4 DEF ShowCompany, libraryVars, conversationVars
  <2>2. req'[q] = [op |-> "delete_rows",
             documents |-> {d \in Documents \ External : documents[d] # None},
             calls |-> RecordingsNamed, audios |-> KeysOf]
    BY <1>2, <2>1
  <2>3. {d \in Documents \ External : documents[d] # None} = Existing \ External
    BY DEF Existing
  <2>4. req[q].op = "idle"
    BY <1>4, FreeIsIdle DEF ShowCompany
  <2> QED BY <1>1, <1>3, <2>1, <2>2, <2>3, <2>4 DEF Shows
<1>5. CASE DeleteRows(q)
  <2>1. req[q].op = "delete_rows" /\ UNCHANGED <<objects, recordings>>
    BY <1>5 DEF DeleteRows, At
  <2>2. CASE /\ Become(q, Idle)
             /\ UNCHANGED <<company, calls, rows, items, documents, users, tokens,
                            campaigns, contacts, listed>>
    BY <1>1, <1>2, <1>3, <2>1, <2>2 DEF Cancels
  <2>3. CASE /\ Become(q, [req[q] EXCEPT !.op = "delete_files"]) /\ company' = None
             /\ calls' = [c \in Calls |-> None] /\ documents' = [d \in Documents |-> None]
    <3>1. req'[q] = [op |-> "delete_files", documents |-> req[q].documents, calls |-> req[q].calls,
                     audios |-> req[q].audios]
      BY <1>2, <2>1, <2>3, DeletionParts DEF DeletionOps, TypedRequests
    <3>2. Deleted'
      BY <1>1, <2>1, <2>3 DEF Deleted, DeletionAsked, DeletionOps
    <3>3. Existing' = {} /\ \A c \in Calls : calls'[c] = None
      BY <2>3 DEF Existing
    <3> QED BY <1>1, <2>1, <3>1, <3>2, <3>3 DEF DropsRows
  <2> QED BY <1>5, <2>2, <2>3 DEF DeleteRows
<1>6. CASE DeleteFiles(q)
  <2>1. /\ req[q].op = "delete_files" /\ UNCHANGED <<company, documents, calls>> /\ req'[q] = Idle
    BY <1>2, <1>6 DEF DeleteFiles, At
  <2>2. /\ objects' \subseteq objects /\ recordings' \subseteq recordings
        /\ ~Fault("storage") => /\ objects' = objects \ req[q].documents
                                /\ recordings' = recordings \ req[q].calls
    <3>1. PICK kept_files \in SUBSET (IF Fault("storage") THEN req[q].documents ELSE {}),
               kept_calls \in SUBSET (IF Fault("storage") THEN req[q].calls ELSE {}) :
            /\ objects' = objects \ (req[q].documents \ kept_files)
            /\ recordings' = recordings \ (req[q].calls \ kept_calls)
      BY <1>6 DEF DeleteFiles
    <3> QED BY <3>1
  <2> QED BY <1>1, <1>3, <2>1, <2>2 DEF DropsFiles
<1> QED BY <1>4, <1>5, <1>6 DEF Deletes

LEMMA FilesDeleted ==
  ASSUME Sound, FilesI, DeletedFirst, NEW q \in Requests, Deletes(q)
  PROVE  FilesI' /\ DeletedFirst'
<1>1. /\ env' = env /\ \A p \in Requests \ {q} : req'[p] = req[p]
      /\ Shows(q) \/ Cancels(q) \/ DropsRows(q) \/ DropsFiles(q)
  BY CompanyDeleted
<1>2. /\ Serial' <=> Serial
      /\ Removed' <=> Removed
      /\ Fault("reread")' <=> Fault("reread")
      /\ Asked("delete_document")' <=> Asked("delete_document")
  BY <1>1, RemovedSame DEF Serial, Fault, Asked
<1>3. Idle.op = "idle"
  BY DEF Idle
<1>4. Ask(q) \/ Serve(q)
  BY DEF Deletes, Ask, Serve
<1>5. req[q].op \notin OnDocument /\ req'[q].op \notin OnDocument
  BY <1>1, <1>3 DEF Shows, Cancels, DropsRows, DropsFiles, OnDocument
<1>6. \A p \in Requests : req'[p].op \in OnDocument => req'[p] = req[p]
  BY <1>1, <1>5
<1>7. Existing' = Existing \/ (Existing' = {} /\ Deleted')
  BY <1>1 DEF Shows, Cancels, DropsRows, DropsFiles, StillNamed
<1>8. Deleted => Deleted' /\ Existing = {}
  <2>1. Deleted => Existing = {}
    BY DEF Deleted, Existing, Sound, Cleared
  <2>2. Deleted => Deleted'
    BY <1>1 DEF Shows, Cancels, DropsRows, DropsFiles, Deleted
  <2> QED BY <2>1, <2>2
<1>9. DeletedFirst'
  <2>1. ASSUME NEW p \in Requests, req'[p].op = "delete_files" PROVE Deleted'
    BY <1>1, <1>3, <1>8, <2>1 DEF DeletedFirst, Shows, Cancels, DropsRows, DropsFiles
  <2> QED BY <2>1 DEF DeletedFirst
<1>10. FilesThere'
  <2>1. objects' = objects \/ (Deleted /\ objects' \subseteq objects)
    BY <1>1 DEF Shows, Cancels, DropsRows, DropsFiles, DeletedFirst
  <2>2. /\ objects' \intersect External' = {}
        /\ ~Fault("reread")' => Existing' \ External' \subseteq objects'
    BY <1>2, <1>7, <1>8, <2>1 DEF FilesI, FilesThere
  <2>3. ASSUME NEW p \in Requests, req'[p].op \in Removing
        PROVE  /\ ~Fault("reread")' => req'[p].document \notin Existing'
               /\ req'[p].op = "bump_removed" => Asked("delete_document")'
    BY <1>2, <1>6, <1>7, <2>3 DEF FilesI, FilesThere, Removing, OnDocument
  <2>4. ASSUME NEW p \in Requests, req'[p].op = "store_document"
        PROVE  /\ req'[p].document \notin External \union Existing'
               /\ Deleted' \/ req'[p].document \in objects'
               /\ \A r \in Requests \ {p} :
                    req'[r].op \in OnDocument => req'[r].document # req'[p].document
    <3>1. req'[p] = req[p]
      BY <1>6, <2>4 DEF OnDocument
    <3>2. /\ req[p].document \notin External \union Existing
          /\ Deleted \/ req[p].document \in objects
          /\ \A r \in Requests \ {p} :
               req[r].op \in OnDocument => req[r].document # req[p].document
      BY <2>4, <3>1 DEF FilesI, FilesThere
    <3> QED BY <1>6, <1>7, <1>8, <2>1, <3>1, <3>2
  <2> QED BY <2>2, <2>3, <2>4 DEF FilesThere, Removing
<1>11. DocumentsExpected'
  <2> SUFFICES ASSUME Serial PROVE DocumentsExpected'
    BY <1>2 DEF DocumentsExpected
  <2>1. \A p \in Requests \ {q} : req'[p].op = "idle"
    BY <1>4, OthersIdle
  <2>2. /\ req'[q].op \notin {"bump_removed", "queue_document", "queue_again"}
        /\ req'[q].op = "delete_rows" => req'[q].documents = Existing' \ External'
    BY <1>1, <1>3 DEF Shows, Cancels, DropsRows, DropsFiles, StillNamed
  <2> QED BY <2>1, <2>2 DEF DocumentsExpected
<1>12. FilesAccounted'
  <2> SUFFICES ASSUME Removed, NEW f \in objects'
               PROVE  f \in Existing' \/ \E p \in Requests : FileOf(p, f)'
    BY <1>2 DEF FilesAccounted
  <2>1. Serial /\ ~Fault("storage")
    BY TidyMeans DEF Removed
  <2>2. \A p \in Requests \ {q} : req[p].op = "idle"
    BY <1>4, <2>1, OthersIdle
  <2>3. objects' \subseteq objects
    BY <1>1 DEF Shows, Cancels, DropsRows, DropsFiles
  <2>4. f \in Existing \/ FileOf(q, f)
    <3>1. f \in Existing \/ \E p \in Requests : FileOf(p, f)
      BY <2>3 DEF FilesI, FilesAccounted
    <3> QED BY <2>2, <3>1 DEF FileOf, OnDocument
  <2>5. CASE Shows(q) \/ Cancels(q)
    BY <1>5, <2>4, <2>5 DEF Shows, Cancels, StillNamed, FileOf
  <2>6. CASE DropsRows(q)
    <3>1. f \in Existing
      BY <1>5, <2>4, <2>6 DEF DropsRows, FileOf
    <3>2. f \notin External
      BY <2>3 DEF FilesI, FilesThere
    <3>3. f \in req[q].documents
      BY <2>1, <2>6, <3>1, <3>2 DEF DropsRows, FilesI, DocumentsExpected
    <3> QED BY <2>6, <3>3 DEF DropsRows, FileOf
  <2>7. CASE DropsFiles(q)
    BY <1>5, <2>1, <2>4, <2>7 DEF DropsFiles, StillNamed, FileOf
  <2> QED BY <1>1, <2>5, <2>6, <2>7
<1> QED BY <1>9, <1>10, <1>11, <1>12 DEF FilesI

-----------------------------------------------------------------------------
(* What the other steps leave to files.                                    *)
DocumentsMove(q) == DocumentRequest(q) /\ UNCHANGED <<conversationVars, accountVars, campaignVars>>
FilesAside ==
  /\ UNCHANGED <<env, objects>> /\ Existing' = Existing /\ Keeps(OnDocument \union DeletionOps)
  /\ company # None => company' # None

LEMMA FilesApart ==
  ASSUME Sound, [Next]_backOfficeVars, \A q \in Requests : ~DocumentsMove(q) /\ ~Deletes(q)
  PROVE  FilesAside
<1> USE DEF Sound, Typed
<1> DEFINE Ours == OnDocument \union DeletionOps
<1>1. /\ Ours \intersect (ConversationOps \union {"idle"}) = {}
      /\ Ours \intersect (AccountOps \union {"idle"}) = {}
      /\ Ours \intersect (CampaignOps \union {"idle"}) = {}
      /\ Ours \intersect ({"bump", "template"} \union {"idle"}) = {}
      /\ "idle" \notin Ours
  BY DEF CampaignOps, ConversationOps, OnDocument, AccountOps, DeletionOps
<1>2. ASSUME UNCHANGED documents PROVE Existing' = Existing
  BY <1>2 DEF Existing
<1>3. ASSUME UNCHANGED libraryVars, Keeps(Ours), env' = env, company # None => company' # None
      PROVE  FilesAside
  BY <1>2, <1>3 DEF FilesAside, libraryVars
<1>4. ASSUME NEW q \in Requests, Ask(q) \/ Serve(q) PROVE FilesAside
  <2>1. CASE /\ ConversationAsked(q) \/ ConversationGoesOn(q)
             /\ UNCHANGED <<libraryVars, accountVars, campaignVars>>
    BY <1>1, <1>3, <2>1, ConversationKeeps
  <2>2. CASE /\ LibraryAsked(q) \/ LibraryGoesOn(q)
             /\ UNCHANGED <<conversationVars, accountVars, campaignVars>>
    <3>1. ~DocumentRequest(q)
      BY <2>2 DEF DocumentsMove
    <3>2. \/ CreateItem(q) \/ UpdateItem(q) \/ DeleteItem(q) \/ BumpVersion(q) \/ ReadTemplate(q)
          \/ ApplyTemplate(q)
      BY <2>2, <3>1 DEF DocumentRequest, LibraryAsked, LibraryGoesOn
    <3>3. UNCHANGED <<env, company, documents, objects>>
      BY <3>2 DEF CreateItem, UpdateItem, DeleteItem, BumpVersion, ReadTemplate, ApplyTemplate,
         OnlyItems
    <3>4. Moves(q, {"bump", "template"})
      <4>1. Idle.op = "idle" /\ (Free(q) => req[q].op = "idle")
        BY FreeIsIdle DEF Idle
      <4>2. CASE CreateItem(q) \/ UpdateItem(q) \/ DeleteItem(q)
        BY <4>1, <4>2 DEF CreateItem, UpdateItem, DeleteItem, NewVersion, Moves
      <4>3. CASE BumpVersion(q) \/ ApplyTemplate(q)
        BY <4>1, <4>3 DEF BumpVersion, ApplyTemplate, Moves, At
      <4>4. CASE ReadTemplate(q)
        BY <4>1, <4>4 DEF ReadTemplate, Moves
      <4> QED BY <3>2, <4>2, <4>3, <4>4
    <3>5. Keeps(Ours)
      BY <1>1, <3>4, MovesKeep
    <3> QED BY <1>2, <3>3, <3>5 DEF FilesAside
  <2>3. CASE /\ AccountAsked(q) \/ AccountGoesOn(q)
             /\ UNCHANGED <<conversationVars, libraryVars, campaignVars>>
    BY <1>1, <1>3, <2>3, AccountKeeps
  <2>4. CASE /\ CampaignAsked(q) \/ CampaignGoesOn(q)
             /\ UNCHANGED <<conversationVars, libraryVars, accountVars>>
    BY <1>1, <1>3, <2>4, CampaignKeeps
  <2> QED BY <1>4, <2>1, <2>2, <2>3, <2>4 DEF Ask, Serve, Deletes
<1>5. CASE Elsewhere \/ Dies \/ UNCHANGED backOfficeVars \/ \E w \in Workers : Work(w)
  <2>1. Keeps(Ours) /\ UNCHANGED <<env, company>>
    BY <1>1, <1>5, OthersKeep
  <2>2. CASE \E w \in Workers : LibraryTask(w)
    <3>1. PICK w \in Workers : LibraryTask(w)
      BY <2>2
    <3>2. UNCHANGED objects /\ Of(w) \in Documents
      BY <3>1, JobParts
      DEF LibraryTask, StartProcessing, Download, Clear, PublishChunks, MarkFailed,
          RetryProcessing, InJob, TypedJobs, Of, OnlyWork
    <3>3. UNCHANGED documents \/ \E s \in DocumentStatus : Set(Of(w), s)
      BY <3>1 DEF LibraryTask, StartProcessing, Download, Clear, PublishChunks, MarkFailed,
          RetryProcessing, DocumentStatus
    <3>4. Existing' = Existing
      BY <1>2, <3>2, <3>3, SetStatus_
    <3> QED BY <2>1, <3>2, <3>4 DEF FilesAside
  <2>3. CASE LibrarySnapshot
    <3>1. UNCHANGED <<documents, objects>>
      BY <2>3 DEF LibrarySnapshot, ReadVersion, ReadItems, ReadChunks, OnlyReading
    <3> QED BY <1>2, <2>1, <3>1 DEF FilesAside
  <2>4. CASE ~LibrarySnapshot /\ \A w \in Workers : ~LibraryTask(w)
    <3>1. UNCHANGED libraryVars
      <4>1. CASE Elsewhere
        BY <2>4, <4>1 DEF Elsewhere
      <4>2. CASE Dies
        BY <4>2 DEF Dies
      <4>3. CASE UNCHANGED backOfficeVars
        BY <4>3 DEF backOfficeVars
      <4>4. CASE \E w \in Workers : Work(w)
        BY <2>4, <4>4 DEF Work
      <4> QED BY <1>5, <4>1, <4>2, <4>3, <4>4
    <3> QED BY <1>3, <2>1, <3>1
  <2> QED BY <2>2, <2>3, <2>4
<1> QED BY <1>4, <1>5 DEF Next

LEMMA FilesKept ==
  ASSUME Sound, [Next]_backOfficeVars, FilesI, DeletedFirst, FilesAside
  PROVE  FilesI' /\ DeletedFirst'
<1>1. /\ UNCHANGED <<env, objects>> /\ Existing' = Existing
      /\ \A q \in Requests : req'[q].op \in OnDocument \union DeletionOps => req'[q] = req[q]
      /\ company # None => company' # None
      /\ ~Fault("crash") =>
           \A q \in Requests : req[q].op \in OnDocument \union DeletionOps => req'[q] = req[q]
  BY DEF FilesAside, Keeps
<1>2. Deleted => Deleted'
  BY DeletedStays
<1>3. FilesThere'
  <2>1. \A q \in Requests : req'[q].op \in Removing =>
          /\ ~Fault("reread")' => req'[q].document \notin Existing'
          /\ req'[q].op = "bump_removed" => Asked("delete_document")'
    BY <1>1 DEF FilesI, FilesThere, Removing, OnDocument, Fault, Asked
  <2>2. ASSUME NEW q \in Requests, req'[q].op = "store_document"
        PROVE  /\ req'[q].document \notin External \union Existing'
               /\ Deleted' \/ req'[q].document \in objects'
               /\ \A p \in Requests \ {q} :
                    req'[p].op \in OnDocument => req'[p].document # req'[q].document
    <3>1. req'[q] = req[q] /\ req[q].op = "store_document"
      BY <1>1, <2>2 DEF OnDocument
    <3> QED BY <1>1, <1>2, <3>1 DEF FilesI, FilesThere
  <2>3. ~Fault("reread")' => Existing' \ External \subseteq objects'
    BY <1>1 DEF FilesI, FilesThere, Fault
  <2> QED BY <1>1, <2>1, <2>2, <2>3 DEF FilesI, FilesThere, Removing
<1>4. DocumentsExpected'
  <2>1. Serial' <=> Serial
    BY <1>1 DEF Serial, Fault
  <2> QED BY <1>1, <2>1 DEF FilesI, DocumentsExpected, OnDocument, DeletionOps
<1>5. FilesAccounted'
  <2> SUFFICES ASSUME Removed, NEW f \in objects
               PROVE  f \in Existing' \/ \E p \in Requests : FileOf(p, f)'
    BY <1>1, RemovedSame DEF FilesAccounted
  <2>1. ASSUME NEW p \in Requests, FileOf(p, f) PROVE FileOf(p, f)'
    BY <1>1, <2>1, TidyMeans DEF FileOf, DeletionOps, Removed
  <2> QED BY <1>1, <2>1 DEF FilesI, FilesAccounted
<1>6. DeletedFirst'
  BY <1>1, <1>2 DEF DeletedFirst, DeletionOps
<1> QED BY <1>3, <1>4, <1>5, <1>6 DEF FilesI

LEMMA FilesNext == Sound /\ FilesI /\ DeletedFirst /\ [Next]_backOfficeVars => FilesI' /\ DeletedFirst'
<1> SUFFICES ASSUME Sound, FilesI, DeletedFirst, [Next]_backOfficeVars PROVE FilesI' /\ DeletedFirst'
  OBVIOUS
<1>1. ASSUME NEW q \in Requests, DocumentsMove(q)
      PROVE  FilesI' /\ DeletedFirst'
  <2>1. /\ UNCHANGED <<env, company>> /\ \A p \in Requests \ {q} : req'[p] = req[p]
        /\ \/ \E d \in Documents : DocumentMove(q, d)
           \/ UNCHANGED objects /\ Existing' = Existing /\ req'[q] = req[q]
    BY <1>1, DocumentMoved DEF DocumentsMove
  <2>2. ASSUME NEW d \in Documents, DocumentMove(q, d)
        PROVE  FilesI' /\ DeletedFirst'
    <3>1. Ask(q) \/ Serve(q)
      BY <1>1 DEF DocumentsMove, DocumentRequest, Ask, Serve, LibraryAsked, LibraryGoesOn
    <3>2. FilesThere'
      BY <2>1, <2>2, DocumentsThere DEF FilesI
    <3>3. DocumentsExpected'
      BY <2>1, <2>2, <3>1, DocumentsExpectedNext DEF FilesI
    <3>4. FilesAccounted'
      BY <2>1, <2>2, DocumentsAccounted
    <3>5. req'[q].op # "delete_files"
      BY <2>2 DEF DocumentMove, Uploads, Stores, Removes, Registers, Queues, Retries_, Drops,
         Bumped, On, Idle
    <3>6. DeletedFirst'
      BY <2>1, <3>5 DEF DeletedFirst, Deleted
    <3> QED BY <3>2, <3>3, <3>4, <3>6 DEF FilesI
  <2>3. CASE UNCHANGED objects /\ Existing' = Existing /\ req'[q] = req[q]
    <3>1. Keeps(OnDocument \union DeletionOps)
      BY <2>1, <2>3 DEF Keeps
    <3>2. FilesAside
      BY <2>1, <2>3, <3>1 DEF FilesAside
    <3> QED BY <3>2, FilesKept
  <2> QED BY <2>1, <2>2, <2>3
<1>2. ASSUME NEW q \in Requests, Deletes(q)
      PROVE  FilesI' /\ DeletedFirst'
  BY <1>2, FilesDeleted
<1>3. CASE \A q \in Requests : ~DocumentsMove(q) /\ ~Deletes(q)
  BY <1>3, FilesApart, FilesKept
<1> QED BY <1>1, <1>2, <1>3

-----------------------------------------------------------------------------
(* Recordings: stored first, named by their call next, and gone after it.  *)
(* Where users write nothing else into them, calls name their own, and     *)
(* what a request has seen of its call the call still says.                *)
NoUpdates == ~Asked("update_call")
Saw(q, c, seen) == req[q].op = "recorded" /\ req[q].call = c /\ req[q].seen = seen
RecordingsThere ==
  /\ \A q \in Requests : req[q].op = "recorded" =>
       Deleted \/ (req[q].call \in recordings /\ req[q].call \in Called)
  /\ NoUpdates =>
       /\ \A c \in Calls : Named(c) \subseteq {c} \intersect recordings
       /\ \A q \in Requests, c \in Calls, seen \in Call : Saw(q, c, seen) =>
            Deleted \/ RecordingsOf(seen) \subseteq Named(c)
CallsExpected ==
  Serial => \A q \in Requests :
    /\ req[q].op = "recorded" => req[q].call \in Called
    /\ req[q].op = "delete_rows" /\ NoUpdates => req[q].calls = RecordingsNamed
RecordingOf(q, c) ==
  \/ req[q].op = "recorded" /\ req[q].call = c
  \/ req[q].op = "delete_files" /\ c \in req[q].calls
Remembered == Tidy /\ NoUpdates /\ ~Fault("database")
RecordingsAccounted ==
  Remembered =>
    \A c \in recordings : c \in RecordingsNamed \/ \E q \in Requests : RecordingOf(q, c)

RecordingsI == RecordingsThere /\ CallsExpected /\ RecordingsAccounted

Records(q, c) ==
  /\ req[q].op = "idle" /\ c \in Called /\ UNCHANGED calls
  /\ recordings' = recordings \union {c}
  /\ \/ req'[q].op = "recorded" /\ req'[q].call = c /\ req'[q].seen = calls[c]
     \/ Fault("lost") /\ req'[q] = req[q]
Remembers(q, c) ==
  /\ req[q].op = "recorded" /\ req[q].call = c /\ Called' = Called /\ UNCHANGED recordings
  /\ \A b \in Calls \ {c} : Named(b)' = Named(b)
  /\ \/ /\ c \in Called
        /\ RecordingsOf(req[q].seen) \subseteq Named(c) /\ Named(c) \subseteq {c} => Named(c)' = {c}
     \/ (c \notin Called \/ Fault("database")) /\ Named(c)' = Named(c)
  /\ req'[q] = Idle

RecordingRequest(q) == UploadRecording(q) \/ StoreRecording(q)

LEMMA RecordingMoved ==
  ASSUME Sound, NEW q \in Requests, RecordingRequest(q)
  PROVE  /\ UNCHANGED <<env, company>> /\ \A p \in Requests \ {q} : req'[p] = req[p]
         /\ \/ \E c \in Calls : Records(q, c) \/ Remembers(q, c)
            \/ UNCHANGED <<calls, recordings>> /\ req'[q] = req[q]
<1> USE DEF Sound, Typed
<1>1. UNCHANGED <<env, company>>
  BY DEF RecordingRequest, UploadRecording, StoreRecording, OnlyCalls
<1>2. \A p \in Requests \ {q} : req'[p] = req[p]
  BY ConversationMoves, Moved DEF RecordingRequest, ConversationAsked, ConversationGoesOn
<1>3. ASSUME NEW d, Become(q, d) PROVE req'[q] = d
  BY <1>3 DEF Become, TypedRequests
<1>4. CASE UploadRecording(q)
  <2>1. PICK c \in Calls :
          /\ calls[c] # None
          /\ \/ /\ recordings' = recordings \union {c}
                /\ Become(q, [op |-> "recorded", call |-> c, seen |-> calls[c]])
             \/ Fault("lost") /\ recordings' = recordings \union {c} /\ UNCHANGED req
             \/ UNCHANGED <<recordings, req>>
    BY <1>4 DEF UploadRecording
  <2>2. req[q].op = "idle"
    BY <1>4, FreeIsIdle DEF UploadRecording
  <2>3. UNCHANGED calls /\ c \in Called
    BY <1>4, <2>1 DEF UploadRecording, Called
  <2>4. ASSUME Become(q, [op |-> "recorded", call |-> c, seen |-> calls[c]])
        PROVE  req'[q].op = "recorded" /\ req'[q].call = c /\ req'[q].seen = calls[c]
    <3>1. req'[q] = [op |-> "recorded", call |-> c, seen |-> calls[c]]
      BY <1>3, <2>4
    <3> QED BY <3>1
  <2> QED BY <1>1, <1>2, <2>1, <2>2, <2>3, <2>4 DEF Records
<1>5. CASE StoreRecording(q)
  <2>1. req[q].op = "recorded" /\ UNCHANGED recordings /\ req'[q] = Idle
    BY <1>3, <1>5 DEF StoreRecording, At, OnlyCalls
  <2>2. PICK c \in Calls : c = req[q].call
    BY <2>1, ConversationParts DEF TypedRequests
  <2>3. CASE UNCHANGED calls /\ (calls[c] = None \/ Fault("database"))
    BY <1>1, <1>2, <2>1, <2>2, <2>3 DEF Remembers, Named, Called
  <2>4. CASE /\ calls[c] # None
             /\ calls' = [calls EXCEPT ![c].url = Written(@, req[q].seen.url, c),
                                       ![c].key = Written(@, req[q].seen.key, c),
                                       ![c].linked = @ \/ req[q].seen.key # c]
    <3>1. calls[c] \in Call
      BY <2>4 DEF TypedState, ConversationsTypeOK
    <3>2. calls'[c] = [source |-> calls[c].source, status |-> calls[c].status,
                       outcome |-> calls[c].outcome,
                       url |-> Written(calls[c].url, req[q].seen.url, c),
                       key |-> Written(calls[c].key, req[q].seen.key, c),
                       linked |-> calls[c].linked \/ req[q].seen.key # c]
      BY <2>4, <3>1 DEF TypedState, ConversationsTypeOK, Call
    <3>3. \A b \in Calls \ {c} : calls'[b] = calls[b]
      BY <2>4 DEF TypedState, ConversationsTypeOK
    <3>4. req[q].seen \in Call
      BY <2>1, ConversationParts DEF TypedRequests
    <3>5. calls'[c] # None
      <4>1. calls'[c] \in Call
        BY <3>1, <3>2, <3>4 DEF Call, Written
      <4> QED BY <4>1, ConversationsAssumption
    <3>6. Called' = Called /\ c \in Called
      BY <2>4, <3>3, <3>5 DEF Called
    <3>7. \A b \in Calls \ {c} : Named(b)' = Named(b)
      BY <3>3 DEF Named
    <3>8. ASSUME RecordingsOf(req[q].seen) \subseteq Named(c), Named(c) \subseteq {c}
          PROVE  Named(c)' = {c}
      <4>1. Named(c)' = {calls'[c].url, calls'[c].key} \ {None}
        BY <3>5 DEF Named, RecordingsOf
      <4>2. Named(c) = {calls[c].url, calls[c].key} \ {None}
        BY <2>4 DEF Named, RecordingsOf
      <4>3. /\ calls'[c].url = Written(calls[c].url, req[q].seen.url, c)
            /\ calls'[c].key = Written(calls[c].key, req[q].seen.key, c)
        BY <3>2
      <4>4. c # None
        BY ConversationsAssumption
      <4> QED BY <3>8, <4>1, <4>2, <4>3, <4>4 DEF Written, RecordingsOf
    <3> QED BY <1>1, <1>2, <2>1, <2>2, <3>6, <3>7, <3>8 DEF Remembers
  <2> QED BY <1>5, <2>2, <2>3, <2>4 DEF StoreRecording
<1> QED BY <1>4, <1>5 DEF RecordingRequest

LEMMA RememberedSame == env' = env => (Remembered' <=> Remembered) /\ (NoUpdates' <=> NoUpdates)
  BY DEF Remembered, Tidy, Suffers, Fault, NoUpdates, Asked

LEMMA RememberedMeans ==
  Remembered => Serial /\ NoUpdates /\ \A f \in {"database", "crash", "lost", "storage"} : ~Fault(f)
  BY TidyMeans DEF Remembered

LEMMA RecordingsMoved ==
  ASSUME Sound, RecordingsI, NEW q \in Requests, NEW c \in Calls, Records(q, c) \/ Remembers(q, c),
         Ask(q) \/ Serve(q), UNCHANGED <<env, company>>, \A p \in Requests \ {q} : req'[p] = req[p]
  PROVE  RecordingsI'
<1>1. /\ Deleted' <=> Deleted
      /\ Serial' <=> Serial
      /\ Remembered' <=> Remembered
      /\ NoUpdates' <=> NoUpdates
  BY RememberedSame DEF Deleted, Serial, Fault
<1>2. Idle.op = "idle"
  BY DEF Idle
<1>3. Called' = Called
  BY NamedSame DEF Records, Remembers
<1>4. Deleted => Called = {}
  BY DEF Deleted, Called, Sound, Cleared
<1>5. CASE Records(q, c)
  <2>1. /\ RecordingsNamed' = RecordingsNamed /\ \A b \in Calls : Named(b)' = Named(b)
        /\ recordings' = recordings \union {c} /\ req[q].op = "idle" /\ c \in Called
        /\ \/ req'[q].op = "recorded" /\ req'[q].call = c /\ req'[q].seen = calls[c]
           \/ Fault("lost") /\ req'[q] = req[q]
    BY <1>5, NamedSame DEF Records
  <2>2. RecordingsOf(calls[c]) = Named(c)
    BY <2>1 DEF Named, Called
  <2>3. RecordingsThere'
    <3>1. ASSUME NEW p \in Requests, req'[p].op = "recorded"
          PROVE  Deleted' \/ (req'[p].call \in recordings' /\ req'[p].call \in Called')
      BY <1>1, <1>3, <2>1, <3>1 DEF RecordingsI, RecordingsThere
    <3>2. ASSUME NoUpdates, NEW b \in Calls PROVE Named(b)' \subseteq {b} \intersect recordings'
      BY <2>1, <3>2 DEF RecordingsI, RecordingsThere
    <3>3. ASSUME NoUpdates, NEW p \in Requests, NEW b \in Calls, NEW seen \in Call,
                 Saw(p, b, seen)', ~Deleted
          PROVE  RecordingsOf(seen) \subseteq Named(b)'
      <4>1. CASE req'[p] = req[p]
        BY <2>1, <3>3, <4>1 DEF RecordingsI, RecordingsThere, Saw
      <4>2. CASE p = q /\ req'[p].call = c /\ req'[p].seen = calls[c]
        <5>1. b = c /\ seen = calls[c]
          BY <3>3, <4>2 DEF Saw
        <5> QED BY <2>1, <2>2, <5>1
      <4> QED BY <2>1, <4>1, <4>2
    <3> QED BY <1>1, <3>1, <3>2, <3>3 DEF RecordingsThere
  <2>4. RecordingsAccounted'
    <3> SUFFICES ASSUME Remembered, NEW b \in recordings'
                 PROVE  b \in RecordingsNamed' \/ \E p \in Requests : RecordingOf(p, b)'
      BY <1>1 DEF RecordingsAccounted
    <3>1. CASE b = c
      BY <2>1, <3>1, RememberedMeans DEF RecordingOf
    <3>2. CASE b # c
      <4>1. b \in RecordingsNamed \/ \E p \in Requests : RecordingOf(p, b)
        BY <2>1, <3>2 DEF RecordingsI, RecordingsAccounted
      <4>2. ~RecordingOf(q, b)
        BY <2>1 DEF RecordingOf
      <4>3. ASSUME NEW p \in Requests, RecordingOf(p, b) PROVE RecordingOf(p, b)'
        BY <4>2, <4>3 DEF RecordingOf
      <4> QED BY <2>1, <4>1, <4>3
    <3> QED BY <3>1, <3>2
  <2>5. CallsExpected'
    <3> SUFFICES ASSUME Serial PROVE CallsExpected'
      BY <1>1 DEF CallsExpected
    <3>1. \A p \in Requests \ {q} : req'[p].op = "idle"
      BY OthersIdle
    <3> QED BY <1>3, <2>1, <3>1 DEF CallsExpected
  <2> QED BY <2>3, <2>4, <2>5 DEF RecordingsI
<1>6. CASE Remembers(q, c)
  <2>1. /\ req[q].op = "recorded" /\ req[q].call = c /\ UNCHANGED recordings
        /\ \A b \in Calls \ {c} : Named(b)' = Named(b)
        /\ req'[q].op = "idle"
    BY <1>2, <1>6 DEF Remembers
  <2>2. ASSUME NoUpdates, ~Deleted
        PROVE  /\ c \in recordings
               /\ Named(c)' = {c} \/ (Fault("database") /\ Named(c)' = Named(c))
    <3>1. PICK seen \in Call : Saw(q, c, seen)
      BY <2>1, ConversationParts DEF Saw, Sound, Typed, TypedRequests
    <3>2. /\ c \in recordings /\ c \in Called
          /\ RecordingsOf(seen) \subseteq Named(c) /\ Named(c) \subseteq {c}
      BY <2>1, <2>2, <3>1 DEF RecordingsI, RecordingsThere
    <3>3. req[q].seen = seen
      BY <3>1 DEF Saw
    <3> QED BY <1>6, <3>2, <3>3 DEF Remembers
  <2>3. Deleted => \A b \in Calls : Named(b)' = {}
    BY <1>3, <1>4 DEF Called, Named
  <2>4. RecordingsThere'
    <3>1. ASSUME NEW p \in Requests, req'[p].op = "recorded"
          PROVE  p # q /\ req'[p] = req[p]
      BY <2>1, <3>1
    <3>2. ASSUME NoUpdates, NEW b \in Calls PROVE Named(b)' \subseteq {b} \intersect recordings'
      <4>1. Named(b) \subseteq {b} \intersect recordings
        BY <3>2 DEF RecordingsI, RecordingsThere
      <4> QED BY <2>1, <2>2, <2>3, <3>2, <4>1
    <3>3. ASSUME NoUpdates, NEW p \in Requests, NEW b \in Calls, NEW seen \in Call,
                 Saw(p, b, seen)', ~Deleted
          PROVE  RecordingsOf(seen) \subseteq Named(b)'
      <4>1. RecordingsOf(seen) \subseteq Named(b)
        BY <3>1, <3>3 DEF RecordingsI, RecordingsThere, Saw
      <4>2. Named(c) \subseteq {c}
        BY <3>3 DEF RecordingsI, RecordingsThere
      <4> QED BY <2>1, <2>2, <3>3, <4>1, <4>2
    <3>4. ASSUME NEW p \in Requests, req'[p].op = "recorded"
          PROVE  Deleted' \/ (req'[p].call \in recordings' /\ req'[p].call \in Called')
      BY <1>1, <1>3, <2>1, <3>1, <3>4 DEF RecordingsI, RecordingsThere
    <3> QED BY <1>1, <3>2, <3>3, <3>4 DEF RecordingsThere
  <2>5. RecordingsAccounted'
    <3> SUFFICES ASSUME Remembered, NEW b \in recordings'
                 PROVE  b \in RecordingsNamed' \/ \E p \in Requests : RecordingOf(p, b)'
      BY <1>1 DEF RecordingsAccounted
    <3>1. Serial /\ NoUpdates /\ ~Fault("database")
      BY RememberedMeans
    <3>2. c \in Called /\ ~Deleted
      BY <1>4, <2>1, <3>1 DEF RecordingsI, CallsExpected
    <3>3. Named(c)' = {c} /\ Named(c) \subseteq {c}
      BY <2>2, <3>1, <3>2 DEF RecordingsI, RecordingsThere
    <3>4. RecordingsNamed \subseteq RecordingsNamed' /\ c \in RecordingsNamed'
      <4>1. ASSUME NEW x \in RecordingsNamed PROVE x \in RecordingsNamed'
        <5>1. PICK a \in Calls : x \in Named(a)
          BY NamedNow
        <5>2. x \in Named(a)'
          BY <2>1, <3>3, <5>1
        <5> QED BY <5>2, NamedNext
      <4>2. c \in RecordingsNamed'
        BY <3>3, NamedNext
      <4> QED BY <4>1, <4>2
    <3>5. b \in RecordingsNamed \/ \E p \in Requests : RecordingOf(p, b)
      BY <2>1 DEF RecordingsI, RecordingsAccounted
    <3>6. RecordingOf(q, b) => b = c
      BY <2>1 DEF RecordingOf
    <3>7. ASSUME NEW p \in Requests \ {q}, RecordingOf(p, b) PROVE RecordingOf(p, b)'
      BY <3>7 DEF RecordingOf
    <3> QED BY <3>4, <3>5, <3>6, <3>7
  <2>6. CallsExpected'
    <3> SUFFICES ASSUME Serial PROVE CallsExpected'
      BY <1>1 DEF CallsExpected
    <3>1. \A p \in Requests \ {q} : req'[p].op = "idle"
      BY OthersIdle
    <3> QED BY <2>1, <3>1 DEF CallsExpected
  <2> QED BY <2>4, <2>5, <2>6 DEF RecordingsI
<1> QED BY <1>5, <1>6

LEMMA RecordingsDeleted ==
  ASSUME Sound, RecordingsI, DeletedFirst, NEW q \in Requests, Deletes(q)
  PROVE  RecordingsI'
<1>1. /\ env' = env /\ \A p \in Requests \ {q} : req'[p] = req[p]
      /\ Shows(q) \/ Cancels(q) \/ DropsRows(q) \/ DropsFiles(q)
  BY CompanyDeleted
<1>2. /\ Serial' <=> Serial
      /\ Remembered' <=> Remembered
      /\ NoUpdates' <=> NoUpdates
  BY <1>1, RememberedSame DEF Serial, Fault
<1>3. Idle.op = "idle"
  BY DEF Idle
<1>4. Ask(q) \/ Serve(q)
  BY DEF Deletes, Ask, Serve
<1>5. req[q].op # "recorded" /\ req'[q].op # "recorded"
  BY <1>1, <1>3 DEF Shows, Cancels, DropsRows, DropsFiles
<1>6. Deleted => Deleted' /\ \A c \in Calls : Named(c) = {}
  <2>1. Deleted => \A c \in Calls : Named(c) = {}
    BY DEF Deleted, Named, Sound, Cleared
  <2>2. Deleted => Deleted'
    BY <1>1 DEF Shows, Cancels, DropsRows, DropsFiles, Deleted
  <2> QED BY <2>1, <2>2
<1>10. \/ /\ RecordingsNamed' = RecordingsNamed /\ Called' = Called
          /\ \A c \in Calls : Named(c)' = Named(c)
       \/ Deleted' /\ \A c \in Calls : Named(c)' = {}
  <2>1. CASE UNCHANGED calls
    BY <2>1, NamedSame
  <2>2. CASE DropsRows(q)
    BY <2>2 DEF DropsRows, Named
  <2> QED BY <1>1, <2>1, <2>2 DEF Shows, Cancels, DropsFiles, StillNamed
<1>7. RecordingsThere'
  <2>1. recordings' = recordings \/ (Deleted /\ recordings' \subseteq recordings)
    BY <1>1 DEF Shows, Cancels, DropsRows, DropsFiles, DeletedFirst
  <2>2. ASSUME NEW p \in Requests, req'[p].op = "recorded"
        PROVE  req'[p] = req[p] /\ req[p].call \in Calls
    <3>1. req'[p] = req[p]
      BY <1>1, <1>5, <2>2
    <3> QED BY <2>2, <3>1, ConversationParts DEF Sound, Typed, TypedRequests
  <2>3. ASSUME NoUpdates
        PROVE  \A c \in Calls : Named(c)' \subseteq {c} \intersect recordings'
    <3>1. \A c \in Calls : Named(c) \subseteq {c} \intersect recordings
      BY <2>3 DEF RecordingsI, RecordingsThere
    <3> QED BY <1>6, <1>10, <2>1, <3>1
  <2>4. ASSUME NEW p \in Requests, req'[p].op = "recorded"
        PROVE  Deleted' \/ (req'[p].call \in recordings' /\ req'[p].call \in Called')
    BY <1>6, <1>10, <2>1, <2>2, <2>4 DEF RecordingsI, RecordingsThere
  <2>5. ASSUME NoUpdates, NEW p \in Requests, NEW c \in Calls, NEW seen \in Call,
               Saw(p, c, seen)', ~Deleted'
        PROVE  RecordingsOf(seen) \subseteq Named(c)'
    <3>1. Saw(p, c, seen)
      BY <2>2, <2>5 DEF Saw
    <3> QED BY <1>6, <1>10, <2>5, <3>1 DEF RecordingsI, RecordingsThere
  <2> QED BY <1>2, <2>3, <2>4, <2>5 DEF RecordingsThere
<1>8. CallsExpected'
  <2> SUFFICES ASSUME Serial PROVE CallsExpected'
    BY <1>2 DEF CallsExpected
  <2>1. \A p \in Requests \ {q} : req'[p].op = "idle"
    BY <1>4, OthersIdle
  <2>2. req'[q].op = "delete_rows" => req'[q].calls = RecordingsNamed'
    BY <1>1, <1>3, NamedSame DEF Shows, Cancels, DropsRows, DropsFiles, StillNamed
  <2> QED BY <1>5, <2>1, <2>2 DEF CallsExpected
<1>9. RecordingsAccounted'
  <2> SUFFICES ASSUME Remembered, NEW b \in recordings'
               PROVE  b \in RecordingsNamed' \/ \E p \in Requests : RecordingOf(p, b)'
    BY <1>2 DEF RecordingsAccounted
  <2>1. Serial /\ NoUpdates /\ ~Fault("storage")
    BY RememberedMeans
  <2>2. \A p \in Requests \ {q} : req[p].op = "idle"
    BY <1>4, <2>1, OthersIdle
  <2>3. recordings' \subseteq recordings
    BY <1>1 DEF Shows, Cancels, DropsRows, DropsFiles
  <2>4. b \in RecordingsNamed \/ RecordingOf(q, b)
    <3>1. b \in RecordingsNamed \/ \E p \in Requests : RecordingOf(p, b)
      BY <2>3 DEF RecordingsI, RecordingsAccounted
    <3> QED BY <2>2, <3>1 DEF RecordingOf
  <2>5. CASE Shows(q) \/ Cancels(q)
    BY <1>5, <2>4, <2>5, NamedSame DEF Shows, Cancels, StillNamed, RecordingOf
  <2>6. CASE DropsRows(q)
    <3>1. b \in RecordingsNamed
      BY <1>5, <2>4, <2>6 DEF DropsRows, RecordingOf
    <3>2. b \in req[q].calls
      BY <2>1, <2>6, <3>1 DEF DropsRows, RecordingsI, CallsExpected
    <3> QED BY <2>6, <3>2 DEF DropsRows, RecordingOf
  <2>7. CASE DropsFiles(q)
    BY <1>5, <2>1, <2>4, <2>7, NamedSame DEF DropsFiles, StillNamed, RecordingOf
  <2> QED BY <1>1, <2>5, <2>6, <2>7
<1> QED BY <1>7, <1>8, <1>9 DEF RecordingsI

(* What the other steps leave to recordings.                               *)
RecordingsMove(q) == RecordingRequest(q) /\ UNCHANGED <<libraryVars, accountVars, campaignVars>>
RecordingsAside ==
  /\ UNCHANGED <<env, recordings>> /\ Called \subseteq Called'
  /\ NoUpdates => \A c \in Calls : Named(c)' = Named(c)
  /\ Keeps({"recorded"} \union DeletionOps) /\ (company # None => company' # None)

LEMMA CallsChanged ==
  ASSUME Typed, NEW q \in Requests,
         AnswerCall(q) \/ TestCall(q) \/ ResolveCall(q) \/ UpdateCall(q) \/ Complete(q)
  PROVE  /\ Called \subseteq Called'
         /\ NoUpdates => \A c \in Calls : Named(c)' = Named(c)
<1> USE DEF Typed, TypedState, ConversationsTypeOK
<1>1. ASSUME NEW c \in Calls, NEW x \in Call, calls[c] # None, calls' = [calls EXCEPT ![c] = x]
      PROVE  /\ Called \subseteq Called'
             /\ x.url = calls[c].url /\ x.key = calls[c].key =>
                  \A b \in Calls : Named(b)' = Named(b)
  <2>1. calls'[c] = x /\ x # None /\ \A b \in Calls \ {c} : calls'[b] = calls[b]
    BY <1>1, ConversationsAssumption
  <2> QED BY <1>1, <2>1 DEF Called, Named, RecordingsOf
<1>2. CASE AnswerCall(q) \/ TestCall(q)
  <2>1. PICK source \in {"telephony", "web_test"} : NewCall(source)
    BY <1>2 DEF AnswerCall, TestCall
  <2> DEFINE x == [source |-> source, status |-> "open", outcome |-> None, url |-> None,
                   key |-> None, linked |-> source = "telephony"]
  <2>2. x \in Call /\ x.url = None /\ x.key = None
    BY DEF Call, CallStatus
  <2>3. PICK c \in Calls : calls[c] = None /\ calls' = [calls EXCEPT ![c] = x]
    BY <2>1 DEF NewCall
  <2> HIDE DEF x
  <2>4. calls'[c] = x /\ x # None /\ \A b \in Calls \ {c} : calls'[b] = calls[b]
    BY <2>2, <2>3, ConversationsAssumption
  <2> QED BY <2>2, <2>3, <2>4 DEF Called, Named, RecordingsOf
<1>3. CASE ResolveCall(q)
  <2>1. PICK c \in Calls : calls[c] # None /\ calls' = [calls EXCEPT ![c].status = "open"]
    BY <1>3 DEF ResolveCall
  <2> DEFINE x == [calls[c] EXCEPT !.status = "open"]
  <2>2. x \in Call /\ x.url = calls[c].url /\ x.key = calls[c].key
    BY <2>1 DEF Call, CallStatus
  <2>3. calls' = [calls EXCEPT ![c] = x]
    BY <2>1
  <2> HIDE DEF x
  <2> QED BY <1>1, <2>1, <2>2, <2>3
<1>5. CASE UpdateCall(q)
  BY <1>1, <1>5 DEF UpdateCall, NoUpdates
<1>4. CASE Complete(q)
  <2>1. PICK c \in Calls, outcome \in Outcome :
          calls[c] # None
          /\ calls' = [calls EXCEPT ![c].status = "completed", ![c].outcome = outcome]
    BY <1>4 DEF Complete
  <2> DEFINE x == [[calls[c] EXCEPT !.status = "completed"] EXCEPT !.outcome = outcome]
  <2>2. x \in Call /\ x.url = calls[c].url /\ x.key = calls[c].key
    BY <2>1 DEF Call, CallStatus
  <2>3. calls' = [calls EXCEPT ![c] = x]
    BY <2>1
  <2> HIDE DEF x
  <2> QED BY <1>1, <2>1, <2>2, <2>3
<1> QED BY <1>2, <1>3, <1>4, <1>5

LEMMA RecordingsApart ==
  ASSUME Sound, [Next]_backOfficeVars, \A q \in Requests : ~RecordingsMove(q) /\ ~Deletes(q)
  PROVE  RecordingsAside
<1> USE DEF Sound, Typed
<1> DEFINE Ours == {"recorded"} \union DeletionOps
<1>1. /\ Ours \intersect ({"search", "insert", "sync", "confirm"} \union {"idle"}) = {}
      /\ Ours \intersect (AccountOps \union {"idle"}) = {}
      /\ Ours \intersect (CampaignOps \union {"idle"}) = {}
      /\ Ours \intersect (LibraryOps \union {"idle"}) = {}
      /\ "idle" \notin Ours
  BY DEF CampaignOps, LibraryOps, OnDocument, AccountOps, DeletionOps
<1>2. ASSUME UNCHANGED calls PROVE Called' = Called /\ \A c \in Calls : Named(c)' = Named(c)
  BY <1>2, NamedSame
<1>3. ASSUME UNCHANGED conversationVars, Keeps(Ours), env' = env, company # None => company' # None
      PROVE  RecordingsAside
  BY <1>2, <1>3 DEF RecordingsAside, conversationVars
<1>4. ASSUME NEW q \in Requests, Ask(q) \/ Serve(q) PROVE RecordingsAside
  <2>1. CASE /\ ConversationAsked(q) \/ ConversationGoesOn(q)
             /\ UNCHANGED <<libraryVars, accountVars, campaignVars>>
    <3>1. ~UploadRecording(q) /\ ~StoreRecording(q)
      BY <2>1 DEF RecordingsMove, RecordingRequest
    <3>2. \/ AnswerCall(q) \/ TestCall(q) \/ ResolveCall(q) \/ UpdateCall(q) \/ Complete(q)
          \/ CreateRequest(q) \/ UpdateRequest(q) \/ Link(q) \/ Unlink(q)
          \/ SearchRequest(q) \/ InsertRequest(q) \/ QueueSync(q) \/ QueueConfirmation(q)
      BY <2>1, <3>1 DEF ConversationAsked, ConversationGoesOn
    <3>3. UNCHANGED recordings
      BY <3>2 DEF AnswerCall, TestCall, NewCall, ResolveCall, UpdateCall, Complete, CreateRequest,
         UpdateRequest, Link, Unlink, SearchRequest, InsertRequest, QueueSync, QueueConfirmation,
         OnlyCalls, OnlyRows, OnlyQueue, conversationVars
    <3>4. Called \subseteq Called' /\ (NoUpdates => \A c \in Calls : Named(c)' = Named(c))
      <4>1. CASE \/ CreateRequest(q) \/ UpdateRequest(q) \/ Link(q) \/ Unlink(q)
                 \/ SearchRequest(q) \/ InsertRequest(q) \/ QueueSync(q) \/ QueueConfirmation(q)
        BY <1>2, <4>1 DEF CreateRequest, UpdateRequest, Link, Unlink, SearchRequest, InsertRequest,
           QueueSync, QueueConfirmation, OnlyRows, OnlyQueue, conversationVars
      <4> QED BY <3>2, <4>1, CallsChanged
    <3>5. Moves(q, {"search", "insert", "sync", "confirm"})
      <4>1. Idle.op = "idle" /\ (Free(q) => req[q].op = "idle")
        BY FreeIsIdle DEF Idle
      <4>2. ASSUME NEW op, At(q, "search") \/ At(q, "insert")
            PROVE  [req[q] EXCEPT !.op = op].op = op
        <5>1. req[q] = [op |-> req[q].op, call |-> req[q].call, outcome |-> req[q].outcome,
                        booking |-> req[q].booking, phone |-> req[q].phone]
          BY <4>2, ConversationParts DEF TypedRequests, At
        <5> QED BY <5>1
      <4>3. CASE \/ AnswerCall(q) \/ TestCall(q) \/ ResolveCall(q) \/ UpdateCall(q)
                 \/ UpdateRequest(q) \/ Link(q) \/ Unlink(q)
        BY <4>1, <4>3 DEF AnswerCall, TestCall, NewCall, ResolveCall, UpdateCall, UpdateRequest,
           Link, Unlink, Moves, taskVars
      <4>4. CASE Complete(q) \/ CreateRequest(q)
        BY <4>1, <4>4 DEF Complete, CreateRequest, Moves
      <4>5. CASE SearchRequest(q)
        BY <4>1, <4>2, <4>5 DEF SearchRequest, Moves, At
      <4>6. CASE InsertRequest(q)
        BY <4>1, <4>6 DEF InsertRequest, Moves, At
      <4>7. CASE QueueSync(q) \/ QueueConfirmation(q)
        BY <4>1, <4>7 DEF QueueSync, QueueConfirmation, Moves, At
      <4> QED BY <3>2, <4>3, <4>4, <4>5, <4>6, <4>7
    <3>6. Keeps(Ours)
      BY <1>1, <3>5, MovesKeep
    <3>7. UNCHANGED <<env, company>>
      BY <2>1, ConversationFrame
    <3> QED BY <3>3, <3>4, <3>6, <3>7 DEF RecordingsAside
  <2>2. CASE /\ LibraryAsked(q) \/ LibraryGoesOn(q)
             /\ UNCHANGED <<conversationVars, accountVars, campaignVars>>
    BY <1>1, <1>3, <2>2, LibraryKeeps
  <2>3. CASE /\ AccountAsked(q) \/ AccountGoesOn(q)
             /\ UNCHANGED <<conversationVars, libraryVars, campaignVars>>
    BY <1>1, <1>3, <2>3, AccountKeeps
  <2>4. CASE /\ CampaignAsked(q) \/ CampaignGoesOn(q)
             /\ UNCHANGED <<conversationVars, libraryVars, accountVars>>
    BY <1>1, <1>3, <2>4, CampaignKeeps
  <2> QED BY <1>4, <2>1, <2>2, <2>3, <2>4 DEF Ask, Serve, Deletes
<1>5. CASE Elsewhere \/ Dies \/ UNCHANGED backOfficeVars \/ \E w \in Workers : Work(w)
  <2>1. Keeps(Ours) /\ UNCHANGED <<env, company>>
    BY <1>1, <1>5, OthersKeep
  <2>2. UNCHANGED <<calls, recordings>>
    <3>1. CASE Elsewhere \/ Dies
      BY <3>1 DEF Elsewhere, Dies, conversationVars
    <3>2. CASE UNCHANGED backOfficeVars
      BY <3>2 DEF backOfficeVars, conversationVars
    <3>3. CASE \E w \in Workers : Work(w)
      <4>1. PICK w \in Workers : Work(w)
        BY <3>3
      <4>2. CASE ConversationTask(w)
        BY <4>2 DEF ConversationTask, StartSync, FindCustomer, MakeCustomer, MakeDocument,
           LogDocument, LogConfirmation, StoreReference, StartConfirmation, SendConfirmation, AtErp, conversationVars
      <4>3. CASE ~ConversationTask(w)
        BY <4>1, <4>3 DEF Work, conversationVars
      <4> QED BY <4>2, <4>3
    <3> QED BY <1>5, <3>1, <3>2, <3>3
  <2> QED BY <1>2, <2>1, <2>2 DEF RecordingsAside
<1> QED BY <1>4, <1>5 DEF Next

LEMMA RecordingsKept ==
  ASSUME Sound, [Next]_backOfficeVars, RecordingsI, RecordingsAside
  PROVE  RecordingsI'
<1>1. /\ UNCHANGED <<env, recordings>> /\ Called \subseteq Called'
      /\ NoUpdates => \A c \in Calls : Named(c)' = Named(c)
      /\ NoUpdates' <=> NoUpdates
      /\ \A q \in Requests : req'[q].op \in {"recorded"} \union DeletionOps => req'[q] = req[q]
      /\ ~Fault("crash") =>
           \A q \in Requests : req[q].op \in {"recorded"} \union DeletionOps => req'[q] = req[q]
  BY RememberedSame DEF RecordingsAside, Keeps
<1>2. Deleted => Deleted'
  BY DeletedStays
<1>3. RecordingsThere'
  <2>1. ASSUME NEW q \in Requests, req'[q].op = "recorded"
        PROVE  req'[q] = req[q] /\ req[q].call \in Calls
    <3>1. req'[q] = req[q]
      BY <1>1, <2>1
    <3> QED BY <2>1, <3>1, ConversationParts DEF Sound, Typed, TypedRequests
  <2>2. ASSUME NEW q \in Requests, req'[q].op = "recorded"
        PROVE  Deleted' \/ (req'[q].call \in recordings' /\ req'[q].call \in Called')
    BY <1>1, <1>2, <2>1, <2>2 DEF RecordingsI, RecordingsThere
  <2>3. ASSUME NoUpdates
        PROVE  /\ \A c \in Calls : Named(c)' \subseteq {c} \intersect recordings'
               /\ \A q \in Requests, c \in Calls, seen \in Call : Saw(q, c, seen)' =>
                    Deleted' \/ RecordingsOf(seen) \subseteq Named(c)'
    <3>1. ASSUME NEW q \in Requests, NEW c \in Calls, NEW seen \in Call, Saw(q, c, seen)'
          PROVE  Saw(q, c, seen)
      BY <2>1, <3>1 DEF Saw
    <3>2. \A q \in Requests, c \in Calls, seen \in Call : Saw(q, c, seen)' =>
            Deleted' \/ RecordingsOf(seen) \subseteq Named(c)'
      BY <1>1, <1>2, <2>3, <3>1 DEF RecordingsI, RecordingsThere
    <3> QED BY <1>1, <2>3, <3>2 DEF RecordingsI, RecordingsThere
  <2> QED BY <1>1, <2>2, <2>3 DEF RecordingsThere
<1>6. NoUpdates => RecordingsNamed' = RecordingsNamed
  <2> SUFFICES ASSUME NoUpdates PROVE \A x : x \in RecordingsNamed' <=> x \in RecordingsNamed
    OBVIOUS
  <2> QED BY <1>1, NamedNow, NamedNext
<1>4. CallsExpected'
  <2>1. Serial' <=> Serial
    BY <1>1 DEF Serial, Fault
  <2> QED BY <1>1, <1>6, <2>1 DEF RecordingsI, CallsExpected, DeletionOps
<1>5. RecordingsAccounted'
  <2> SUFFICES ASSUME Remembered, NEW c \in recordings
               PROVE  c \in RecordingsNamed' \/ \E p \in Requests : RecordingOf(p, c)'
    BY <1>1, RememberedSame DEF RecordingsAccounted
  <2>1. ASSUME NEW p \in Requests, RecordingOf(p, c) PROVE RecordingOf(p, c)'
    BY <1>1, <2>1, RememberedMeans DEF RecordingOf, DeletionOps
  <2> QED BY <1>1, <1>6, <2>1, RememberedMeans DEF RecordingsI, RecordingsAccounted
<1> QED BY <1>3, <1>4, <1>5 DEF RecordingsI

LEMMA RecordingsNext ==
  Sound /\ RecordingsI /\ DeletedFirst /\ [Next]_backOfficeVars => RecordingsI'
<1> SUFFICES ASSUME Sound, RecordingsI, DeletedFirst, [Next]_backOfficeVars PROVE RecordingsI'
  OBVIOUS
<1>1. ASSUME NEW q \in Requests, RecordingsMove(q)
      PROVE  RecordingsI'
  <2>1. /\ UNCHANGED <<env, company>> /\ \A p \in Requests \ {q} : req'[p] = req[p]
        /\ \/ \E c \in Calls : Records(q, c) \/ Remembers(q, c)
           \/ UNCHANGED <<calls, recordings>> /\ req'[q] = req[q]
    BY <1>1, RecordingMoved DEF RecordingsMove
  <2>2. Ask(q) \/ Serve(q)
    BY <1>1 DEF RecordingsMove, RecordingRequest, Ask, Serve, ConversationAsked, ConversationGoesOn
  <2>3. CASE \E c \in Calls : Records(q, c) \/ Remembers(q, c)
    BY <2>1, <2>2, <2>3, RecordingsMoved
  <2>4. CASE UNCHANGED <<calls, recordings>> /\ req'[q] = req[q]
    <3>1. Keeps({"recorded"} \union DeletionOps)
      BY <2>1, <2>4 DEF Keeps
    <3>2. RecordingsAside
      BY <2>1, <2>4, <3>1, NamedSame DEF RecordingsAside
    <3> QED BY <3>2, RecordingsKept
  <2> QED BY <2>1, <2>3, <2>4
<1>2. CASE \A q \in Requests : ~RecordingsMove(q) /\ ~Deletes(q)
  BY <1>2, RecordingsApart, RecordingsKept
<1> QED BY <1>1, <1>2, RecordingsDeleted

-----------------------------------------------------------------------------
(* The audio of campaigns: a row, and whoever will write one, names audio  *)
(* that is stored, until the company has gone.                             *)
Spoken == \A q \in Requests : req[q].op \in {"send_audio", "save_audio"} => req[q].text \in audios
AudiosI == Deleted \/ (Backed("key", audios) /\ Spoken)

LEMMA AudiosNext == Sound /\ AudiosI /\ DeletedFirst /\ [Next]_backOfficeVars => AudiosI'
<1> SUFFICES ASSUME Sound, AudiosI, DeletedFirst, [Next]_backOfficeVars, ~Deleted PROVE AudiosI'
  BY DeletedStays DEF AudiosI
<1> USE DEF Sound
<1>1. PICK S : S = audios
  OBVIOUS
<1>2. PICK T : T = audios'
  OBVIOUS
<1>3. Backed("key", S)
  BY <1>1 DEF AudiosI
<1>4. Spoken
  BY DEF AudiosI
<1>5. Backed("key", T)' /\ Spoken' => AudiosI'
  BY <1>2 DEF AudiosI, Backed, Names
<1>6. ASSUME NEW q \in Requests, CampaignsMove(q)
      PROVE  AudiosI'
  <2>1. CampaignAsked(q) \/ CampaignGoesOn(q)
    BY <1>6 DEF CampaignsMove
  <2>2. S \subseteq T
    BY <1>1, <1>2, <2>1, AudioFirst
  <2>3. req[q].op = "save_audio" => req[q].text \in S
    BY <1>1, <1>4 DEF Spoken
  <2>4. Backed("key", T)'
    BY <1>3, <2>1, <2>2, <2>3, CampaignBacked DEF Audible
  <2>5. Spoken'
    <3>1. /\ req'[q].op = "send_audio" => req'[q].text \in audios' \/ req'[q] = req[q]
          /\ req'[q].op = "save_audio" =>
               (req[q].op = "send_audio" /\ req'[q].text = req[q].text) \/ req'[q] = req[q]
          /\ audios \subseteq audios'
          /\ \A p \in Requests \ {q} :
               req'[p].op \in {"send_audio", "save_audio"} => req'[p] = req[p]
      BY <2>1, AudioFirst
    <3> QED BY <1>4, <3>1 DEF Spoken
  <2> QED BY <1>5, <2>4, <2>5
<1>7. CASE Dial
  <2>1. UNCHANGED <<req, audios>>
    BY <1>7, Dialled
  <2>2. ASSUME NEW k \in Campaigns, campaigns'[k] # None PROVE Names(campaigns'[k], "key", T)
    <3>1. campaigns[k] # None /\ campaigns'[k].key = campaigns[k].key
      BY <1>7, <2>2, Dialled
    <3> QED BY <1>1, <1>2, <1>3, <2>1, <3>1 DEF Backed, Names
  <2>3. Backed("key", T)'
    BY <1>1, <1>2, <1>3, <2>1, <2>2 DEF Backed, Names
  <2> QED BY <1>4, <1>5, <2>1, <2>3 DEF Spoken
<1>8. CASE ~Dial /\ \A q \in Requests : ~CampaignsMove(q)
  <2>1. /\ RowsKept /\ Keeps(CampaignOps)
        /\ UNCHANGED audios \/ \E q \in Requests : DeleteFiles(q)
    BY <1>8, CampaignsApart
  <2>2. UNCHANGED audios
    BY <2>1 DEF DeletedFirst, DeleteFiles, At
  <2>3. Backed("key", T)'
    BY <1>1, <1>2, <1>3, <2>1, <2>2, BackedKept
  <2>4. Spoken'
    BY <1>4, <2>1, <2>2 DEF Spoken, Keeps, CampaignOps
  <2> QED BY <1>5, <2>3, <2>4
<1> QED BY <1>6, <1>7, <1>8

StorageI == Sound /\ DeletedFirst /\ FilesI /\ RecordingsI /\ AudiosI

LEMMA StorageInit == Init => StorageI
<1> SUFFICES ASSUME Init PROVE StorageI
  OBVIOUS
<1>1. /\ \A k \in Campaigns : campaigns[k] = None
      /\ \A q \in Requests : req[q].op = "idle"
      /\ Existing = {} /\ objects = {} /\ recordings = {} /\ \A c \in Calls : Named(c) = {}
  BY DEF Init, TasksInit, CampaignsInit, LibraryInit, ConversationsInit, Existing, Named
<1>2. DeletedFirst /\ FilesI
  BY <1>1 DEF DeletedFirst, FilesI, FilesThere, DocumentsExpected, FilesAccounted, Removing
<1>3. RecordingsI
  BY <1>1 DEF RecordingsI, RecordingsThere, Saw, CallsExpected, RecordingsAccounted
<1>4. AudiosI
  BY <1>1 DEF AudiosI, Backed, Spoken, CampaignOps
<1> QED BY <1>2, <1>3, <1>4, SoundInit DEF StorageI

LEMMA StorageNext == StorageI /\ [Next]_backOfficeVars => StorageI'
<1> SUFFICES ASSUME StorageI, [Next]_backOfficeVars PROVE StorageI'
  OBVIOUS
<1>1. Sound /\ DeletedFirst /\ FilesI /\ RecordingsI /\ AudiosI
  BY DEF StorageI
<1>2. Sound'
  BY <1>1, SoundNext
<1>3. FilesI' /\ DeletedFirst'
  BY <1>1, FilesNext
<1>4. RecordingsI'
  BY <1>1, RecordingsNext
<1>5. AudiosI'
  BY <1>1, AudiosNext
<1> QED BY <1>2, <1>3, <1>4, <1>5 DEF StorageI

(* A row never names a file that is not in the object storage, whatever    *)
(* dies, fails or overlaps, also while the company is deleted, unless an   *)
(* upload cannot read the row it has committed, or a user writes the name  *)
(* of a recording into a call; and without overlap, deaths, lost answers   *)
(* and failed removals, a file that no row names belongs to a request that *)
(* will name it or remove it, where the commits between the two succeed.   *)
THEOREM RowsAndFilesMatch == Spec => []StorageMatches
<1>1. StorageI => StorageMatches
  <2> SUFFICES ASSUME StorageI PROVE StorageMatches
    OBVIOUS
  <2> USE DEF StorageI
  <2>1. ~Fault("reread") => \A d \in Documents \ External : documents[d] # None => d \in objects
    BY DEF FilesI, FilesThere, Existing
  <2>2. ~Asked("update_call") => RecordingsNamed \subseteq recordings
    BY NamedNow DEF RecordingsI, RecordingsThere, NoUpdates
  <2>3. KeysOf \subseteq audios
    <3>1. \A k \in Campaigns : campaigns[k] # None => campaigns[k].key \in audios \union {None}
      BY DEF AudiosI, Backed, Names, Deleted, Sound, Cleared
    <3> QED BY <3>1 DEF KeysOf
  <2>4. ASSUME Removed, NEW d \in objects
        PROVE  d \in {f \in Documents : documents[f] # None}
                 \union (UNION {FilesOf(q) : q \in Working(OnDocument)})
                 \union (UNION {req[q].documents : q \in Working({"delete_files"})})
    <3>1. d \in Existing \/ \E q \in Requests : FileOf(q, d)
      BY <2>4 DEF FilesI, FilesAccounted
    <3>2. d \notin External
      BY DEF FilesI, FilesThere
    <3> QED BY <3>1, <3>2 DEF Existing, FileOf, FilesOf, Working
  <2>5. ASSUME Remembered, NEW c \in recordings
        PROVE  c \in RecordingsNamed
                 \union {req[q].call : q \in Working({"recorded"})}
                 \union (UNION {req[q].calls : q \in Working({"delete_files"})})
    <3>1. c \in RecordingsNamed \/ \E q \in Requests : RecordingOf(q, c)
      BY <2>5 DEF RecordingsI, RecordingsAccounted
    <3> QED BY <3>1 DEF RecordingOf, Working
  <2> QED BY <2>1, <2>2, <2>3, <2>4, <2>5 DEF StorageMatches, Removed, Remembered, NoUpdates, Tidy
<1> QED BY <1>1, StorageInit, StorageNext, PTL DEF Spec
=============================================================================
