------------------------------- MODULE Campaigns -------------------------------
(***************************************************************************)
(* Setting up outbound campaigns: what they say and its audio, whom they   *)
(* call, the do-not-call list, and the requests that launch, pause, resume *)
(* and cancel them.  A request loads a campaign and later writes only the  *)
(* columns that differ from what it loaded.                                *)
(*                                                                         *)
(* Dialling, OutboundDispatch's subject, is here only what it does to a    *)
(* campaign.  Of a contact only counts whether it may be called, so that   *)
(* cancelling, which marks those not called yet, shows in the status alone.*)
(***************************************************************************)
EXTENDS Tasks

CONSTANTS
  Campaigns,  \* identities of campaigns
  Created,    \* those users create; the others are of single calls and tests
  Texts,      \* what a broadcast says, and in which voice
  Numbers     \* telephone numbers of contacts

ASSUME CampaignsAssumption ==
  None \notin Texts \union {"callable", "blocked"} /\ Created \subseteq Campaigns

CampaignStatus ==
  {"draft", "ready", "scheduled", "running", "paused", "completed", "cancelled", "failed"}

(* media names the audio a broadcast plays, key the object it was stored   *)
(* under.  Both are made from a hash of text and voice.                    *)
Audio == Texts \union {None}
Campaign == [status : CampaignStatus, kind : {"ai", "broadcast"},
             text : Audio, media : Audio, key : Audio]

(* launches: the request goes on to start the campaign.                    *)
CampaignRequest ==
  [op : {"edit"}, campaign : Campaigns, seen : Campaign, text : Audio]
  \union [op : {"store_audio", "send_audio", "save_audio"}, campaign : Campaigns,
          seen : Campaign, text : Texts, launches : BOOLEAN]
  \union [op : {"import"}, campaign : Campaigns, seen : Campaign,
          removed : SUBSET Numbers, file : SUBSET Numbers, marked : SUBSET Numbers]
  \union [op : {"save_import"}, campaign : Campaigns, seen : Campaign,
          removed : SUBSET Numbers, found : SUBSET Numbers,
          added : SUBSET Numbers, blocked : SUBSET Numbers]
  \union [op : {"launch", "save_launch", "set_status"}, campaign : Campaigns,
          seen : Campaign, to : CampaignStatus]
  \union [op : {"add_contact"}, campaign : Campaigns, seen : Campaign, new : Campaign, number : Numbers]

CampaignOperations ==
  {"create_campaign", "edit", "import", "audio", "launch", "pause", "resume", "cancel",
   "single_call", "campaign_test", "add_dnc", "delete_dnc", "dial"}

VARIABLES
  campaigns,  \* rows of campaigns, None where there is none
  contacts,   \* their recipients: None, "callable" or "blocked"
  listed,     \* numbers on the do-not-call list
  audios,     \* audio in the object storage
  atAsterisk  \* audio Asterisk has

campaignVars == <<campaigns, contacts, listed, audios, atAsterisk>>

CampaignsTypeOK ==
  /\ campaigns \in [Campaigns -> Campaign \union {None}]
  /\ contacts \in [Campaigns -> [Numbers -> {None, "callable", "blocked"}]]
  /\ listed \subseteq Numbers
  /\ audios \subseteq Texts /\ atAsterisk \subseteq Texts

NoContacts == [k \in Campaigns |-> [n \in Numbers |-> None]]
CampaignsInit ==
  /\ campaigns = [k \in Campaigns |-> None]
  /\ contacts = NoContacts
  /\ listed = {}
  /\ audios = {} /\ atAsterisk = {}

-----------------------------------------------------------------------------
OnlyRequest == UNCHANGED <<env, company, queue, job>>
OnlyCampaigns == OnlyRequest /\ UNCHANGED <<contacts, listed, audios, atAsterisk>>
Loads(q, op, k) == Free(q) /\ Asked(op) /\ campaigns[k] # None
GoOn(q, op) == Become(q, [req[q] EXCEPT !.op = op])
ContactsOf(k) == {n \in Numbers : contacts[k][n] # None}
CallableOf(k) == {n \in Numbers : contacts[k][n] = "callable"}

(* The write of a request that loaded seen and set some columns.  A row    *)
(* deleted meanwhile makes it raise.                                       *)
Save(k, seen, new) ==
  campaigns' = IF campaigns[k] = None THEN campaigns
               ELSE [campaigns EXCEPT ![k] =
                       [c \in DOMAIN new |-> Written(campaigns[k][c], seen[c], new[c])]]

Blank(kind, text) ==
  [status |-> "draft", kind |-> kind, text |-> text, media |-> None, key |-> None]
Insert(k, kind, text) ==
  /\ company # None /\ campaigns[k] = None
  /\ campaigns' = [campaigns EXCEPT ![k] = Blank(kind, text)]

(* A broadcast needs a text; that of a conversation with AI is left out.   *)
Sayings == {<<"ai", None>>} \union ({"broadcast"} \X Texts)

CreateCampaign(q) ==
  /\ Free(q) /\ Asked("create_campaign")
  /\ \E k \in Created, s \in Sayings : Insert(k, s[1], s[2])
  /\ UNCHANGED req /\ OnlyCampaigns

-----------------------------------------------------------------------------
(* Editing the text makes the audio stale.                                 *)
LoadEdit(q) ==
  /\ \E k \in Campaigns, t \in Audio :
       /\ Loads(q, "edit", k)
       /\ campaigns[k].status \in {"draft", "ready", "paused"}
       /\ campaigns[k].kind = "broadcast"
       /\ Become(q, [op |-> "edit", campaign |-> k, seen |-> campaigns[k], text |-> t])
  /\ UNCHANGED campaigns /\ OnlyCampaigns

MutantEdit(q) ==
  /\ At(q, "edit")
  /\ LET r == req[q] IN Save(r.campaign, r.seen, [r.seen EXCEPT !.text = r.text])
  /\ Become(q, Idle)
  /\ OnlyCampaigns

Edit(q) ==
  /\ At(q, "edit")
  /\ LET r == req[q] IN
       Save(r.campaign, r.seen, [r.seen EXCEPT !.text = r.text, !.media = None])
  /\ Become(q, Idle)
  /\ OnlyCampaigns

(* Audio for a new text or for the one there is, in any status: spoken,    *)
(* stored, sent to Asterisk, and only then is anything written.            *)
Speak(k, seen, text, launches) ==
  [op |-> "store_audio", campaign |-> k, seen |-> seen, text |-> text, launches |-> launches]

LoadAudio(q) ==
  /\ \E k \in Campaigns, t \in Texts :
       /\ Loads(q, "audio", k)
       /\ campaigns[k].kind = "broadcast"
       /\ Become(q, Speak(k, campaigns[k], t, FALSE))
  /\ UNCHANGED campaigns /\ OnlyCampaigns

StoreAudio(q) ==
  /\ At(q, "store_audio")
  /\ \/ audios' = audios \union {req[q].text} /\ GoOn(q, "send_audio")
     \/ Fault("lost") /\ audios' = audios \union {req[q].text} /\ Become(q, Idle)
     \/ Fault("refuse") /\ UNCHANGED audios /\ Become(q, Idle)
  /\ UNCHANGED <<campaigns, contacts, listed, atAsterisk>> /\ OnlyRequest

SendAudio(q) ==
  /\ At(q, "send_audio")
  /\ \/ atAsterisk' = atAsterisk \union {req[q].text} /\ GoOn(q, "save_audio")
     \/ Fault("lost") /\ atAsterisk' = atAsterisk \union {req[q].text} /\ Become(q, Idle)
     \/ Fault("refuse") /\ UNCHANGED atAsterisk /\ Become(q, Idle)
  /\ UNCHANGED <<campaigns, contacts, listed, audios>> /\ OnlyRequest

Starts(k, seen) == [op |-> "launch", campaign |-> k, seen |-> seen, to |-> "running"]

SaveAudio(q) ==
  /\ At(q, "save_audio")
  /\ LET r == req[q]
         new == [r.seen EXCEPT !.text = r.text, !.media = r.text, !.key = r.text] IN
       /\ Save(r.campaign, r.seen, new)
       /\ Become(q, IF r.launches /\ campaigns[r.campaign] # None
                      THEN Starts(r.campaign, new) ELSE Idle)
  /\ OnlyCampaigns

-----------------------------------------------------------------------------
(* A file of contacts: its valid numbers, some marked not to be called.  A *)
(* replacement deletes the contacts there are, in the transaction that     *)
(* will add the new ones.                                                  *)
LoadImport(q) ==
  /\ \E k \in Campaigns, file \in SUBSET Numbers, marked \in SUBSET Numbers, all \in BOOLEAN :
       /\ Loads(q, "import", k)
       /\ campaigns[k].status \in {"draft", "ready"}
       /\ marked \subseteq file
       /\ Become(q, [op |-> "import", campaign |-> k, seen |-> campaigns[k],
                     removed |-> IF all THEN ContactsOf(k) ELSE {},
                     file |-> file, marked |-> marked])
  /\ UNCHANGED campaigns /\ OnlyCampaigns

(* A DELETE waits for one that has deleted a row it finds.                 *)
Deleting(k) == {q \in Working({"save_import"}) : req[q].campaign = k}
ReadImport(q) ==
  /\ At(q, "import")
  /\ LET r == req[q]
         found == ContactsOf(r.campaign) \ r.removed IN
       /\ \A p \in Deleting(r.campaign) : req[p].removed \intersect r.removed = {}
       /\ Become(q, [op |-> "save_import", campaign |-> r.campaign, seen |-> r.seen,
                     removed |-> r.removed, found |-> found, added |-> r.file \ found,
                     blocked |-> (r.file \ found) \intersect (listed \union r.marked)])
  /\ UNCHANGED campaigns /\ OnlyCampaigns

(* What remains to be deleted for one that waited: not what is new.        *)
Forget(q, k, gone) ==
  req' = [p \in Requests |->
            IF p = q THEN Idle
            ELSE IF At(p, "import") /\ req[p].campaign = k
              THEN [req[p] EXCEPT !.removed = @ \ gone] ELSE req[p]]

(* A number added meanwhile by another fails the whole import.             *)
SaveImport(q) ==
  /\ At(q, "save_import")
  /\ LET r == req[q]  k == r.campaign
         rest == ContactsOf(k) \ r.removed IN
       IF campaigns[k] = None \/ r.added \intersect rest # {}
         THEN UNCHANGED <<campaigns, contacts>> /\ Become(q, Idle)
         ELSE /\ contacts' = [contacts EXCEPT ![k] =
                   [n \in Numbers |-> IF n \in r.blocked THEN "blocked"
                                      ELSE IF n \in r.added THEN "callable"
                                      ELSE IF n \in rest THEN contacts[k][n] ELSE None]]
              /\ Save(k, r.seen, [r.seen EXCEPT !.status =
                   IF r.added \union r.found # {} THEN "ready" ELSE "draft"])
              /\ Forget(q, k, r.removed)
  /\ UNCHANGED <<listed, audios, atAsterisk>> /\ OnlyRequest

AddDnc(q) ==
  /\ Free(q) /\ Asked("add_dnc") /\ company # None
  /\ \E n \in Numbers \ listed : listed' = listed \union {n}
  /\ UNCHANGED <<req, campaigns, contacts, audios, atAsterisk>> /\ OnlyRequest

DeleteDnc(q) ==
  /\ Free(q) /\ Asked("delete_dnc")
  /\ \E n \in listed : listed' = listed \ {n}
  /\ UNCHANGED <<req, campaigns, contacts, audios, atAsterisk>> /\ OnlyRequest

-----------------------------------------------------------------------------
(* Launching, from any status: the subscription is locked until the status *)
(* is written, and may have no minutes left; contacts are counted then,    *)
(* but the audio is what was loaded.                                       *)
LoadLaunch(q) ==
  /\ \E k \in Campaigns, to \in {"scheduled", "running"} :
       /\ Loads(q, "launch", k)
       /\ Become(q, [Starts(k, campaigns[k]) EXCEPT !.to = to])
  /\ UNCHANGED campaigns /\ OnlyCampaigns

Unlocked == Working({"save_launch"}) = {}

Launch(q) ==
  /\ At(q, "launch") /\ Unlocked
  /\ LET r == req[q] IN
       \/ /\ CallableOf(r.campaign) # {}
          /\ r.seen.kind = "ai" \/ r.seen.media # None
          /\ GoOn(q, "save_launch")
       \/ Become(q, Idle)
  /\ UNCHANGED campaigns /\ OnlyCampaigns

SaveLaunch(q) ==
  /\ At(q, "save_launch")
  /\ LET r == req[q] IN Save(r.campaign, r.seen, [r.seen EXCEPT !.status = r.to])
  /\ Become(q, Idle)
  /\ OnlyCampaigns

Allowed(op) ==
  CASE op = "pause" -> {"running", "scheduled"}
    [] op = "resume" -> {"paused"}
    [] op = "cancel" -> {"draft", "ready", "scheduled", "running", "paused"}
Target(op) ==
  CASE op = "pause" -> "paused" [] op = "resume" -> "running" [] op = "cancel" -> "cancelled"

LoadStatus(q) ==
  /\ \E k \in Campaigns, op \in {"pause", "resume", "cancel"} :
       /\ Loads(q, op, k)
       /\ campaigns[k].status \in Allowed(op)
       /\ Become(q, [op |-> "set_status", campaign |-> k, seen |-> campaigns[k],
                     to |-> Target(op)])
  /\ UNCHANGED campaigns /\ OnlyCampaigns

(* Resuming waits for the lock too, and looks at nothing but minutes.      *)
SetStatus(q) ==
  /\ At(q, "set_status")
  /\ LET r == req[q] IN
       \/ /\ r.to = "running" => Unlocked
          /\ Save(r.campaign, r.seen, [r.seen EXCEPT !.status = r.to])
       \/ r.to = "running" /\ UNCHANGED campaigns
  /\ Become(q, Idle)
  /\ OnlyCampaigns

-----------------------------------------------------------------------------
(* A single call is a campaign of its own: created, given its contact, if  *)
(* need be its audio, and started.  So is a test of a campaign, which      *)
(* takes over the audio of its model.  The list is looked at first.        *)
Unlisted == Numbers \ listed
AddsContact(k, number, seen, media, key) ==
  [op |-> "add_contact", campaign |-> k, number |-> number, seen |-> seen,
   new |-> [seen EXCEPT !.status = "ready", !.media = media, !.key = key]]

SingleCall(q) ==
  /\ Free(q) /\ Asked("single_call")
  /\ \E k \in Campaigns \ Created, s \in Sayings, n \in Unlisted :
       /\ Insert(k, s[1], s[2])
       /\ Become(q, AddsContact(k, n, Blank(s[1], s[2]), None, None))
  /\ OnlyCampaigns

TestCampaign(q) ==
  /\ \E k \in Campaigns, t \in Campaigns \ Created, n \in Unlisted :
       LET model == campaigns[k] IN
       /\ Loads(q, "campaign_test", k)
       /\ model.kind = "ai" \/ (model.media # None /\ model.text # None)
       /\ Insert(t, model.kind, model.text)
       /\ Become(q, AddsContact(t, n, Blank(model.kind, model.text), model.media, model.key))
  /\ OnlyCampaigns

AddContact(q) ==
  /\ At(q, "add_contact")
  /\ LET r == req[q]  k == r.campaign IN
       IF campaigns[k] = None \/ contacts[k][r.number] # None
         THEN UNCHANGED <<campaigns, contacts>> /\ Become(q, Idle)
         ELSE /\ Save(k, r.seen, r.new)
              /\ contacts' = [contacts EXCEPT ![k][r.number] = "callable"]
              /\ Become(q, IF r.new.kind = "broadcast" /\ r.new.media = None
                             THEN Speak(k, r.new, r.new.text, TRUE) ELSE Starts(k, r.new))
  /\ UNCHANGED <<listed, audios, atAsterisk>> /\ OnlyRequest

-----------------------------------------------------------------------------
(* Dialling: Beat starts what is due; a running campaign is finished, runs *)
(* out of minutes or loses its number; a contact opts out.                 *)
Dial ==
  /\ Asked("dial")
  /\ \E k \in Campaigns :
       /\ campaigns[k] # None
       /\ \/ /\ campaigns[k].status = "scheduled"
             /\ campaigns' = [campaigns EXCEPT ![k].status = "running"]
             /\ UNCHANGED <<contacts, listed>>
          \/ /\ campaigns[k].status = "running"
             /\ \E s \in {"completed", "paused", "failed"} :
                  campaigns' = [campaigns EXCEPT ![k].status = s]
             /\ UNCHANGED <<contacts, listed>>
          \/ /\ campaigns[k].status = "running"
             /\ \E n \in CallableOf(k) :
                  /\ contacts' = [contacts EXCEPT ![k][n] = "blocked"]
                  /\ listed' = listed \union {n}
             /\ UNCHANGED campaigns
  /\ UNCHANGED <<req, audios, atAsterisk>> /\ OnlyRequest

CampaignAsked(q) ==
  \/ CreateCampaign(q) \/ LoadEdit(q) \/ LoadAudio(q) \/ LoadImport(q)
  \/ AddDnc(q) \/ DeleteDnc(q) \/ LoadLaunch(q) \/ LoadStatus(q)
  \/ SingleCall(q) \/ TestCampaign(q)

CampaignGoesOn(q) ==
  \/ Edit(q) \/ StoreAudio(q) \/ SendAudio(q) \/ SaveAudio(q)
  \/ ReadImport(q) \/ SaveImport(q) \/ Launch(q) \/ SaveLaunch(q)
  \/ SetStatus(q) \/ AddContact(q)

-----------------------------------------------------------------------------
(* What a campaign is about to play is at Asterisk, whatever overlaps.  As *)
(* long as requests do not overlap, the audio also says what the campaign  *)
(* says now, through any sequence of edits, generations that fail half-way *)
(* and tests; and a campaign that is scheduled or running has contacts     *)
(* and, if it is a broadcast, audio.  The one exception: a paused campaign *)
(* may be edited, which takes its audio, and resumed without.              *)
Pausable == Asked("pause") \/ Asked("dial")
BroadcastsReady ==
  \A k \in Campaigns : campaigns[k] # None =>
    LET c == campaigns[k] IN
    /\ c.media # None => c.media \in atAsterisk
    /\ ~Fault("parallel") =>
         /\ c.media \in {None, c.text}
         /\ c.status \in {"scheduled", "running"} =>
              /\ ContactsOf(k) # {}
              /\ c.kind = "broadcast" /\ ~(Asked("edit") /\ Pausable) => c.media # None
=============================================================================
