---------------------------- MODULE CampaignsProofs ----------------------------
(***************************************************************************)
(* What a campaign is about to play is where it is looked for, for any     *)
(* number of campaigns, texts, numbers and requests, and whatever overlaps,*)
(* fails or dies; and, as long as requests do not overlap, it is what the  *)
(* campaign says, and a campaign that is dialled has whom to call.         *)
(***************************************************************************)
EXTENDS BackOfficeProofs

(* A campaign names its audio twice: media at Asterisk, key in the object  *)
(* storage.  Rows, and what requests have loaded and will write back, name *)
(* only audio of S, where S is what there is of the one or the other.      *)
Audible == {"media", "key"}
Names(row, f, S) == row[f] \in S \union {None}
Backed(f, S) ==
  /\ \A k \in Campaigns : campaigns[k] # None => Names(campaigns[k], f, S)
  /\ \A q \in Requests :
       /\ req[q].op \in CampaignOps => Names(req[q].seen, f, S)
       /\ req[q].op = "add_contact" => Names(req[q].new, f, S)

LEMMA SaveNames ==
  ASSUME CampaignsTypeOK, NEW k \in Campaigns, NEW seen \in Campaign, NEW new \in Campaign,
         Save(k, seen, new), NEW f \in Audible, NEW S,
         \A j \in Campaigns : campaigns[j] # None => Names(campaigns[j], f, S),
         Names(new, f, S)
  PROVE  \A j \in Campaigns : campaigns'[j] # None => Names(campaigns'[j], f, S)
<1>1. SUFFICES ASSUME campaigns[k] # None PROVE Names(campaigns'[k], f, S)
  BY SaveParts
<1>2. campaigns'[k] =
        [status |-> Written(campaigns[k].status, seen.status, new.status),
         kind |-> Written(campaigns[k].kind, seen.kind, new.kind),
         text |-> Written(campaigns[k].text, seen.text, new.text),
         media |-> Written(campaigns[k].media, seen.media, new.media),
         key |-> Written(campaigns[k].key, seen.key, new.key)]
  BY <1>1, SaveParts
<1>3. CASE f = "media"
  <2>1. campaigns'[k].media = Written(campaigns[k].media, seen.media, new.media)
    BY <1>2
  <2> QED BY <1>1, <1>3, <2>1 DEF Names, Written
<1>4. CASE f = "key"
  <2>1. campaigns'[k].key = Written(campaigns[k].key, seen.key, new.key)
    BY <1>2
  <2> QED BY <1>1, <1>4, <2>1 DEF Names, Written
<1> QED BY <1>3, <1>4 DEF Audible

-----------------------------------------------------------------------------
(* What a request has loaded, and what it was loaded for.                  *)
Loading(q) ==
  LET r == req'[q]  row == campaigns[r.campaign] IN
  /\ r.campaign \in Campaigns /\ row # None /\ r.seen = row
  /\ r.op \in {"edit", "store_audio", "import", "launch", "set_status"}
  /\ r.op = "edit" => row.status \in {"draft", "ready", "paused"} /\ Asked("edit")
  /\ r.op = "import" => row.status \in {"draft", "ready"}
  /\ r.op = "launch" => r.to \in {"scheduled", "running"}
  /\ r.op = "set_status" =>
       /\ r.to \in {"paused", "running", "cancelled"}
       /\ r.to = "paused" => Asked("pause") /\ row.status \in {"running", "scheduled"}
       /\ r.to = "running" => row.status = "paused"

LEMMA LoadsRow ==
  ASSUME Typed, NEW q \in Requests,
         LoadEdit(q) \/ LoadAudio(q) \/ LoadImport(q) \/ LoadLaunch(q) \/ LoadStatus(q)
  PROVE  Loading(q) /\ UNCHANGED <<env, company, campaignVars>>
<1> USE DEF Loading
<1>1. ASSUME NEW d, Become(q, d) PROVE req'[q] = d
  BY <1>1 DEF Become, Typed, TypedRequests
<1>2. UNCHANGED <<env, company, campaignVars>>
  BY DEF LoadEdit, LoadAudio, LoadImport, LoadLaunch, LoadStatus, OnlyCampaigns, OnlyRequest,
         campaignVars
<1>3. CASE LoadEdit(q)
  <2>1. PICK k \in Campaigns, t \in Audio :
          /\ campaigns[k] # None /\ campaigns[k].status \in {"draft", "ready", "paused"}
          /\ Asked("edit")
          /\ Become(q, [op |-> "edit", campaign |-> k, seen |-> campaigns[k], text |-> t])
    BY <1>3 DEF LoadEdit, Loads
  <2>2. req'[q] = [op |-> "edit", campaign |-> k, seen |-> campaigns[k], text |-> t]
    BY <1>1, <2>1
  <2> QED BY <1>2, <2>1, <2>2
<1>4. CASE LoadAudio(q)
  <2>1. PICK k \in Campaigns, t \in Texts :
          campaigns[k] # None /\ Become(q, Speak(k, campaigns[k], t, FALSE))
    BY <1>4 DEF LoadAudio, Loads
  <2>2. /\ req'[q].op = "store_audio" /\ req'[q].campaign = k
        /\ req'[q].seen = campaigns[k]
    BY <1>1, <2>1 DEF Speak
  <2> QED BY <1>2, <2>1, <2>2
<1>5. CASE LoadImport(q)
  <2>1. PICK k \in Campaigns, file \in SUBSET Numbers, marked \in SUBSET Numbers, all \in BOOLEAN :
          /\ campaigns[k] # None /\ campaigns[k].status \in {"draft", "ready"}
          /\ Become(q, [op |-> "import", campaign |-> k, seen |-> campaigns[k],
                        removed |-> IF all THEN ContactsOf(k) ELSE {},
                        file |-> file, marked |-> marked])
    BY <1>5 DEF LoadImport, Loads
  <2>2. req'[q].op = "import" /\ req'[q].campaign = k /\ req'[q].seen = campaigns[k]
    BY <1>1, <2>1
  <2> QED BY <1>2, <2>1, <2>2
<1>6. CASE LoadLaunch(q)
  <2>1. PICK k \in Campaigns, to \in {"scheduled", "running"} :
          campaigns[k] # None /\ Become(q, [Starts(k, campaigns[k]) EXCEPT !.to = to])
    BY <1>6 DEF LoadLaunch, Loads
  <2>2. [Starts(k, campaigns[k]) EXCEPT !.to = to]
          = [op |-> "launch", campaign |-> k, seen |-> campaigns[k], to |-> to]
    BY DEF Starts
  <2>3. /\ req'[q].op = "launch" /\ req'[q].campaign = k /\ req'[q].seen = campaigns[k]
        /\ req'[q].to = to
    BY <1>1, <2>1, <2>2
  <2> QED BY <1>2, <2>1, <2>3
<1>7. CASE LoadStatus(q)
  <2>1. PICK k \in Campaigns, op \in {"pause", "resume", "cancel"} :
          /\ campaigns[k] # None /\ campaigns[k].status \in Allowed(op) /\ Asked(op)
          /\ Become(q, [op |-> "set_status", campaign |-> k, seen |-> campaigns[k],
                        to |-> Target(op)])
    BY <1>7 DEF LoadStatus, Loads
  <2>2. /\ req'[q].op = "set_status" /\ req'[q].campaign = k /\ req'[q].seen = campaigns[k]
        /\ req'[q].to = Target(op)
    BY <1>1, <2>1
  <2>3. CASE op = "pause"
    <3>1. Target(op) = "paused" /\ Allowed(op) = {"running", "scheduled"}
      BY <2>3 DEF Target, Allowed
    <3> QED BY <1>2, <2>1, <2>2, <2>3, <3>1
  <2>4. CASE op = "resume"
    <3>1. Target(op) = "running" /\ Allowed(op) = {"paused"}
      BY <2>4 DEF Target, Allowed
    <3> QED BY <1>2, <2>1, <2>2, <3>1
  <2>5. CASE op = "cancel"
    <3>1. Target(op) = "cancelled"
      BY <2>5 DEF Target
    <3> QED BY <1>2, <2>1, <2>2, <3>1
  <2> QED BY <2>1, <2>3, <2>4, <2>5
<1> QED BY <1>3, <1>4, <1>5, <1>6, <1>7

(* A request goes on with what it had loaded.                              *)
SameRow(q) == req'[q].campaign = req[q].campaign /\ req'[q].seen = req[q].seen

LEMMA AudioGoesOn ==
  ASSUME Typed, NEW q \in Requests, StoreAudio(q) \/ SendAudio(q)
  PROVE  /\ UNCHANGED <<env, company, campaigns, contacts>>
         /\ audios \subseteq audios' /\ atAsterisk \subseteq atAsterisk'
         /\ \/ req'[q] = Idle
            \/ /\ SameRow(q) /\ req'[q].text = req[q].text
               /\ \/ /\ req[q].op = "store_audio" /\ req'[q].op = "send_audio"
                     /\ req[q].text \in audios'
                  \/ /\ req[q].op = "send_audio" /\ req'[q].op = "save_audio"
                     /\ req[q].text \in atAsterisk'
<1>1. ASSUME NEW d, Become(q, d) PROVE req'[q] = d
  BY <1>1 DEF Become, Typed, TypedRequests
<1>2. req[q] \in AnyRequest
  BY DEF Typed, TypedRequests
<1>3. UNCHANGED <<env, company, campaigns, contacts>>
  BY DEF StoreAudio, SendAudio, OnlyRequest
<1>4. audios \subseteq audios' /\ atAsterisk \subseteq atAsterisk'
  BY DEF StoreAudio, SendAudio
<1>5. ASSUME req[q].op \in {"store_audio", "send_audio"},
             NEW op \in {"send_audio", "save_audio"}, GoOn(q, op)
      PROVE  SameRow(q) /\ req'[q].text = req[q].text /\ req'[q].op = op
  <2>1. [req[q] EXCEPT !.op = op] = [op |-> op, campaign |-> req[q].campaign,
           seen |-> req[q].seen, text |-> req[q].text, launches |-> req[q].launches]
    BY <1>2, <1>5, SpeaksOn
  <2>2. req'[q] = [op |-> op, campaign |-> req[q].campaign,
           seen |-> req[q].seen, text |-> req[q].text, launches |-> req[q].launches]
    BY <1>1, <1>5, <2>1 DEF GoOn
  <2> QED BY <2>2 DEF SameRow
<1>6. CASE StoreAudio(q)
  <2>1. CASE Become(q, Idle)
    BY <1>1, <1>3, <1>4, <2>1
  <2>2. CASE ~Become(q, Idle)
    <3>1. GoOn(q, "send_audio") /\ req[q].op = "store_audio" /\ req[q].text \in audios'
      BY <1>6, <2>2 DEF StoreAudio, At
    <3> QED BY <1>3, <1>4, <1>5, <3>1
  <2> QED BY <2>1, <2>2
<1>7. CASE SendAudio(q)
  <2>1. CASE Become(q, Idle)
    BY <1>1, <1>3, <1>4, <2>1
  <2>2. CASE ~Become(q, Idle)
    <3>1. GoOn(q, "save_audio") /\ req[q].op = "send_audio" /\ req[q].text \in atAsterisk'
      BY <1>7, <2>2 DEF SendAudio, At
    <3> QED BY <1>3, <1>4, <1>5, <3>1
  <2> QED BY <2>1, <2>2
<1> QED BY <1>6, <1>7

LEMMA ImportGoesOn ==
  ASSUME Typed, NEW q \in Requests, ReadImport(q)
  PROVE  /\ UNCHANGED <<env, company, campaignVars>>
         /\ SameRow(q) /\ req[q].op = "import" /\ req'[q].op = "save_import"
<1>1. ASSUME NEW d, Become(q, d) PROVE req'[q] = d
  BY <1>1 DEF Become, Typed, TypedRequests
<1> QED BY <1>1 DEF ReadImport, At, SameRow, OnlyCampaigns, OnlyRequest, campaignVars

LEMMA LaunchGoesOn ==
  ASSUME Typed, NEW q \in Requests, Launch(q)
  PROVE  /\ UNCHANGED <<env, company, campaignVars>>
         /\ \/ req'[q] = Idle
            \/ /\ SameRow(q) /\ req[q].op = "launch" /\ req'[q].op = "save_launch"
               /\ req'[q].to = req[q].to
               /\ CallableOf(req[q].campaign) # {}
               /\ req[q].seen.kind = "ai" \/ req[q].seen.media # None
<1>1. ASSUME NEW d, Become(q, d) PROVE req'[q] = d
  BY <1>1 DEF Become, Typed, TypedRequests
<1>2. UNCHANGED <<env, company, campaignVars>>
  BY DEF Launch, OnlyCampaigns, OnlyRequest, campaignVars
<1>3. CASE Become(q, Idle)
  BY <1>1, <1>2, <1>3
<1>4. CASE ~Become(q, Idle)
  <2>1. /\ GoOn(q, "save_launch") /\ req[q].op = "launch"
        /\ CallableOf(req[q].campaign) # {}
        /\ req[q].seen.kind = "ai" \/ req[q].seen.media # None
    BY <1>4 DEF Launch, At
  <2>2. [req[q] EXCEPT !.op = "save_launch"] = [op |-> "save_launch",
           campaign |-> req[q].campaign, seen |-> req[q].seen, to |-> req[q].to]
    BY <2>1, LaunchesOn DEF Typed, TypedRequests
  <2>3. req'[q] = [op |-> "save_launch", campaign |-> req[q].campaign, seen |-> req[q].seen,
                   to |-> req[q].to]
    BY <1>1, <2>1, <2>2 DEF GoOn
  <2> QED BY <1>2, <2>1, <2>3 DEF SameRow
<1> QED BY <1>3, <1>4

(* What a request writes, and how it goes on from there.                   *)
EditsRow(q, new) ==
  /\ req[q].op = "edit" /\ req'[q] = Idle
  /\ new.status = req[q].seen.status /\ new.media = None /\ new.key = req[q].seen.key
AudioToRow(q, new) ==
  /\ req[q].op = "save_audio"
  /\ \/ req'[q] = Idle
     \/ req'[q] = [op |-> "launch", campaign |-> req[q].campaign, seen |-> new, to |-> "running"]
  /\ new.status = req[q].seen.status
  /\ new.text = req[q].text /\ new.media = req[q].text /\ new.key = req[q].text
StatusToRow(q, new) ==
  /\ req[q].op \in {"save_launch", "set_status"} /\ req'[q] = Idle
  /\ new.status = req[q].to
  /\ new.text = req[q].seen.text /\ new.media = req[q].seen.media /\ new.key = req[q].seen.key

LEMMA RowWritten ==
  ASSUME Typed, NEW q \in Requests, Edit(q) \/ SaveAudio(q) \/ SaveLaunch(q) \/ SetStatus(q)
  PROVE  /\ UNCHANGED <<env, company, contacts, audios, atAsterisk>>
         /\ req[q].campaign \in Campaigns /\ req[q].seen \in Campaign
         /\ \/ UNCHANGED campaigns /\ req'[q] = Idle
            \/ \E new \in Campaign :
                 /\ Save(req[q].campaign, req[q].seen, new)
                 /\ new.kind = req[q].seen.kind
                 /\ EditsRow(q, new) \/ AudioToRow(q, new) \/ StatusToRow(q, new)
<1>1. ASSUME NEW d, Become(q, d) PROVE req'[q] = d
  BY <1>1 DEF Become, Typed, TypedRequests
<1>2. req[q] \in AnyRequest
  BY DEF Typed, TypedRequests
<1>3. UNCHANGED <<env, company, contacts, audios, atAsterisk>>
  BY DEF Edit, SaveAudio, SaveLaunch, SetStatus, OnlyCampaigns, OnlyRequest
<1>4. req[q].campaign \in Campaigns /\ req[q].seen \in Campaign
  BY <1>2, CampaignParts DEF Edit, SaveAudio, SaveLaunch, SetStatus, At, CampaignOps
<1> DEFINE seen == req[q].seen
<1>5. CASE Edit(q)
  <2> DEFINE new == [seen EXCEPT !.text = req[q].text, !.media = None]
  <2>1. req[q].op = "edit" /\ req[q].text \in Audio
    BY <1>2, <1>5, CampaignParts DEF Edit, At
  <2>2. new \in Campaign /\ new = [status |-> seen.status, kind |-> seen.kind,
           text |-> req[q].text, media |-> None, key |-> seen.key]
    BY <1>4, <2>1, TextUpdate
  <2>3. Save(req[q].campaign, seen, new) /\ req'[q] = Idle
    BY <1>1, <1>5 DEF Edit
  <2> HIDE DEF new
  <2>4. EditsRow(q, new) /\ new.kind = seen.kind
    BY <2>1, <2>2, <2>3 DEF EditsRow
  <2> QED BY <1>3, <1>4, <2>2, <2>3, <2>4
<1>6. CASE SaveAudio(q)
  <2> DEFINE t == req[q].text
             new == [seen EXCEPT !.text = t, !.media = t, !.key = t]
  <2>1. req[q].op = "save_audio" /\ t \in Audio
    BY <1>2, <1>6, CampaignParts DEF SaveAudio, At, Audio
  <2>2. new \in Campaign /\ new = [status |-> seen.status, kind |-> seen.kind,
           text |-> t, media |-> t, key |-> t]
    BY <1>4, <2>1, AudioUpdate
  <2>3. /\ Save(req[q].campaign, seen, new)
        /\ Become(q, Idle) \/ Become(q, Starts(req[q].campaign, new))
    BY <1>6 DEF SaveAudio
  <2> HIDE DEF new
  <2>4. AudioToRow(q, new) /\ new.kind = seen.kind
    BY <1>1, <2>1, <2>2, <2>3 DEF AudioToRow, Starts
  <2> QED BY <1>3, <1>4, <2>2, <2>3, <2>4
<1>7. CASE SaveLaunch(q) \/ SetStatus(q)
  <2> DEFINE new == [seen EXCEPT !.status = req[q].to]
  <2>1. req[q].op \in {"save_launch", "set_status"} /\ req[q].to \in CampaignStatus
    BY <1>2, <1>7, CampaignParts DEF SaveLaunch, SetStatus, At
  <2>2. new \in Campaign /\ new = [status |-> req[q].to, kind |-> seen.kind,
           text |-> seen.text, media |-> seen.media, key |-> seen.key]
    BY <1>4, <2>1, StatusUpdate
  <2>3. /\ Save(req[q].campaign, seen, new) \/ UNCHANGED campaigns
        /\ req'[q] = Idle
    BY <1>1, <1>7 DEF SaveLaunch, SetStatus
  <2> HIDE DEF new
  <2>4. StatusToRow(q, new) /\ new.kind = seen.kind
    BY <2>1, <2>2, <2>3 DEF StatusToRow
  <2> QED BY <1>3, <1>4, <2>2, <2>3, <2>4
<1> QED BY <1>5, <1>6, <1>7

(* An import, and the first contact of a single call or of a test.         *)
LEMMA ImportWritten ==
  ASSUME Typed, NEW q \in Requests, SaveImport(q)
  PROVE  /\ UNCHANGED <<env, company, audios, atAsterisk>>
         /\ req[q].campaign \in Campaigns /\ req[q].seen \in Campaign
         /\ req'[q] = Idle
         /\ \/ UNCHANGED <<campaigns, contacts>>
            \/ /\ \A k \in Campaigns \ {req[q].campaign} : contacts'[k] = contacts[k]
               /\ \E new \in Campaign :
                    /\ Save(req[q].campaign, req[q].seen, new)
                    /\ new.status \in {"ready", "draft"} /\ new.kind = req[q].seen.kind
                    /\ new.text = req[q].seen.text /\ new.media = req[q].seen.media
                    /\ new.key = req[q].seen.key
<1> DEFINE r == req[q]
           new == [r.seen EXCEPT !.status =
                     IF r.added \union r.found # {} THEN "ready" ELSE "draft"]
<1>1. UNCHANGED <<env, company, audios, atAsterisk>> /\ req'[q] = Idle
  BY ImportMoves DEF SaveImport, OnlyRequest, Typed
<1>2. r.campaign \in Campaigns /\ r.seen \in Campaign
  BY CampaignParts DEF SaveImport, At, Typed, TypedRequests, CampaignOps
<1>3. CASE UNCHANGED <<campaigns, contacts>>
  BY <1>1, <1>2, <1>3
<1>4. CASE ~UNCHANGED <<campaigns, contacts>>
  <2>1. /\ \E set : contacts' = [contacts EXCEPT ![r.campaign] = set]
        /\ Save(r.campaign, r.seen, new)
    BY <1>4 DEF SaveImport
  <2>2. PICK s \in {"ready", "draft"} : new = [r.seen EXCEPT !.status = s]
    OBVIOUS
  <2>3. new \in Campaign /\ new = [status |-> s, kind |-> r.seen.kind, text |-> r.seen.text,
                                   media |-> r.seen.media, key |-> r.seen.key]
    BY <1>2, <2>2, StatusUpdate DEF CampaignStatus
  <2>4. \A k \in Campaigns \ {r.campaign} : contacts'[k] = contacts[k]
    BY <2>1 DEF Typed, TypedState, CampaignsTypeOK
  <2> HIDE DEF new
  <2>5. /\ new.status \in {"ready", "draft"} /\ new.kind = r.seen.kind
        /\ new.text = r.seen.text /\ new.media = r.seen.media /\ new.key = r.seen.key
    BY <2>3
  <2> QED BY <1>1, <1>2, <2>1, <2>3, <2>4, <2>5
<1> QED BY <1>3, <1>4

LEMMA ContactWritten ==
  ASSUME Typed, NEW q \in Requests, AddContact(q)
  PROVE  /\ UNCHANGED <<env, company, audios, atAsterisk>>
         /\ req[q].op = "add_contact" /\ req[q].number \in Numbers
         /\ req[q].campaign \in Campaigns /\ req[q].seen \in Campaign /\ req[q].new \in Campaign
         /\ \/ UNCHANGED <<campaigns, contacts>> /\ req'[q] = Idle
            \/ /\ Save(req[q].campaign, req[q].seen, req[q].new)
               /\ contacts' = [contacts EXCEPT ![req[q].campaign][req[q].number] = "callable"]
               /\ \/ /\ req'[q].op = "store_audio" /\ req'[q].campaign = req[q].campaign
                     /\ req'[q].seen = req[q].new
                  \/ req'[q] = [op |-> "launch", campaign |-> req[q].campaign,
                                seen |-> req[q].new, to |-> "running"]
<1>1. ASSUME NEW d, Become(q, d) PROVE req'[q] = d
  BY <1>1 DEF Become, Typed, TypedRequests
<1>2. /\ req[q].op = "add_contact" /\ req[q].number \in Numbers
      /\ req[q].campaign \in Campaigns /\ req[q].seen \in Campaign /\ req[q].new \in Campaign
  BY CampaignParts DEF AddContact, At, Typed, TypedRequests, CampaignOps
<1>3. UNCHANGED <<env, company, audios, atAsterisk>>
  BY DEF AddContact, OnlyRequest
<1>4. CASE UNCHANGED <<campaigns, contacts>> /\ Become(q, Idle)
  BY <1>1, <1>2, <1>3, <1>4
<1>5. CASE ~(UNCHANGED <<campaigns, contacts>> /\ Become(q, Idle))
  <2>1. /\ Save(req[q].campaign, req[q].seen, req[q].new)
        /\ contacts' = [contacts EXCEPT ![req[q].campaign][req[q].number] = "callable"]
        /\ Become(q, IF req[q].new.kind = "broadcast" /\ req[q].new.media = None
                       THEN Speak(req[q].campaign, req[q].new, req[q].new.text, TRUE)
                       ELSE Starts(req[q].campaign, req[q].new))
    BY <1>5 DEF AddContact
  <2>2. \/ req'[q] = Speak(req[q].campaign, req[q].new, req[q].new.text, TRUE)
        \/ req'[q] = Starts(req[q].campaign, req[q].new)
    BY <1>1, <2>1
  <2> QED BY <1>2, <1>3, <2>1, <2>2 DEF Speak, Starts
<1> QED BY <1>4, <1>5

(* A new campaign, of a user, of a single call or of a test.               *)
Inserted(k) ==
  /\ k \in Campaigns /\ campaigns[k] = None
  /\ \E kind \in {"ai", "broadcast"}, text \in Audio :
       /\ Blank(kind, text) \in Campaign
       /\ campaigns' = [campaigns EXCEPT ![k] = Blank(kind, text)]
AddsTo(q, k) ==
  LET r == req'[q] IN
  /\ r.op = "add_contact" /\ r.campaign = k /\ r.seen = campaigns'[k]
  /\ r.new \in Campaign
  /\ r.new.status = "ready" /\ r.new.kind = r.seen.kind /\ r.new.text = r.seen.text
  /\ \/ r.new.media = None /\ r.new.key = None
     \/ \E m \in Campaigns :
          /\ campaigns[m] # None /\ r.new.text = campaigns[m].text
          /\ r.new.media = campaigns[m].media /\ r.new.key = campaigns[m].key

LEMMA CreatedRow ==
  ASSUME Typed, NEW q \in Requests, CreateCampaign(q)
  PROVE  /\ UNCHANGED <<env, company, req, contacts, audios, atAsterisk>>
         /\ \E k \in Campaigns : Inserted(k)
<1>1. PICK k \in Created, s \in Sayings : Insert(k, s[1], s[2])
  BY DEF CreateCampaign
<1>2. k \in Campaigns /\ s[1] \in {"ai", "broadcast"} /\ s[2] \in Audio
  BY CampaignsAssumption, SayingParts
<1>3. /\ Blank(s[1], s[2]) \in Campaign
      /\ campaigns[k] = None /\ campaigns' = [campaigns EXCEPT ![k] = Blank(s[1], s[2])]
  BY <1>1, <1>2, InsertParts DEF Typed, TypedState
<1>4. UNCHANGED <<env, company, req, contacts, audios, atAsterisk>>
  BY DEF CreateCampaign, OnlyCampaigns, OnlyRequest
<1> QED BY <1>2, <1>3, <1>4 DEF Inserted

LEMMA SingleRow ==
  ASSUME Typed, NEW q \in Requests, SingleCall(q) \/ TestCampaign(q)
  PROVE  /\ UNCHANGED <<env, company, contacts, audios, atAsterisk>>
         /\ \E k \in Campaigns : Inserted(k) /\ AddsTo(q, k)
<1>1. ASSUME NEW d, Become(q, d) PROVE req'[q] = d
  BY <1>1 DEF Become, Typed, TypedRequests
<1>2. ASSUME NEW k \in Campaigns, NEW n \in Numbers, NEW kind \in {"ai", "broadcast"},
             NEW text \in Audio, NEW media \in Audio, NEW key \in Audio,
             Insert(k, kind, text), Become(q, AddsContact(k, n, Blank(kind, text), media, key)),
             \/ media = None /\ key = None
             \/ \E m \in Campaigns : /\ campaigns[m] # None /\ text = campaigns[m].text
                                     /\ media = campaigns[m].media /\ key = campaigns[m].key
      PROVE  Inserted(k) /\ AddsTo(q, k)
  <2>1. /\ Blank(kind, text) \in Campaign
        /\ campaigns[k] = None /\ campaigns' = [campaigns EXCEPT ![k] = Blank(kind, text)]
    BY <1>2, InsertParts DEF Typed, TypedState
  <2>2. Inserted(k) /\ campaigns'[k] = Blank(kind, text)
    BY <2>1 DEF Inserted, Typed, TypedState, CampaignsTypeOK
  <2>3. Blank(kind, text).kind = kind /\ Blank(kind, text).text = text
    BY DEF Blank
  <2> DEFINE d == AddsContact(k, n, Blank(kind, text), media, key)
  <2>4. /\ d \in AnyRequest /\ d.op = "add_contact" /\ d.campaign = k
        /\ d.seen = Blank(kind, text)
        /\ d.new.status = "ready" /\ d.new.kind = kind /\ d.new.text = text
        /\ d.new.media = media /\ d.new.key = key
    BY <2>1, <2>3, AddsContactType
  <2>5. d.new \in Campaign
    BY <2>4, CampaignParts
  <2>6. req'[q] = d
    BY <1>1, <1>2
  <2> HIDE DEF d
  <2> QED BY <1>2, <2>2, <2>3, <2>4, <2>5, <2>6 DEF AddsTo
<1>3. UNCHANGED <<env, company, contacts, audios, atAsterisk>>
  BY DEF SingleCall, TestCampaign, OnlyCampaigns, OnlyRequest
<1>4. CASE SingleCall(q)
  <2>1. PICK k \in Campaigns \ Created, s \in Sayings, n \in Unlisted :
          /\ Insert(k, s[1], s[2])
          /\ Become(q, AddsContact(k, n, Blank(s[1], s[2]), None, None))
    BY <1>4 DEF SingleCall
  <2>2. s[1] \in {"ai", "broadcast"} /\ s[2] \in Audio /\ n \in Numbers /\ None \in Audio
    BY SayingParts DEF Unlisted, Audio
  <2>3. k \in Campaigns
    OBVIOUS
  <2> QED BY <1>2, <1>3, <2>1, <2>2, <2>3
<1>5. CASE TestCampaign(q)
  <2>1. PICK m \in Campaigns, k \in Campaigns \ Created, n \in Unlisted :
          /\ campaigns[m] # None
          /\ Insert(k, campaigns[m].kind, campaigns[m].text)
          /\ Become(q, AddsContact(k, n, Blank(campaigns[m].kind, campaigns[m].text),
                                   campaigns[m].media, campaigns[m].key))
    BY <1>5 DEF TestCampaign, Loads
  <2>2. campaigns[m] \in Campaign
    BY <2>1 DEF Typed, TypedState, CampaignsTypeOK
  <2>3. /\ campaigns[m].kind \in {"ai", "broadcast"} /\ campaigns[m].text \in Audio
        /\ campaigns[m].media \in Audio /\ campaigns[m].key \in Audio
    BY <2>2, CampaignFields
  <2>4. n \in Numbers /\ k \in Campaigns
    BY DEF Unlisted
  <2> QED BY <1>2, <1>3, <2>1, <2>3, <2>4
<1> QED BY <1>4, <1>5

-----------------------------------------------------------------------------
(* Rows keep naming audio there is.                                        *)
RowsKept == \A k \in Campaigns : campaigns'[k] # None => campaigns'[k] = campaigns[k]

LEMMA BackedKept ==
  ASSUME NEW f, NEW S, NEW T, S \subseteq T, Backed(f, S), RowsKept, Keeps(CampaignOps)
  PROVE  Backed(f, T)'
<1>1. ASSUME NEW row, Names(row, f, S) PROVE Names(row, f, T)
  BY <1>1 DEF Names
<1>2. ASSUME NEW k \in Campaigns, campaigns'[k] # None PROVE Names(campaigns'[k], f, T)
  BY <1>1, <1>2 DEF RowsKept, Backed
<1>3. ASSUME NEW p \in Requests
      PROVE  /\ req'[p].op \in CampaignOps => Names(req'[p].seen, f, T)
             /\ req'[p].op = "add_contact" => Names(req'[p].new, f, T)
  BY <1>1 DEF Keeps, Backed, CampaignOps
<1> QED BY <1>2, <1>3 DEF Backed, Names

LEMMA BackedWritten ==
  ASSUME Typed, NEW q \in Requests, CampaignAsked(q) \/ CampaignGoesOn(q),
         NEW f \in Audible, NEW S, NEW T, S \subseteq T, Backed(f, S),
         \A k \in Campaigns : campaigns'[k] # None => Names(campaigns'[k], f, S),
         req'[q].op \in CampaignOps => Names(req'[q].seen, f, S),
         req'[q].op = "add_contact" => Names(req'[q].new, f, S)
  PROVE  Backed(f, T)'
<1>1. ASSUME NEW row, Names(row, f, S) PROVE Names(row, f, T)
  BY <1>1 DEF Names
<1>2. ASSUME NEW p \in Requests, p # q
      PROVE  /\ req'[p].op \in CampaignOps => Names(req'[p].seen, f, T)
             /\ req'[p].op = "add_contact" => Names(req'[p].new, f, T)
  <2>1. CASE SaveImport(q)
    <3>1. req'[p] = req[p] \/ (req[p].op = "import" /\ \E gone : req'[p] = [req[p] EXCEPT !.removed = @ \ gone])
      BY <1>2, <2>1, ImportMoves DEF Typed
    <3>2. CASE req[p].op = "import"
      <4>1. req[p] \in CampaignRequest
        BY <3>2, CampaignKind DEF CampaignOps, Typed, TypedRequests
      <4>2. req'[p].seen = req[p].seen /\ req'[p].op = "import"
        BY <3>1, <3>2, <4>1 DEF CampaignRequest
      <4> QED BY <1>1, <3>2, <4>2 DEF Backed, CampaignOps
    <3> QED BY <1>1, <3>1, <3>2 DEF Backed, CampaignOps
  <2>2. CASE ~SaveImport(q)
    <3>1. req'[p] = req[p]
      BY <1>2, <2>2, CampaignMoves, Moved DEF Typed
    <3> QED BY <1>1, <3>1 DEF Backed, CampaignOps
  <2> QED BY <2>1, <2>2
<1>3. \A k \in Campaigns : campaigns'[k] # None => Names(campaigns'[k], f, T)
  BY <1>1
<1>4. /\ req'[q].op \in CampaignOps => Names(req'[q].seen, f, T)
      /\ req'[q].op = "add_contact" => Names(req'[q].new, f, T)
  BY <1>1
<1> QED BY <1>2, <1>3, <1>4 DEF Backed, Names

LEMMA CampaignBacked ==
  ASSUME Typed, NEW q \in Requests, CampaignAsked(q) \/ CampaignGoesOn(q),
         NEW f \in Audible, NEW S, NEW T, S \subseteq T, Backed(f, S),
         req[q].op = "save_audio" => req[q].text \in S
  PROVE  Backed(f, T)'
<1> USE DEF CampaignOps
<1>1. \A k \in Campaigns : campaigns[k] # None => Names(campaigns[k], f, S)
  BY DEF Backed
<1>2. /\ req[q].op \in CampaignOps => Names(req[q].seen, f, S)
      /\ req[q].op = "add_contact" => Names(req[q].new, f, S)
  BY DEF Backed
<1>3. Idle.op = "idle"
  BY DEF Idle
<1>4. ASSUME NEW new \in Campaign, Save(req[q].campaign, req[q].seen, new),
             req[q].campaign \in Campaigns, req[q].seen \in Campaign, Names(new, f, S)
      PROVE  \A k \in Campaigns : campaigns'[k] # None => Names(campaigns'[k], f, S)
  BY <1>1, <1>4, SaveNames DEF Typed, TypedState
<1>5. ASSUME UNCHANGED campaigns
      PROVE  \A k \in Campaigns : campaigns'[k] # None => Names(campaigns'[k], f, S)
  BY <1>1, <1>5
<1>6. ASSUME NEW row, NEW old, row.media = old.media, row.key = old.key, Names(old, f, S)
      PROVE  Names(row, f, S)
  BY <1>6 DEF Audible, Names
<1>7. ASSUME NEW k, Inserted(k)
      PROVE  /\ \A j \in Campaigns : campaigns'[j] # None => Names(campaigns'[j], f, S)
             /\ Names(campaigns'[k], f, S)
  <2>1. PICK kind \in {"ai", "broadcast"}, text \in Audio :
          campaigns' = [campaigns EXCEPT ![k] = Blank(kind, text)]
    BY <1>7 DEF Inserted
  <2>2. Names(Blank(kind, text), f, S)
    BY DEF Names, Blank, Audible
  <2>3. k \in Campaigns
    BY <1>7 DEF Inserted
  <2> QED BY <1>1, <2>1, <2>2, <2>3 DEF Typed, TypedState, CampaignsTypeOK
<1>8. CASE LoadEdit(q) \/ LoadAudio(q) \/ LoadImport(q) \/ LoadLaunch(q) \/ LoadStatus(q)
  <2>1. Loading(q) /\ UNCHANGED campaigns
    BY <1>8, LoadsRow DEF campaignVars
  <2>2. Names(req'[q].seen, f, S) /\ req'[q].op # "add_contact"
    BY <1>1, <2>1 DEF Loading
  <2> QED BY <1>5, <2>1, <2>2, BackedWritten
<1>9. CASE StoreAudio(q) \/ SendAudio(q)
  <2>1. /\ UNCHANGED campaigns
        /\ \/ req'[q] = Idle
           \/ SameRow(q) /\ req[q].op \in CampaignOps /\ req'[q].op # "add_contact"
    BY <1>9, AudioGoesOn
  <2>2. req'[q].op \in CampaignOps => Names(req'[q].seen, f, S)
    BY <1>2, <1>3, <2>1 DEF SameRow
  <2> QED BY <1>3, <1>5, <2>1, <2>2, BackedWritten
<1>10. CASE ReadImport(q)
  <2>1. /\ UNCHANGED campaigns /\ SameRow(q) /\ req[q].op = "import"
        /\ req'[q].op = "save_import"
    BY <1>10, ImportGoesOn DEF campaignVars
  <2>2. Names(req'[q].seen, f, S)
    BY <1>2, <2>1 DEF SameRow
  <2> QED BY <1>5, <2>1, <2>2, BackedWritten
<1>11. CASE Launch(q)
  <2>1. /\ UNCHANGED campaigns
        /\ \/ req'[q] = Idle
           \/ SameRow(q) /\ req[q].op = "launch" /\ req'[q].op = "save_launch"
    BY <1>11, LaunchGoesOn DEF campaignVars
  <2>2. req'[q].op \in CampaignOps => Names(req'[q].seen, f, S)
    BY <1>2, <1>3, <2>1 DEF SameRow
  <2> QED BY <1>3, <1>5, <2>1, <2>2, BackedWritten
<1>12. CASE Edit(q) \/ SaveAudio(q) \/ SaveLaunch(q) \/ SetStatus(q)
  <2>1. CASE UNCHANGED campaigns /\ req'[q] = Idle
    BY <1>3, <1>5, <2>1, BackedWritten
  <2>2. CASE \E new \in Campaign :
               /\ Save(req[q].campaign, req[q].seen, new)
               /\ EditsRow(q, new) \/ AudioToRow(q, new) \/ StatusToRow(q, new)
    <3>1. PICK new \in Campaign :
            /\ Save(req[q].campaign, req[q].seen, new)
            /\ EditsRow(q, new) \/ AudioToRow(q, new) \/ StatusToRow(q, new)
      BY <2>2
    <3>2. Names(new, f, S)
      <4>1. CASE EditsRow(q, new)
        <5>1. Names(req[q].seen, f, S)
          BY <1>2, <4>1 DEF EditsRow
        <5> QED BY <4>1, <5>1 DEF EditsRow, Names, Audible
      <4>2. CASE AudioToRow(q, new)
        BY <4>2 DEF AudioToRow, Names, Audible
      <4>3. CASE StatusToRow(q, new)
        <5>1. Names(req[q].seen, f, S)
          BY <1>2, <4>3 DEF StatusToRow
        <5> QED BY <1>6, <4>3, <5>1 DEF StatusToRow
      <4> QED BY <3>1, <4>1, <4>2, <4>3
    <3>3. req[q].campaign \in Campaigns /\ req[q].seen \in Campaign
      BY <1>12, RowWritten
    <3>4. /\ req'[q].op \in CampaignOps => Names(req'[q].seen, f, S)
          /\ req'[q].op # "add_contact"
      BY <1>3, <3>1, <3>2 DEF EditsRow, AudioToRow, StatusToRow
    <3> QED BY <1>4, <3>1, <3>2, <3>3, <3>4, BackedWritten
  <2> QED BY <1>12, <2>1, <2>2, RowWritten
<1>13. CASE SaveImport(q)
  <2>1. CASE UNCHANGED campaigns
    BY <1>3, <1>5, <1>13, <2>1, ImportWritten, BackedWritten
  <2>2. CASE ~UNCHANGED campaigns
    <3>1. PICK new \in Campaign :
            /\ Save(req[q].campaign, req[q].seen, new)
            /\ new.media = req[q].seen.media /\ new.key = req[q].seen.key
      BY <1>13, <2>2, ImportWritten
    <3>2. req[q].campaign \in Campaigns /\ req[q].seen \in Campaign /\ req'[q] = Idle
      BY <1>13, ImportWritten
    <3>3. Names(req[q].seen, f, S)
      BY <1>2, <1>13 DEF SaveImport, At
    <3>4. Names(new, f, S)
      BY <1>6, <3>1, <3>3
    <3> QED BY <1>3, <1>4, <3>1, <3>2, <3>4, BackedWritten
  <2> QED BY <2>1, <2>2
<1>14. CASE AddContact(q)
  <2>1. Names(req[q].new, f, S)
    BY <1>2, <1>14, ContactWritten
  <2>2. CASE UNCHANGED campaigns /\ req'[q] = Idle
    BY <1>3, <1>5, <2>2, BackedWritten
  <2>3. CASE ~(UNCHANGED campaigns /\ req'[q] = Idle)
    <3>1. /\ Save(req[q].campaign, req[q].seen, req[q].new)
          /\ req[q].campaign \in Campaigns /\ req[q].seen \in Campaign /\ req[q].new \in Campaign
      BY <1>14, <2>3, ContactWritten
    <3>2. \/ req'[q].op = "store_audio" /\ req'[q].seen = req[q].new
          \/ req'[q] = [op |-> "launch", campaign |-> req[q].campaign,
                        seen |-> req[q].new, to |-> "running"]
      BY <1>14, <2>3, ContactWritten
    <3>3. req'[q].seen = req[q].new /\ req'[q].op # "add_contact"
      BY <3>2
    <3> QED BY <1>4, <2>1, <3>1, <3>3, BackedWritten
  <2> QED BY <2>2, <2>3
<1>15. CASE CreateCampaign(q)
  <2>1. UNCHANGED req /\ \E k \in Campaigns : Inserted(k)
    BY <1>15, CreatedRow
  <2> QED BY <1>2, <1>7, <2>1, BackedWritten
<1>16. CASE SingleCall(q) \/ TestCampaign(q)
  <2>1. PICK k \in Campaigns : Inserted(k) /\ AddsTo(q, k)
    BY <1>16, SingleRow
  <2>2. Names(req'[q].seen, f, S) /\ req'[q].op = "add_contact"
    BY <1>7, <2>1 DEF AddsTo
  <2>3. Names(req'[q].new, f, S)
    BY <1>1, <1>6, <2>1 DEF AddsTo, Names, Audible
  <2> QED BY <1>7, <2>1, <2>2, <2>3, BackedWritten
<1>17. CASE AddDnc(q) \/ DeleteDnc(q)
  <2>1. UNCHANGED <<campaigns, req>>
    BY <1>17 DEF AddDnc, DeleteDnc
  <2> QED BY <1>2, <1>5, <2>1, BackedWritten
<1> QED
  BY <1>8, <1>9, <1>10, <1>11, <1>12, <1>13, <1>14, <1>15, <1>16, <1>17
  DEF CampaignAsked, CampaignGoesOn

-----------------------------------------------------------------------------
(* Media names audio Asterisk has, in rows and in whoever will write them. *)
Heard == \A q \in Requests : req[q].op = "save_audio" => req[q].text \in atAsterisk
MediaI == Backed("media", atAsterisk) /\ Heard

LEMMA MediaKept ==
  ASSUME MediaI, RowsKept, Keeps(CampaignOps), UNCHANGED atAsterisk
  PROVE  MediaI'
<1>1. PICK S : S = atAsterisk
  OBVIOUS
<1>2. Backed("media", S)
  BY <1>1 DEF MediaI
<1>3. Backed("media", S)'
  BY <1>2, BackedKept
<1>4. Backed("media", atAsterisk)'
  BY <1>1, <1>3 DEF Backed, Names
<1>5. Heard'
  BY DEF MediaI, Heard, Keeps, CampaignOps
<1> QED BY <1>4, <1>5 DEF MediaI

(* The audio of a request that goes on is there before its row says so.    *)
LEMMA AudioFirst ==
  ASSUME Typed, NEW q \in Requests, CampaignAsked(q) \/ CampaignGoesOn(q)
  PROVE  /\ req'[q].op = "send_audio" => req'[q].text \in audios' \/ req'[q] = req[q]
         /\ req'[q].op = "save_audio" =>
              \/ req[q].op = "send_audio" /\ req'[q].text = req[q].text /\ req'[q].text \in atAsterisk'
              \/ req'[q] = req[q]
         /\ audios \subseteq audios' /\ atAsterisk \subseteq atAsterisk'
         /\ \A p \in Requests \ {q} :
              req'[p].op \in {"send_audio", "save_audio"} => req'[p] = req[p]
<1>1. Idle.op = "idle"
  BY DEF Idle
<1>2. \A p \in Requests \ {q} : req'[p].op \in {"send_audio", "save_audio"} => req'[p] = req[p]
  <2>1. CASE SaveImport(q)
    BY <2>1, ImportKeeps DEF Typed
  <2>2. CASE ~SaveImport(q)
    BY <2>2, CampaignMoves, Moved DEF Typed
  <2> QED BY <2>1, <2>2
<1>3. CASE StoreAudio(q) \/ SendAudio(q)
  BY <1>1, <1>2, <1>3, AudioGoesOn
<1>4. CASE ~StoreAudio(q) /\ ~SendAudio(q)
  <2>1. UNCHANGED <<audios, atAsterisk>>
    BY <1>4 DEF CampaignAsked, CampaignGoesOn, CreateCampaign, LoadEdit, LoadAudio, LoadImport,
         AddDnc, DeleteDnc, LoadLaunch, LoadStatus, SingleCall, TestCampaign, Edit, SaveAudio,
         ReadImport, SaveImport, Launch, SaveLaunch, SetStatus, AddContact, OnlyCampaigns
  <2>2. req'[q].op \notin {"send_audio", "save_audio"} \/ req'[q] = req[q]
    <3>1. CASE LoadEdit(q) \/ LoadAudio(q) \/ LoadImport(q) \/ LoadLaunch(q) \/ LoadStatus(q)
      BY <3>1, LoadsRow DEF Loading
    <3>2. CASE ReadImport(q)
      BY <3>2, ImportGoesOn
    <3>3. CASE Launch(q)
      BY <1>1, <3>3, LaunchGoesOn
    <3>4. CASE Edit(q) \/ SaveAudio(q) \/ SaveLaunch(q) \/ SetStatus(q)
      <4>1. \/ req'[q] = Idle
            \/ \E new : req'[q] = [op |-> "launch", campaign |-> req[q].campaign, seen |-> new,
                                   to |-> "running"]
        BY <3>4, RowWritten DEF EditsRow, AudioToRow, StatusToRow
      <4>2. ASSUME NEW new, req'[q] = [op |-> "launch", campaign |-> req[q].campaign, seen |-> new,
                                       to |-> "running"]
            PROVE  req'[q].op = "launch"
        BY <4>2
      <4> QED BY <1>1, <4>1, <4>2
    <3>5. CASE SaveImport(q)
      BY <1>1, <3>5, ImportWritten
    <3>6. CASE AddContact(q)
      <4>1. \/ req'[q] = Idle \/ req'[q].op = "store_audio"
            \/ req'[q] = [op |-> "launch", campaign |-> req[q].campaign,
                          seen |-> req[q].new, to |-> "running"]
        BY <3>6, ContactWritten
      <4> QED BY <1>1, <4>1
    <3>7. CASE CreateCampaign(q) \/ AddDnc(q) \/ DeleteDnc(q)
      BY <3>7 DEF CreateCampaign, AddDnc, DeleteDnc
    <3>8. CASE SingleCall(q) \/ TestCampaign(q)
      BY <3>8, SingleRow DEF AddsTo
    <3> QED BY <1>4, <3>1, <3>2, <3>3, <3>4, <3>5, <3>6, <3>7, <3>8 DEF CampaignAsked, CampaignGoesOn
  <2> QED BY <1>2, <2>1, <2>2
<1> QED BY <1>3, <1>4

LEMMA MediaWritten ==
  ASSUME Typed, MediaI, NEW q \in Requests, CampaignAsked(q) \/ CampaignGoesOn(q)
  PROVE  MediaI'
<1>1. PICK S : S = atAsterisk
  OBVIOUS
<1>2. PICK T : T = atAsterisk'
  OBVIOUS
<1>3. Backed("media", S) /\ S \subseteq T /\ (req[q].op = "save_audio" => req[q].text \in S)
  BY <1>1, <1>2, AudioFirst DEF MediaI, Heard
<1>4. Backed("media", T)'
  BY <1>3, CampaignBacked DEF Audible
<1>5. Backed("media", atAsterisk)'
  BY <1>2, <1>4 DEF Backed, Names
<1>6. Heard'
  BY AudioFirst DEF MediaI, Heard
<1> QED BY <1>5, <1>6 DEF MediaI

(* What other steps leave to campaigns.                                    *)
CampaignsMove(q) ==
  /\ CampaignAsked(q) \/ CampaignGoesOn(q)
  /\ UNCHANGED <<conversationVars, libraryVars, accountVars>>

LEMMA CampaignsApart ==
  ASSUME Sound, [Next]_backOfficeVars, ~Dial, \A q \in Requests : ~CampaignsMove(q)
  PROVE  /\ RowsKept /\ Keeps(CampaignOps) /\ UNCHANGED <<env, atAsterisk>>
         /\ UNCHANGED contacts \/ \A k \in Campaigns : campaigns'[k] = None
         /\ UNCHANGED audios \/ \E q \in Requests : DeleteFiles(q)
<1> USE DEF Sound
<1>1. /\ CampaignOps \intersect (ConversationOps \union {"idle"}) = {}
      /\ CampaignOps \intersect (AccountOps \union {"idle"}) = {}
      /\ CampaignOps \intersect (LibraryOps \union {"idle"}) = {}
      /\ CampaignOps \intersect (DeletionOps \union {"idle"}) = {}
      /\ "idle" \notin CampaignOps
  BY DEF CampaignOps, ConversationOps, LibraryOps, OnDocument, AccountOps, CampaignOps, DeletionOps
<1>2. CASE UNCHANGED campaignVars /\ Keeps(CampaignOps) /\ env' = env
  BY <1>2 DEF campaignVars, RowsKept
<1>3. ASSUME NEW q \in Requests, Ask(q) \/ Serve(q) PROVE
         /\ RowsKept /\ Keeps(CampaignOps) /\ UNCHANGED <<env, atAsterisk>>
         /\ UNCHANGED contacts \/ \A k \in Campaigns : campaigns'[k] = None
         /\ UNCHANGED audios \/ DeleteFiles(q)
  <2>1. CASE /\ ConversationAsked(q) \/ ConversationGoesOn(q)
             /\ UNCHANGED <<libraryVars, accountVars, campaignVars>>
    BY <1>1, <1>2, <2>1, ConversationKeeps DEF campaignVars, RowsKept
  <2>2. CASE /\ LibraryAsked(q) \/ LibraryGoesOn(q)
             /\ UNCHANGED <<conversationVars, accountVars, campaignVars>>
    BY <1>1, <1>2, <2>2, LibraryKeeps DEF campaignVars, RowsKept
  <2>3. CASE /\ AccountAsked(q) \/ AccountGoesOn(q)
             /\ UNCHANGED <<conversationVars, libraryVars, campaignVars>>
    BY <1>1, <1>2, <2>3, AccountKeeps DEF campaignVars, RowsKept
  <2>4. CASE ShowCompany(q) \/ DeleteRows(q) \/ DeleteFiles(q)
    <3>1. Keeps(CampaignOps) /\ env' = env
      BY <1>1, <2>4, DeletionKeeps
    <3>2. RowsKept /\ (UNCHANGED contacts \/ \A k \in Campaigns : campaigns'[k] = None)
      BY <2>4 DEF ShowCompany, DeleteRows, DeleteFiles, RowsKept, campaignVars
    <3>3. UNCHANGED atAsterisk /\ (UNCHANGED audios \/ DeleteFiles(q))
      BY <2>4 DEF ShowCompany, DeleteRows, DeleteFiles, campaignVars
    <3> QED BY <3>1, <3>2, <3>3
  <2> QED BY <1>3, <2>1, <2>2, <2>3, <2>4 DEF Ask, Serve, CampaignsMove
<1>4. CASE Elsewhere \/ Dies \/ UNCHANGED backOfficeVars \/ \E w \in Workers : Work(w)
  <2>1. UNCHANGED campaignVars
    BY <1>4 DEF Elsewhere, Dies, backOfficeVars, Work
  <2> QED BY <1>1, <1>2, <1>4, <2>1, OthersKeep
<1> QED BY <1>3, <1>4 DEF Next

-----------------------------------------------------------------------------
(* As long as requests do not overlap: rows are consistent in themselves,  *)
(* and the one request at work knows its row but for what dialling does to *)
(* the status, and plans what its row admits.                              *)
Live == {"scheduled", "running", "paused"}
Excused == Asked("edit") /\ Pausable
GoodToGo(k) ==
  /\ ContactsOf(k) # {}
  /\ campaigns[k].kind = "broadcast" /\ ~Excused => campaigns[k].media # None

RowReady(k) ==
  campaigns[k] # None =>
    /\ campaigns[k].media \in {None, campaigns[k].text}
    /\ campaigns[k].status \in Live => GoodToGo(k)
    /\ campaigns[k].status = "paused" => Pausable

KnowsRow(r) ==
  LET c == campaigns[r.campaign] IN
  c # None =>
    /\ c.kind = r.seen.kind /\ c.text = r.seen.text
    /\ c.media = r.seen.media /\ c.key = r.seen.key
    /\ c.status # r.seen.status => r.seen.status \in {"scheduled", "running"}
    /\ r.seen.status \in Live \/ r.op = "save_launch" => GoodToGo(r.campaign)

PlansWell(r) ==
  /\ r.op \in {"launch", "save_launch"} => r.to \in {"scheduled", "running"}
  /\ r.op = "set_status" =>
       /\ r.to \in {"paused", "running", "cancelled"}
       /\ r.to = "running" => r.seen.status \in Live
       /\ r.to = "paused" => Pausable /\ r.seen.status \in Live
  /\ r.op \in {"import", "save_import"} => r.seen.status \in {"draft", "ready"}
  /\ r.op = "edit" => r.seen.status \in {"draft", "ready", "paused"} /\ Asked("edit")
  /\ r.op = "add_contact" =>
       /\ r.new.kind = r.seen.kind /\ r.new.text = r.seen.text
       /\ r.new.media \in {None, r.new.text}
       /\ r.new.status = "ready" /\ r.seen.status = "draft"

ReadyI ==
  Serial => /\ \A k \in Campaigns : RowReady(k)
            /\ \A q \in Requests : req[q].op \in CampaignOps =>
                 KnowsRow(req[q]) /\ PlansWell(req[q])

LEMMA ReadyKept ==
  ASSUME Sound, ReadyI, RowsKept, Keeps(CampaignOps), UNCHANGED env,
         UNCHANGED contacts \/ \A k \in Campaigns : campaigns'[k] = None
  PROVE  ReadyI'
<1>1. Serial' <=> Serial
  BY DEF Serial, Fault
<1>2. SUFFICES ASSUME Serial PROVE ReadyI'
  BY <1>1 DEF ReadyI
<1>3. \A k \in Campaigns : RowReady(k)'
  <2> SUFFICES ASSUME NEW k \in Campaigns, campaigns'[k] # None PROVE RowReady(k)'
    BY DEF RowReady
  <2>1. campaigns'[k] = campaigns[k] /\ UNCHANGED contacts
    BY DEF RowsKept
  <2>2. RowReady(k)
    BY <1>2 DEF ReadyI
  <2> QED BY <2>1, <2>2 DEF RowReady, GoodToGo, Excused, Pausable, Asked, ContactsOf
<1>4. ASSUME NEW q \in Requests, req'[q].op \in CampaignOps
      PROVE  KnowsRow(req[q])' /\ PlansWell(req[q])'
  <2>1. req'[q] = req[q]
    BY <1>4 DEF Keeps
  <2>2. KnowsRow(req[q]) /\ PlansWell(req[q])
    BY <1>2, <1>4, <2>1 DEF ReadyI
  <2>3. PlansWell(req[q])'
    BY <2>1, <2>2 DEF PlansWell, Pausable, Asked
  <2>4. req[q].campaign \in Campaigns
    BY <1>4, <2>1, CampaignParts DEF Sound, Typed, TypedRequests
  <2>5. KnowsRow(req[q])'
    <3> SUFFICES ASSUME campaigns'[req[q].campaign] # None PROVE KnowsRow(req[q])'
      BY <2>1 DEF KnowsRow
    <3>1. campaigns'[req[q].campaign] = campaigns[req[q].campaign] /\ UNCHANGED contacts
      BY <2>4 DEF RowsKept
    <3> QED BY <2>1, <2>2, <3>1 DEF KnowsRow, GoodToGo, Excused, Pausable, Asked, ContactsOf
  <2> QED BY <2>3, <2>5
<1> QED BY <1>3, <1>4 DEF ReadyI

(* Dialling moves only statuses, and of a contact only whether it may be   *)
(* called.                                                                 *)
LEMMA Dialled ==
  ASSUME Typed, Dial
  PROVE  /\ UNCHANGED <<env, req, audios, atAsterisk>>
         /\ \A k \in Campaigns :
              /\ ContactsOf(k)' = ContactsOf(k)
              /\ campaigns'[k] # None => campaigns[k] # None
              /\ campaigns[k] # None =>
                   /\ campaigns'[k].kind = campaigns[k].kind
                   /\ campaigns'[k].text = campaigns[k].text
                   /\ campaigns'[k].media = campaigns[k].media
                   /\ campaigns'[k].key = campaigns[k].key
                   /\ \/ campaigns'[k].status = campaigns[k].status
                      \/ /\ campaigns[k].status \in {"scheduled", "running"}
                         /\ Asked("dial")
<1>1. UNCHANGED <<env, req, audios, atAsterisk>> /\ Asked("dial")
  BY DEF Dial, OnlyRequest
<1>2. PICK j \in Campaigns :
        /\ campaigns[j] # None /\ campaigns[j].status \in {"scheduled", "running"}
        /\ \/ /\ \E s \in CampaignStatus : campaigns' = [campaigns EXCEPT ![j].status = s]
              /\ UNCHANGED contacts
           \/ /\ \E n \in CallableOf(j) : contacts' = [contacts EXCEPT ![j][n] = "blocked"]
              /\ UNCHANGED campaigns
  BY DEF Dial, CampaignStatus
<1>3. CampaignsTypeOK
  BY DEF Typed, TypedState
<1>4. CASE \E n \in CallableOf(j) : contacts' = [contacts EXCEPT ![j][n] = "blocked"] /\ UNCHANGED campaigns
  <2>1. PICK n \in CallableOf(j) : contacts' = [contacts EXCEPT ![j][n] = "blocked"]
    BY <1>4
  <2>2. n \in Numbers /\ contacts[j][n] = "callable" /\ "blocked" # None /\ "callable" # None
    <3>1. n \in Numbers /\ contacts[j][n] = "callable"
      BY DEF CallableOf
    <3>2. "blocked" # None /\ "callable" # None
      BY CampaignsAssumption
    <3> QED BY <3>1, <3>2
  <2>3. \A k \in Campaigns : ContactsOf(k)' = ContactsOf(k)
    BY <1>3, <2>1, <2>2 DEF ContactsOf, CampaignsTypeOK
  <2> QED BY <1>1, <1>4, <2>3
<1>5. CASE (\E s \in CampaignStatus : campaigns' = [campaigns EXCEPT ![j].status = s]) /\ UNCHANGED contacts
  <2>1. PICK s \in CampaignStatus : campaigns' = [campaigns EXCEPT ![j].status = s]
    BY <1>5
  <2>2. campaigns' = [campaigns EXCEPT ![j] = [campaigns[j] EXCEPT !.status = s]]
    BY <2>1
  <2>3. campaigns[j] \in Campaign
    BY <1>2, <1>3 DEF CampaignsTypeOK
  <2>4. [campaigns[j] EXCEPT !.status = s] = [status |-> s, kind |-> campaigns[j].kind,
           text |-> campaigns[j].text, media |-> campaigns[j].media, key |-> campaigns[j].key]
    BY <2>3, StatusUpdate
  <2>5. /\ campaigns'[j] = [status |-> s, kind |-> campaigns[j].kind,
             text |-> campaigns[j].text, media |-> campaigns[j].media, key |-> campaigns[j].key]
        /\ \A k \in Campaigns \ {j} : campaigns'[k] = campaigns[k]
    BY <1>3, <2>2, <2>4 DEF CampaignsTypeOK
  <2>6. \A k \in Campaigns : ContactsOf(k)' = ContactsOf(k)
    BY <1>5 DEF ContactsOf
  <2> QED BY <1>1, <1>2, <2>5, <2>6
<1> QED BY <1>2, <1>4, <1>5

LEMMA ReadyDialled ==
  ASSUME Sound, ReadyI, Dial
  PROVE  ReadyI'
<1>1. UNCHANGED <<env, req>>
  BY Dialled DEF Sound
<1>2. Serial' <=> Serial
  BY <1>1 DEF Serial, Fault
<1>3. SUFFICES ASSUME Serial PROVE ReadyI'
  BY <1>2 DEF ReadyI
<1>4. (Excused' <=> Excused) /\ (Pausable' <=> Pausable)
  BY <1>1 DEF Excused, Pausable, Asked
<1>5. ASSUME NEW k \in Campaigns, campaigns[k] # None
      PROVE  /\ ContactsOf(k)' = ContactsOf(k)
             /\ campaigns'[k].kind = campaigns[k].kind
             /\ campaigns'[k].text = campaigns[k].text
             /\ campaigns'[k].media = campaigns[k].media
             /\ campaigns'[k].key = campaigns[k].key
             /\ \/ campaigns'[k].status = campaigns[k].status
                \/ campaigns[k].status \in {"scheduled", "running"} /\ Pausable
  BY <1>5, Dialled DEF Sound, Pausable
<1>6. \A k \in Campaigns : campaigns'[k] # None => campaigns[k] # None
  BY Dialled DEF Sound
<1>7. ASSUME NEW k \in Campaigns, campaigns[k] # None, GoodToGo(k) PROVE GoodToGo(k)'
  BY <1>4, <1>5, <1>7 DEF GoodToGo
<1>8. \A k \in Campaigns : RowReady(k)'
  <2> SUFFICES ASSUME NEW k \in Campaigns, campaigns'[k] # None PROVE RowReady(k)'
    BY DEF RowReady
  <2>1. campaigns[k] # None
    BY <1>6
  <2>2. RowReady(k)
    BY <1>3 DEF ReadyI
  <2> QED BY <1>4, <1>5, <1>7, <2>1, <2>2 DEF RowReady, Live
<1>9. ASSUME NEW q \in Requests, req'[q].op \in CampaignOps
      PROVE  KnowsRow(req[q])' /\ PlansWell(req[q])'
  <2>1. KnowsRow(req[q]) /\ PlansWell(req[q])
    BY <1>1, <1>3, <1>9 DEF ReadyI
  <2>2. PlansWell(req[q])'
    BY <1>1, <2>1 DEF PlansWell, Pausable, Asked
  <2>3. req[q].campaign \in Campaigns
    BY <1>1, <1>9, CampaignParts DEF Sound, Typed, TypedRequests
  <2>4. KnowsRow(req[q])'
    <3> SUFFICES ASSUME campaigns'[req[q].campaign] # None PROVE KnowsRow(req[q])'
      BY <1>1 DEF KnowsRow
    <3>1. campaigns[req[q].campaign] # None
      BY <1>6, <2>3
    <3> QED BY <1>1, <1>5, <1>7, <2>1, <2>3, <3>1 DEF KnowsRow
  <2> QED BY <2>2, <2>4
<1> QED BY <1>8, <1>9 DEF ReadyI

LEMMA MediaDialled ==
  ASSUME Typed, MediaI, Dial
  PROVE  MediaI'
<1>1. PICK S : S = atAsterisk
  OBVIOUS
<1>2. UNCHANGED <<req, atAsterisk>>
  BY Dialled
<1>3. Backed("media", S)'
  <2>1. Backed("media", S)
    BY <1>1 DEF MediaI
  <2>2. ASSUME NEW k \in Campaigns, campaigns'[k] # None
        PROVE  Names(campaigns'[k], "media", S)
    <3>1. campaigns[k] # None /\ campaigns'[k].media = campaigns[k].media
      BY <2>2, Dialled
    <3> QED BY <2>1, <3>1 DEF Backed, Names
  <2> QED BY <1>2, <2>1, <2>2 DEF Backed, Names
<1>4. Backed("media", atAsterisk)'
  BY <1>1, <1>2, <1>3 DEF Backed, Names
<1>5. Heard'
  BY <1>2 DEF MediaI, Heard
<1> QED BY <1>4, <1>5 DEF MediaI

(* What a request that knows its row leaves when it saves.                 *)
LEMMA SerialSave ==
  ASSUME CampaignsTypeOK, NEW r, r.campaign \in Campaigns, r.seen \in Campaign, KnowsRow(r),
         NEW new \in Campaign, Save(r.campaign, r.seen, new)
  PROVE  /\ campaigns[r.campaign] = None => UNCHANGED campaigns
         /\ campaigns[r.campaign] # None =>
              /\ campaigns'[r.campaign].kind = new.kind
              /\ campaigns'[r.campaign].text = new.text
              /\ campaigns'[r.campaign].media = new.media
              /\ campaigns'[r.campaign].key = new.key
              /\ campaigns'[r.campaign].status
                   = Written(campaigns[r.campaign].status, r.seen.status, new.status)
         /\ \A j \in Campaigns \ {r.campaign} : campaigns'[j] = campaigns[j]
<1> DEFINE k == r.campaign
<1>1. campaigns[k] = None => UNCHANGED campaigns
  BY DEF Save
<1>2. \A j \in Campaigns \ {k} : campaigns'[j] = campaigns[j]
  BY SaveParts
<1>3. ASSUME campaigns[k] # None
      PROVE  /\ campaigns'[k].kind = new.kind /\ campaigns'[k].text = new.text
             /\ campaigns'[k].media = new.media /\ campaigns'[k].key = new.key
             /\ campaigns'[k].status = Written(campaigns[k].status, r.seen.status, new.status)
  <2>1. campaigns'[k] =
          [status |-> Written(campaigns[k].status, r.seen.status, new.status),
           kind |-> Written(campaigns[k].kind, r.seen.kind, new.kind),
           text |-> Written(campaigns[k].text, r.seen.text, new.text),
           media |-> Written(campaigns[k].media, r.seen.media, new.media),
           key |-> Written(campaigns[k].key, r.seen.key, new.key)]
    BY <1>3, SaveParts
  <2>2. /\ campaigns[k].kind = r.seen.kind /\ campaigns[k].text = r.seen.text
        /\ campaigns[k].media = r.seen.media /\ campaigns[k].key = r.seen.key
    BY <1>3 DEF KnowsRow
  <2> QED BY <2>1, <2>2 DEF Written
<1> QED BY <1>1, <1>2, <1>3

LEMMA ReadyWritten ==
  ASSUME Sound, ReadyI, Serial, NEW q \in Requests, Ask(q) \/ Serve(q), NEW k \in Campaigns,
         \A j \in Campaigns \ {k} : campaigns'[j] = campaigns[j] /\ contacts'[j] = contacts[j],
         RowReady(k)',
         req'[q].op \in CampaignOps => KnowsRow(req[q])' /\ PlansWell(req[q])'
  PROVE  ReadyI'
<1>1. env' = env /\ \A p \in Requests \ {q} : req'[p].op = "idle"
  BY OthersIdle
<1>2. ASSUME NEW j \in Campaigns PROVE RowReady(j)'
  <2>1. CASE j = k
    BY <2>1
  <2>2. CASE j # k
    <3>1. campaigns'[j] = campaigns[j] /\ contacts'[j] = contacts[j] /\ RowReady(j)
      BY <2>2 DEF ReadyI
    <3> QED BY <1>1, <3>1 DEF RowReady, GoodToGo, Excused, Pausable, Asked, ContactsOf
  <2> QED BY <2>1, <2>2
<1>3. \A p \in Requests : req'[p].op \in CampaignOps => p = q
  BY <1>1 DEF CampaignOps
<1> QED BY <1>2, <1>3 DEF ReadyI

(* The rows stay as they are.                                              *)
LEMMA ReadyUnwritten ==
  ASSUME Sound, ReadyI, Serial, NEW q \in Requests, Ask(q) \/ Serve(q),
         UNCHANGED <<campaigns, contacts>>,
         req'[q].op \in CampaignOps => KnowsRow(req[q])' /\ PlansWell(req[q])'
  PROVE  ReadyI'
<1>1. env' = env /\ \A p \in Requests \ {q} : req'[p].op = "idle"
  BY OthersIdle
<1>2. ASSUME NEW j \in Campaigns PROVE RowReady(j)'
  <2>1. RowReady(j)
    BY DEF ReadyI
  <2> QED BY <1>1, <2>1 DEF RowReady, GoodToGo, Excused, Pausable, Asked, ContactsOf
<1>3. \A p \in Requests : req'[p].op \in CampaignOps => p = q
  BY <1>1 DEF CampaignOps
<1> QED BY <1>2, <1>3 DEF ReadyI

(* A request that saves, and what becomes of its row.                      *)
LEMMA ReadySaved ==
  ASSUME Sound, ReadyI, Serial, NEW q \in Requests,
         Edit(q) \/ SaveAudio(q) \/ SaveLaunch(q) \/ SetStatus(q), Ask(q) \/ Serve(q)
  PROVE  ReadyI'
<1> USE DEF Sound
<1>0. PICK k : k = req[q].campaign
  OBVIOUS
<1>1. Idle.op = "idle"
  BY DEF Idle
<1>2. /\ UNCHANGED <<env, contacts>>
      /\ k \in Campaigns /\ req[q].seen \in Campaign
  BY <1>0, RowWritten
<1>3. req[q].op \in CampaignOps
  BY DEF Edit, SaveAudio, SaveLaunch, SetStatus, At, CampaignOps
<1>4. KnowsRow(req[q]) /\ PlansWell(req[q]) /\ RowReady(k)
  BY <1>2, <1>3 DEF ReadyI
<1>5. (Excused' <=> Excused) /\ (Pausable' <=> Pausable) /\ ContactsOf(k)' = ContactsOf(k)
  BY <1>2 DEF Excused, Pausable, Asked, ContactsOf
<1>6. CASE UNCHANGED campaigns /\ req'[q] = Idle
  BY <1>1, <1>2, <1>6, ReadyUnwritten DEF CampaignOps
<1>7. ASSUME NEW new \in Campaign,
             Save(k, req[q].seen, new), new.kind = req[q].seen.kind,
             EditsRow(q, new) \/ AudioToRow(q, new) \/ StatusToRow(q, new)
      PROVE  ReadyI'
  <2>1. \A j \in Campaigns \ {k} : campaigns'[j] = campaigns[j] /\ contacts'[j] = contacts[j]
    BY <1>0, <1>2, <1>4, <1>7, SerialSave DEF Typed, TypedState
  <2>2. ASSUME campaigns'[k] # None
        PROVE  /\ campaigns[k] # None
               /\ campaigns'[k].kind = new.kind /\ campaigns'[k].text = new.text
               /\ campaigns'[k].media = new.media /\ campaigns'[k].key = new.key
               /\ campaigns'[k].status
                    = Written(campaigns[k].status, req[q].seen.status, new.status)
               /\ campaigns[k].kind = new.kind
               /\ campaigns[k].text = req[q].seen.text /\ campaigns[k].media = req[q].seen.media
               /\ campaigns[k].status # req[q].seen.status =>
                    req[q].seen.status \in {"scheduled", "running"}
               /\ req[q].seen.status \in Live \/ req[q].op = "save_launch" => GoodToGo(k)
    <3>1. campaigns[k] # None
      BY <1>0, <1>2, <1>4, <1>7, <2>2, SerialSave DEF Typed, TypedState
    <3>2. /\ campaigns'[k].kind = new.kind /\ campaigns'[k].text = new.text
          /\ campaigns'[k].media = new.media /\ campaigns'[k].key = new.key
          /\ campaigns'[k].status
               = Written(campaigns[k].status, req[q].seen.status, new.status)
      BY <1>0, <1>2, <1>4, <1>7, <3>1, SerialSave DEF Typed, TypedState
    <3> QED BY <1>0, <1>4, <1>7, <3>1, <3>2 DEF KnowsRow
  <2>3. CASE EditsRow(q, new)
    <3>1. RowReady(k)'
      <4> SUFFICES ASSUME campaigns'[k] # None PROVE RowReady(k)'
        BY <1>2 DEF RowReady
      <4>1. campaigns'[k].status = campaigns[k].status /\ campaigns'[k].media = None
        BY <2>2, <2>3 DEF EditsRow, Written
      <4>2. campaigns[k].status \in Live => campaigns[k].status = "paused" /\ Asked("edit")
        BY <1>4, <2>2, <2>3 DEF EditsRow, PlansWell, Live
      <4>3. campaigns[k].status \in Live => Excused /\ ContactsOf(k) # {}
        BY <1>4, <2>2, <4>2 DEF RowReady, GoodToGo, Excused
      <4> QED BY <1>2, <1>4, <1>5, <2>2, <4>1, <4>3 DEF RowReady, GoodToGo
    <3> QED BY <1>1, <1>2, <2>1, <2>3, <3>1, ReadyWritten DEF EditsRow, CampaignOps
  <2>4. CASE AudioToRow(q, new)
    <3>1. new.media # None /\ new.media = new.text
      <4>1. req[q].op = "save_audio" /\ new.media = req[q].text /\ new.text = req[q].text
        BY <2>4 DEF AudioToRow
      <4>2. req[q].text \in Texts
        BY <4>1, CampaignParts DEF Typed, TypedRequests
      <4> QED BY <4>1, <4>2, CampaignsAssumption
    <3>2. campaigns'[k] # None => campaigns'[k].status = campaigns[k].status
      BY <2>2, <2>4 DEF AudioToRow, Written
    <3>3. ASSUME campaigns'[k] # None, ContactsOf(k) # {} PROVE GoodToGo(k)'
      BY <1>5, <2>2, <3>1, <3>3 DEF GoodToGo
    <3>4. RowReady(k)'
      BY <1>2, <1>4, <1>5, <2>2, <3>1, <3>2, <3>3 DEF RowReady, GoodToGo
    <3>5. ASSUME req'[q] = [op |-> "launch", campaign |-> k, seen |-> new, to |-> "running"]
          PROVE  KnowsRow(req[q])' /\ PlansWell(req[q])'
      <4>1. /\ req'[q].op = "launch" /\ req'[q].campaign = k /\ req'[q].seen = new
            /\ req'[q].to = "running"
        BY <3>5
      <4>2. new.status = req[q].seen.status
        BY <2>4 DEF AudioToRow
      <4>3. campaigns'[k] # None =>
              /\ campaigns'[k].status # new.status => new.status \in {"scheduled", "running"}
              /\ new.status \in Live => GoodToGo(k)'
        BY <2>2, <3>2, <3>3, <4>2 DEF GoodToGo
      <4>4. KnowsRow(req[q])'
        BY <2>2, <4>1, <4>3 DEF KnowsRow
      <4> QED BY <4>1, <4>4 DEF PlansWell
    <3> QED BY <1>1, <1>2, <2>1, <2>4, <3>4, <3>5, <1>0, ReadyWritten DEF AudioToRow, CampaignOps
  <2>5. CASE StatusToRow(q, new)
    <3>1. RowReady(k)'
      <4> SUFFICES ASSUME campaigns'[k] # None PROVE RowReady(k)'
        BY <1>2 DEF RowReady
      <4>1. /\ campaigns'[k].media = campaigns[k].media /\ campaigns'[k].text = campaigns[k].text
            /\ campaigns'[k].status \in {campaigns[k].status, req[q].to}
        BY <2>2, <2>5 DEF StatusToRow, Written
      <4>2. req[q].to \in Live => GoodToGo(k)
        BY <1>4, <2>2, <2>5 DEF StatusToRow, PlansWell, Live
      <4>3. req[q].to = "paused" => Pausable
        BY <1>4, <2>5 DEF StatusToRow, PlansWell
      <4>4. campaigns'[k].status \in Live => GoodToGo(k)
        BY <1>4, <2>2, <4>1, <4>2 DEF RowReady
      <4>5. GoodToGo(k) => GoodToGo(k)'
        BY <1>5, <2>2, <4>1 DEF GoodToGo
      <4>6. campaigns'[k].status = "paused" => Pausable
        BY <1>4, <2>2, <4>1, <4>3 DEF RowReady
      <4> QED BY <1>2, <1>4, <1>5, <2>2, <4>1, <4>4, <4>5, <4>6 DEF RowReady
    <3> QED BY <1>1, <1>2, <2>1, <2>5, <3>1, ReadyWritten DEF StatusToRow, CampaignOps
  <2> QED BY <1>7, <2>3, <2>4, <2>5
<1> QED BY <1>0, <1>6, <1>7, RowWritten

LEMMA ReadyImported ==
  ASSUME Sound, ReadyI, Serial, NEW q \in Requests, SaveImport(q), Ask(q) \/ Serve(q)
  PROVE  ReadyI'
<1> USE DEF Sound
<1>0. PICK k : k = req[q].campaign
  OBVIOUS
<1>1. Idle.op = "idle"
  BY DEF Idle
<1>2. /\ env' = env /\ k \in Campaigns /\ req[q].seen \in Campaign /\ req'[q] = Idle
  BY <1>0, ImportWritten
<1>3. KnowsRow(req[q]) /\ PlansWell(req[q]) /\ RowReady(k) /\ req[q].op = "save_import"
  BY <1>2 DEF SaveImport, At, CampaignOps, ReadyI
<1>4. CASE UNCHANGED <<campaigns, contacts>>
  BY <1>1, <1>2, <1>4, ReadyUnwritten DEF CampaignOps
<1>5. CASE ~UNCHANGED <<campaigns, contacts>>
  <2>1. /\ \A j \in Campaigns \ {k} : contacts'[j] = contacts[j]
        /\ \E new \in Campaign :
             /\ Save(k, req[q].seen, new)
             /\ new.status \in {"ready", "draft"} /\ new.kind = req[q].seen.kind
             /\ new.text = req[q].seen.text /\ new.media = req[q].seen.media
    BY <1>0, <1>5, ImportWritten
  <2>2. PICK new \in Campaign :
             /\ Save(k, req[q].seen, new)
             /\ new.status \in {"ready", "draft"} /\ new.kind = req[q].seen.kind
             /\ new.text = req[q].seen.text /\ new.media = req[q].seen.media
    BY <2>1
  <2>3. \A j \in Campaigns \ {k} : campaigns'[j] = campaigns[j] /\ contacts'[j] = contacts[j]
    BY <1>0, <1>2, <1>3, <2>1, <2>2, SerialSave DEF Typed, TypedState
  <2>4. RowReady(k)'
    <3> SUFFICES ASSUME campaigns'[k] # None PROVE RowReady(k)'
      BY <1>2 DEF RowReady
    <3>1. campaigns[k] # None
      BY <1>0, <1>2, <1>3, <2>2, SerialSave DEF Typed, TypedState
    <3>2. /\ campaigns'[k].text = new.text /\ campaigns'[k].media = new.media
          /\ campaigns'[k].status
               = Written(campaigns[k].status, req[q].seen.status, new.status)
      BY <1>0, <1>2, <1>3, <2>2, <3>1, SerialSave DEF Typed, TypedState
    <3>3. campaigns'[k].text = campaigns[k].text /\ campaigns'[k].media = campaigns[k].media
      BY <1>0, <1>3, <2>2, <3>1, <3>2 DEF KnowsRow
    <3>4. campaigns[k].status \in {"ready", "draft"}
      BY <1>0, <1>3, <3>1 DEF KnowsRow, PlansWell
    <3>5. campaigns'[k].status \in {"ready", "draft"}
      BY <2>2, <3>2, <3>4 DEF Written
    <3> QED BY <1>3, <3>1, <3>3, <3>5 DEF RowReady, Live
  <2> QED BY <1>1, <1>2, <2>3, <2>4, ReadyWritten DEF CampaignOps
<1> QED BY <1>4, <1>5

LEMMA ReadyContacted ==
  ASSUME Sound, ReadyI, Serial, NEW q \in Requests, AddContact(q), Ask(q) \/ Serve(q)
  PROVE  ReadyI'
<1> USE DEF Sound
<1>0. PICK k, new : k = req[q].campaign /\ new = req[q].new
  OBVIOUS
<1>1. Idle.op = "idle"
  BY DEF Idle
<1>2. /\ env' = env /\ k \in Campaigns /\ req[q].seen \in Campaign /\ new \in Campaign
      /\ req[q].op = "add_contact"
  BY <1>0, ContactWritten
<1>3. KnowsRow(req[q]) /\ PlansWell(req[q]) /\ RowReady(k)
  BY <1>2 DEF CampaignOps, ReadyI
<1>4. CASE UNCHANGED <<campaigns, contacts>> /\ req'[q] = Idle
  BY <1>1, <1>4, ReadyUnwritten DEF CampaignOps
<1>5. CASE ~(UNCHANGED <<campaigns, contacts>> /\ req'[q] = Idle)
  <2>1. /\ Save(k, req[q].seen, new)
        /\ contacts' = [contacts EXCEPT ![k][req[q].number] = "callable"]
    BY <1>0, <1>5, ContactWritten
  <2>2. /\ req'[q].op \in {"store_audio", "launch"} /\ req'[q].campaign = k
        /\ req'[q].seen = new
        /\ req'[q].op = "launch" => req'[q].to = "running"
    <3>1. \/ /\ req'[q].op = "store_audio" /\ req'[q].campaign = k /\ req'[q].seen = new
          \/ req'[q] = [op |-> "launch", campaign |-> k, seen |-> new, to |-> "running"]
      BY <1>0, <1>5, ContactWritten
    <3> QED BY <3>1
  <2>3. \A j \in Campaigns \ {k} : campaigns'[j] = campaigns[j] /\ contacts'[j] = contacts[j]
    <3>1. \A j \in Campaigns \ {k} : contacts'[j] = contacts[j]
      BY <2>1 DEF Typed, TypedState, CampaignsTypeOK
    <3> QED BY <1>0, <1>2, <1>3, <2>1, <3>1, SerialSave DEF Typed, TypedState
  <2>4. new.status = "ready" /\ req[q].seen.status = "draft" /\ new.media \in {None, new.text}
    BY <1>0, <1>2, <1>3 DEF PlansWell
  <2>5. ASSUME campaigns'[k] # None
        PROVE  /\ campaigns'[k].kind = new.kind /\ campaigns'[k].text = new.text
               /\ campaigns'[k].media = new.media /\ campaigns'[k].key = new.key
               /\ campaigns'[k].status = "ready"
    <3>1. campaigns[k] # None
      BY <1>0, <1>2, <1>3, <2>1, <2>5, SerialSave DEF Typed, TypedState
    <3>2. /\ campaigns'[k].kind = new.kind /\ campaigns'[k].text = new.text
          /\ campaigns'[k].media = new.media /\ campaigns'[k].key = new.key
          /\ campaigns'[k].status
               = Written(campaigns[k].status, req[q].seen.status, new.status)
      BY <1>0, <1>2, <1>3, <2>1, <3>1, SerialSave DEF Typed, TypedState
    <3>3. Written(campaigns[k].status, req[q].seen.status, new.status) = "ready"
      BY <2>4 DEF Written
    <3> QED BY <3>2, <3>3
  <2>6. RowReady(k)'
    BY <2>4, <2>5 DEF RowReady, Live
  <2>7. KnowsRow(req[q])'
    BY <2>2, <2>4, <2>5 DEF KnowsRow, Live
  <2>8. PlansWell(req[q])'
    BY <2>2 DEF PlansWell
  <2> QED BY <1>2, <2>3, <2>6, <2>7, <2>8, ReadyWritten
<1> QED BY <1>4, <1>5

LEMMA ReadyCreated ==
  ASSUME Sound, ReadyI, Serial, NEW q \in Requests, Ask(q) \/ Serve(q),
         CreateCampaign(q) \/ SingleCall(q) \/ TestCampaign(q)
  PROVE  ReadyI'
<1> USE DEF Sound
<1>1. PICK k \in Campaigns :
        /\ Inserted(k) /\ UNCHANGED contacts
        /\ (CreateCampaign(q) /\ UNCHANGED req) \/ AddsTo(q, k)
  BY CreatedRow, SingleRow
<1>2. /\ \A j \in Campaigns \ {k} : campaigns'[j] = campaigns[j] /\ contacts'[j] = contacts[j]
      /\ campaigns'[k].status = "draft" /\ campaigns'[k].media = None
  <2>1. PICK kind, text : campaigns' = [campaigns EXCEPT ![k] = Blank(kind, text)]
    BY <1>1 DEF Inserted
  <2>2. Blank(kind, text).status = "draft" /\ Blank(kind, text).media = None
    BY DEF Blank
  <2> QED BY <1>1, <2>1, <2>2 DEF Typed, TypedState, CampaignsTypeOK
<1>3. RowReady(k)'
  BY <1>2 DEF RowReady, Live
<1>4. CASE CreateCampaign(q) /\ UNCHANGED req
  <2>1. req'[q].op = "idle"
    BY <1>4, FreeIsIdle DEF CreateCampaign
  <2> QED BY <1>2, <1>3, <2>1, ReadyWritten DEF CampaignOps
<1>5. CASE AddsTo(q, k)
  <2>1. /\ req'[q].op = "add_contact" /\ req'[q].campaign = k /\ req'[q].seen = campaigns'[k]
        /\ req'[q].new.status = "ready" /\ req'[q].new.kind = req'[q].seen.kind
        /\ req'[q].new.text = req'[q].seen.text
        /\ \/ req'[q].new.media = None
           \/ \E m \in Campaigns :
                /\ campaigns[m] # None /\ req'[q].new.text = campaigns[m].text
                /\ req'[q].new.media = campaigns[m].media
    BY <1>5 DEF AddsTo
  <2>2. req'[q].new.media \in {None, req'[q].new.text}
    <3>1. ASSUME NEW m \in Campaigns, campaigns[m] # None
          PROVE  campaigns[m].media \in {None, campaigns[m].text}
      BY <3>1 DEF ReadyI, RowReady
    <3> QED BY <2>1, <3>1
  <2>3. KnowsRow(req[q])'
    BY <1>2, <2>1 DEF KnowsRow, Live
  <2>4. PlansWell(req[q])'
    BY <1>2, <2>1, <2>2 DEF PlansWell
  <2> QED BY <1>2, <1>3, <2>3, <2>4, ReadyWritten
<1> QED BY <1>1, <1>4, <1>5

LEMMA ReadyRequest ==
  ASSUME Sound, ReadyI, NEW q \in Requests, CampaignAsked(q) \/ CampaignGoesOn(q),
         UNCHANGED <<conversationVars, libraryVars, accountVars>>
  PROVE  ReadyI'
<1> USE DEF Sound
<1>1. Ask(q) \/ Serve(q)
  BY DEF Ask, Serve
<1>2. env' = env
  BY <1>1, RequestMoves
<1>3. SUFFICES ASSUME Serial PROVE ReadyI'
  BY <1>2 DEF ReadyI, Serial, Fault
<1>4. Idle.op = "idle"
  BY DEF Idle
<1>5. (Excused' <=> Excused) /\ (Pausable' <=> Pausable)
  BY <1>2 DEF Excused, Pausable, Asked
<1>6. ASSUME UNCHANGED contacts, NEW k PROVE ContactsOf(k)' = ContactsOf(k)
  BY <1>6 DEF ContactsOf
<1>7. req[q].op \in CampaignOps => KnowsRow(req[q]) /\ PlansWell(req[q])
  BY <1>3 DEF ReadyI
<1>8. CASE LoadEdit(q) \/ LoadAudio(q) \/ LoadImport(q) \/ LoadLaunch(q) \/ LoadStatus(q)
  <2>1. Loading(q) /\ UNCHANGED <<campaigns, contacts>>
    BY <1>8, LoadsRow DEF campaignVars
  <2>2. PICK k : k = req'[q].campaign
    OBVIOUS
  <2>3. RowReady(k) /\ k \in Campaigns
    BY <1>3, <2>1, <2>2 DEF Loading, ReadyI
  <2>4. KnowsRow(req[q])'
    BY <1>5, <1>6, <2>1, <2>2, <2>3 DEF KnowsRow, Loading, RowReady, GoodToGo
  <2>5. PlansWell(req[q])'
    BY <1>2, <2>1, <2>2, <2>3 DEF PlansWell, Loading, RowReady, Live, Pausable, Asked
  <2> QED BY <1>1, <1>3, <2>1, <2>4, <2>5, ReadyUnwritten
<1>9. ASSUME UNCHANGED <<campaigns, contacts>>, SameRow(q), req[q].op \in CampaignOps,
             req'[q].op = "save_launch" =>
               /\ ContactsOf(req[q].campaign) # {}
               /\ req[q].seen.kind = "ai" \/ req[q].seen.media # None
      PROVE  KnowsRow(req[q])'
  <2>1. PICK k : k = req[q].campaign
    OBVIOUS
  <2>2. req'[q].campaign = k /\ req'[q].seen = req[q].seen /\ KnowsRow(req[q])
    BY <1>7, <1>9, <2>1 DEF SameRow
  <2>3. GoodToGo(k)' <=> GoodToGo(k)
    BY <1>5, <1>6, <1>9 DEF GoodToGo
  <2>4. campaigns[k] # None /\ req'[q].op = "save_launch" => GoodToGo(k)
    BY <1>9, <2>1, <2>2 DEF GoodToGo, KnowsRow
  <2> QED BY <1>9, <2>1, <2>2, <2>3, <2>4 DEF KnowsRow
<1>10. CASE StoreAudio(q) \/ SendAudio(q)
  <2>1. /\ UNCHANGED <<campaigns, contacts>>
        /\ \/ req'[q] = Idle
           \/ /\ SameRow(q) /\ req[q].op \in {"store_audio", "send_audio"}
              /\ req'[q].op \in {"send_audio", "save_audio"}
    BY <1>10, AudioGoesOn
  <2>2. req'[q].op \in CampaignOps => KnowsRow(req[q])' /\ PlansWell(req[q])'
    BY <1>4, <1>9, <2>1 DEF CampaignOps, PlansWell
  <2> QED BY <1>1, <1>3, <2>1, <2>2, ReadyUnwritten
<1>11. CASE ReadImport(q)
  <2>1. /\ UNCHANGED <<campaigns, contacts>> /\ SameRow(q)
        /\ req[q].op = "import" /\ req'[q].op = "save_import"
    BY <1>11, ImportGoesOn DEF campaignVars
  <2>2. KnowsRow(req[q])'
    BY <1>9, <2>1 DEF CampaignOps
  <2>3. PlansWell(req[q])'
    BY <1>7, <2>1 DEF CampaignOps, PlansWell, SameRow
  <2> QED BY <1>1, <1>3, <2>1, <2>2, <2>3, ReadyUnwritten
<1>12. CASE Launch(q)
  <2>1. UNCHANGED <<campaigns, contacts>>
    BY <1>12, LaunchGoesOn DEF campaignVars
  <2>2. CASE req'[q] = Idle
    BY <1>1, <1>3, <1>4, <2>1, <2>2, ReadyUnwritten DEF CampaignOps
  <2>3. CASE req'[q] # Idle
    <3>1. /\ SameRow(q) /\ req[q].op = "launch" /\ req'[q].op = "save_launch"
          /\ req'[q].to = req[q].to /\ CallableOf(req[q].campaign) # {}
          /\ req[q].seen.kind = "ai" \/ req[q].seen.media # None
      BY <1>12, <2>3, LaunchGoesOn
    <3>2. ContactsOf(req[q].campaign) # {}
      <4>1. "callable" # None
        BY CampaignsAssumption
      <4> QED BY <3>1, <4>1 DEF CallableOf, ContactsOf
    <3>3. KnowsRow(req[q])'
      BY <1>9, <2>1, <3>1, <3>2 DEF CampaignOps
    <3>4. PlansWell(req[q])'
      BY <1>7, <3>1 DEF CampaignOps, PlansWell
    <3> QED BY <1>1, <1>3, <2>1, <3>3, <3>4, ReadyUnwritten
  <2> QED BY <2>2, <2>3
<1>13. CASE AddDnc(q) \/ DeleteDnc(q)
  <2>1. UNCHANGED <<campaigns, contacts, req>> /\ req[q].op = "idle"
    BY <1>13, FreeIsIdle DEF AddDnc, DeleteDnc
  <2> QED BY <1>1, <1>3, <2>1, ReadyUnwritten DEF CampaignOps
<1> QED
  BY <1>1, <1>3, <1>8, <1>10, <1>11, <1>12, <1>13, ReadySaved, ReadyImported, ReadyContacted,
     ReadyCreated DEF CampaignAsked, CampaignGoesOn

-----------------------------------------------------------------------------
CampaignsI == Sound /\ MediaI /\ ReadyI

LEMMA CampaignsIInit == Init => CampaignsI
<1> SUFFICES ASSUME Init PROVE CampaignsI
  OBVIOUS
<1>1. /\ \A k \in Campaigns : campaigns[k] = None
      /\ \A q \in Requests : req[q].op = "idle"
  BY DEF Init, TasksInit, CampaignsInit
<1>2. MediaI
  BY <1>1 DEF MediaI, Heard, Backed, CampaignOps
<1>3. ReadyI
  BY <1>1 DEF ReadyI, RowReady, CampaignOps
<1> QED BY <1>2, <1>3, SoundInit DEF CampaignsI

LEMMA CampaignsINext == CampaignsI /\ [Next]_backOfficeVars => CampaignsI'
<1> SUFFICES ASSUME CampaignsI, [Next]_backOfficeVars PROVE CampaignsI'
  OBVIOUS
<1> USE DEF CampaignsI
<1>1. Sound'
  BY SoundNext
<1>2. ASSUME NEW q \in Requests, CampaignsMove(q)
      PROVE  MediaI' /\ ReadyI'
  <2>1. MediaI'
    BY <1>2, MediaWritten DEF Sound, CampaignsMove
  <2>2. ReadyI'
    BY <1>2, ReadyRequest DEF CampaignsMove
  <2> QED BY <2>1, <2>2
<1>3. CASE Dial
  <2>1. MediaI'
    BY <1>3, MediaDialled DEF Sound
  <2>2. ReadyI'
    BY <1>3, ReadyDialled
  <2> QED BY <1>1, <2>1, <2>2
<1>4. CASE ~Dial /\ \A q \in Requests : ~CampaignsMove(q)
  <2>1. /\ RowsKept /\ Keeps(CampaignOps) /\ UNCHANGED <<env, atAsterisk>>
        /\ UNCHANGED contacts \/ \A k \in Campaigns : campaigns'[k] = None
    BY <1>4, CampaignsApart
  <2>2. MediaI'
    BY <2>1, MediaKept
  <2>3. ReadyI'
    BY <2>1, ReadyKept
  <2> QED BY <1>1, <2>2, <2>3
<1> QED BY <1>1, <1>2, <1>3, <1>4

(* outbound_campaigns/service.py: a campaign whose row names audio has it  *)
(* at Asterisk, whatever overlaps, fails or dies.  Where requests do not   *)
(* overlap, that audio says what the campaign says, and a campaign that is *)
(* scheduled or running has contacts and, if it is a broadcast that could  *)
(* not be edited while paused, audio.                                      *)
THEOREM WhatIsDialledIsReady == Spec => []BroadcastsReady
<1>1. CampaignsI => BroadcastsReady
  <2> SUFFICES ASSUME CampaignsI, NEW k \in Campaigns, campaigns[k] # None
               PROVE  /\ campaigns[k].media # None => campaigns[k].media \in atAsterisk
                      /\ Serial =>
                           /\ campaigns[k].media \in {None, campaigns[k].text}
                           /\ campaigns[k].status \in {"scheduled", "running"} =>
                                /\ ContactsOf(k) # {}
                                /\ campaigns[k].kind = "broadcast" /\ ~Excused =>
                                     campaigns[k].media # None
    BY DEF BroadcastsReady, Serial, Excused
  <2>1. campaigns[k].media # None => campaigns[k].media \in atAsterisk
    BY DEF CampaignsI, MediaI, Backed, Names
  <2>2. Serial => RowReady(k)
    BY DEF CampaignsI, ReadyI
  <2> QED BY <2>1, <2>2 DEF RowReady, GoodToGo, Live
<1> QED BY <1>1, CampaignsIInit, CampaignsINext, PTL DEF Spec
=============================================================================
