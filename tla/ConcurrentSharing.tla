------------------------- MODULE ConcurrentSharing -------------------------
(***************************************************************************)
(* Handlers of one story page in the threads of one API process.  They are *)
(* plain functions on the shared store without a lock: each attribute that *)
(* another handler may change is read or written in a step of its own, the *)
(* attributes of one link together, and a loop over share_links breaks off *)
(* with an error when a link has been inserted since it began.             *)
(*                                                                         *)
(* The page is there from the start, its project verified.  What claims    *)
(* and issues allow is in StoryWorkflow, what reaches the database in      *)
(* StorePersistence; reset links are left out.                             *)
(***************************************************************************)
CONSTANTS
  Threads,  \* handlers at work at one time
  Links,    \* share link ids
  None      \* no link

ASSUME NoneAssumption == None \notin Links

VARIABLES
  project,    \* its status and whether deleted_at is set
  has_family_sharing_consent,
  page,       \* enabled, share_links_enabled, deleted_at
  links,      \* a record for each link, those not created yet included
  token,      \* an access log holds a media token
  pc,         \* where each thread is
  link,       \* the link its request is about
  opens,      \* create_share_link: what it read of the page
  rest,       \* links its loop has yet to visit
  size,       \* links there were when its loop began
  \* history
  erased,     \* a deletion request has returned
  overtaken,  \* the last withdrawal met a publication that had read the consent
  dead,       \* links whose revocation has returned
  shut_out    \* why a thread's reader was to be refused when it called

store_vars == <<project, has_family_sharing_consent, page, links, token>>
thread_vars == <<link, opens, rest, size>>
history_vars == <<erased, overtaken, dead, shut_out>>
vars == <<store_vars, pc, thread_vars, history_vars>>

Status == {"verified", "elder_second_consent_pending", "published", "deletion_requested"}
LinkRecord == [created : BOOLEAN, enabled : BOOLEAN, revoked : BOOLEAN, deleted : BOOLEAN]
NewLink == [created |-> FALSE, enabled |-> FALSE, revoked |-> FALSE, deleted |-> FALSE]
Created == {l \in Links : links[l].created}

PublishSteps == {"publish_gate", "publish_consent", "publish_links", "publish_status",
                 "publish_page", "publish_share", "publish_loop", "publish_link"}
WithdrawSteps == {"withdraw_flag", "withdraw_page", "withdraw_share", "withdraw_loop"}
DeleteSteps == {"delete_project", "delete_records", "delete_page", "delete_share",
                "delete_mark", "delete_loop"}
OtherSteps == {"idle", "create_read", "create_insert", "revoke_off", "revoke_mark",
               "view_page", "view_share", "view_link", "audio_page", "audio_token", "answered"}

Init ==
  /\ project = [status |-> "verified", deleted |-> FALSE]
  /\ has_family_sharing_consent = FALSE
  /\ page = [enabled |-> FALSE, share |-> FALSE, deleted |-> FALSE]
  /\ links = [l \in Links |-> NewLink]
  /\ token = FALSE
  /\ pc = [t \in Threads |-> "idle"]
  /\ link = [t \in Threads |-> None]
  /\ opens = [t \in Threads |-> FALSE]
  /\ rest = [t \in Threads |-> {}]
  /\ size = [t \in Threads |-> {}]
  /\ erased = FALSE
  /\ overtaken = FALSE
  /\ dead = {}
  /\ shut_out = [t \in Threads |-> {}]

-----------------------------------------------------------------------------
(* Steps *)

At(t, step) == pc[t] = step
Go(t, step) == pc' = [pc EXCEPT ![t] = step]

\* A step of t that changes neither the thread's variables nor the history.
Step(t, from, to) == At(t, from) /\ Go(t, to) /\ UNCHANGED <<thread_vars, history_vars>>

\* _owned_project
Owned == ~project.deleted

\* A loop visits the links; it ends after the last, and breaks off when links were
\* inserted.
Visit(t, here, l) ==
  /\ At(t, here)
  /\ size[t] = Created
  /\ rest' = [rest EXCEPT ![t] = @ \ {l}]
  /\ UNCHANGED <<project, has_family_sharing_consent, page, token, pc, link, opens, size,
                 history_vars>>
LoopOver(t) == size[t] # Created \/ rest[t] = {}
BeginLoop(t) ==
  /\ rest' = [rest EXCEPT ![t] = Created]
  /\ size' = [size EXCEPT ![t] = Created]
EndLoop(t, to) ==
  /\ Go(t, to)
  /\ rest' = [rest EXCEPT ![t] = {}]
  /\ size' = [size EXCEPT ![t] = {}]
  /\ UNCHANGED <<link, opens>>

-----------------------------------------------------------------------------
(* The consent; recording it and asking for it are one step each *)

\* record_consent
RecordConsent ==
  /\ Owned
  /\ has_family_sharing_consent' = TRUE
  /\ UNCHANGED <<project, page, links, token, pc, thread_vars, history_vars>>

\* request_second_consent, of a project that is verified again
RequestSecondConsent ==
  /\ Owned
  /\ project' = [project EXCEPT !.status = "elder_second_consent_pending"]
  /\ UNCHANGED <<has_family_sharing_consent, page, links, token, pc, thread_vars, history_vars>>

\* The order of withdraw_consent: the flag, the page, its links.
FlagLast == [begin |-> "withdraw_page", flag |-> "idle", loop |-> "withdraw_flag"]
Following == [begin |-> "withdraw_flag", flag |-> "withdraw_page", loop |-> "idle"]

BeginWithdraw(t) ==
  /\ Owned
  /\ Step(t, "idle", Following.begin)
  /\ UNCHANGED store_vars

PastGate == PublishSteps \ {"publish_gate", "publish_consent"}

WithdrawFlag(t) ==
  /\ At(t, "withdraw_flag")
  /\ Go(t, Following.flag)
  /\ has_family_sharing_consent' = FALSE
  /\ overtaken' = \E u \in Threads : pc[u] \in PastGate
  /\ UNCHANGED <<project, page, links, token, thread_vars, erased, dead, shut_out>>

WithdrawPage(t) ==
  /\ Step(t, "withdraw_page", "withdraw_share")
  /\ page' = [page EXCEPT !.enabled = FALSE]
  /\ UNCHANGED <<project, has_family_sharing_consent, links, token>>

WithdrawShare(t) ==
  /\ At(t, "withdraw_share")
  /\ Go(t, "withdraw_loop")
  /\ page' = [page EXCEPT !.share = FALSE]
  /\ BeginLoop(t)
  /\ UNCHANGED <<project, has_family_sharing_consent, links, token, link, opens, history_vars>>

RevokedByWithdrawal(l) == [l EXCEPT !.enabled = FALSE, !.revoked = TRUE]
WithdrawLink(t) ==
  \E l \in rest[t] :
    /\ Visit(t, "withdraw_loop", l)
    /\ links' = [links EXCEPT ![l] = RevokedByWithdrawal(@)]

EndWithdraw(t) ==
  /\ At(t, "withdraw_loop")
  /\ LoopOver(t)
  /\ EndLoop(t, IF size[t] = Created THEN Following.loop ELSE "idle")
  /\ UNCHANGED <<store_vars, history_vars>>

-----------------------------------------------------------------------------
(* publish *)

BeginPublish(t) ==
  /\ Owned
  /\ Step(t, "idle", "publish_gate")
  /\ UNCHANGED store_vars

\* The gate's inputs are read in this order; what it will refuse ends the call here, and
\* so does a link inserted while it looks at them.
PublishGate(t) ==
  /\ Step(t, "publish_gate",
          IF project.status = "elder_second_consent_pending" THEN "publish_consent" ELSE "idle")
  /\ UNCHANGED store_vars

PublishConsent(t) ==
  /\ Step(t, "publish_consent", IF has_family_sharing_consent THEN "publish_links" ELSE "idle")
  /\ UNCHANGED store_vars

PublishLinks(t) ==
  /\ Step(t, "publish_links",
          IF \A l \in Created : ~links[l].enabled \/ links[l].deleted
          THEN "publish_status" ELSE "idle")
  /\ UNCHANGED store_vars

PublishStatus(t) ==
  /\ Step(t, "publish_status", "publish_page")
  /\ project' = [project EXCEPT !.status = "published"]
  /\ UNCHANGED <<has_family_sharing_consent, page, links, token>>

PublishPage(t) ==
  /\ Step(t, "publish_page", "publish_share")
  /\ page' = [page EXCEPT !.enabled = TRUE]
  /\ UNCHANGED <<project, has_family_sharing_consent, links, token>>

PublishShare(t) ==
  /\ At(t, "publish_share")
  /\ Go(t, "publish_loop")
  /\ page' = [page EXCEPT !.share = TRUE]
  /\ BeginLoop(t)
  /\ UNCHANGED <<project, has_family_sharing_consent, links, token, link, opens, history_vars>>

\* A link may be revoked between the look at revoked_at and the write of enabled.
PublishLook(t) ==
  /\ At(t, "publish_loop")
  /\ size[t] = Created
  /\ \E l \in rest[t] :
       /\ rest' = [rest EXCEPT ![t] = @ \ {l}]
       /\ IF links[l].revoked \/ links[l].deleted
          THEN UNCHANGED <<pc, link>>
          ELSE Go(t, "publish_link") /\ link' = [link EXCEPT ![t] = l]
  /\ UNCHANGED <<store_vars, opens, size, history_vars>>

PublishLink(t) ==
  /\ At(t, "publish_link")
  /\ Go(t, "publish_loop")
  /\ links' = [links EXCEPT ![link[t]].enabled = TRUE]
  /\ link' = [link EXCEPT ![t] = None]
  /\ UNCHANGED <<project, has_family_sharing_consent, page, token, opens, rest, size,
                 history_vars>>

EndPublish(t) ==
  /\ At(t, "publish_loop")
  /\ LoopOver(t)
  /\ EndLoop(t, "idle")
  /\ UNCHANGED <<store_vars, history_vars>>

-----------------------------------------------------------------------------
(* Links *)

BeginCreate(t) ==
  /\ Owned
  /\ ~page.deleted
  /\ Step(t, "idle", "create_read")
  /\ UNCHANGED store_vars

\* The page may close between this and the insertion.
CreateRead(t) ==
  /\ At(t, "create_read")
  /\ Go(t, "create_insert")
  /\ opens' = [opens EXCEPT ![t] = page.enabled /\ page.share]
  /\ UNCHANGED <<store_vars, link, rest, size, history_vars>>

CreateInsert(t) ==
  /\ Step(t, "create_insert", "idle")
  /\ \E l \in Links \ Created :
       links' = [links EXCEPT ![l] = [NewLink EXCEPT !.created = TRUE, !.enabled = opens[t]]]
  /\ UNCHANGED <<project, has_family_sharing_consent, page, token>>

BeginRevoke(t) ==
  /\ Owned
  /\ At(t, "idle")
  /\ Go(t, "revoke_off")
  /\ \E l \in Created : link' = [link EXCEPT ![t] = l]
  /\ UNCHANGED <<store_vars, opens, rest, size, history_vars>>

RevokeOff(t) ==
  /\ Step(t, "revoke_off", "revoke_mark")
  /\ links' = [links EXCEPT ![link[t]].enabled = FALSE]
  /\ UNCHANGED <<project, has_family_sharing_consent, page, token>>

RevokeMark(t) ==
  /\ At(t, "revoke_mark")
  /\ Go(t, "idle")
  /\ links' = [links EXCEPT ![link[t]].revoked = TRUE]
  /\ dead' = dead \cup {link[t]}
  /\ link' = [link EXCEPT ![t] = None]
  /\ UNCHANGED <<project, has_family_sharing_consent, page, token, opens, rest, size, erased,
                 overtaken, shut_out>>

-----------------------------------------------------------------------------
(* request_deletion *)

BeginDelete(t) ==
  /\ Owned
  /\ Step(t, "idle", "delete_project")
  /\ UNCHANGED store_vars

\* Not asked again: two requests may run at once.
DeleteProjectRecord(t) ==
  /\ Step(t, "delete_project", "delete_records")
  /\ project' = [status |-> "deletion_requested", deleted |-> TRUE]
  /\ UNCHANGED <<has_family_sharing_consent, page, links, token>>

\* Loops over photos, chunks and the other records: one of them may break off too.
DeleteRecords(t) ==
  /\ Step(t, "delete_records", "delete_page") \/ Step(t, "delete_records", "idle")
  /\ UNCHANGED store_vars

DeletePage(t) ==
  /\ Step(t, "delete_page", "delete_share")
  /\ page' = [page EXCEPT !.enabled = FALSE]
  /\ UNCHANGED <<project, has_family_sharing_consent, links, token>>

DeleteShare(t) ==
  /\ Step(t, "delete_share", "delete_mark")
  /\ page' = [page EXCEPT !.share = FALSE]
  /\ UNCHANGED <<project, has_family_sharing_consent, links, token>>

DeleteMark(t) ==
  /\ At(t, "delete_mark")
  /\ Go(t, "delete_loop")
  /\ page' = [page EXCEPT !.deleted = TRUE]
  /\ BeginLoop(t)
  /\ UNCHANGED <<project, has_family_sharing_consent, links, token, link, opens, history_vars>>

ClosedByDeletion(l) == [l EXCEPT !.enabled = FALSE, !.revoked = TRUE, !.deleted = TRUE]
DeleteLink(t) ==
  \E l \in rest[t] :
    /\ Visit(t, "delete_loop", l)
    /\ links' = [links EXCEPT ![l] = ClosedByDeletion(@)]

\* It returns unless its loop broke off, or one of those over comments, exports and
\* consents after it.
EndDelete(t) ==
  /\ At(t, "delete_loop")
  /\ LoopOver(t)
  /\ EndLoop(t, "idle")
  /\ erased' \in {erased, erased \/ size[t] = Created}
  /\ UNCHANGED <<store_vars, overtaken, dead, shut_out>>

-----------------------------------------------------------------------------
(* Readers: the page, a comment and the PDF by a link; audio by a media token *)

BeginRead(t, step, l) ==
  /\ At(t, "idle")
  /\ Go(t, step)
  /\ link' = [link EXCEPT ![t] = l]
  /\ shut_out' = [shut_out EXCEPT ![t] = (IF erased THEN {"deletion"} ELSE {})
                                         \cup IF l \in dead THEN {"revocation"} ELSE {}]
  /\ UNCHANGED <<store_vars, opens, rest, size, erased, overtaken, dead>>

BeginView(t) == \E l \in Created : BeginRead(t, "view_page", l)
BeginAudio(t) == token /\ BeginRead(t, "audio_page", None)

\* A request that is refused, or whose answer was sent.
EndRead(t) ==
  /\ Go(t, "idle")
  /\ link' = [link EXCEPT ![t] = None]
  /\ shut_out' = [shut_out EXCEPT ![t] = {}]
  /\ UNCHANGED <<opens, rest, size, erased, overtaken, dead>>

ServedIfEnabled == page.enabled
Served == page.enabled /\ ~page.deleted

\* active_share_link: the link of the token
UsableIfEnabled(l) == links[l].enabled
Usable(l) == links[l].enabled /\ ~links[l].revoked /\ ~links[l].deleted

Check(t, from, holds, to) ==
  /\ At(t, from)
  /\ IF holds THEN Go(t, to) /\ UNCHANGED <<thread_vars, history_vars>> ELSE EndRead(t)
  /\ UNCHANGED store_vars

ViewPage(t) == Check(t, "view_page", Served, "view_share")
ViewShare(t) == Check(t, "view_share", page.share, "view_link")

\* A link that is found is logged with a token for the audio.
ViewLink(t) ==
  /\ At(t, "view_link")
  /\ IF Usable(link[t])
     THEN Go(t, "answered") /\ token' = TRUE /\ UNCHANGED <<thread_vars, history_vars>>
     ELSE EndRead(t) /\ UNCHANGED token
  /\ UNCHANGED <<project, has_family_sharing_consent, page, links>>

AudioPage(t) == Check(t, "audio_page", Served, "audio_token")
AudioToken(t) == Check(t, "audio_token", token, "answered")

Answer(t) ==
  /\ At(t, "answered")
  /\ EndRead(t)
  /\ UNCHANGED store_vars

-----------------------------------------------------------------------------
Withdraw(t) ==
  \/ BeginWithdraw(t) \/ WithdrawFlag(t) \/ WithdrawPage(t) \/ WithdrawShare(t)
  \/ WithdrawLink(t) \/ EndWithdraw(t)
Publish(t) ==
  \/ BeginPublish(t) \/ PublishGate(t) \/ PublishConsent(t) \/ PublishLinks(t) \/ PublishStatus(t)
  \/ PublishPage(t) \/ PublishShare(t) \/ PublishLook(t) \/ PublishLink(t) \/ EndPublish(t)
CreateShareLink(t) == BeginCreate(t) \/ CreateRead(t) \/ CreateInsert(t)
RevokeShareLink(t) == BeginRevoke(t) \/ RevokeOff(t) \/ RevokeMark(t)
DeleteProject(t) ==
  \/ BeginDelete(t) \/ DeleteProjectRecord(t) \/ DeleteRecords(t) \/ DeletePage(t)
  \/ DeleteShare(t) \/ DeleteMark(t) \/ DeleteLink(t) \/ EndDelete(t)
Read(t) ==
  \/ BeginView(t) \/ ViewPage(t) \/ ViewShare(t) \/ ViewLink(t)
  \/ BeginAudio(t) \/ AudioPage(t) \/ AudioToken(t) \/ Answer(t)

Next ==
  \/ RecordConsent \/ RequestSecondConsent
  \/ \E t \in Threads : Withdraw(t) \/ Publish(t) \/ CreateShareLink(t) \/ RevokeShareLink(t)
                        \/ DeleteProject(t) \/ Read(t)

Spec == Init /\ [][Next]_vars
-----------------------------------------------------------------------------
(* Properties *)

\* The store and every thread hold values of their kind; a loop visits created links.
TypeOK ==
  /\ project \in [status : Status, deleted : BOOLEAN]
  /\ has_family_sharing_consent \in BOOLEAN
  /\ page \in [enabled : BOOLEAN, share : BOOLEAN, deleted : BOOLEAN]
  /\ links \in [Links -> LinkRecord]
  /\ token \in BOOLEAN
  /\ pc \in [Threads -> PublishSteps \cup WithdrawSteps \cup DeleteSteps \cup OtherSteps]
  /\ link \in [Threads -> Links \cup {None}]
  /\ opens \in [Threads -> BOOLEAN]
  /\ rest \in [Threads -> SUBSET Links]
  /\ size \in [Threads -> SUBSET Links]
  /\ \A t \in Threads : rest[t] \subseteq size[t] /\ size[t] \subseteq Created
  /\ erased \in BOOLEAN
  /\ overtaken \in BOOLEAN
  /\ dead \subseteq Links
  /\ shut_out \in [Threads -> SUBSET {"deletion", "revocation"}]

\* Between calls of withdraw_consent an open page has a consent, unless a publication
\* had already read the consent when it was withdrawn.  A withdrawal whose loop over the
\* links broke off has closed the page all the same.
SharedUnderConsent ==
  page.enabled \/ page.share =>
    \/ has_family_sharing_consent
    \/ overtaken
    \/ \E t \in Threads : pc[t] \in WithdrawSteps

\* Whoever asks for the page, a comment, the PDF or audio after a deletion has returned
\* is not answered, whatever publication was under way: the mark on the page counts, not
\* its flags.
DeletionSilences == \A t \in Threads : "deletion" \in shut_out[t] => ~At(t, "answered")

\* Whoever comes with a link whose revocation has returned is not answered, whatever
\* publication enabled the link again at the same time.
RevocationHolds == \A t \in Threads : "revocation" \in shut_out[t] => ~At(t, "answered")
=============================================================================
