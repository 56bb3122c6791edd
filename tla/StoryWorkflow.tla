--------------------------- MODULE StoryWorkflow ---------------------------
(***************************************************************************)
(* The story half of one project's life in the API: claims and their       *)
(* family corrections, story drafts, verification issues, the second       *)
(* consent, the publish gate, share links, consent withdrawal and the      *)
(* deletion request.  Each action is one API handler (main.py) together    *)
(* with the store methods it calls (store.py); a call the handler rejects  *)
(* changes nothing and is no step.  Every handler runs to completion       *)
(* before the next one starts: that is this module's abstraction.          *)
(*                                                                         *)
(* InterviewIntake has the interview half.  No story handler asks for an   *)
(* interview or tells the statuses of that half apart, so the status       *)
(* "created" stands for payment_marked and the interview statuses too.     *)
(***************************************************************************)
EXTENDS Naturals, FiniteSets

CONSTANTS
  Claims,       \* claim ids the project may ever have
  SeedClaim,    \* the P0 claim that seed_claims_for_project makes
  Candidates,   \* claims converted from a photo hypothesis
  P0,           \* claims of priority P0
  Evidenced,    \* claims with source_segment_ids
  Unsupported,  \* claims with support_status "unsupported"
  Sensitive,    \* claims with a sensitivity level above normal
  Sections,     \* chapter slugs fed by SECTION_MAP
  SectionOf,    \* SECTION_MAP applied to a claim's type
  Appendix,     \* the unconfirmed-appendix chapter
  Pages,        \* story page ids
  NoPage,       \* story_page_id is None
  Links,        \* share link ids
  Consents,     \* ids of family_sharing consent records
  Corrections,  \* the correction actions the family uses
  MaxOpen       \* bound: unresolved issues of one kind on one subject

CorrectionActions == {"confirm", "modify", "unsure", "hide_from_family", "delete"}

ASSUME ClaimAssumption ==
  /\ SeedClaim \in Claims \ Candidates
  /\ Candidates \subseteq Claims
  /\ SeedClaim \in P0 \cap Evidenced
  /\ SeedClaim \notin Unsupported \cup Sensitive
  /\ Candidates \cap (P0 \cup Evidenced \cup Unsupported \cup Sensitive) = {}
ASSUME ChapterAssumption ==
  /\ SectionOf \in [Claims -> Sections]
  /\ Appendix \notin Sections
ASSUME PageAssumption == NoPage \notin Pages
ASSUME InputAssumption == Corrections \subseteq CorrectionActions /\ MaxOpen \in Nat

VARIABLES
  status,              \* project.status
  deleted,             \* project.deleted_at is set
  \* claims
  listed,              \* claims_by_project[project]
  verification_status, \* claim.verification_status
  deleted_claims,      \* claims whose deleted_at is set
  reviewed,            \* claims with human_reviewed
  wordy,               \* claims whose public text has two factful sentences
  taken_back,          \* history: claims hidden or deleted after the page told them
  \* verification issues (every issue the verifier makes has severity "block")
  open_issues,         \* how many unresolved issues there are of each kind
  resolved_once,       \* some issue has been resolved
  \* story pages
  story_page_id,       \* project.story_page_id
  pages,               \* story pages that exist
  draft,               \* page.draft: the claim_ids of each chapter
  overfull,            \* chapters of the draft with more factful sentences than claims
  enabled,             \* pages with enabled and share_links_enabled: always set together
  deleted_pages,       \* pages whose deleted_at is set
  examined,            \* history: pages whose draft some verifier run has read
  \* share links
  links,               \* share links that exist
  link_page,           \* link.story_page_id
  link_enabled,        \* links with enabled set
  link_revoked,        \* links with revoked_at set
  link_deleted,        \* links with deleted_at set
  \* consent
  consent,             \* state of each family_sharing consent record
  has_family_sharing_consent

claim_vars == <<listed, verification_status, deleted_claims, reviewed, wordy, taken_back>>
issue_vars == <<open_issues, resolved_once>>
page_vars == <<story_page_id, pages, draft, overfull, enabled, deleted_pages, examined>>
link_vars == <<links, link_page, link_enabled, link_revoked, link_deleted>>
consent_vars == <<consent, has_family_sharing_consent>>
vars == <<status, deleted, claim_vars, issue_vars, page_vars, link_vars, consent_vars>>

-----------------------------------------------------------------------------
(* Types *)

Chapters == Sections \cup {Appendix}
ProcessedStatuses == {"confirmed", "modified", "marked_unsure", "hidden", "deleted", "rejected"}
VerificationStatuses == {"pending"} \cup ProcessedStatuses
StoryStatuses ==
  {"created", "family_correction_completed", "story_generated", "verified",
   "elder_second_consent_pending", "published", "deletion_requested"}
IssueKinds ==
  ({"unsupported_claim", "family_confirmation", "sensitive_content"} \X Claims)
    \cup ({"citation_coverage"} \X Chapters)
NoDraft == [ch \in Chapters |-> {}]

-----------------------------------------------------------------------------
(* Helpers *)

\* _owned_project: the owner's calls find the project until it is deleted.
Owned == ~deleted

\* seed_claims_for_project: a project with no claims gets the seed claim.
Seeded == IF listed = {} THEN {SeedClaim} ELSE listed

\* The claims a draft may draw on: deleted_at is empty.
StoryClaimsWithDeleted == listed
StoryClaims == listed \ deleted_claims

Unprocessed(claims) ==
  {c \in claims \cap P0 : verification_status[c] \notin ProcessedStatuses}

HasStoryEvidence(c) == c \in Evidenced /\ c \notin Unsupported

\* generate_narrative_draft: confirmed and modified claims go to the chapter
\* of their type, unsure ones to the appendix, all others nowhere.
NarrativeDraft ==
  [ch \in Chapters |->
     {c \in StoryClaims :
        /\ HasStoryEvidence(c)
        /\ IF ch = Appendix
           THEN verification_status[c] = "marked_unsure"
           ELSE verification_status[c] \in {"confirmed", "modified"} /\ SectionOf[c] = ch}]

\* The claims a page tells, whatever became of them since.
Told(p) == UNION {draft[p][ch] : ch \in Chapters}

LinksOf(p) == {l \in links : link_page[l] = p}

\* _unresolved_block_count(project) > 0
UnresolvedBlocks == \E k \in IssueKinds : open_issues[k] > 0

\* mark_verified_if_no_unresolved_blocks, with the issues as the caller left
\* them: any status becomes "verified", a deleted project's too.
MarkVerified ==
  status' = IF story_page_id # NoPage /\ \A k \in IssueKinds : open_issues'[k] = 0
            THEN "verified" ELSE status

\* mark_payment, also of a deleted project, and the creation, start and end of an
\* interview session: whatever stage the story is at, the status goes back.
InterviewStep ==
  /\ status' = "created"
  /\ UNCHANGED <<deleted, claim_vars, issue_vars, page_vars, link_vars, consent_vars>>

-----------------------------------------------------------------------------
(* Claims *)

\* GET corrections/pending.  Every handler that reads claims through
\* seed_claims_for_project leaves the same trace when it then rejects the call.
PendingCorrections ==
  /\ Owned
  /\ listed = {}
  /\ listed' = Seeded
  /\ UNCHANGED <<status, deleted, verification_status, deleted_claims, reviewed, wordy,
                 taken_back, issue_vars, page_vars, link_vars, consent_vars>>

\* save_claim for a new claim: how extraction results reach the store.
SaveClaim(c) ==
  /\ ~deleted
  /\ c \notin listed \cup Candidates \cup {SeedClaim}
  /\ listed' = listed \cup {c}
  /\ UNCHANGED <<status, deleted, verification_status, deleted_claims, reviewed, wordy,
                 taken_back, issue_vars, page_vars, link_vars, consent_vars>>

\* POST admin/photo-analyses/{id}/correction-candidate: a second call returns
\* the claim of the first.  Deleting the project deletes the analyses.
ConvertPhotoAnalysis(c) ==
  /\ ~deleted
  /\ c \in Candidates \ listed
  /\ listed' = listed \cup {c}
  /\ UNCHANGED <<status, deleted, verification_status, deleted_claims, reviewed, wordy,
                 taken_back, issue_vars, page_vars, link_vars, consent_vars>>

StatusOf(action) ==
  CASE action = "confirm" -> "confirmed"
    [] action = "modify" -> "modified"
    [] action = "unsure" -> "marked_unsure"
    [] action = "hide_from_family" -> "hidden"
    [] action = "delete" -> "deleted"

\* POST claims/{id}/corrections.  A new text may be longer than the claim
\* it replaces; a soft-deleted claim can be corrected again and stays deleted.
CorrectClaim(c, action) ==
  /\ Owned
  /\ c \in listed
  /\ verification_status' = [verification_status EXCEPT ![c] = StatusOf(action)]
  /\ IF action = "modify" THEN wordy' \in {wordy \cup {c}, wordy \ {c}} ELSE wordy' = wordy
  /\ deleted_claims' = IF action = "delete" THEN deleted_claims \cup {c} ELSE deleted_claims
  /\ taken_back' = [p \in Pages |->
                      IF action \in {"hide_from_family", "delete"} /\ c \in Told(p)
                      THEN taken_back[p] \cup {c} ELSE taken_back[p]]
  /\ UNCHANGED <<status, deleted, listed, reviewed,
                 issue_vars, page_vars, link_vars, consent_vars>>

\* POST corrections/complete: every claim of the project counts, P0 or not.
CompleteCorrections ==
  /\ Owned
  /\ listed # {}
  /\ \A c \in listed : verification_status[c] # "pending"
  /\ status' = "family_correction_completed"
  /\ UNCHANGED <<deleted, claim_vars, issue_vars, page_vars, link_vars, consent_vars>>

-----------------------------------------------------------------------------
(* Draft and verification *)

StatusKeptByGeneration == status
StatusAfterGeneration == "story_generated"

\* POST drafts/generate: a new page replaces story_page_id; the old page
\* and its links stay as they are.
GenerateStory(p) ==
  /\ Owned
  /\ listed # {}
  /\ Unprocessed(StoryClaims) = {}
  /\ p \in Pages \ pages
  /\ pages' = pages \cup {p}
  /\ draft' = [draft EXCEPT ![p] = NarrativeDraft]
  /\ overfull' = [overfull EXCEPT ![p] =
                    {ch \in Chapters : NarrativeDraft[ch] \cap wordy # {}}]
  /\ story_page_id' = p
  /\ status' = StatusAfterGeneration
  /\ UNCHANGED <<deleted, enabled, deleted_pages, examined,
                 claim_vars, issue_vars, link_vars, consent_vars>>

\* Verifier.verify: the block issues one run finds for these claims and this draft.
VerifierIssues(claims, chapters, full) ==
  ({"citation_coverage"} \X full)
  \cup ({"unsupported_claim"} \X
          {c \in claims : \/ c \in Unsupported
                          \/ c \notin Evidenced /\ \E ch \in Chapters : c \in chapters[ch]})
  \cup ({"family_confirmation"} \X Unprocessed(claims))
  \cup ({"sensitive_content"} \X ((claims \cap Sensitive) \ reviewed))

\* POST verify: new issues are added to the old ones, which stay unresolved;
\* a run that finds nothing marks the project verified.
VerifyProject ==
  LET has_page == story_page_id # NoPage
      found == VerifierIssues(Seeded \ deleted_claims,
                              IF has_page THEN draft[story_page_id] ELSE NoDraft,
                              IF has_page THEN overfull[story_page_id] ELSE {})
  IN /\ Owned
     /\ \A k \in found : open_issues[k] < MaxOpen
     /\ listed' = Seeded
     /\ open_issues' = [k \in IssueKinds |->
                          IF k \in found THEN open_issues[k] + 1 ELSE open_issues[k]]
     /\ status' = IF found = {} THEN "verified" ELSE status
     /\ examined' = IF has_page THEN examined \cup {story_page_id} ELSE examined
     /\ UNCHANGED <<deleted, verification_status, deleted_claims, reviewed, wordy, taken_back,
                    resolved_once, story_page_id, pages, draft, overfull, enabled, deleted_pages,
                    link_vars, consent_vars>>

\* POST admin/verification-issues/{id}/resolve, of an issue still unresolved
\* and of one resolved before.  Deleted projects are not excluded.
ResolveIssue(k) ==
  /\ open_issues[k] > 0
  /\ open_issues' = [open_issues EXCEPT ![k] = @ - 1]
  /\ resolved_once' = TRUE
  /\ MarkVerified
  /\ UNCHANGED <<deleted, claim_vars, page_vars, link_vars, consent_vars>>

ResolveIssueAgain ==
  /\ resolved_once
  /\ UNCHANGED issue_vars
  /\ MarkVerified
  /\ UNCHANGED <<deleted, claim_vars, page_vars, link_vars, consent_vars>>

\* POST admin/claims/{id}/sensitive-review: resolves every open sensitive-content
\* issue of the claim.
ReviewSensitiveClaim(c) ==
  /\ c \in listed \cap Sensitive
  /\ reviewed' = reviewed \cup {c}
  /\ open_issues' = [open_issues EXCEPT ![<<"sensitive_content", c>>] = 0]
  /\ resolved_once' = (resolved_once \/ open_issues[<<"sensitive_content", c>>] > 0)
  /\ MarkVerified
  /\ UNCHANGED <<deleted, listed, verification_status, deleted_claims, wordy, taken_back,
                 page_vars, link_vars, consent_vars>>

-----------------------------------------------------------------------------
(* Second consent and publication *)

\* POST request-second-consent
RequestSecondConsent ==
  /\ Owned
  /\ ~UnresolvedBlocks
  /\ status = "verified"
  /\ status' = "elder_second_consent_pending"
  /\ UNCHANGED <<deleted, claim_vars, issue_vars, page_vars, link_vars, consent_vars>>

\* _share_links_disabled
ShareLinksDisabled(p) == \A l \in LinksOf(p) \ link_deleted : l \notin link_enabled

\* PublishGate.evaluate
PublishGateIgnoringStatus ==
  /\ Unprocessed(listed) = {}
  /\ ~UnresolvedBlocks
  /\ has_family_sharing_consent
  /\ story_page_id # NoPage
  /\ ShareLinksDisabled(story_page_id)
PublishGate ==
  /\ status = "elder_second_consent_pending"
  /\ Unprocessed(listed) = {}
  /\ ~UnresolvedBlocks
  /\ has_family_sharing_consent
  /\ story_page_id # NoPage
  /\ ShareLinksDisabled(story_page_id)

\* The links a publication opens.
PublishedLinks(p) == LinksOf(p) \ (link_revoked \cup link_deleted)

\* POST publish
Publish ==
  /\ Owned
  /\ listed # {}
  /\ PublishGate
  /\ status' = "published"
  /\ enabled' = enabled \cup {story_page_id}
  /\ link_enabled' = link_enabled \cup PublishedLinks(story_page_id)
  /\ UNCHANGED <<deleted, story_page_id, pages, draft, overfull, deleted_pages, examined,
                 links, link_page, link_revoked, link_deleted,
                 claim_vars, issue_vars, consent_vars>>

\* create_share_link and reset_share_link open a link exactly when its page is open.
OpenedAlways(l, p) == {l}
OpenedWithPage(l, p) == IF p \in enabled THEN {l} ELSE {}

\* POST share-links
CreateShareLink(l, p) ==
  /\ Owned
  /\ p \in pages \ deleted_pages
  /\ l \in Links \ links
  /\ links' = links \cup {l}
  /\ link_page' = [link_page EXCEPT ![l] = p]
  /\ link_enabled' = link_enabled \cup OpenedWithPage(l, p)
  /\ UNCHANGED <<status, deleted, link_revoked, link_deleted,
                 claim_vars, issue_vars, page_vars, consent_vars>>

\* DELETE share-links/{id}
RevokeShareLink(l) ==
  /\ Owned
  /\ l \in links
  /\ link_enabled' = link_enabled \ {l}
  /\ link_revoked' = link_revoked \cup {l}
  /\ UNCHANGED <<status, deleted, links, link_page, link_deleted,
                 claim_vars, issue_vars, page_vars, consent_vars>>

\* POST share-links/{id}/reset: a new token, and the revocation is forgotten.
ResetShareLink(l) ==
  /\ Owned
  /\ l \in links
  /\ link_enabled' = (link_enabled \ {l}) \cup OpenedWithPage(l, link_page[l])
  /\ link_revoked' = link_revoked \ {l}
  /\ UNCHANGED <<status, deleted, links, link_page, link_deleted,
                 claim_vars, issue_vars, page_vars, consent_vars>>

-----------------------------------------------------------------------------
(* Consent and deletion *)

\* POST consents with consent_type "family_sharing"
RecordConsent(k) ==
  /\ Owned
  /\ consent[k] = "none"
  /\ consent' = [consent EXCEPT ![k] = "active"]
  /\ has_family_sharing_consent' = TRUE
  /\ UNCHANGED <<status, deleted, claim_vars, issue_vars, page_vars, link_vars>>

\* The pages a withdrawal closes: the current one, and no other.
ClosedByNoWithdrawal == {}
ClosedByWithdrawal == {story_page_id} \cap pages

\* POST consents/{id}/withdraw, also of a record withdrawn before: whatever other
\* records say, the flag is cleared.
WithdrawConsent(k) ==
  LET closed == {l \in links : link_page[l] \in ClosedByWithdrawal}
  IN /\ Owned
     /\ consent[k] # "none"
     /\ consent' = [consent EXCEPT ![k] = "withdrawn"]
     /\ has_family_sharing_consent' = FALSE
     /\ enabled' = enabled \ ClosedByWithdrawal
     /\ link_enabled' = link_enabled \ closed
     /\ link_revoked' = link_revoked \cup closed
     /\ UNCHANGED <<status, deleted, claim_vars, issue_vars,
                    story_page_id, pages, draft, overfull, deleted_pages, examined,
                    links, link_page, link_deleted>>

\* The pages a deletion closes: every page of the project.
ClosedByDeletionOfCurrent == {story_page_id} \cap pages
ClosedByDeletion == pages

\* DELETE projects/{id}: request_deletion, as far as this module's state goes.
DeleteProject ==
  LET closed == {l \in links : link_page[l] \in ClosedByDeletion}
  IN /\ Owned
     /\ deleted' = TRUE
     /\ status' = "deletion_requested"
     /\ deleted_claims' = deleted_claims \cup listed
     /\ enabled' = enabled \ ClosedByDeletion
     /\ deleted_pages' = deleted_pages \cup ClosedByDeletion
     /\ link_enabled' = link_enabled \ closed
     /\ link_revoked' = link_revoked \cup closed
     /\ link_deleted' = link_deleted \cup closed
     /\ UNCHANGED <<listed, verification_status, reviewed, wordy, taken_back, issue_vars,
                    story_page_id, pages, draft, overfull, examined,
                    links, link_page, consent_vars>>

-----------------------------------------------------------------------------
Init ==
  /\ status = "created"
  /\ deleted = FALSE
  /\ listed = {}
  /\ verification_status = [c \in Claims |-> "pending"]
  /\ deleted_claims = {}
  /\ reviewed = {}
  /\ wordy = {}
  /\ taken_back = [p \in Pages |-> {}]
  /\ open_issues = [k \in IssueKinds |-> 0]
  /\ resolved_once = FALSE
  /\ story_page_id = NoPage
  /\ pages = {}
  /\ draft = [p \in Pages |-> NoDraft]
  /\ overfull = [p \in Pages |-> {}]
  /\ enabled = {}
  /\ deleted_pages = {}
  /\ examined = {}
  /\ links = {}
  /\ link_page = [l \in Links |-> NoPage]
  /\ link_enabled = {}
  /\ link_revoked = {}
  /\ link_deleted = {}
  /\ consent = [k \in Consents |-> "none"]
  /\ has_family_sharing_consent = FALSE

ClaimStep ==
  \/ PendingCorrections
  \/ \E c \in Claims : SaveClaim(c)
  \/ \E c \in Claims : ConvertPhotoAnalysis(c)
  \/ \E c \in Claims, action \in Corrections : CorrectClaim(c, action)
  \/ CompleteCorrections

VerificationStep ==
  \/ VerifyProject
  \/ \E k \in IssueKinds : ResolveIssue(k)
  \/ ResolveIssueAgain
  \/ \E c \in Claims : ReviewSensitiveClaim(c)

SharingStep ==
  \/ RequestSecondConsent
  \/ Publish
  \/ \E l \in Links, p \in Pages : CreateShareLink(l, p)
  \/ \E l \in Links : RevokeShareLink(l)
  \/ \E l \in Links : ResetShareLink(l)
  \/ \E k \in Consents : RecordConsent(k)
  \/ \E k \in Consents : WithdrawConsent(k)
  \/ DeleteProject

Next ==
  \/ InterviewStep
  \/ ClaimStep
  \/ \E p \in Pages : GenerateStory(p)
  \/ VerificationStep
  \/ SharingStep

Spec == Init /\ [][Next]_vars
-----------------------------------------------------------------------------
(* Properties *)

ProjectTypeOK == status \in StoryStatuses /\ deleted \in BOOLEAN

ClaimsTypeOK ==
  /\ listed \subseteq Claims
  /\ verification_status \in [Claims -> VerificationStatuses]
  /\ deleted_claims \subseteq Claims
  /\ reviewed \subseteq Claims
  /\ wordy \subseteq Claims
  /\ taken_back \in [Pages -> SUBSET Claims]

IssuesTypeOK == open_issues \in [IssueKinds -> 0..MaxOpen] /\ resolved_once \in BOOLEAN

PagesTypeOK ==
  /\ story_page_id \in pages \cup {NoPage}
  /\ pages \subseteq Pages
  /\ draft \in [Pages -> [Chapters -> SUBSET Claims]]
  /\ overfull \in [Pages -> SUBSET Chapters]
  /\ enabled \subseteq pages
  /\ deleted_pages \subseteq pages
  /\ examined \subseteq pages

LinksTypeOK ==
  /\ links \subseteq Links
  /\ link_page \in [Links -> Pages \cup {NoPage}]
  /\ \A l \in links : link_page[l] \in pages
  /\ link_enabled \subseteq links
  /\ link_revoked \subseteq links
  /\ link_deleted \subseteq links

ConsentTypeOK ==
  /\ consent \in [Consents -> {"none", "active", "withdrawn"}]
  /\ has_family_sharing_consent \in BOOLEAN

\* Every variable has a value the code can store in it; links belong to pages
\* that exist, and the flags of pages and links to pages and links that exist.
TypeOK ==
  /\ ProjectTypeOK
  /\ ClaimsTypeOK
  /\ IssuesTypeOK
  /\ PagesTypeOK
  /\ LinksTypeOK
  /\ ConsentTypeOK

\* A relative holding a link can read the page: GET story-pages/{id} finds the
\* page enabled and not deleted, and an active link among its links.
Viewable(p) ==
  /\ p \in enabled \ deleted_pages
  /\ \E l \in LinksOf(p) : l \in link_enabled \ (link_revoked \cup link_deleted)

ActiveConsent == \E k \in Consents : consent[k] = "active"

\* The current story page is open only while some family_sharing record is in
\* force, and so is the flag the publish gate reads: withdrawals, repeated
\* withdrawals, second records and regenerated drafts included.
CurrentShareHasConsent ==
  /\ story_page_id \in enabled => has_family_sharing_consent
  /\ has_family_sharing_consent => ActiveConsent

\* A link opens nothing but an open page, and never while it is revoked or
\* deleted, whatever the order of publishing, linking, revoking, resetting and
\* withdrawing.
LinksFollowPages ==
  \A l \in link_enabled :
    /\ link_page[l] \in enabled
    /\ l \notin link_revoked \cup link_deleted

\* Once the project's deletion is requested no page and no link of it is open,
\* older pages included, and no later call opens one.
DeletedProjectIsSilent ==
  deleted => /\ enabled = {}
             /\ link_enabled = {}
             /\ pages = deleted_pages
             /\ links = link_deleted

\* As long as no admin resolves an issue or reviews a claim, a project that
\* counts as verified has had its current draft read by the verifier: a new
\* draft takes the status back.
VerifiedDraftWasExamined ==
  status \in {"verified", "elder_second_consent_pending"} /\ ~resolved_once /\ reviewed = {}
    => story_page_id \in examined \cup {NoPage}

\* No page opens, or stays open, whose draft the verifier has not read, unless an
\* admin has resolved an issue or reviewed a claim: however new drafts come between
\* verification, second consent and publication.
OpenPageWasExamined ==
  ~resolved_once /\ reviewed = {} => enabled \subseteq examined

\* Claims the family wants told by nobody.
Withheld == deleted_claims \cup {c \in Claims : verification_status[c] \in {"pending", "hidden"}}

\* No sentence without its claim, and nothing told that is withheld or that an admin
\* has to review, unless the family took it back when it was already told.
Cleared(p) == overfull[p] = {} /\ Told(p) \cap (Withheld \cup Sensitive) \subseteq taken_back[p]

\* As long as no admin resolves an issue or reviews a claim, an open page holds nothing
\* the verifier would block, nor a claim withheld when it was written: whatever order
\* corrections, repeated corrections, new claims, drafts, verifier runs and the
\* publication come in.  What remains is a claim taken back between: the page keeps it,
\* and a deleted one is no longer among the claims the verifier looks at.
OpenPageIsCleared ==
  ~resolved_once /\ reviewed = {} => \A p \in enabled : Cleared(p)

\* What the family is promised about the current page: ConsentGatedSharing.
Promise == INSTANCE ConsentGatedSharing WITH
  granted <- has_family_sharing_consent,
  shared <- story_page_id # NoPage /\ Viewable(story_page_id),
  erased <- deleted

\* The handlers implement that promise.
PromiseKept == Promise!Spec

-----------------------------------------------------------------------------
(* What a document of the repository says and these handlers do not keep. *)

\* docs/architecture.md:82, family-facing shares require second consent: every
\* page a relative can read, not only the current one, has a consent in force.
EveryShareHasConsent == \A p \in pages : Viewable(p) => ActiveConsent
=============================================================================
