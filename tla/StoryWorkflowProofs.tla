------------------------ MODULE StoryWorkflowProofs ------------------------
(* Theorems about StoryWorkflow, for every value of its constants. *)
EXTENDS StoryWorkflow, TLAPS

(***************************************************************************)
(* Type correctness.                                                       *)
(***************************************************************************)

\* A part of TypeOK that a step leaves alone stays true.
LEMMA StableTypes ==
  /\ UNCHANGED claim_vars /\ ClaimsTypeOK => ClaimsTypeOK'
  /\ UNCHANGED issue_vars /\ IssuesTypeOK => IssuesTypeOK'
  /\ UNCHANGED page_vars /\ PagesTypeOK => PagesTypeOK'
  /\ UNCHANGED <<page_vars, link_vars>> /\ LinksTypeOK => LinksTypeOK'
  /\ UNCHANGED consent_vars /\ ConsentTypeOK => ConsentTypeOK'
<1>1. UNCHANGED claim_vars /\ ClaimsTypeOK => ClaimsTypeOK'
  BY DEF claim_vars, ClaimsTypeOK
<1>2. UNCHANGED issue_vars /\ IssuesTypeOK => IssuesTypeOK'
  BY DEF issue_vars, IssuesTypeOK
<1>3. UNCHANGED page_vars /\ PagesTypeOK => PagesTypeOK'
  BY DEF page_vars, PagesTypeOK
<1>4. UNCHANGED <<page_vars, link_vars>> /\ LinksTypeOK => LinksTypeOK'
  BY DEF page_vars, link_vars, LinksTypeOK
<1>5. UNCHANGED consent_vars /\ ConsentTypeOK => ConsentTypeOK'
  BY DEF consent_vars, ConsentTypeOK
<1>6. QED
  BY <1>1, <1>2, <1>3, <1>4, <1>5

LEMMA InitTypeOK == Init => TypeOK
<1> SUFFICES ASSUME Init PROVE TypeOK
  OBVIOUS
<1>1. ProjectTypeOK
  BY DEF Init, ProjectTypeOK, StoryStatuses
<1>2. ClaimsTypeOK
  BY DEF Init, ClaimsTypeOK, VerificationStatuses
<1>3. IssuesTypeOK
  <2>1. 0 \in 0..MaxOpen
    BY InputAssumption
  <2>2. QED
    BY <2>1 DEF Init, IssuesTypeOK
<1>4. PagesTypeOK
  BY DEF Init, PagesTypeOK, NoDraft
<1>5. LinksTypeOK
  BY DEF Init, LinksTypeOK
<1>6. ConsentTypeOK
  BY DEF Init, ConsentTypeOK
<1>7. QED
  BY <1>1, <1>2, <1>3, <1>4, <1>5, <1>6 DEF TypeOK

\* What the family may say of a claim is a verification status.
LEMMA StatusOfType ==
  ASSUME NEW action \in Corrections
  PROVE  StatusOf(action) \in VerificationStatuses
  BY InputAssumption
  DEF CorrectionActions, StatusOf, VerificationStatuses, ProcessedStatuses

LEMMA SeededType == listed \subseteq Claims => Seeded \subseteq Claims
  BY ClaimAssumption DEF Seeded

LEMMA NarrativeDraftType ==
  listed \subseteq Claims => NarrativeDraft \in [Chapters -> SUBSET Claims]
  BY DEF NarrativeDraft, StoryClaims

LEMMA MarkVerifiedType ==
  status \in StoryStatuses /\ MarkVerified
    => status' \in StoryStatuses
  BY DEF MarkVerified, StoryStatuses

LEMMA ClaimStepTypeOK == TypeOK /\ ClaimStep => TypeOK'
<1> SUFFICES ASSUME TypeOK, ClaimStep PROVE TypeOK'
  OBVIOUS
<1> USE DEF TypeOK
<1>1. CASE PendingCorrections
  <2>1. ClaimsTypeOK'
    BY <1>1, SeededType DEF PendingCorrections, ClaimsTypeOK
  <2>2. QED
    BY <1>1, <2>1, StableTypes DEF PendingCorrections, ProjectTypeOK
<1>2. ASSUME NEW c \in Claims, SaveClaim(c) PROVE TypeOK'
  <2>1. ClaimsTypeOK'
    BY <1>2 DEF SaveClaim, ClaimsTypeOK
  <2>2. QED
    BY <1>2, <2>1, StableTypes DEF SaveClaim, ProjectTypeOK
<1>3. ASSUME NEW c \in Claims, ConvertPhotoAnalysis(c) PROVE TypeOK'
  <2>1. ClaimsTypeOK'
    BY <1>3 DEF ConvertPhotoAnalysis, ClaimsTypeOK
  <2>2. QED
    BY <1>3, <2>1, StableTypes DEF ConvertPhotoAnalysis, ProjectTypeOK
<1>4. ASSUME NEW c \in Claims, NEW action \in Corrections, CorrectClaim(c, action)
      PROVE  TypeOK'
  <2>1. ClaimsTypeOK'
    BY <1>4, StatusOfType DEF CorrectClaim, ClaimsTypeOK
  <2>2. QED
    BY <1>4, <2>1, StableTypes DEF CorrectClaim, ProjectTypeOK
<1>5. CASE CompleteCorrections
  <2>1. ProjectTypeOK'
    BY <1>5 DEF CompleteCorrections, ProjectTypeOK, StoryStatuses
  <2>2. QED
    BY <1>5, <2>1, StableTypes DEF CompleteCorrections
<1>6. QED
  BY <1>1, <1>2, <1>3, <1>4, <1>5 DEF ClaimStep

LEMMA GenerateStoryTypeOK ==
  ASSUME NEW p \in Pages
  PROVE  TypeOK /\ GenerateStory(p) => TypeOK'
<1> SUFFICES ASSUME TypeOK, GenerateStory(p) PROVE TypeOK'
  OBVIOUS
<1> USE DEF TypeOK, GenerateStory
<1>1. ProjectTypeOK'
  BY DEF ProjectTypeOK, StatusAfterGeneration, StoryStatuses
<1>2. draft' \in [Pages -> [Chapters -> SUBSET Claims]]
  BY NarrativeDraftType DEF PagesTypeOK, ClaimsTypeOK
<1>3. overfull' \in [Pages -> SUBSET Chapters]
  BY DEF PagesTypeOK
<1>4. PagesTypeOK'
  BY <1>2, <1>3 DEF PagesTypeOK
<1>5. LinksTypeOK'
  BY DEF LinksTypeOK, link_vars
<1>6. QED
  BY <1>1, <1>4, <1>5, StableTypes

LEMMA VerificationStepTypeOK == TypeOK /\ VerificationStep => TypeOK'
<1> SUFFICES ASSUME TypeOK, VerificationStep PROVE TypeOK'
  OBVIOUS
<1> USE DEF TypeOK
<1>1. CASE VerifyProject
  <2> USE <1>1 DEF VerifyProject
  <2>1. ProjectTypeOK'
    BY DEF ProjectTypeOK, StoryStatuses
  <2>2. ClaimsTypeOK'
    BY SeededType DEF ClaimsTypeOK
  <2>3. IssuesTypeOK'
    BY InputAssumption DEF IssuesTypeOK
  <2>4. PagesTypeOK'
    BY DEF PagesTypeOK
  <2>5. LinksTypeOK'
    BY DEF LinksTypeOK, link_vars
  <2>6. QED
    BY <2>1, <2>2, <2>3, <2>4, <2>5, StableTypes
<1>2. ASSUME NEW k \in IssueKinds, ResolveIssue(k) PROVE TypeOK'
  <2>1. ProjectTypeOK'
    BY <1>2, MarkVerifiedType DEF ResolveIssue, ProjectTypeOK
  <2>2. IssuesTypeOK'
    BY <1>2, InputAssumption DEF ResolveIssue, IssuesTypeOK
  <2>3. QED
    BY <1>2, <2>1, <2>2, StableTypes DEF ResolveIssue
<1>3. CASE ResolveIssueAgain
  <2>1. ProjectTypeOK'
    BY <1>3, MarkVerifiedType DEF ResolveIssueAgain, ProjectTypeOK
  <2>2. QED
    BY <1>3, <2>1, StableTypes DEF ResolveIssueAgain
<1>4. ASSUME NEW c \in Claims, ReviewSensitiveClaim(c) PROVE TypeOK'
  <2>1. ProjectTypeOK'
    BY <1>4, MarkVerifiedType DEF ReviewSensitiveClaim, ProjectTypeOK
  <2>2. ClaimsTypeOK'
    BY <1>4 DEF ReviewSensitiveClaim, ClaimsTypeOK
  <2>3. IssuesTypeOK'
    <3>1. open_issues' \in [IssueKinds -> 0..MaxOpen]
      <4>1. 0 \in 0..MaxOpen
        BY InputAssumption
      <4>2. QED
        BY <1>4, <4>1 DEF ReviewSensitiveClaim, IssuesTypeOK
    <3>2. resolved_once' \in BOOLEAN
      BY <1>4, Zenon DEF ReviewSensitiveClaim
    <3>3. QED
      BY <3>1, <3>2 DEF IssuesTypeOK
  <2>4. QED
    BY <1>4, <2>1, <2>2, <2>3, StableTypes DEF ReviewSensitiveClaim
<1>5. QED
  BY <1>1, <1>2, <1>3, <1>4 DEF VerificationStep

LEMMA SharingStepTypeOK == TypeOK /\ SharingStep => TypeOK'
<1> SUFFICES ASSUME TypeOK, SharingStep PROVE TypeOK'
  OBVIOUS
<1> USE DEF TypeOK
<1>1. CASE RequestSecondConsent
  <2>1. ProjectTypeOK'
    BY <1>1 DEF RequestSecondConsent, ProjectTypeOK, StoryStatuses
  <2>2. QED
    BY <1>1, <2>1, StableTypes DEF RequestSecondConsent
<1>2. CASE Publish
  <2>1. ProjectTypeOK'
    BY <1>2 DEF Publish, ProjectTypeOK, StoryStatuses
  <2>2. PagesTypeOK'
    BY <1>2 DEF Publish, PublishGate, PagesTypeOK
  <2>3. LinksTypeOK'
    BY <1>2 DEF Publish, LinksTypeOK, PublishedLinks, LinksOf
  <2>4. QED
    BY <1>2, <2>1, <2>2, <2>3, StableTypes DEF Publish
<1>3. ASSUME NEW l \in Links, NEW p \in Pages, CreateShareLink(l, p) PROVE TypeOK'
  <2>1. LinksTypeOK'
    BY <1>3 DEF CreateShareLink, LinksTypeOK, OpenedWithPage, page_vars
  <2>2. QED
    BY <1>3, <2>1, StableTypes DEF CreateShareLink, ProjectTypeOK
<1>4. ASSUME NEW l \in Links, RevokeShareLink(l) PROVE TypeOK'
  <2>1. LinksTypeOK'
    BY <1>4 DEF RevokeShareLink, LinksTypeOK, page_vars
  <2>2. QED
    BY <1>4, <2>1, StableTypes DEF RevokeShareLink, ProjectTypeOK
<1>5. ASSUME NEW l \in Links, ResetShareLink(l) PROVE TypeOK'
  <2>1. LinksTypeOK'
    BY <1>5 DEF ResetShareLink, LinksTypeOK, OpenedWithPage, page_vars
  <2>2. QED
    BY <1>5, <2>1, StableTypes DEF ResetShareLink, ProjectTypeOK
<1>6. ASSUME NEW k \in Consents, RecordConsent(k) PROVE TypeOK'
  <2>1. ConsentTypeOK'
    BY <1>6 DEF RecordConsent, ConsentTypeOK
  <2>2. QED
    BY <1>6, <2>1, StableTypes DEF RecordConsent, ProjectTypeOK
<1>7. ASSUME NEW k \in Consents, WithdrawConsent(k) PROVE TypeOK'
  <2>1. ConsentTypeOK'
    BY <1>7 DEF WithdrawConsent, ConsentTypeOK
  <2>2. PagesTypeOK'
    BY <1>7 DEF WithdrawConsent, PagesTypeOK
  <2>3. LinksTypeOK'
    BY <1>7 DEF WithdrawConsent, LinksTypeOK
  <2>4. QED
    BY <1>7, <2>1, <2>2, <2>3, StableTypes DEF WithdrawConsent, ProjectTypeOK
<1>8. CASE DeleteProject
  <2>1. ProjectTypeOK'
    BY <1>8 DEF DeleteProject, ProjectTypeOK, StoryStatuses
  <2>2. ClaimsTypeOK'
    BY <1>8 DEF DeleteProject, ClaimsTypeOK
  <2>3. PagesTypeOK'
    BY <1>8 DEF DeleteProject, PagesTypeOK, ClosedByDeletion
  <2>4. LinksTypeOK'
    BY <1>8 DEF DeleteProject, LinksTypeOK
  <2>5. QED
    BY <1>8, <2>1, <2>2, <2>3, <2>4, StableTypes DEF DeleteProject
<1>9. QED
  BY <1>1, <1>2, <1>3, <1>4, <1>5, <1>6, <1>7, <1>8 DEF SharingStep

LEMMA StutterTypeOK == TypeOK /\ UNCHANGED vars => TypeOK'
  BY StableTypes DEF TypeOK, ProjectTypeOK, vars

LEMMA InterviewTypeOK == TypeOK /\ InterviewStep => TypeOK'
  BY StableTypes DEF TypeOK, ProjectTypeOK, InterviewStep, StoryStatuses

\* Every variable keeps its type in every reachable state.
THEOREM TypeCorrect == Spec => []TypeOK
<1>1. TypeOK /\ [Next]_vars => TypeOK'
  BY ClaimStepTypeOK, GenerateStoryTypeOK, VerificationStepTypeOK, SharingStepTypeOK,
     InterviewTypeOK, StutterTypeOK DEF Next
<1>2. QED
  BY <1>1, InitTypeOK, PTL DEF Spec

(***************************************************************************)
(* Which drafts the verifier has read.                                     *)
(***************************************************************************)

LEMMA InitExamined == Init => VerifiedDraftWasExamined
  BY DEF Init, VerifiedDraftWasExamined

LEMMA ExaminedStep ==
  ASSUME TypeOK, VerifiedDraftWasExamined, [Next]_vars
  PROVE  VerifiedDraftWasExamined'
<1> USE DEF VerifiedDraftWasExamined
<1>1. CASE ClaimStep
  BY <1>1 DEF ClaimStep, PendingCorrections, SaveClaim, ConvertPhotoAnalysis, CorrectClaim,
              CompleteCorrections, page_vars, issue_vars, claim_vars
<1>2. ASSUME NEW p \in Pages, GenerateStory(p) PROVE VerifiedDraftWasExamined'
  BY <1>2 DEF GenerateStory, StatusAfterGeneration
<1>3. CASE VerifyProject
  <2>1. examined \subseteq examined'
    BY <1>3 DEF VerifyProject
  <2>2. CASE status' = status
    BY <1>3, <2>1, <2>2 DEF VerifyProject
  <2>3. CASE status' # status
    BY <1>3, <2>3 DEF VerifyProject
  <2>4. QED
    BY <2>2, <2>3
<1>4. ASSUME NEW k \in IssueKinds, ResolveIssue(k) PROVE VerifiedDraftWasExamined'
  BY <1>4 DEF ResolveIssue
<1>5. CASE ResolveIssueAgain
  BY <1>5 DEF ResolveIssueAgain, issue_vars
<1>6. ASSUME NEW c \in Claims, ReviewSensitiveClaim(c) PROVE VerifiedDraftWasExamined'
  BY <1>6 DEF ReviewSensitiveClaim
<1>7. CASE SharingStep
  <2>1. UNCHANGED <<story_page_id, examined, resolved_once, reviewed>>
    BY <1>7 DEF SharingStep, RequestSecondConsent, Publish, CreateShareLink, RevokeShareLink,
                ResetShareLink, RecordConsent, WithdrawConsent, DeleteProject,
                page_vars, issue_vars, claim_vars
  <2>2. \/ status' = status
        \/ status = "verified" /\ status' = "elder_second_consent_pending"
        \/ status' \in {"published", "deletion_requested"}
    BY <1>7 DEF SharingStep, RequestSecondConsent, Publish, CreateShareLink, RevokeShareLink,
                ResetShareLink, RecordConsent, WithdrawConsent, DeleteProject
  <2>3. QED
    BY <2>1, <2>2
<1>8. CASE UNCHANGED vars
  BY <1>8 DEF vars, page_vars, issue_vars, claim_vars
<1>9. CASE InterviewStep
  BY <1>9 DEF InterviewStep
<1>10. QED
  BY <1>1, <1>2, <1>3, <1>4, <1>5, <1>6, <1>7, <1>8, <1>9 DEF Next, VerificationStep

\* Until an admin resolves an issue or reviews a claim, a project that counts as
\* verified has had its current draft read by the verifier.
THEOREM VerificationReadsDraft == Spec => []VerifiedDraftWasExamined
  BY InitExamined, ExaminedStep, TypeCorrect, PTL DEF Spec

-----------------------------------------------------------------------------
(***************************************************************************)
(* Who can read a story: consents, pages, links, the deletion request.     *)
(***************************************************************************)

\* Nothing of a project is deleted before the project is: without this a reset
\* could open a deleted link.
NothingDeletedYet == ~deleted => deleted_pages = {} /\ link_deleted = {}

\* The inductive invariant behind the sharing properties.
SharingInv ==
  /\ TypeOK
  /\ CurrentShareHasConsent
  /\ LinksFollowPages
  /\ DeletedProjectIsSilent
  /\ NothingDeletedYet

sharing_vars == <<deleted, page_vars, link_vars, consent_vars>>

LEMMA InitSharingInv == Init => SharingInv
  BY InitTypeOK, PageAssumption
  DEF Init, SharingInv, CurrentShareHasConsent, LinksFollowPages, DeletedProjectIsSilent,
      NothingDeletedYet

\* Claims, corrections and reviews do not touch what the invariant is about.
LEMMA SharingUntouched ==
  /\ InterviewStep => UNCHANGED sharing_vars
  /\ ClaimStep => UNCHANGED sharing_vars
  /\ \A k \in IssueKinds : ResolveIssue(k) => UNCHANGED sharing_vars
  /\ ResolveIssueAgain => UNCHANGED sharing_vars
  /\ \A c \in Claims : ReviewSensitiveClaim(c) => UNCHANGED sharing_vars
  /\ RequestSecondConsent => UNCHANGED sharing_vars
<1>1. ClaimStep => UNCHANGED sharing_vars
  BY DEF ClaimStep, PendingCorrections, SaveClaim, ConvertPhotoAnalysis, CorrectClaim,
         CompleteCorrections, sharing_vars
<1>2. \A k \in IssueKinds : ResolveIssue(k) => UNCHANGED sharing_vars
  BY DEF ResolveIssue, sharing_vars
<1>3. ResolveIssueAgain => UNCHANGED sharing_vars
  BY DEF ResolveIssueAgain, sharing_vars
<1>4. \A c \in Claims : ReviewSensitiveClaim(c) => UNCHANGED sharing_vars
  BY DEF ReviewSensitiveClaim, sharing_vars
<1>5. RequestSecondConsent => UNCHANGED sharing_vars
  BY DEF RequestSecondConsent, sharing_vars
<1>6. InterviewStep => UNCHANGED sharing_vars
  BY DEF InterviewStep, sharing_vars
<1>7. QED
  BY <1>1, <1>2, <1>3, <1>4, <1>5, <1>6

LEMMA SharingStable ==
  ASSUME SharingInv, TypeOK', UNCHANGED sharing_vars
  PROVE  SharingInv'
  BY DEF SharingInv, sharing_vars, page_vars, link_vars, consent_vars,
         CurrentShareHasConsent, ActiveConsent, LinksFollowPages, DeletedProjectIsSilent,
         NothingDeletedYet

\* The verifier only adds to the pages it has read.
LEMMA VerifySharing ==
  ASSUME SharingInv, TypeOK', VerifyProject
  PROVE  SharingInv'
  BY DEF VerifyProject, SharingInv, link_vars, consent_vars,
         CurrentShareHasConsent, ActiveConsent, LinksFollowPages, DeletedProjectIsSilent,
         NothingDeletedYet

\* A new page is not open.
LEMMA GenerateSharing ==
  ASSUME SharingInv, TypeOK', NEW p \in Pages, GenerateStory(p)
  PROVE  SharingInv'
<1>1. p \notin enabled
  BY DEF GenerateStory, SharingInv, TypeOK, PagesTypeOK
<1>2. QED
  BY <1>1
  DEF GenerateStory, SharingInv, link_vars, consent_vars, Owned,
      CurrentShareHasConsent, ActiveConsent, LinksFollowPages, DeletedProjectIsSilent,
      NothingDeletedYet

\* What the gate checked holds of the page and links a publication opens.
LEMMA PublishSharing ==
  ASSUME SharingInv, TypeOK', Publish
  PROVE  SharingInv'
<1> USE DEF Publish, Owned
<1>1. CurrentShareHasConsent'
  BY DEF PublishGate, consent_vars, SharingInv, CurrentShareHasConsent, ActiveConsent
<1>2. LinksFollowPages'
  BY DEF SharingInv, LinksFollowPages, PublishedLinks, LinksOf
<1>3. DeletedProjectIsSilent' /\ NothingDeletedYet'
  BY DEF SharingInv, DeletedProjectIsSilent, NothingDeletedYet
<1>4. QED
  BY <1>1, <1>2, <1>3 DEF SharingInv

LEMMA LinkStepSharing ==
  ASSUME SharingInv, TypeOK', NEW l \in Links,
         \/ \E p \in Pages : CreateShareLink(l, p)
         \/ RevokeShareLink(l)
         \/ ResetShareLink(l)
  PROVE  SharingInv'
<1> USE DEF Owned
<1>1. UNCHANGED <<deleted, page_vars, consent_vars>> /\ ~deleted
  BY DEF CreateShareLink, RevokeShareLink, ResetShareLink
<1>2. CurrentShareHasConsent' /\ DeletedProjectIsSilent'
  BY <1>1 DEF SharingInv, page_vars, consent_vars, CurrentShareHasConsent, ActiveConsent,
              DeletedProjectIsSilent
<1>3. UNCHANGED link_deleted
  BY DEF CreateShareLink, RevokeShareLink, ResetShareLink
<1>4. NothingDeletedYet'
  BY <1>1, <1>3 DEF SharingInv, NothingDeletedYet, page_vars
<1>5. LinksFollowPages'
  <2>1. ASSUME NEW p \in Pages, CreateShareLink(l, p) PROVE LinksFollowPages'
    BY <1>1, <2>1
    DEF CreateShareLink, SharingInv, TypeOK, LinksTypeOK, LinksFollowPages, OpenedWithPage,
        page_vars
  <2>2. CASE RevokeShareLink(l)
    BY <1>1, <2>2 DEF RevokeShareLink, SharingInv, LinksFollowPages, page_vars
  <2>3. CASE ResetShareLink(l)
    BY <1>1, <2>3
    DEF ResetShareLink, SharingInv, NothingDeletedYet, LinksFollowPages, OpenedWithPage,
        page_vars
  <2>4. QED
    BY <2>1, <2>2, <2>3
<1>6. QED
  BY <1>2, <1>4, <1>5 DEF SharingInv

\* Recording a consent sets the flag and puts the record in force.
LEMMA RecordSharing ==
  ASSUME SharingInv, TypeOK', NEW k \in Consents, RecordConsent(k)
  PROVE  SharingInv'
<1> USE DEF RecordConsent
<1>1. consent'[k] = "active"
  BY DEF SharingInv, TypeOK, ConsentTypeOK
<1>2. CurrentShareHasConsent'
  BY <1>1 DEF CurrentShareHasConsent, ActiveConsent
<1>3. QED
  BY <1>2 DEF SharingInv, page_vars, link_vars, LinksFollowPages, DeletedProjectIsSilent,
              NothingDeletedYet

\* A withdrawal clears the flag and closes the current page with its links.
LEMMA WithdrawSharing ==
  ASSUME SharingInv, TypeOK', NEW k \in Consents, WithdrawConsent(k)
  PROVE  SharingInv'
<1> USE DEF WithdrawConsent, Owned
<1>1. story_page_id \notin enabled'
  BY DEF SharingInv, TypeOK, PagesTypeOK, ClosedByWithdrawal
<1>2. CurrentShareHasConsent'
  BY <1>1 DEF CurrentShareHasConsent
<1>3. LinksFollowPages'
  BY DEF SharingInv, TypeOK, LinksTypeOK, LinksFollowPages
<1>4. DeletedProjectIsSilent' /\ NothingDeletedYet'
  BY DEF SharingInv, DeletedProjectIsSilent, NothingDeletedYet
<1>5. QED
  BY <1>2, <1>3, <1>4 DEF SharingInv

\* A deletion closes every page, hence every link, of the project.
LEMMA DeleteSharing ==
  ASSUME SharingInv, TypeOK', DeleteProject
  PROVE  SharingInv'
<1> USE DEF DeleteProject, Owned, ClosedByDeletion
<1>1. {l \in links : link_page[l] \in pages} = links
  BY DEF SharingInv, TypeOK, LinksTypeOK
<1>2. enabled' = {} /\ link_enabled' = {}
  BY <1>1 DEF SharingInv, TypeOK, PagesTypeOK, LinksTypeOK
<1>3. deleted_pages' = pages' /\ link_deleted' = links'
  BY <1>1 DEF SharingInv, TypeOK, PagesTypeOK, LinksTypeOK
<1>4. CurrentShareHasConsent'
  BY <1>2 DEF SharingInv, CurrentShareHasConsent, ActiveConsent, consent_vars
<1>5. QED
  BY <1>2, <1>3, <1>4
  DEF SharingInv, LinksFollowPages, DeletedProjectIsSilent, NothingDeletedYet

LEMMA SharingInvStep == SharingInv /\ [Next]_vars => SharingInv'
<1> SUFFICES ASSUME SharingInv, [Next]_vars PROVE SharingInv'
  OBVIOUS
<1>1. TypeOK'
  BY ClaimStepTypeOK, GenerateStoryTypeOK, VerificationStepTypeOK, SharingStepTypeOK,
     InterviewTypeOK, StutterTypeOK DEF Next, SharingInv
<1>2. CASE InterviewStep \/ ClaimStep
  BY <1>1, <1>2, SharingUntouched, SharingStable
<1>3. CASE \E p \in Pages : GenerateStory(p)
  BY <1>1, <1>3, GenerateSharing
<1>4. CASE VerificationStep
  BY <1>1, <1>4, SharingUntouched, SharingStable, VerifySharing DEF VerificationStep
<1>5. CASE SharingStep
  BY <1>1, <1>5, SharingUntouched, SharingStable, PublishSharing, LinkStepSharing,
     RecordSharing, WithdrawSharing, DeleteSharing DEF SharingStep
<1>6. CASE UNCHANGED vars
  BY <1>1, <1>6, SharingStable DEF vars, sharing_vars
<1>7. QED
  BY <1>2, <1>3, <1>4, <1>5, <1>6 DEF Next

LEMMA SharingInvariant == Spec => []SharingInv
  BY InitSharingInv, SharingInvStep, PTL DEF Spec

\* The current story page is open only while some family_sharing record and the
\* flag the publish gate reads are in force.
THEOREM ConsentCoversCurrentShare == Spec => []CurrentShareHasConsent
<1>1. SharingInv => CurrentShareHasConsent
  BY DEF SharingInv
<1>2. QED
  BY <1>1, SharingInvariant, PTL

\* A link opens nothing but an open page, and never while revoked or deleted.
THEOREM LinksOpenOnlyOpenPages == Spec => []LinksFollowPages
<1>1. SharingInv => LinksFollowPages
  BY DEF SharingInv
<1>2. QED
  BY <1>1, SharingInvariant, PTL

\* After the deletion request no page and no link of the project is ever open.
THEOREM DeletionSilencesProject == Spec => []DeletedProjectIsSilent
<1>1. SharingInv => DeletedProjectIsSilent
  BY DEF SharingInv
<1>2. QED
  BY <1>1, SharingInvariant, PTL

(***************************************************************************)
(* The handlers implement ConsentGatedSharing: what relatives can read of  *)
(* the current page follows the abstract machine.                          *)
(***************************************************************************)

CurrentShared == story_page_id # NoPage /\ Viewable(story_page_id)

promise_vars == <<has_family_sharing_consent, CurrentShared, deleted>>

LEMMA InitPromise == Init => Promise!Init
  BY DEF Init, Promise!Init

LEMMA CurrentSharedType == CurrentShared \in BOOLEAN
  BY DEF CurrentShared, Viewable

\* Whatever does not touch pages, links and consents is a stutter of the promise.
LEMMA PromiseUntouched == UNCHANGED sharing_vars => UNCHANGED promise_vars
  BY DEF sharing_vars, page_vars, link_vars, consent_vars, promise_vars, CurrentShared,
         Viewable, LinksOf

LEMMA VerifyPromise == VerifyProject => UNCHANGED promise_vars
  BY DEF VerifyProject, link_vars, consent_vars, promise_vars, CurrentShared, Viewable, LinksOf

\* A step of the sharing state that keeps flag and deletion is allowed if the
\* consent is in force whenever relatives can read the page after it.
LEMMA SharingChange ==
  ASSUME ~deleted, UNCHANGED <<has_family_sharing_consent, deleted>>,
         CurrentShared' => has_family_sharing_consent
  PROVE  Promise!Next
<1>1. CASE CurrentShared'
  BY <1>1 DEF CurrentShared, Promise!Next, Promise!Share
<1>2. CASE ~CurrentShared'
  BY <1>2 DEF CurrentShared, Promise!Next, Promise!Unshare
<1>3. QED
  BY <1>1, <1>2

\* In the invariant's states the open current page implies the consent.
LEMMA SharedIsConsented ==
  ASSUME SharingInv'
  PROVE  CurrentShared' => has_family_sharing_consent'
  BY DEF SharingInv, CurrentShareHasConsent, CurrentShared, Viewable

LEMMA SharingStepPromise ==
  ASSUME SharingInv, SharingInv', SharingStep
  PROVE  Promise!Next \/ UNCHANGED promise_vars
<1>1. CurrentShared' => has_family_sharing_consent'
  BY SharedIsConsented
<1>2. CASE RequestSecondConsent
  BY <1>2, SharingUntouched, PromiseUntouched
<1>3. CASE \/ Publish
           \/ \E l \in Links, p \in Pages : CreateShareLink(l, p)
           \/ \E l \in Links : RevokeShareLink(l)
           \/ \E l \in Links : ResetShareLink(l)
  <2>1. ~deleted /\ UNCHANGED <<has_family_sharing_consent, deleted>>
    BY <1>3 DEF Publish, CreateShareLink, RevokeShareLink, ResetShareLink, Owned, consent_vars
  <2>2. QED
    BY <1>1, <2>1, SharingChange
<1>4. ASSUME NEW k \in Consents, RecordConsent(k) PROVE Promise!Next
  <2>1. UNCHANGED CurrentShared
    BY <1>4 DEF RecordConsent, CurrentShared, Viewable, LinksOf, page_vars, link_vars
  <2>2. QED
    BY <1>4, <2>1 DEF RecordConsent, Owned, CurrentShared, Promise!Next, Promise!Grant
<1>5. ASSUME NEW k \in Consents, WithdrawConsent(k) PROVE Promise!Next
  <2>1. ~CurrentShared'
    BY <1>1, <1>5 DEF WithdrawConsent
  <2>2. QED
    BY <1>5, <2>1 DEF WithdrawConsent, Owned, CurrentShared, Promise!Next, Promise!Withdraw
<1>6. CASE DeleteProject
  <2>1. ~CurrentShared'
    BY <1>6 DEF DeleteProject, SharingInv, DeletedProjectIsSilent, CurrentShared, Viewable
  <2>2. QED
    BY <1>6, <2>1 DEF DeleteProject, Owned, consent_vars, CurrentShared, Promise!Next,
                      Promise!Erase
<1>7. QED
  BY <1>2, <1>3, <1>4, <1>5, <1>6 DEF SharingStep

LEMMA GeneratePromise ==
  ASSUME SharingInv, SharingInv', NEW p \in Pages, GenerateStory(p)
  PROVE  Promise!Next
<1>1. ~deleted /\ UNCHANGED <<has_family_sharing_consent, deleted>>
  BY DEF GenerateStory, Owned, consent_vars
<1>2. CurrentShared' => has_family_sharing_consent
  BY <1>1, SharedIsConsented
<1>3. QED
  BY <1>1, <1>2, SharingChange

LEMMA PromiseStep == SharingInv /\ SharingInv' /\ [Next]_vars => [Promise!Next]_(Promise!vars)
<1> SUFFICES ASSUME SharingInv, SharingInv', [Next]_vars
             PROVE  Promise!Next \/ UNCHANGED promise_vars
  BY DEF promise_vars, CurrentShared, Promise!vars
<1>1. CASE InterviewStep \/ ClaimStep \/ VerificationStep
  BY <1>1, SharingUntouched, PromiseUntouched, VerifyPromise DEF VerificationStep
<1>2. CASE \E p \in Pages : GenerateStory(p)
  BY <1>2, GeneratePromise
<1>3. CASE SharingStep
  BY <1>3, SharingStepPromise
<1>4. CASE UNCHANGED vars
  BY <1>4, PromiseUntouched DEF vars, sharing_vars
<1>5. QED
  BY <1>1, <1>2, <1>3, <1>4 DEF Next

\* Relatives can read the current story only between a grant of the sharing
\* consent and its withdrawal, and never after the deletion request.
THEOREM HandlersKeepPromise == Spec => PromiseKept
  BY InitPromise, PromiseStep, SharingInvariant, PTL DEF Spec, PromiseKept, Promise!Spec

(***************************************************************************)
(* What is checked before a page opens.                                    *)
(***************************************************************************)

\* Only a publication opens a page.
LEMMA OnlyPublishOpens ==
  ASSUME [Next]_vars, enabled' \ enabled # {}
  PROVE  Publish
<1>1. InterviewStep \/ ClaimStep => UNCHANGED enabled
  BY SharingUntouched DEF sharing_vars, page_vars
<1>2. VerificationStep => UNCHANGED enabled
  BY SharingUntouched DEF VerificationStep, VerifyProject, sharing_vars, page_vars
<1>3. (\E p \in Pages : GenerateStory(p)) => UNCHANGED enabled
  BY DEF GenerateStory
<1>4. SharingStep => Publish \/ enabled' \subseteq enabled
  BY SharingUntouched
  DEF SharingStep, CreateShareLink, RevokeShareLink, ResetShareLink, RecordConsent,
      WithdrawConsent, DeleteProject, sharing_vars, page_vars
<1>5. UNCHANGED vars => UNCHANGED enabled
  BY DEF vars, page_vars
<1>6. QED
  BY <1>1, <1>2, <1>3, <1>4, <1>5 DEF Next

\* A page opens only as the current page of a project that waits for the second
\* consent, with a family_sharing record in force, every P0 claim processed and
\* no block unresolved, whichever calls came between.
PublicationNeedsGate ==
  [][\A p \in enabled' \ enabled :
       /\ p = story_page_id /\ status = "elder_second_consent_pending"
       /\ ActiveConsent
       /\ \A c \in listed \cap P0 : verification_status[c] # "pending"
       /\ \A k \in IssueKinds : open_issues[k] = 0]_vars

\* The publish gate is passed at every opening, whatever the issues of earlier runs.
THEOREM GateBeforePublication == Spec => PublicationNeedsGate
<1> DEFINE Gated(p) ==
      /\ p = story_page_id /\ status = "elder_second_consent_pending"
      /\ ActiveConsent
      /\ \A c \in listed \cap P0 : verification_status[c] # "pending"
      /\ \A k \in IssueKinds : open_issues[k] = 0
<1>1. ASSUME SharingInv, [Next]_vars, NEW p \in enabled' \ enabled PROVE Gated(p)
  <2>1. Publish
    BY <1>1, OnlyPublishOpens
  <2>2. p = story_page_id /\ status = "elder_second_consent_pending"
    BY <1>1, <2>1 DEF Publish, PublishGate
  <2>3. ActiveConsent
    BY <1>1, <2>1 DEF Publish, PublishGate, SharingInv, CurrentShareHasConsent
  <2>4. \A c \in listed \cap P0 : verification_status[c] # "pending"
    BY <2>1 DEF Publish, PublishGate, Unprocessed, ProcessedStatuses
  <2>5. \A k \in IssueKinds : open_issues[k] = 0
    <3>1. \A k \in IssueKinds : open_issues[k] \in Nat
      BY <1>1, InputAssumption DEF SharingInv, TypeOK, IssuesTypeOK
    <3>2. QED
      BY <2>1, <3>1 DEF Publish, PublishGate, UnresolvedBlocks
  <2>6. QED
    BY <2>2, <2>3, <2>4, <2>5
<1>2. SharingInv /\ [Next]_vars => [\A p \in enabled' \ enabled : Gated(p)]_vars
  BY <1>1
<1>3. QED
  BY <1>2, SharingInvariant, PTL DEF Spec, PublicationNeedsGate

\* What an admin has not touched stays untouched backwards, and what the verifier
\* has read stays read.
LEMMA ReviewsGrow ==
  ASSUME TypeOK, [Next]_vars
  PROVE  /\ examined \subseteq examined'
         /\ resolved_once => resolved_once'
         /\ reviewed \subseteq reviewed'
<1> DEFINE Grows == /\ examined \subseteq examined'
                   /\ resolved_once => resolved_once'
                   /\ reviewed \subseteq reviewed'
<1>1. CASE InterviewStep \/ ClaimStep
  BY <1>1 DEF InterviewStep, ClaimStep, PendingCorrections, SaveClaim, ConvertPhotoAnalysis,
              CorrectClaim, CompleteCorrections, page_vars, issue_vars, claim_vars
<1>2. CASE \E p \in Pages : GenerateStory(p)
  BY <1>2 DEF GenerateStory, issue_vars, claim_vars
<1>3. CASE VerifyProject
  BY <1>3 DEF VerifyProject
<1>4. CASE \E k \in IssueKinds : ResolveIssue(k)
  BY <1>4 DEF ResolveIssue, page_vars, claim_vars
<1>5. CASE ResolveIssueAgain
  BY <1>5 DEF ResolveIssueAgain, page_vars, claim_vars, issue_vars
<1>6. CASE \E c \in Claims : ReviewSensitiveClaim(c)
  BY <1>6 DEF ReviewSensitiveClaim, page_vars
<1>7. CASE SharingStep
  BY <1>7 DEF SharingStep, RequestSecondConsent, Publish, CreateShareLink, RevokeShareLink,
              ResetShareLink, RecordConsent, WithdrawConsent, DeleteProject,
              page_vars, issue_vars, claim_vars
<1>8. CASE UNCHANGED vars
  BY <1>8 DEF vars, page_vars, issue_vars, claim_vars
<1>9. QED
  BY <1>1, <1>2, <1>3, <1>4, <1>5, <1>6, <1>7, <1>8 DEF Next, VerificationStep

LEMMA OpenExaminedStep ==
  ASSUME TypeOK, VerifiedDraftWasExamined, OpenPageWasExamined, [Next]_vars
  PROVE  OpenPageWasExamined'
<1> SUFFICES ASSUME ~resolved_once', reviewed' = {}, NEW p \in enabled' PROVE p \in examined'
  BY DEF OpenPageWasExamined
<1>1. ~resolved_once /\ reviewed = {} /\ examined \subseteq examined'
  BY ReviewsGrow
<1>2. CASE p \in enabled
  BY <1>1, <1>2 DEF OpenPageWasExamined
<1>3. CASE p \notin enabled
  <2>1. Publish /\ p = story_page_id /\ status = "elder_second_consent_pending"
    BY <1>3, OnlyPublishOpens DEF Publish, PublishGate
  <2>2. p # NoPage
    BY <2>1 DEF Publish, PublishGate
  <2>3. QED
    BY <1>1, <2>1, <2>2 DEF VerifiedDraftWasExamined
<1>4. QED
  BY <1>2, <1>3

\* Until an admin resolves an issue or reviews a claim, no page is open whose draft
\* the verifier has not read: VerificationReadsDraft at the moment of publication.
THEOREM ReadersGetExaminedDrafts == Spec => []OpenPageWasExamined
<1>1. Init => OpenPageWasExamined
  BY DEF Init, OpenPageWasExamined
<1>2. TypeOK /\ VerifiedDraftWasExamined /\ OpenPageWasExamined /\ [Next]_vars
        => OpenPageWasExamined'
  BY OpenExaminedStep
<1>3. QED
  BY <1>1, <1>2, TypeCorrect, VerificationReadsDraft, PTL DEF Spec

(***************************************************************************)
(* What an open page may hold.                                             *)
(***************************************************************************)

\* While the project lives, a page tells claims of the project, and no withheld
\* one but those the family took back later.
DraftsKeepToFamily ==
  ~deleted => \A p \in pages : Told(p) \subseteq listed /\ Told(p) \cap Withheld \subseteq taken_back[p]

\* VerifiedDraftWasExamined, with what the examination found.
VerifiedDraftIsCleared ==
  status \in {"verified", "elder_second_consent_pending"} /\ ~resolved_once /\ reviewed = {}
    => \A p \in pages : p = story_page_id => Cleared(p)

\* The inductive invariant behind OpenPageIsCleared.
ClearedInv == DraftsKeepToFamily /\ VerifiedDraftIsCleared /\ OpenPageIsCleared

told_vars == <<draft, overfull, verification_status, deleted_claims, taken_back>>

LEMMA ClearedStable ==
  ASSUME UNCHANGED told_vars, NEW p
  PROVE  Told(p)' = Told(p) /\ Withheld' = Withheld /\ Cleared(p)' = Cleared(p)
  BY DEF told_vars, Told, Withheld, Cleared

\* Only generation, corrections and the deletion touch what Cleared speaks of.
LEMMA ToldUntouched ==
  ASSUME TypeOK, [Next]_vars
  PROVE  \/ UNCHANGED <<told_vars, pages>> /\ listed \subseteq listed'
         \/ \E p \in Pages : GenerateStory(p)
         \/ \E c \in Claims, action \in Corrections : CorrectClaim(c, action)
         \/ DeleteProject
<1> DEFINE Same == UNCHANGED <<told_vars, pages>> /\ listed \subseteq listed'
<1> USE DEF told_vars
<1>1. InterviewStep => Same
  BY DEF InterviewStep, claim_vars, page_vars
<1>2. ClaimStep => Same \/ \E c \in Claims, action \in Corrections : CorrectClaim(c, action)
  <2>1. PendingCorrections => Same
    BY DEF PendingCorrections, page_vars
  <2>2. ASSUME NEW c \in Claims, SaveClaim(c) \/ ConvertPhotoAnalysis(c) PROVE Same
    BY <2>2 DEF SaveClaim, ConvertPhotoAnalysis, page_vars
  <2>3. CompleteCorrections => Same
    BY DEF CompleteCorrections, claim_vars, page_vars
  <2>4. QED
    BY <2>1, <2>2, <2>3 DEF ClaimStep
<1>3. VerificationStep => Same
  <2>1. VerifyProject => Same
    BY DEF VerifyProject, Seeded
  <2>2. ASSUME NEW k \in IssueKinds, ResolveIssue(k) PROVE Same
    BY <2>2 DEF ResolveIssue, claim_vars, page_vars
  <2>3. ResolveIssueAgain => Same
    BY DEF ResolveIssueAgain, claim_vars, page_vars
  <2>4. ASSUME NEW c \in Claims, ReviewSensitiveClaim(c) PROVE Same
    BY <2>4 DEF ReviewSensitiveClaim, page_vars
  <2>5. QED
    BY <2>1, <2>2, <2>3, <2>4 DEF VerificationStep
<1>4. SharingStep => Same \/ DeleteProject
  BY DEF SharingStep, RequestSecondConsent, Publish, CreateShareLink, RevokeShareLink,
         ResetShareLink, RecordConsent, WithdrawConsent, claim_vars, page_vars
<1>5. UNCHANGED vars => Same
  BY DEF vars, claim_vars, page_vars
<1>6. QED
  BY <1>1, <1>2, <1>3, <1>4, <1>5 DEF Next

\* A correction withholds a claim the page tells only by taking it back.
LEMMA CorrectionTakesBack ==
  ASSUME TypeOK, NEW c \in Claims, NEW action \in Corrections, CorrectClaim(c, action),
         NEW p \in Pages
  PROVE  /\ Told(p)' = Told(p)
         /\ taken_back[p] \subseteq taken_back'[p]
         /\ Told(p) \cap Withheld' \subseteq (Told(p) \cap Withheld) \cup taken_back'[p]
<1>1. Told(p)' = Told(p)
  BY DEF CorrectClaim, page_vars, Told
<1>2. taken_back'[p] = IF action \in {"hide_from_family", "delete"} /\ c \in Told(p)
                       THEN taken_back[p] \cup {c} ELSE taken_back[p]
  BY DEF CorrectClaim
<1>3. ASSUME NEW d \in Told(p), d \in Withheld', d \notin Withheld PROVE d \in taken_back'[p]
  <2>1. d \in Claims
    BY <1>3 DEF Withheld, CorrectClaim, TypeOK, ClaimsTypeOK
  <2>2. d = c
    BY <1>3, <2>1 DEF Withheld, CorrectClaim, TypeOK, ClaimsTypeOK
  <2>3. action \in {"hide_from_family", "delete"}
    <3>1. verification_status'[c] = StatusOf(action)
      BY DEF CorrectClaim, TypeOK, ClaimsTypeOK
    <3>2. action \in CorrectionActions
      BY InputAssumption
    <3>3. action # "delete" => deleted_claims' = deleted_claims
      BY DEF CorrectClaim
    <3>4. StatusOf(action) \in {"pending", "hidden"} => action = "hide_from_family"
      BY <3>2 DEF StatusOf, CorrectionActions
    <3>5. QED
      BY <1>3, <2>1, <2>2, <3>1, <3>3, <3>4 DEF Withheld
  <2>4. QED
    BY <1>2, <1>3, <2>2, <2>3
<1>4. QED
  BY <1>1, <1>2, <1>3

\* A new draft tells no withheld claim.
LEMMA GenerationKeepsToFamily ==
  ASSUME TypeOK, NEW p \in Pages, GenerateStory(p)
  PROVE  /\ Told(p)' \subseteq listed
         /\ Told(p)' \cap Withheld = {}
         /\ \A q \in Pages \ {p} : Told(q)' = Told(q) /\ (Cleared(q)' <=> Cleared(q))
<1>1. draft'[p] = NarrativeDraft
  BY DEF GenerateStory, TypeOK, PagesTypeOK
<1>2. \A q \in Pages \ {p} : draft'[q] = draft[q] /\ overfull'[q] = overfull[q]
  BY DEF GenerateStory, TypeOK, PagesTypeOK
<1>3. \A ch \in Chapters : NarrativeDraft[ch] \subseteq listed \ Withheld
  BY DEF NarrativeDraft, StoryClaims, Withheld
<1>4. Told(p)' \subseteq listed \ Withheld
  BY <1>1, <1>3 DEF Told
<1>5. \A q \in Pages \ {p} : Told(q)' = Told(q)
  BY <1>2 DEF Told
<1>6. Withheld' = Withheld /\ taken_back' = taken_back
  BY DEF GenerateStory, claim_vars, Withheld
<1>7. QED
  BY <1>2, <1>4, <1>5, <1>6 DEF Cleared

\* A run that finds nothing clears the draft it has read.
LEMMA VerificationClears ==
  ASSUME TypeOK, DraftsKeepToFamily, VerifyProject, status' # status, reviewed = {},
         NEW p \in pages, p = story_page_id
  PROVE  Cleared(p)
<1> DEFINE claims == Seeded \ deleted_claims
<1>1. story_page_id # NoPage
  BY PageAssumption DEF TypeOK, PagesTypeOK
<1>2. VerifierIssues(claims, draft[p], overfull[p]) = {}
  BY <1>1 DEF VerifyProject
<1>3. overfull[p] = {} /\ claims \cap Sensitive = {}
  <2>1. {"citation_coverage"} \X overfull[p] = {}
    BY <1>2 DEF VerifierIssues
  <2>2. {"sensitive_content"} \X (claims \cap Sensitive) = {}
    BY <1>2 DEF VerifierIssues
  <2>3. ASSUME NEW ch \in overfull[p] PROVE FALSE
    <3>1. <<"citation_coverage", ch>> \in {"citation_coverage"} \X overfull[p]
      OBVIOUS
    <3>2. QED
      BY <2>1, <3>1
  <2>4. ASSUME NEW c \in claims \cap Sensitive PROVE FALSE
    <3>1. <<"sensitive_content", c>> \in {"sensitive_content"} \X (claims \cap Sensitive)
      OBVIOUS
    <3>2. QED
      BY <2>2, <3>1
  <2>5. QED
    BY <2>3, <2>4
<1>4. ~deleted /\ Told(p) \subseteq listed /\ Told(p) \cap Withheld \subseteq taken_back[p]
  BY DEF VerifyProject, Owned, DraftsKeepToFamily
<1>5. Told(p) \cap Sensitive \subseteq Withheld
  BY <1>3, <1>4 DEF Seeded, Withheld
<1>6. QED
  BY <1>3, <1>4, <1>5 DEF Cleared

LEMMA KeepToFamilyStep ==
  ASSUME TypeOK, DraftsKeepToFamily, [Next]_vars
  PROVE  DraftsKeepToFamily'
<1> SUFFICES ASSUME ~deleted', NEW p \in pages'
             PROVE  Told(p)' \subseteq listed' /\ Told(p)' \cap Withheld' \subseteq taken_back'[p]
  BY DEF DraftsKeepToFamily
<1>1. ~deleted
  BY DEF Next, InterviewStep, ClaimStep, PendingCorrections, SaveClaim, ConvertPhotoAnalysis,
         CorrectClaim, CompleteCorrections, GenerateStory, VerificationStep, VerifyProject,
         ResolveIssue, ResolveIssueAgain, ReviewSensitiveClaim, SharingStep,
         RequestSecondConsent, Publish, CreateShareLink, RevokeShareLink, ResetShareLink,
         RecordConsent, WithdrawConsent, DeleteProject, vars
<1>2. CASE UNCHANGED <<told_vars, pages>> /\ listed \subseteq listed'
  BY <1>1, <1>2, ClearedStable DEF DraftsKeepToFamily, told_vars
<1>3. ASSUME NEW q \in Pages, GenerateStory(q)
      PROVE  Told(p)' \subseteq listed' /\ Told(p)' \cap Withheld' \subseteq taken_back'[p]
  <2>1. listed' = listed /\ Withheld' = Withheld /\ taken_back' = taken_back
    BY <1>3 DEF GenerateStory, claim_vars, Withheld
  <2>2. CASE p = q
    BY <1>3, <2>1, <2>2, GenerationKeepsToFamily
  <2>3. CASE p # q
    <3>1. p \in pages /\ p \in Pages
      BY <1>3, <2>3 DEF GenerateStory, TypeOK, PagesTypeOK
    <3>2. Told(p)' = Told(p)
      BY <1>3, <2>3, <3>1, GenerationKeepsToFamily
    <3>3. QED
      BY <1>1, <2>1, <3>1, <3>2 DEF DraftsKeepToFamily
  <2>4. QED
    BY <2>2, <2>3
<1>4. ASSUME NEW c \in Claims, NEW action \in Corrections, CorrectClaim(c, action)
      PROVE  Told(p)' \subseteq listed' /\ Told(p)' \cap Withheld' \subseteq taken_back'[p]
  <2>1. p \in pages /\ p \in Pages /\ listed' = listed
    BY <1>4 DEF CorrectClaim, page_vars, TypeOK, PagesTypeOK
  <2>2. QED
    BY <1>1, <1>4, <2>1, CorrectionTakesBack DEF DraftsKeepToFamily
<1>5. CASE DeleteProject
  BY <1>5 DEF DeleteProject
<1>6. QED
  BY <1>2, <1>3, <1>4, <1>5, ToldUntouched

\* A page that exists stays cleared until the project is deleted.
LEMMA ClearedStays ==
  ASSUME TypeOK, [Next]_vars, ~DeleteProject, NEW p \in pages, Cleared(p)
  PROVE  Cleared(p)'
<1>1. p \in Pages
  BY DEF TypeOK, PagesTypeOK
<1>2. CASE UNCHANGED told_vars
  BY <1>2, ClearedStable
<1>3. ASSUME NEW q \in Pages, GenerateStory(q) PROVE Cleared(p)'
  <2>1. p # q
    BY <1>3 DEF GenerateStory
  <2>2. QED
    BY <1>1, <1>3, <2>1, GenerationKeepsToFamily
<1>4. ASSUME NEW c \in Claims, NEW action \in Corrections, CorrectClaim(c, action)
      PROVE  Cleared(p)'
  <2>1. overfull' = overfull
    BY <1>4 DEF CorrectClaim, page_vars
  <2>2. QED
    BY <1>1, <1>4, <2>1, CorrectionTakesBack DEF Cleared
<1>5. QED
  BY <1>2, <1>3, <1>4, ToldUntouched

\* How the status comes to count as verified, as long as no admin helps.
LEMMA HowVerified ==
  ASSUME TypeOK, [Next]_vars, ~resolved_once', reviewed' = {},
         status' \in {"verified", "elder_second_consent_pending"}
  PROVE  /\ ~DeleteProject
         /\ pages' = pages /\ story_page_id' = story_page_id
         /\ \/ status \in {"verified", "elder_second_consent_pending"}
            \/ VerifyProject /\ status' # status
<1> DEFINE Held == /\ ~DeleteProject
                  /\ pages' = pages /\ story_page_id' = story_page_id
                  /\ \/ status \in {"verified", "elder_second_consent_pending"}
                     \/ VerifyProject /\ status' # status
<1>0. ~DeleteProject
  BY DEF DeleteProject
<1>1. CASE InterviewStep
  BY <1>1 DEF InterviewStep
<1>2. CASE ClaimStep
  BY <1>0, <1>2 DEF ClaimStep, PendingCorrections, SaveClaim, ConvertPhotoAnalysis, CorrectClaim,
              CompleteCorrections, page_vars
<1>3. ASSUME NEW p \in Pages, GenerateStory(p) PROVE Held
  BY <1>3 DEF GenerateStory, StatusAfterGeneration
<1>4. CASE VerifyProject
  BY <1>0, <1>4 DEF VerifyProject
<1>5. ASSUME NEW k \in IssueKinds, ResolveIssue(k) PROVE Held
  BY <1>5 DEF ResolveIssue
<1>6. CASE ResolveIssueAgain
  BY <1>6 DEF ResolveIssueAgain, issue_vars
<1>7. ASSUME NEW c \in Claims, ReviewSensitiveClaim(c) PROVE Held
  BY <1>7 DEF ReviewSensitiveClaim
<1>8. CASE SharingStep
  BY <1>0, <1>8 DEF SharingStep, RequestSecondConsent, Publish, CreateShareLink, RevokeShareLink,
              ResetShareLink, RecordConsent, WithdrawConsent, page_vars
<1>9. CASE UNCHANGED vars
  BY <1>0, <1>9 DEF vars, page_vars
<1>10. QED
  BY <1>1, <1>2, <1>3, <1>4, <1>5, <1>6, <1>7, <1>8, <1>9 DEF Next, VerificationStep

LEMMA VerifiedClearedStep ==
  ASSUME TypeOK, DraftsKeepToFamily, VerifiedDraftIsCleared, [Next]_vars
  PROVE  VerifiedDraftIsCleared'
<1> SUFFICES ASSUME status' \in {"verified", "elder_second_consent_pending"},
                    ~resolved_once', reviewed' = {}, NEW p \in pages', p = story_page_id'
             PROVE  Cleared(p)'
  BY DEF VerifiedDraftIsCleared
<1>1. ~resolved_once /\ reviewed = {}
  BY ReviewsGrow
<1>2. ~DeleteProject /\ p \in pages /\ p = story_page_id
  BY HowVerified
<1>3. Cleared(p)
  <2>1. CASE status \in {"verified", "elder_second_consent_pending"}
    BY <1>1, <1>2, <2>1 DEF VerifiedDraftIsCleared
  <2>2. CASE VerifyProject /\ status' # status
    BY <1>1, <1>2, <2>2, VerificationClears
  <2>3. QED
    BY <2>1, <2>2, HowVerified
<1>4. QED
  BY <1>2, <1>3, ClearedStays

LEMMA OpenClearedStep ==
  ASSUME SharingInv, SharingInv', VerifiedDraftIsCleared, OpenPageIsCleared, [Next]_vars
  PROVE  OpenPageIsCleared'
<1> SUFFICES ASSUME ~resolved_once', reviewed' = {}, NEW p \in enabled' PROVE Cleared(p)'
  BY DEF OpenPageIsCleared
<1> USE DEF SharingInv, TypeOK, PagesTypeOK
<1>1. ~resolved_once /\ reviewed = {}
  BY ReviewsGrow
<1>2. ~DeleteProject
  BY DEF DeleteProject, DeletedProjectIsSilent
<1>3. CASE p \in enabled
  BY <1>1, <1>2, <1>3, ClearedStays DEF OpenPageIsCleared
<1>4. CASE p \notin enabled
  <2>1. p = story_page_id /\ status = "elder_second_consent_pending" /\ p # NoPage
    BY <1>4, OnlyPublishOpens DEF Publish, PublishGate
  <2>2. QED
    BY <1>1, <1>2, <2>1, ClearedStays DEF VerifiedDraftIsCleared
<1>5. QED
  BY <1>3, <1>4

\* Until an admin resolves an issue or reviews a claim, no reader's page holds what
\* the verifier would block or what was withheld when it was written, in whatever
\* order the family corrects claims, drafts, verifies and publishes.
THEOREM ReadersGetClearedDrafts == Spec => []OpenPageIsCleared
<1>1. Init => ClearedInv
  BY DEF Init, ClearedInv, DraftsKeepToFamily, VerifiedDraftIsCleared, OpenPageIsCleared
<1>2. SharingInv /\ SharingInv' /\ ClearedInv /\ [Next]_vars => ClearedInv'
  BY KeepToFamilyStep, VerifiedClearedStep, OpenClearedStep DEF SharingInv, ClearedInv
<1>3. ClearedInv => OpenPageIsCleared
  BY DEF ClearedInv
<1>4. QED
  BY <1>1, <1>2, <1>3, SharingInvariant, PTL DEF Spec
=============================================================================
