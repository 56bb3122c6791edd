---------------------- MODULE ConcurrentSharingProofs ----------------------
(***************************************************************************)
(* Theorems about ConcurrentSharing: any number of threads, any links, and *)
(* every interleaving of the handlers' reads and writes.                   *)
(***************************************************************************)
EXTENDS ConcurrentSharing, TLAPS

Steps == PublishSteps \cup WithdrawSteps \cup DeleteSteps \cup OtherSteps

\* A thread at work on a link works on one that was created.
LinkSteps == {"publish_link", "revoke_off", "revoke_mark", "view_page", "view_share", "view_link"}
LinkAtWork == \A t \in Threads : pc[t] \in LinkSteps => link[t] \in Created

\* What TypeOK says of the store, and of one thread.
StoreTypeOK ==
  /\ project \in [status : Status, deleted : BOOLEAN]
  /\ has_family_sharing_consent \in BOOLEAN
  /\ page \in [enabled : BOOLEAN, share : BOOLEAN, deleted : BOOLEAN]
  /\ links \in [Links -> LinkRecord]
  /\ token \in BOOLEAN
ThreadTypeOK ==
  /\ pc \in [Threads -> Steps]
  /\ link \in [Threads -> Links \cup {None}]
  /\ opens \in [Threads -> BOOLEAN]
  /\ rest \in [Threads -> SUBSET Links]
  /\ size \in [Threads -> SUBSET Links]
LoopTypeOK == \A t \in Threads : rest[t] \subseteq size[t] /\ size[t] \subseteq Created
HistoryTypeOK ==
  /\ erased \in BOOLEAN
  /\ overtaken \in BOOLEAN
  /\ dead \subseteq Links
  /\ shut_out \in [Threads -> SUBSET {"deletion", "revocation"}]

TypeInv == TypeOK /\ LinkAtWork

LEMMA TypeParts == TypeOK <=> StoreTypeOK /\ ThreadTypeOK /\ LoopTypeOK /\ HistoryTypeOK
  BY DEF TypeOK, StoreTypeOK, ThreadTypeOK, LoopTypeOK, HistoryTypeOK, Steps

LEMMA InitTypeInv == Init => TypeInv
<1> SUFFICES ASSUME Init PROVE TypeInv
  OBVIOUS
<1> USE DEF Init
<1>1. StoreTypeOK
  BY DEF StoreTypeOK, Status, LinkRecord, NewLink
<1>2. ThreadTypeOK
  BY DEF ThreadTypeOK, Steps, OtherSteps
<1>3. LoopTypeOK /\ HistoryTypeOK
  BY DEF LoopTypeOK, HistoryTypeOK
<1>4. LinkAtWork
  BY DEF LinkAtWork, LinkSteps
<1>5. QED
  BY <1>1, <1>2, <1>3, <1>4, TypeParts DEF TypeInv

\* What the handlers have in common.  A thread goes to a step, on a link that is there if
\* the step needs one; links are created and never vanish; a loop visits links there are.
Moves(t, step) ==
  /\ pc' = [pc EXCEPT ![t] = step]
  /\ step \in Steps
  /\ step \in LinkSteps => link'[t] \in Created'

\* A step that keeps links as they are apart from their flags.
LEMMA MovedTypeInv ==
  ASSUME TypeInv, NEW t \in Threads, NEW step, Moves(t, step),
         StoreTypeOK', HistoryTypeOK', Created \subseteq Created',
         link' \in [Threads -> Links \cup {None}],
         opens' \in [Threads -> BOOLEAN],
         rest' \in [Threads -> SUBSET Links],
         size' \in [Threads -> SUBSET Links],
         rest'[t] \subseteq size'[t], size'[t] \subseteq Created',
         \A u \in Threads \ {t} : /\ link'[u] = link[u]
                                  /\ rest'[u] = rest[u]
                                  /\ size'[u] = size[u]
  PROVE  TypeInv'
<1>1. ThreadTypeOK'
  BY TypeParts DEF ThreadTypeOK, TypeInv, Moves
<1>2. LoopTypeOK'
  BY TypeParts DEF LoopTypeOK, TypeInv
<1>3. LinkAtWork'
  BY TypeParts DEF LinkAtWork, TypeInv, Moves, ThreadTypeOK
<1>4. TypeOK'
  BY <1>1, <1>2, TypeParts DEF TypeOK, StoreTypeOK, ThreadTypeOK, LoopTypeOK, HistoryTypeOK,
     Steps, Created
<1>5. QED
  BY <1>3, <1>4 DEF TypeInv

\* A step that leaves the thread's variables and the history alone.
LEMMA StepTypeInv ==
  ASSUME TypeInv, NEW t \in Threads, NEW from, NEW to, Step(t, from, to),
         to \in Steps, to \in LinkSteps => from \in LinkSteps,
         StoreTypeOK', Created \subseteq Created'
  PROVE  TypeInv'
<1>1. HistoryTypeOK'
  BY TypeParts DEF TypeInv, Step, history_vars, HistoryTypeOK
<1>2. Moves(t, to)
  BY DEF Moves, Step, At, Go, thread_vars, TypeInv, LinkAtWork
<1>3. QED
  BY <1>1, <1>2, MovedTypeInv, TypeParts
  DEF TypeInv, Step, thread_vars, ThreadTypeOK, LoopTypeOK

\* A step that leaves the store alone.
LEMMA StoreKept ==
  ASSUME TypeInv, UNCHANGED store_vars
  PROVE  StoreTypeOK' /\ Created' = Created
  BY TypeParts DEF TypeInv, StoreTypeOK, store_vars, Created

LEMMA HistoryKept ==
  ASSUME TypeInv, UNCHANGED history_vars
  PROVE  HistoryTypeOK'
  BY TypeParts DEF TypeInv, HistoryTypeOK, history_vars

\* Flags of one link change.
LEMMA LinkFlagsChange ==
  ASSUME TypeInv, NEW l \in Links, NEW r \in LinkRecord, links[l].created => r.created,
         links' = [links EXCEPT ![l] = r],
         UNCHANGED <<project, has_family_sharing_consent, page>>, token' \in BOOLEAN
  PROVE  StoreTypeOK' /\ Created \subseteq Created'
  BY TypeParts DEF TypeInv, StoreTypeOK, Created

\* A loop begins with the links there are.
LEMMA BeginLoopTypeInv ==
  ASSUME TypeInv, NEW t \in Threads, NEW step \in Steps \ LinkSteps, Go(t, step), BeginLoop(t),
         StoreTypeOK', UNCHANGED <<links, link, opens>>, UNCHANGED history_vars
  PROVE  TypeInv'
<1>1. Created' = Created
  BY DEF Created
<1>2. Moves(t, step)
  BY DEF Moves, Go
<1>3. Created \subseteq Links
  BY DEF Created
<1>4. QED
  BY <1>1, <1>2, <1>3, MovedTypeInv, HistoryKept, TypeParts
  DEF TypeInv, ThreadTypeOK, LoopTypeOK, BeginLoop

LEMMA EndLoopTypeInv ==
  ASSUME TypeInv, NEW t \in Threads, NEW step \in Steps \ LinkSteps, EndLoop(t, step),
         UNCHANGED store_vars, HistoryTypeOK'
  PROVE  TypeInv'
<1>1. StoreTypeOK' /\ Created' = Created
  BY StoreKept
<1>2. Moves(t, step)
  BY DEF Moves, EndLoop, Go
<1>3. QED
  BY <1>1, <1>2, MovedTypeInv, TypeParts
  DEF TypeInv, ThreadTypeOK, LoopTypeOK, EndLoop

\* A visit of a loop: the changes the handlers make keep what was created.
LEMMA VisitTypeInv ==
  ASSUME TypeInv, NEW t \in Threads,
         WithdrawLink(t) \/ DeleteLink(t)
  PROVE  TypeInv'
<1>1. PICK l \in rest[t] :
        /\ \/ links' = [links EXCEPT ![l] = RevokedByWithdrawal(links[l])]
           \/ links' = [links EXCEPT ![l] = ClosedByDeletion(links[l])]
        /\ rest' = [rest EXCEPT ![t] = @ \ {l}]
        /\ UNCHANGED <<project, has_family_sharing_consent, page, token, pc, link, opens, size>>
        /\ UNCHANGED history_vars
  BY DEF WithdrawLink, DeleteLink, Visit
<1>2. l \in Links /\ links[l] \in LinkRecord
  BY TypeParts DEF TypeInv, ThreadTypeOK, StoreTypeOK
<1>3. /\ RevokedByWithdrawal(links[l]) \in LinkRecord
      /\ RevokedByWithdrawal(links[l]).created = links[l].created
      /\ ClosedByDeletion(links[l]) \in LinkRecord
      /\ ClosedByDeletion(links[l]).created = links[l].created
  BY <1>2 DEF RevokedByWithdrawal, ClosedByDeletion, LinkRecord
<1>4. StoreTypeOK' /\ Created \subseteq Created'
  BY <1>1, <1>2, <1>3, LinkFlagsChange, TypeParts DEF TypeInv, StoreTypeOK
<1>5. HistoryTypeOK'
  BY <1>1, HistoryKept
<1>6. pc[t] \in Steps /\ pc' = [pc EXCEPT ![t] = pc[t]]
  BY <1>1, TypeParts DEF TypeInv, ThreadTypeOK
<1>7. Moves(t, pc[t])
  BY <1>1, <1>4, <1>6 DEF Moves, TypeInv, LinkAtWork
<1>8. rest' \in [Threads -> SUBSET Links] /\ rest'[t] \subseteq rest[t]
  BY <1>1, TypeParts DEF TypeInv, ThreadTypeOK
<1>9. QED
  BY <1>1, <1>4, <1>5, <1>7, <1>8, MovedTypeInv, TypeParts
  DEF TypeInv, ThreadTypeOK, LoopTypeOK

LEMMA ConsentTypeInv ==
  ASSUME TypeInv, RecordConsent \/ RequestSecondConsent
  PROVE  TypeInv'
<1>1. StoreTypeOK' /\ Created' = Created
  BY TypeParts DEF TypeInv, StoreTypeOK, RecordConsent, RequestSecondConsent, Status, Created
<1>2. UNCHANGED pc /\ UNCHANGED thread_vars /\ UNCHANGED history_vars
  BY DEF RecordConsent, RequestSecondConsent
<1>3. HistoryTypeOK' /\ ThreadTypeOK' /\ LoopTypeOK'
  BY <1>1, <1>2, HistoryKept, TypeParts DEF TypeInv, ThreadTypeOK, LoopTypeOK, thread_vars
<1>4. LinkAtWork'
  BY <1>1, <1>2 DEF TypeInv, LinkAtWork, thread_vars
<1>5. TypeOK'
  BY <1>1, <1>3, TypeParts
  DEF TypeOK, StoreTypeOK, ThreadTypeOK, LoopTypeOK, HistoryTypeOK, Steps, Created
<1>6. QED
  BY <1>4, <1>5 DEF TypeInv

LEMMA WithdrawTypeInv ==
  ASSUME TypeInv, NEW t \in Threads, Withdraw(t)
  PROVE  TypeInv'
<1> USE DEF Steps, WithdrawSteps, OtherSteps, LinkSteps, Following
<1>1. CASE BeginWithdraw(t)
  BY <1>1, StepTypeInv, StoreKept DEF BeginWithdraw
<1>2. CASE WithdrawFlag(t)
  <2>1. StoreTypeOK' /\ Created' = Created
    BY <1>2, TypeParts DEF WithdrawFlag, TypeInv, StoreTypeOK, Created
  <2>2. HistoryTypeOK'
    BY <1>2, TypeParts DEF WithdrawFlag, TypeInv, HistoryTypeOK
  <2>3. Moves(t, "withdraw_page")
    BY <1>2 DEF WithdrawFlag, Moves, Go
  <2>4. QED
    BY <1>2, <2>1, <2>2, <2>3, MovedTypeInv, TypeParts
    DEF WithdrawFlag, TypeInv, thread_vars, ThreadTypeOK, LoopTypeOK
<1>3. CASE WithdrawPage(t)
  <2>1. StoreTypeOK' /\ Created' = Created
    BY <1>3, TypeParts DEF WithdrawPage, TypeInv, StoreTypeOK, Created
  <2>2. QED
    BY <1>3, <2>1, StepTypeInv DEF WithdrawPage
<1>4. CASE WithdrawShare(t)
  <2>1. StoreTypeOK'
    BY <1>4, TypeParts DEF WithdrawShare, TypeInv, StoreTypeOK
  <2>2. QED
    BY <1>4, <2>1, BeginLoopTypeInv DEF WithdrawShare
<1>5. CASE WithdrawLink(t)
  BY <1>5, VisitTypeInv
<1>6. CASE EndWithdraw(t)
  BY <1>6, EndLoopTypeInv, HistoryKept DEF EndWithdraw
<1>7. QED
  BY <1>1, <1>2, <1>3, <1>4, <1>5, <1>6 DEF Withdraw

LEMMA PublishTypeInv ==
  ASSUME TypeInv, NEW t \in Threads, Publish(t)
  PROVE  TypeInv'
<1> USE DEF Steps, PublishSteps, OtherSteps, LinkSteps
<1>1. CASE BeginPublish(t) \/ PublishGate(t) \/ PublishConsent(t) \/ PublishLinks(t)
  BY <1>1, StepTypeInv, StoreKept DEF BeginPublish, PublishGate, PublishConsent, PublishLinks
<1>2. CASE PublishStatus(t)
  <2>1. StoreTypeOK' /\ Created' = Created
    BY <1>2, TypeParts DEF PublishStatus, TypeInv, StoreTypeOK, Status, Created
  <2>2. QED
    BY <1>2, <2>1, StepTypeInv DEF PublishStatus
<1>3. CASE PublishPage(t)
  <2>1. StoreTypeOK' /\ Created' = Created
    BY <1>3, TypeParts DEF PublishPage, TypeInv, StoreTypeOK, Created
  <2>2. QED
    BY <1>3, <2>1, StepTypeInv DEF PublishPage
<1>4. CASE PublishShare(t)
  <2>1. StoreTypeOK'
    BY <1>4, TypeParts DEF PublishShare, TypeInv, StoreTypeOK
  <2>2. QED
    BY <1>4, <2>1, BeginLoopTypeInv DEF PublishShare
<1>5. CASE PublishLook(t)
  <2>1. PICK l \in rest[t] :
          /\ rest' = [rest EXCEPT ![t] = @ \ {l}]
          /\ IF links[l].revoked \/ links[l].deleted
             THEN UNCHANGED <<pc, link>>
             ELSE Go(t, "publish_link") /\ link' = [link EXCEPT ![t] = l]
    BY <1>5 DEF PublishLook
  <2>2. StoreTypeOK' /\ Created' = Created /\ HistoryTypeOK' /\ UNCHANGED <<opens, size>>
    BY <1>5, StoreKept, HistoryKept DEF PublishLook
  <2>3. l \in Created /\ l \in Links
    BY TypeParts DEF TypeInv, LoopTypeOK, Created
  <2>4. rest' \in [Threads -> SUBSET Links] /\ rest'[t] \subseteq rest[t]
    BY <2>1, TypeParts DEF TypeInv, ThreadTypeOK
  <2>5. CASE UNCHANGED <<pc, link>>
    <3>1. Moves(t, "publish_loop")
      BY <1>5, <2>5, TypeParts DEF PublishLook, At, Moves, TypeInv, ThreadTypeOK
    <3>2. QED
      BY <2>1, <2>2, <2>4, <2>5, <3>1, MovedTypeInv, TypeParts
      DEF TypeInv, ThreadTypeOK, LoopTypeOK
  <2>6. CASE Go(t, "publish_link") /\ link' = [link EXCEPT ![t] = l]
    <3>1. link' \in [Threads -> Links \cup {None}] /\ link'[t] = l
      BY <2>3, <2>6, TypeParts DEF TypeInv, ThreadTypeOK
    <3>2. Moves(t, "publish_link")
      BY <2>2, <2>3, <2>6, <3>1 DEF Moves, Go
    <3>3. QED
      BY <2>1, <2>2, <2>4, <2>6, <3>1, <3>2, MovedTypeInv, TypeParts
      DEF TypeInv, ThreadTypeOK, LoopTypeOK
  <2>7. QED
    BY <2>1, <2>5, <2>6
<1>6. CASE PublishLink(t)
  <2> DEFINE l == link[t]
  <2>1. l \in Created /\ l \in Links /\ links[l] \in LinkRecord
    BY <1>6, TypeParts DEF PublishLink, At, TypeInv, LinkAtWork, Created, StoreTypeOK
  <2>2. [links[l] EXCEPT !.enabled = TRUE] \in LinkRecord
    BY <2>1 DEF LinkRecord
  <2>3. links' = [links EXCEPT ![l] = [links[l] EXCEPT !.enabled = TRUE]]
    BY <1>6 DEF PublishLink
  <2>4. token' \in BOOLEAN /\ UNCHANGED <<project, has_family_sharing_consent, page>>
    BY <1>6, TypeParts DEF PublishLink, TypeInv, StoreTypeOK
  <2> HIDE DEF l
  <2>5. StoreTypeOK' /\ Created \subseteq Created'
    BY <2>1, <2>2, <2>3, <2>4, LinkFlagsChange DEF LinkRecord
  <2>6. HistoryTypeOK'
    BY <1>6, HistoryKept DEF PublishLink
  <2>7. Moves(t, "publish_loop")
    BY <1>6 DEF PublishLink, Moves, Go
  <2>8. link' \in [Threads -> Links \cup {None}]
    BY <1>6, TypeParts DEF PublishLink, TypeInv, ThreadTypeOK
  <2>9. QED
    BY <1>6, <2>5, <2>6, <2>7, <2>8, MovedTypeInv, TypeParts
    DEF PublishLink, TypeInv, ThreadTypeOK, LoopTypeOK
<1>7. CASE EndPublish(t)
  BY <1>7, EndLoopTypeInv, HistoryKept DEF EndPublish
<1>8. QED
  BY <1>1, <1>2, <1>3, <1>4, <1>5, <1>6, <1>7 DEF Publish

LEMMA CreateTypeInv ==
  ASSUME TypeInv, NEW t \in Threads, CreateShareLink(t)
  PROVE  TypeInv'
<1> USE DEF Steps, OtherSteps, LinkSteps
<1>1. CASE BeginCreate(t)
  BY <1>1, StepTypeInv, StoreKept DEF BeginCreate
<1>2. CASE CreateRead(t)
  <2>1. StoreTypeOK' /\ Created' = Created /\ HistoryTypeOK'
    BY <1>2, StoreKept, HistoryKept DEF CreateRead
  <2>2. opens' \in [Threads -> BOOLEAN]
    BY <1>2, TypeParts DEF CreateRead, TypeInv, ThreadTypeOK, StoreTypeOK
  <2>3. Moves(t, "create_insert")
    BY <1>2 DEF CreateRead, Moves, Go
  <2>4. QED
    BY <1>2, <2>1, <2>2, <2>3, MovedTypeInv, TypeParts
    DEF CreateRead, TypeInv, ThreadTypeOK, LoopTypeOK
<1>3. CASE CreateInsert(t)
  <2>1. PICK l \in Links \ Created :
          links' = [links EXCEPT ![l] = [NewLink EXCEPT !.created = TRUE, !.enabled = opens[t]]]
    BY <1>3 DEF CreateInsert
  <2>2. [NewLink EXCEPT !.created = TRUE, !.enabled = opens[t]] \in LinkRecord
    BY TypeParts DEF TypeInv, ThreadTypeOK, NewLink, LinkRecord
  <2>3. [NewLink EXCEPT !.created = TRUE, !.enabled = opens[t]].created
    BY DEF NewLink
  <2>4. token' \in BOOLEAN /\ UNCHANGED <<project, has_family_sharing_consent, page>>
    BY <1>3, TypeParts DEF CreateInsert, TypeInv, StoreTypeOK
  <2>5. StoreTypeOK' /\ Created \subseteq Created'
    BY <2>1, <2>2, <2>3, <2>4, LinkFlagsChange
  <2>6. QED
    BY <1>3, <2>5, StepTypeInv DEF CreateInsert
<1>4. QED
  BY <1>1, <1>2, <1>3 DEF CreateShareLink

LEMMA RevokeTypeInv ==
  ASSUME TypeInv, NEW t \in Threads, RevokeShareLink(t)
  PROVE  TypeInv'
<1> USE DEF Steps, OtherSteps, LinkSteps
<1>1. CASE BeginRevoke(t)
  <2>1. PICK l \in Created : link' = [link EXCEPT ![t] = l]
    BY <1>1 DEF BeginRevoke
  <2>2. StoreTypeOK' /\ Created' = Created /\ HistoryTypeOK'
    BY <1>1, StoreKept, HistoryKept DEF BeginRevoke
  <2>3. link' \in [Threads -> Links \cup {None}] /\ link'[t] = l
    BY <2>1, TypeParts DEF TypeInv, ThreadTypeOK, Created
  <2>4. Moves(t, "revoke_off")
    BY <1>1, <2>2, <2>3 DEF BeginRevoke, Moves, Go
  <2>5. QED
    BY <1>1, <2>1, <2>2, <2>3, <2>4, MovedTypeInv, TypeParts
    DEF BeginRevoke, TypeInv, ThreadTypeOK, LoopTypeOK
<1>2. CASE RevokeOff(t)
  <2> DEFINE l == link[t]
  <2>1. l \in Links /\ links[l] \in LinkRecord
    BY <1>2, TypeParts DEF RevokeOff, Step, At, TypeInv, LinkAtWork, Created, StoreTypeOK
  <2>2. [links[l] EXCEPT !.enabled = FALSE] \in LinkRecord
    BY <2>1 DEF LinkRecord
  <2>3. links' = [links EXCEPT ![l] = [links[l] EXCEPT !.enabled = FALSE]]
    BY <1>2 DEF RevokeOff
  <2>4. token' \in BOOLEAN /\ UNCHANGED <<project, has_family_sharing_consent, page>>
    BY <1>2, TypeParts DEF RevokeOff, TypeInv, StoreTypeOK
  <2> HIDE DEF l
  <2>5. StoreTypeOK' /\ Created \subseteq Created'
    BY <2>1, <2>2, <2>3, <2>4, LinkFlagsChange DEF LinkRecord
  <2>6. QED
    BY <1>2, <2>5, StepTypeInv DEF RevokeOff
<1>3. CASE RevokeMark(t)
  <2> DEFINE l == link[t]
  <2>1. l \in Links /\ links[l] \in LinkRecord
    BY <1>3, TypeParts DEF RevokeMark, At, TypeInv, LinkAtWork, Created, StoreTypeOK
  <2>2. [links[l] EXCEPT !.revoked = TRUE] \in LinkRecord
    BY <2>1 DEF LinkRecord
  <2>3. links' = [links EXCEPT ![l] = [links[l] EXCEPT !.revoked = TRUE]]
    BY <1>3 DEF RevokeMark
  <2>4. token' \in BOOLEAN /\ UNCHANGED <<project, has_family_sharing_consent, page>>
    BY <1>3, TypeParts DEF RevokeMark, TypeInv, StoreTypeOK
  <2>5. HistoryTypeOK'
    BY <1>3, <2>1, TypeParts DEF RevokeMark, TypeInv, HistoryTypeOK
  <2> HIDE DEF l
  <2>6. StoreTypeOK' /\ Created \subseteq Created'
    BY <2>1, <2>2, <2>3, <2>4, LinkFlagsChange DEF LinkRecord
  <2>7. Moves(t, "idle")
    BY <1>3 DEF RevokeMark, Moves, Go
  <2>8. link' \in [Threads -> Links \cup {None}]
    BY <1>3, TypeParts DEF RevokeMark, TypeInv, ThreadTypeOK
  <2>9. QED
    BY <1>3, <2>5, <2>6, <2>7, <2>8, MovedTypeInv, TypeParts
    DEF RevokeMark, TypeInv, ThreadTypeOK, LoopTypeOK
<1>4. QED
  BY <1>1, <1>2, <1>3 DEF RevokeShareLink

LEMMA DeleteTypeInv ==
  ASSUME TypeInv, NEW t \in Threads, DeleteProject(t)
  PROVE  TypeInv'
<1> USE DEF Steps, DeleteSteps, OtherSteps, LinkSteps
<1>1. CASE BeginDelete(t) \/ DeleteRecords(t)
  BY <1>1, StepTypeInv, StoreKept DEF BeginDelete, DeleteRecords
<1>2. CASE DeleteProjectRecord(t)
  <2>1. StoreTypeOK' /\ Created' = Created
    BY <1>2, TypeParts DEF DeleteProjectRecord, TypeInv, StoreTypeOK, Status, Created
  <2>2. QED
    BY <1>2, <2>1, StepTypeInv DEF DeleteProjectRecord
<1>3. CASE DeletePage(t)
  <2>1. StoreTypeOK' /\ Created' = Created
    BY <1>3, TypeParts DEF DeletePage, TypeInv, StoreTypeOK, Created
  <2>2. QED
    BY <1>3, <2>1, StepTypeInv DEF DeletePage
<1>4. CASE DeleteShare(t)
  <2>1. StoreTypeOK' /\ Created' = Created
    BY <1>4, TypeParts DEF DeleteShare, TypeInv, StoreTypeOK, Created
  <2>2. QED
    BY <1>4, <2>1, StepTypeInv DEF DeleteShare
<1>5. CASE DeleteMark(t)
  <2>1. StoreTypeOK'
    BY <1>5, TypeParts DEF DeleteMark, TypeInv, StoreTypeOK
  <2>2. QED
    BY <1>5, <2>1, BeginLoopTypeInv DEF DeleteMark
<1>6. CASE DeleteLink(t)
  BY <1>6, VisitTypeInv
<1>7. CASE EndDelete(t)
  <2>1. HistoryTypeOK'
    BY <1>7, TypeParts DEF EndDelete, TypeInv, HistoryTypeOK
  <2>2. QED
    BY <1>7, <2>1, EndLoopTypeInv DEF EndDelete
<1>8. QED
  BY <1>1, <1>2, <1>3, <1>4, <1>5, <1>6, <1>7 DEF DeleteProject

\* A reader leaves.
LEMMA EndReadTypeInv ==
  ASSUME TypeInv, NEW t \in Threads, EndRead(t), StoreTypeOK', Created' = Created
  PROVE  TypeInv'
<1>1. HistoryTypeOK'
  BY TypeParts DEF EndRead, TypeInv, HistoryTypeOK
<1>2. link' \in [Threads -> Links \cup {None}]
  BY TypeParts DEF EndRead, TypeInv, ThreadTypeOK
<1>3. Moves(t, "idle")
  BY DEF EndRead, Moves, Go, Steps, OtherSteps, LinkSteps
<1>4. QED
  BY <1>1, <1>2, <1>3, MovedTypeInv, TypeParts
  DEF EndRead, TypeInv, ThreadTypeOK, LoopTypeOK

LEMMA CheckTypeInv ==
  ASSUME TypeInv, NEW t \in Threads, NEW from, NEW holds, NEW to, Check(t, from, holds, to),
         to \in Steps, to \in LinkSteps => from \in LinkSteps
  PROVE  TypeInv'
  BY EndReadTypeInv, StepTypeInv, StoreKept DEF Check, Step

LEMMA BeginReadTypeInv ==
  ASSUME TypeInv, NEW t \in Threads, NEW step \in Steps, NEW l \in Links \cup {None},
         step \in LinkSteps => l \in Created, BeginRead(t, step, l)
  PROVE  TypeInv'
<1>1. StoreTypeOK' /\ Created' = Created
  BY StoreKept DEF BeginRead
<1>2. HistoryTypeOK'
  BY TypeParts DEF BeginRead, TypeInv, HistoryTypeOK
<1>3. link' \in [Threads -> Links \cup {None}] /\ link'[t] = l
  BY TypeParts DEF BeginRead, TypeInv, ThreadTypeOK
<1>4. Moves(t, step)
  BY <1>1, <1>3 DEF BeginRead, Moves, Go
<1>5. QED
  BY <1>1, <1>2, <1>3, <1>4, MovedTypeInv, TypeParts
  DEF BeginRead, TypeInv, ThreadTypeOK, LoopTypeOK

LEMMA ReadTypeInv ==
  ASSUME TypeInv, NEW t \in Threads, Read(t)
  PROVE  TypeInv'
<1> USE DEF Steps, OtherSteps, LinkSteps
<1>1. CASE BeginView(t) \/ BeginAudio(t)
  BY <1>1, BeginReadTypeInv DEF BeginView, BeginAudio, Created
<1>2. CASE ViewPage(t) \/ ViewShare(t) \/ AudioPage(t) \/ AudioToken(t)
  BY <1>2, CheckTypeInv DEF ViewPage, ViewShare, AudioPage, AudioToken
<1>3. CASE ViewLink(t)
  <2>1. StoreTypeOK' /\ Created' = Created
    BY <1>3, TypeParts DEF ViewLink, TypeInv, StoreTypeOK, Created
  <2>2. QED
    BY <1>3, <2>1, EndReadTypeInv, StepTypeInv DEF ViewLink, Step
<1>4. CASE Answer(t)
  BY <1>4, EndReadTypeInv, StoreKept DEF Answer
<1>5. QED
  BY <1>1, <1>2, <1>3, <1>4 DEF Read

LEMMA StutterTypeInv ==
  ASSUME TypeInv, UNCHANGED vars
  PROVE  TypeInv'
<1>1. TypeOK'
  BY TypeParts, StoreKept, HistoryKept
  DEF TypeInv, vars, store_vars, thread_vars, history_vars, TypeOK, Created
<1>2. LinkAtWork'
  BY DEF TypeInv, vars, store_vars, thread_vars, LinkAtWork, Created
<1>3. QED
  BY <1>1, <1>2 DEF TypeInv

LEMMA TypeInvKept == TypeInv /\ [Next]_vars => TypeInv'
  BY ConsentTypeInv, WithdrawTypeInv, PublishTypeInv, CreateTypeInv, RevokeTypeInv,
     DeleteTypeInv, ReadTypeInv, StutterTypeInv DEF Next

\* Every variable of the store, of the threads and of the history keeps its type, and a loop
\* over share_links only ever visits links that exist.
THEOREM SharingTypeCorrect == Spec => []TypeOK
<1>1. TypeInv => TypeOK
  BY DEF TypeInv
<1>2. QED
  BY <1>1, InitTypeInv, TypeInvKept, PTL DEF Spec

-----------------------------------------------------------------------------
(* The consent.  A publication past its gate has read the consent: if that was withdrawn
   since, the history says so.  What publications opened a withdrawal in progress is about
   to close, flag by flag. *)

PastGateRead ==
  (\E t \in Threads : pc[t] \in PastGate) => has_family_sharing_consent \/ overtaken
PageCovered ==
  page.enabled => \/ has_family_sharing_consent \/ overtaken
                  \/ \E t \in Threads : pc[t] = "withdraw_page"
ShareCovered ==
  page.share => \/ has_family_sharing_consent \/ overtaken
                \/ \E t \in Threads : pc[t] \in {"withdraw_page", "withdraw_share"}

ConsentInv == TypeInv /\ PastGateRead /\ PageCovered /\ ShareCovered

LEMMA PastGateSteps ==
  PastGate = {"publish_links", "publish_status", "publish_page", "publish_share",
              "publish_loop", "publish_link"}
  BY DEF PastGate, PublishSteps

\* A thread that neither passes the gate nor leaves the first steps of a withdrawal.
LEMMA ConsentBystander ==
  ASSUME ConsentInv, TypeInv', NEW t \in Threads, NEW to,
         pc' = [pc EXCEPT ![t] = to],
         pc[t] \notin {"withdraw_page", "withdraw_share"},
         to \in PastGate => pc[t] \in PastGate,
         page'.enabled => page.enabled, page'.share => page.share,
         UNCHANGED <<has_family_sharing_consent, overtaken>>
  PROVE  ConsentInv'
<1>1. pc \in [Threads -> Steps]
  BY TypeParts DEF ConsentInv, TypeInv, ThreadTypeOK
<1>2. PastGateRead'
  BY <1>1 DEF ConsentInv, PastGateRead, PastGate, PublishSteps
<1>3. PageCovered' /\ ShareCovered'
  BY <1>1 DEF ConsentInv, PageCovered, ShareCovered
<1>4. QED
  BY <1>2, <1>3 DEF ConsentInv

LEMMA WithdrawConsentInv ==
  ASSUME ConsentInv, TypeInv', NEW t \in Threads, Withdraw(t)
  PROVE  ConsentInv'
<1> USE DEF Following
<1>1. /\ pc \in [Threads -> Steps]
      /\ page \in [enabled : BOOLEAN, share : BOOLEAN, deleted : BOOLEAN]
  BY TypeParts DEF ConsentInv, TypeInv, ThreadTypeOK, StoreTypeOK
<1>2. CASE BeginWithdraw(t)
  BY <1>2, ConsentBystander, PastGateSteps
  DEF BeginWithdraw, Step, At, Go, store_vars, history_vars
<1>3. CASE WithdrawFlag(t)
  <2>1. pc' = [pc EXCEPT ![t] = "withdraw_page"] /\ UNCHANGED page
    BY <1>3 DEF WithdrawFlag, Go
  <2>2. PastGateRead'
    BY <1>1, <1>3, <2>1, PastGateSteps DEF WithdrawFlag, PastGateRead, PastGate, PublishSteps
  <2>3. PageCovered' /\ ShareCovered'
    BY <1>1, <2>1 DEF PageCovered, ShareCovered
  <2>4. QED
    BY <2>2, <2>3 DEF ConsentInv
<1>4. CASE WithdrawPage(t) \/ WithdrawShare(t)
  <2>1. UNCHANGED <<has_family_sharing_consent, overtaken>>
    BY <1>4 DEF WithdrawPage, WithdrawShare, Step, history_vars
  <2>2. PastGateRead'
    BY <1>1, <1>4, <2>1, PastGateSteps
    DEF WithdrawPage, WithdrawShare, Step, At, Go, ConsentInv, PastGateRead, PastGate,
        PublishSteps
  <2>3. CASE WithdrawPage(t)
    <3>1. /\ pc' = [pc EXCEPT ![t] = "withdraw_share"] /\ pc[t] = "withdraw_page"
          /\ page'.enabled = FALSE /\ page'.share = page.share
      BY <1>1, <2>3 DEF WithdrawPage, Step, At, Go
    <3>2. QED
      BY <1>1, <2>1, <2>2, <3>1 DEF ConsentInv, PageCovered, ShareCovered
  <2>4. CASE WithdrawShare(t)
    <3>1. /\ pc' = [pc EXCEPT ![t] = "withdraw_loop"] /\ pc[t] = "withdraw_share"
          /\ page'.share = FALSE /\ page'.enabled = page.enabled
      BY <1>1, <2>4 DEF WithdrawShare, At, Go
    <3>2. QED
      BY <1>1, <2>1, <2>2, <3>1 DEF ConsentInv, PageCovered, ShareCovered
  <2>5. QED
    BY <1>4, <2>3, <2>4
<1>5. CASE WithdrawLink(t)
  <2>1. pc' = [pc EXCEPT ![t] = "withdraw_loop"] /\ pc[t] = "withdraw_loop"
    BY <1>1, <1>5 DEF WithdrawLink, Visit, At
  <2>2. QED
    BY <1>5, <2>1, ConsentBystander, PastGateSteps DEF WithdrawLink, Visit, history_vars
<1>6. CASE EndWithdraw(t)
  BY <1>6, ConsentBystander, PastGateSteps
  DEF EndWithdraw, EndLoop, At, Go, store_vars, history_vars
<1>7. QED
  BY <1>2, <1>3, <1>4, <1>5, <1>6 DEF Withdraw

LEMMA PublishConsentInv ==
  ASSUME ConsentInv, TypeInv', NEW t \in Threads, Publish(t)
  PROVE  ConsentInv'
<1>1. /\ pc \in [Threads -> Steps]
      /\ page \in [enabled : BOOLEAN, share : BOOLEAN, deleted : BOOLEAN]
  BY TypeParts DEF ConsentInv, TypeInv, ThreadTypeOK, StoreTypeOK
<1>2. CASE BeginPublish(t) \/ PublishGate(t) \/ PublishLinks(t) \/ PublishStatus(t)
  BY <1>2, ConsentBystander, PastGateSteps
  DEF BeginPublish, PublishGate, PublishLinks, PublishStatus, Step, At, Go, store_vars,
      history_vars
<1>3. CASE PublishConsent(t)
  <2>1. UNCHANGED <<has_family_sharing_consent, overtaken, page>>
    BY <1>3 DEF PublishConsent, Step, store_vars, history_vars
  <2>2. CASE has_family_sharing_consent
    BY <2>1, <2>2 DEF ConsentInv, PastGateRead, PageCovered, ShareCovered
  <2>3. CASE ~has_family_sharing_consent
    <3>1. pc' = [pc EXCEPT ![t] = "idle"] /\ pc[t] = "publish_consent"
      BY <1>3, <2>3 DEF PublishConsent, Step, At, Go
    <3>2. QED
      BY <2>1, <3>1, ConsentBystander, PastGateSteps
  <2>4. QED
    BY <2>2, <2>3
<1>4. CASE PublishPage(t) \/ PublishShare(t)
  <2>1. UNCHANGED <<has_family_sharing_consent, overtaken>>
    BY <1>4 DEF PublishPage, PublishShare, Step, history_vars
  <2>2. has_family_sharing_consent \/ overtaken
    BY <1>4, PastGateSteps DEF ConsentInv, PastGateRead, PublishPage, PublishShare, Step, At
  <2>3. QED
    BY <2>1, <2>2 DEF ConsentInv, PastGateRead, PageCovered, ShareCovered
<1>5. CASE PublishLook(t)
  <2>1. \E to \in {"publish_loop", "publish_link"} : pc' = [pc EXCEPT ![t] = to]
    BY <1>1, <1>5 DEF PublishLook, At, Go
  <2>2. QED
    BY <1>5, <2>1, ConsentBystander, PastGateSteps
    DEF PublishLook, At, store_vars, history_vars
<1>6. CASE PublishLink(t) \/ EndPublish(t)
  BY <1>6, ConsentBystander, PastGateSteps
  DEF PublishLink, EndPublish, EndLoop, At, Go, store_vars, history_vars
<1>7. QED
  BY <1>2, <1>3, <1>4, <1>5, <1>6 DEF Publish

LEMMA OtherConsentInv ==
  ASSUME ConsentInv, TypeInv', NEW t \in Threads,
         CreateShareLink(t) \/ RevokeShareLink(t) \/ DeleteProject(t) \/ Read(t)
  PROVE  ConsentInv'
<1>1. /\ pc \in [Threads -> Steps]
      /\ page \in [enabled : BOOLEAN, share : BOOLEAN, deleted : BOOLEAN]
  BY TypeParts DEF ConsentInv, TypeInv, ThreadTypeOK, StoreTypeOK
<1>2. CASE CreateShareLink(t) \/ RevokeShareLink(t)
  BY <1>2, ConsentBystander, PastGateSteps
  DEF CreateShareLink, BeginCreate, CreateRead, CreateInsert, RevokeShareLink, BeginRevoke,
      RevokeOff, RevokeMark, Step, At, Go, store_vars, history_vars
<1>3. CASE DeleteProject(t)
  <2>1. CASE DeleteLink(t)
    <3>1. pc' = [pc EXCEPT ![t] = "delete_loop"] /\ pc[t] = "delete_loop"
      BY <1>1, <2>1 DEF DeleteLink, Visit, At
    <3>2. QED
      BY <2>1, <3>1, ConsentBystander, PastGateSteps DEF DeleteLink, Visit, history_vars
  <2>2. CASE DeletePage(t) \/ DeleteShare(t) \/ DeleteMark(t)
    <3>1. /\ page'.enabled => page.enabled
          /\ page'.share => page.share
      BY <1>1, <2>2 DEF DeletePage, DeleteShare, DeleteMark
    <3>2. QED
      BY <2>2, <3>1, ConsentBystander, PastGateSteps
      DEF DeletePage, DeleteShare, DeleteMark, Step, At, Go, history_vars
  <2>3. CASE BeginDelete(t) \/ DeleteProjectRecord(t) \/ DeleteRecords(t) \/ EndDelete(t)
    BY <2>3, ConsentBystander, PastGateSteps
    DEF BeginDelete, DeleteProjectRecord, DeleteRecords, EndDelete, EndLoop, Step, At, Go,
        store_vars, history_vars
  <2>4. QED
    BY <1>3, <2>1, <2>2, <2>3 DEF DeleteProject
<1>4. CASE Read(t)
  BY <1>4, ConsentBystander, PastGateSteps
  DEF Read, BeginView, BeginAudio, BeginRead, ViewPage, ViewShare, ViewLink, AudioPage,
      AudioToken, Answer, Check, EndRead, At, Go, store_vars, history_vars
<1>5. QED
  BY <1>2, <1>3, <1>4

LEMMA ConsentInvKept == ConsentInv /\ [Next]_vars => ConsentInv'
<1> SUFFICES ASSUME ConsentInv, [Next]_vars PROVE ConsentInv'
  OBVIOUS
<1>1. TypeInv'
  BY TypeInvKept DEF ConsentInv
<1>2. CASE RecordConsent \/ RequestSecondConsent
  BY <1>1, <1>2
  DEF RecordConsent, RequestSecondConsent, history_vars, ConsentInv, PastGateRead,
      PageCovered, ShareCovered
<1>3. CASE UNCHANGED vars
  BY <1>1, <1>3
  DEF vars, store_vars, history_vars, ConsentInv, PastGateRead, PageCovered, ShareCovered
<1>4. QED
  BY <1>1, <1>2, <1>3, WithdrawConsentInv, PublishConsentInv, OtherConsentInv DEF Next

\* Between withdrawals an open page has a consent, unless a publication had read the consent
\* before it was withdrawn: no other interleaving of the handlers reopens a page.
THEOREM OpenPageHasConsent == Spec => []SharedUnderConsent
<1>1. Init => ConsentInv
  BY InitTypeInv, PastGateSteps DEF Init, ConsentInv, PastGateRead, PageCovered, ShareCovered
<1>2. ConsentInv => SharedUnderConsent
  BY DEF ConsentInv, PageCovered, ShareCovered, SharedUnderConsent, WithdrawSteps
<1>3. QED
  BY <1>1, <1>2, ConsentInvKept, PTL DEF Spec

-----------------------------------------------------------------------------
(* The deletion.  The mark on the page outlasts every publication; a reader who comes
   after it is stopped at the page. *)

DeletedPageMarked == erased \/ (\E t \in Threads : pc[t] = "delete_loop") => page.deleted
StoppedAtPage ==
  \A t \in Threads : "deletion" \in shut_out[t] =>
    erased /\ pc[t] \in {"view_page", "audio_page"}

DeletionInv == TypeInv /\ DeletedPageMarked /\ StoppedAtPage

\* A thread that is neither reading nor about to loop over the links of a deletion.
LEMMA DeletionBystander ==
  ASSUME DeletionInv, TypeInv', NEW t \in Threads, NEW to,
         pc' = [pc EXCEPT ![t] = to],
         pc[t] \notin {"view_page", "audio_page"},
         to = "delete_loop" => pc[t] = "delete_loop",
         page'.deleted = page.deleted,
         UNCHANGED <<erased, shut_out>>
  PROVE  DeletionInv'
<1>1. pc \in [Threads -> Steps]
  BY TypeParts DEF DeletionInv, TypeInv, ThreadTypeOK
<1>2. DeletedPageMarked' /\ StoppedAtPage'
  BY <1>1 DEF DeletionInv, DeletedPageMarked, StoppedAtPage
<1>3. QED
  BY <1>2 DEF DeletionInv

LEMMA WriterDeletionInv ==
  ASSUME DeletionInv, TypeInv', NEW t \in Threads,
         Withdraw(t) \/ Publish(t) \/ CreateShareLink(t) \/ RevokeShareLink(t)
  PROVE  DeletionInv'
<1> USE DEF Following
<1>1. /\ pc \in [Threads -> Steps]
      /\ page \in [enabled : BOOLEAN, share : BOOLEAN, deleted : BOOLEAN]
  BY TypeParts DEF DeletionInv, TypeInv, ThreadTypeOK, StoreTypeOK
<1>2. page'.deleted = page.deleted /\ UNCHANGED <<erased, shut_out>>
  <2>1. CASE Withdraw(t)
    BY <1>1, <2>1
    DEF Withdraw, BeginWithdraw, WithdrawFlag, WithdrawPage, WithdrawShare, WithdrawLink, Visit,
        EndWithdraw, Step, store_vars, history_vars
  <2>2. CASE Publish(t)
    BY <1>1, <2>2
    DEF Publish, BeginPublish, PublishGate, PublishConsent, PublishLinks, PublishStatus,
        PublishPage, PublishShare, PublishLook, PublishLink, EndPublish, Step, store_vars,
        history_vars
  <2>3. CASE CreateShareLink(t) \/ RevokeShareLink(t)
    BY <2>3
    DEF CreateShareLink, BeginCreate, CreateRead, CreateInsert, RevokeShareLink, BeginRevoke,
        RevokeOff, RevokeMark, Step, store_vars, history_vars
  <2>4. QED
    BY <2>1, <2>2, <2>3
<1>3. \E to : /\ pc' = [pc EXCEPT ![t] = to] /\ to # "delete_loop"
              /\ pc[t] \notin {"view_page", "audio_page"}
  <2>1. CASE WithdrawLink(t)
    <3>1. pc' = [pc EXCEPT ![t] = "withdraw_loop"] /\ pc[t] = "withdraw_loop"
      BY <1>1, <2>1 DEF WithdrawLink, Visit, At
    <3>2. QED
      BY <3>1
  <2>2. CASE Withdraw(t) /\ ~WithdrawLink(t)
    BY <2>2
    DEF Withdraw, BeginWithdraw, WithdrawFlag, WithdrawPage, WithdrawShare, EndWithdraw, Step,
        EndLoop, At, Go
  <2>3. CASE PublishLook(t)
    <3>1. \E to \in {"publish_loop", "publish_link"} : pc' = [pc EXCEPT ![t] = to]
      BY <1>1, <2>3 DEF PublishLook, At, Go
    <3>2. QED
      BY <2>3, <3>1 DEF PublishLook, At
  <2>4. CASE Publish(t) /\ ~PublishLook(t)
    BY <2>4
    DEF Publish, BeginPublish, PublishGate, PublishConsent, PublishLinks, PublishStatus,
        PublishPage, PublishShare, PublishLink, EndPublish, Step, EndLoop, At, Go
  <2>5. CASE CreateShareLink(t) \/ RevokeShareLink(t)
    BY <2>5
    DEF CreateShareLink, BeginCreate, CreateRead, CreateInsert, RevokeShareLink, BeginRevoke,
        RevokeOff, RevokeMark, Step, At, Go
  <2>6. QED
    BY <2>1, <2>2, <2>3, <2>4, <2>5
<1>4. QED
  BY <1>2, <1>3, DeletionBystander

LEMMA DeleteDeletionInv ==
  ASSUME DeletionInv, TypeInv', NEW t \in Threads, DeleteProject(t)
  PROVE  DeletionInv'
<1>1. /\ pc \in [Threads -> Steps]
      /\ page \in [enabled : BOOLEAN, share : BOOLEAN, deleted : BOOLEAN]
  BY TypeParts DEF DeletionInv, TypeInv, ThreadTypeOK, StoreTypeOK
<1>2. CASE BeginDelete(t) \/ DeleteProjectRecord(t) \/ DeleteRecords(t)
  BY <1>2, DeletionBystander
  DEF BeginDelete, DeleteProjectRecord, DeleteRecords, Step, At, Go, store_vars, history_vars
<1>3. CASE DeletePage(t) \/ DeleteShare(t)
  <2>1. page'.deleted = page.deleted
    BY <1>1, <1>3 DEF DeletePage, DeleteShare
  <2>2. QED
    BY <1>3, <2>1, DeletionBystander DEF DeletePage, DeleteShare, Step, At, Go, history_vars
<1>4. CASE DeleteMark(t)
  <2>1. /\ page'.deleted /\ UNCHANGED <<erased, shut_out>>
        /\ pc' = [pc EXCEPT ![t] = "delete_loop"] /\ pc[t] = "delete_mark"
    BY <1>1, <1>4 DEF DeleteMark, At, Go, history_vars
  <2>2. QED
    BY <1>1, <2>1 DEF DeletionInv, DeletedPageMarked, StoppedAtPage
<1>5. CASE DeleteLink(t)
  <2>1. pc' = [pc EXCEPT ![t] = "delete_loop"] /\ pc[t] = "delete_loop"
    BY <1>1, <1>5 DEF DeleteLink, Visit, At
  <2>2. QED
    BY <1>5, <2>1, DeletionBystander DEF DeleteLink, Visit, history_vars
<1>6. CASE EndDelete(t)
  <2>1. /\ UNCHANGED <<page, shut_out>> /\ page.deleted /\ (erased => erased')
        /\ pc' = [pc EXCEPT ![t] = "idle"] /\ pc[t] = "delete_loop"
    BY <1>6 DEF EndDelete, EndLoop, At, Go, store_vars, DeletionInv, DeletedPageMarked
  <2>2. QED
    BY <1>1, <2>1 DEF DeletionInv, DeletedPageMarked, StoppedAtPage
<1>7. QED
  BY <1>2, <1>3, <1>4, <1>5, <1>6 DEF DeleteProject

\* A reader who leaves is shut out no more.
LEMMA LeaverDeletionInv ==
  ASSUME DeletionInv, TypeInv', NEW t \in Threads, EndRead(t), UNCHANGED page
  PROVE  DeletionInv'
<1>1. pc \in [Threads -> Steps] /\ shut_out \in [Threads -> SUBSET {"deletion", "revocation"}]
  BY TypeParts DEF DeletionInv, TypeInv, ThreadTypeOK, HistoryTypeOK
<1>2. /\ pc' = [pc EXCEPT ![t] = "idle"] /\ shut_out' = [shut_out EXCEPT ![t] = {}]
      /\ UNCHANGED erased
  BY DEF EndRead, Go
<1>3. QED
  BY <1>1, <1>2 DEF DeletionInv, DeletedPageMarked, StoppedAtPage

LEMMA ReadDeletionInv ==
  ASSUME DeletionInv, TypeInv', NEW t \in Threads, Read(t)
  PROVE  DeletionInv'
<1>1. pc \in [Threads -> Steps] /\ shut_out \in [Threads -> SUBSET {"deletion", "revocation"}]
  BY TypeParts DEF DeletionInv, TypeInv, ThreadTypeOK, HistoryTypeOK
<1>2. CASE BeginView(t) \/ BeginAudio(t)
  <2>1. PICK step \in {"view_page", "audio_page"}, l \in Links \cup {None} :
          BeginRead(t, step, l)
    BY <1>2 DEF BeginView, BeginAudio, Created
  <2>2. /\ pc' = [pc EXCEPT ![t] = step] /\ UNCHANGED <<page, erased>>
        /\ "deletion" \in shut_out'[t] => erased
        /\ \A u \in Threads \ {t} : shut_out'[u] = shut_out[u]
    BY <1>1, <2>1 DEF BeginRead, Go, store_vars
  <2>3. QED
    BY <1>1, <2>2 DEF DeletionInv, DeletedPageMarked, StoppedAtPage
<1>3. CASE ViewPage(t) \/ AudioPage(t)
  <2>1. CASE ~Served
    BY <1>3, <2>1, LeaverDeletionInv DEF ViewPage, AudioPage, Check, store_vars
  <2>2. CASE Served
    <3>1. /\ UNCHANGED <<page, erased, shut_out>>
          /\ \E to \in {"view_share", "audio_token"} : pc' = [pc EXCEPT ![t] = to]
      BY <1>3, <2>2 DEF ViewPage, AudioPage, Check, Go, store_vars, history_vars
    <3>2. ~erased
      BY <2>2 DEF Served, DeletionInv, DeletedPageMarked
    <3>3. QED
      BY <1>1, <3>1, <3>2 DEF DeletionInv, DeletedPageMarked, StoppedAtPage
  <2>3. QED
    BY <2>1, <2>2
<1>4. CASE ViewShare(t) \/ AudioToken(t) \/ ViewLink(t)
  <2>1. UNCHANGED page /\ pc[t] \notin {"view_page", "audio_page"}
    BY <1>4 DEF ViewShare, AudioToken, ViewLink, Check, At, store_vars
  <2>2. \/ EndRead(t)
        \/ /\ \E to \in {"view_link", "answered"} : pc' = [pc EXCEPT ![t] = to]
           /\ UNCHANGED <<erased, shut_out>>
    BY <1>4 DEF ViewShare, AudioToken, ViewLink, Check, Go, history_vars
  <2>3. QED
    BY <2>1, <2>2, LeaverDeletionInv, DeletionBystander
<1>5. CASE Answer(t)
  BY <1>5, LeaverDeletionInv DEF Answer, store_vars
<1>6. QED
  BY <1>2, <1>3, <1>4, <1>5 DEF Read

LEMMA DeletionInvKept == DeletionInv /\ [Next]_vars => DeletionInv'
<1> SUFFICES ASSUME DeletionInv, [Next]_vars PROVE DeletionInv'
  OBVIOUS
<1>1. TypeInv'
  BY TypeInvKept DEF DeletionInv
<1>2. CASE RecordConsent \/ RequestSecondConsent
  BY <1>1, <1>2
  DEF RecordConsent, RequestSecondConsent, history_vars, DeletionInv, DeletedPageMarked,
      StoppedAtPage
<1>3. CASE UNCHANGED vars
  BY <1>1, <1>3
  DEF vars, store_vars, history_vars, DeletionInv, DeletedPageMarked, StoppedAtPage
<1>4. QED
  BY <1>1, <1>2, <1>3, WriterDeletionInv, DeleteDeletionInv, ReadDeletionInv DEF Next

\* Nobody who asks after a deletion has returned is answered, whatever publications, links
\* and readers were under way when it did.
THEOREM NobodyReadsDeleted == Spec => []DeletionSilences
<1>1. Init => DeletionInv
  BY InitTypeInv DEF Init, DeletionInv, DeletedPageMarked, StoppedAtPage
<1>2. DeletionInv => DeletionSilences
  BY DEF DeletionInv, StoppedAtPage, DeletionSilences, At
<1>3. QED
  BY <1>1, <1>2, DeletionInvKept, PTL DEF Spec

-----------------------------------------------------------------------------
(* The revocation.  No handler takes revoked_at from a link, though a publication that looked
   before may enable it again; a reader who comes with it is stopped at the link. *)

DeadAreRevoked == \A l \in dead : l \in Created /\ links[l].revoked
StoppedAtLink ==
  \A t \in Threads : "revocation" \in shut_out[t] =>
    pc[t] \in {"view_page", "view_share", "view_link"} /\ link[t] \in dead

RevocationInv == TypeInv /\ DeadAreRevoked /\ StoppedAtLink

\* No step brings a link back.
RevokedStay ==
  \A l \in Created : l \in Created' /\ (links[l].revoked => links'[l].revoked)

\* A handler is no reader, before or after the step.
LEMMA RevocationBystander ==
  ASSUME RevocationInv, TypeInv', NEW t \in Threads, RevokedStay,
         \/ dead' = dead
         \/ dead' = dead \cup {link[t]} /\ link[t] \in Created' /\ links'[link[t]].revoked,
         pc[t] \notin {"view_page", "view_share", "view_link"},
         \A u \in Threads \ {t} : pc'[u] = pc[u] /\ link'[u] = link[u],
         UNCHANGED shut_out
  PROVE  RevocationInv'
<1>1. DeadAreRevoked'
  BY DEF RevocationInv, DeadAreRevoked, RevokedStay
<1>2. StoppedAtLink'
  BY DEF RevocationInv, StoppedAtLink
<1>3. QED
  BY <1>1, <1>2 DEF RevocationInv

LEMMA WithdrawRevocationInv ==
  ASSUME RevocationInv, TypeInv', NEW t \in Threads, Withdraw(t) \/ DeleteProject(t)
  PROVE  RevocationInv'
<1> USE DEF Following
<1>1. /\ pc \in [Threads -> Steps] /\ link \in [Threads -> Links \cup {None}]
      /\ links \in [Links -> LinkRecord] /\ rest \in [Threads -> SUBSET Links]
  BY TypeParts DEF RevocationInv, TypeInv, ThreadTypeOK, StoreTypeOK
<1>2. CASE WithdrawLink(t) \/ DeleteLink(t)
  <2>1. PICK l \in rest[t] :
          \/ links' = [links EXCEPT ![l] = RevokedByWithdrawal(links[l])]
          \/ links' = [links EXCEPT ![l] = ClosedByDeletion(links[l])]
    BY <1>2 DEF WithdrawLink, DeleteLink, Visit
  <2>2. l \in Links /\ links[l] \in LinkRecord
    BY <1>1
  <2>3. RevokedStay
    <3>1. /\ RevokedByWithdrawal(links[l]).created = links[l].created
          /\ ClosedByDeletion(links[l]).created = links[l].created
          /\ RevokedByWithdrawal(links[l]).revoked
          /\ ClosedByDeletion(links[l]).revoked
      BY <2>2 DEF RevokedByWithdrawal, ClosedByDeletion, LinkRecord
    <3>2. \A k \in Links : /\ links'[k].created = links[k].created
                           /\ links[k].revoked => links'[k].revoked
      BY <1>1, <2>1, <2>2, <3>1
    <3>3. QED
      BY <3>2 DEF RevokedStay, Created
  <2>4. UNCHANGED <<pc, link, dead, shut_out>> /\ pc[t] \in {"withdraw_loop", "delete_loop"}
    BY <1>2 DEF WithdrawLink, DeleteLink, Visit, At, history_vars
  <2>5. QED
    BY <2>3, <2>4, RevocationBystander
<1>3. CASE ~WithdrawLink(t) /\ ~DeleteLink(t)
  <2>1. UNCHANGED <<links, link, dead, shut_out>>
    <3>1. CASE Withdraw(t)
      BY <1>3, <3>1
      DEF Withdraw, BeginWithdraw, WithdrawFlag, WithdrawPage, WithdrawShare, EndWithdraw, Step,
          EndLoop, store_vars, thread_vars, history_vars
    <3>2. CASE DeleteProject(t)
      BY <1>3, <3>2
      DEF DeleteProject, BeginDelete, DeleteProjectRecord, DeleteRecords, DeletePage,
          DeleteShare, DeleteMark, EndDelete, Step, EndLoop, store_vars, thread_vars,
          history_vars
    <3>3. QED
      BY <3>1, <3>2
  <2>2. \E to : /\ pc' = [pc EXCEPT ![t] = to]
                /\ pc[t] \notin {"view_page", "view_share", "view_link"}
    <3>1. CASE Withdraw(t)
      BY <1>3, <3>1
      DEF Withdraw, BeginWithdraw, WithdrawFlag, WithdrawPage, WithdrawShare, EndWithdraw, Step,
          EndLoop, At, Go
    <3>2. CASE DeleteProject(t)
      BY <1>3, <3>2
      DEF DeleteProject, BeginDelete, DeleteProjectRecord, DeleteRecords, DeletePage,
          DeleteShare, DeleteMark, EndDelete, Step, EndLoop, At, Go
    <3>3. QED
      BY <3>1, <3>2
  <2>3. RevokedStay
    BY <2>1 DEF RevokedStay, Created
  <2>4. QED
    BY <1>1, <2>1, <2>2, <2>3, RevocationBystander
<1>4. QED
  BY <1>2, <1>3

LEMMA PublishRevocationInv ==
  ASSUME RevocationInv, TypeInv', NEW t \in Threads, Publish(t)
  PROVE  RevocationInv'
<1>1. /\ pc \in [Threads -> Steps] /\ link \in [Threads -> Links \cup {None}]
      /\ links \in [Links -> LinkRecord]
  BY TypeParts DEF RevocationInv, TypeInv, ThreadTypeOK, StoreTypeOK
<1>2. UNCHANGED <<dead, shut_out>>
  BY DEF Publish, BeginPublish, PublishGate, PublishConsent, PublishLinks, PublishStatus,
         PublishPage, PublishShare, PublishLook, PublishLink, EndPublish, Step, history_vars
<1>3. RevokedStay
  <2>1. CASE PublishLink(t)
    <3>1. \A l \in Links : /\ links'[l].created = links[l].created
                           /\ links'[l].revoked = links[l].revoked
      BY <1>1, <2>1 DEF PublishLink, LinkRecord
    <3>2. QED
      BY <3>1 DEF RevokedStay, Created
  <2>2. CASE ~PublishLink(t)
    <3>1. UNCHANGED links
      BY <2>2
      DEF Publish, BeginPublish, PublishGate, PublishConsent, PublishLinks, PublishStatus,
          PublishPage, PublishShare, PublishLook, EndPublish, store_vars
    <3>2. QED
      BY <3>1 DEF RevokedStay, Created
  <2>3. QED
    BY <2>1, <2>2
<1>4. /\ pc[t] \notin {"view_page", "view_share", "view_link"}
      /\ \A u \in Threads \ {t} : pc'[u] = pc[u] /\ link'[u] = link[u]
  <2>1. CASE PublishLook(t)
    BY <1>1, <2>1 DEF PublishLook, At, Go
  <2>2. CASE ~PublishLook(t)
    BY <1>1, <2>2
    DEF Publish, BeginPublish, PublishGate, PublishConsent, PublishLinks, PublishStatus,
        PublishPage, PublishShare, PublishLink, EndPublish, Step, EndLoop, At, Go, thread_vars
  <2>3. QED
    BY <2>1, <2>2
<1>5. QED
  BY <1>2, <1>3, <1>4, RevocationBystander

LEMMA LinkRevocationInv ==
  ASSUME RevocationInv, TypeInv', NEW t \in Threads, CreateShareLink(t) \/ RevokeShareLink(t)
  PROVE  RevocationInv'
<1>1. /\ pc \in [Threads -> Steps] /\ link \in [Threads -> Links \cup {None}]
      /\ links \in [Links -> LinkRecord]
  BY TypeParts DEF RevocationInv, TypeInv, ThreadTypeOK, StoreTypeOK
<1>2. /\ pc[t] \notin {"view_page", "view_share", "view_link"}
      /\ \A u \in Threads \ {t} : pc'[u] = pc[u] /\ link'[u] = link[u]
      /\ UNCHANGED shut_out
  BY <1>1
  DEF CreateShareLink, BeginCreate, CreateRead, CreateInsert, RevokeShareLink, BeginRevoke,
      RevokeOff, RevokeMark, Step, At, Go, thread_vars, history_vars
<1>3. CASE CreateShareLink(t)
  <2>1. UNCHANGED dead
    BY <1>3 DEF CreateShareLink, BeginCreate, CreateRead, CreateInsert, Step, history_vars
  <2>2. CASE CreateInsert(t)
    <3>1. RevokedStay
      BY <1>1, <2>2 DEF CreateInsert, RevokedStay, Created
    <3>2. QED
      BY <1>2, <2>1, <3>1, RevocationBystander
  <2>3. CASE ~CreateInsert(t)
    <3>1. UNCHANGED links
      BY <1>3, <2>3 DEF CreateShareLink, BeginCreate, CreateRead, store_vars
    <3>2. RevokedStay
      BY <3>1 DEF RevokedStay, Created
    <3>3. QED
      BY <1>2, <2>1, <3>2, RevocationBystander
  <2>4. QED
    BY <2>2, <2>3
<1>4. CASE BeginRevoke(t)
  <2>1. UNCHANGED <<dead, links>>
    BY <1>4 DEF BeginRevoke, store_vars, history_vars
  <2>2. QED
    BY <1>2, <2>1, RevocationBystander DEF RevokedStay, Created
<1>5. CASE RevokeOff(t)
  <2>1. UNCHANGED dead /\ RevokedStay
    BY <1>1, <1>5 DEF RevokeOff, Step, history_vars, RevokedStay, Created, LinkRecord
  <2>2. QED
    BY <1>2, <2>1, RevocationBystander
<1>6. CASE RevokeMark(t)
  <2>1. link[t] \in Created
    BY <1>6 DEF RevokeMark, At, RevocationInv, TypeInv, LinkAtWork, LinkSteps
  <2>2. RevokedStay /\ link[t] \in Created' /\ links'[link[t]].revoked
    BY <1>1, <1>6, <2>1 DEF RevokeMark, RevokedStay, Created, LinkRecord
  <2>3. QED
    BY <1>2, <1>6, <2>2, RevocationBystander DEF RevokeMark
<1>7. QED
  BY <1>3, <1>4, <1>5, <1>6 DEF RevokeShareLink

\* Reading changes no link and revokes none.
LEMMA ReadKeepsLinks ==
  ASSUME NEW t \in Threads, Read(t)
  PROVE  UNCHANGED <<links, dead>>
  BY DEF Read, BeginView, BeginAudio, BeginRead, ViewPage, ViewShare, ViewLink, AudioPage,
         AudioToken, Answer, Check, EndRead, store_vars, history_vars

LEMMA LeaverRevocationInv ==
  ASSUME RevocationInv, TypeInv', NEW t \in Threads, EndRead(t), UNCHANGED <<links, dead>>
  PROVE  RevocationInv'
<1>1. /\ pc \in [Threads -> Steps] /\ link \in [Threads -> Links \cup {None}]
      /\ shut_out \in [Threads -> SUBSET {"deletion", "revocation"}]
  BY TypeParts DEF RevocationInv, TypeInv, ThreadTypeOK, HistoryTypeOK
<1>2. StoppedAtLink'
  BY <1>1 DEF EndRead, Go, RevocationInv, StoppedAtLink
<1>3. QED
  BY <1>2 DEF RevocationInv, DeadAreRevoked, Created

LEMMA ReadRevocationInv ==
  ASSUME RevocationInv, TypeInv', NEW t \in Threads, Read(t)
  PROVE  RevocationInv'
<1>1. /\ pc \in [Threads -> Steps] /\ link \in [Threads -> Links \cup {None}]
      /\ shut_out \in [Threads -> SUBSET {"deletion", "revocation"}] /\ dead \subseteq Links
  BY TypeParts DEF RevocationInv, TypeInv, ThreadTypeOK, HistoryTypeOK
<1>2. UNCHANGED <<links, dead>>
  BY ReadKeepsLinks
<1>3. DeadAreRevoked'
  BY <1>2 DEF RevocationInv, DeadAreRevoked, Created
<1>4. CASE BeginView(t)
  <2>1. PICK l \in Created : BeginRead(t, "view_page", l)
    BY <1>4 DEF BeginView
  <2>2. /\ pc' = [pc EXCEPT ![t] = "view_page"] /\ link' = [link EXCEPT ![t] = l]
        /\ "revocation" \in shut_out'[t] => l \in dead
        /\ \A u \in Threads \ {t} : shut_out'[u] = shut_out[u]
    BY <1>1, <2>1 DEF BeginRead, Go
  <2>3. QED
    BY <1>1, <1>2, <1>3, <2>2 DEF RevocationInv, StoppedAtLink
<1>5. CASE BeginAudio(t)
  <2>1. /\ pc' = [pc EXCEPT ![t] = "audio_page"] /\ link' = [link EXCEPT ![t] = None]
        /\ "revocation" \in shut_out'[t] => None \in dead
        /\ \A u \in Threads \ {t} : shut_out'[u] = shut_out[u]
    BY <1>1, <1>5 DEF BeginAudio, BeginRead, Go
  <2>2. QED
    BY <1>1, <1>2, <1>3, <2>1, NoneAssumption DEF RevocationInv, StoppedAtLink
<1>6. CASE ViewPage(t) \/ ViewShare(t)
  <2>1. CASE EndRead(t)
    BY <1>2, <2>1, LeaverRevocationInv
  <2>2. CASE ~EndRead(t)
    <3>1. /\ UNCHANGED <<link, shut_out>>
          /\ \E to \in {"view_share", "view_link"} : pc' = [pc EXCEPT ![t] = to]
      BY <1>6, <2>2 DEF ViewPage, ViewShare, Check, Go, thread_vars, history_vars
    <3>2. QED
      BY <1>1, <1>2, <1>3, <3>1 DEF RevocationInv, StoppedAtLink
  <2>3. QED
    BY <2>1, <2>2
<1>7. CASE ViewLink(t)
  <2>1. CASE Usable(link[t])
    <3>1. link[t] \notin dead
      BY <2>1 DEF Usable, RevocationInv, DeadAreRevoked
    <3>2. UNCHANGED <<link, shut_out>> /\ pc' = [pc EXCEPT ![t] = "answered"]
      BY <1>7, <2>1 DEF ViewLink, Go, thread_vars, history_vars
    <3>3. QED
      BY <1>1, <1>2, <1>3, <3>1, <3>2 DEF RevocationInv, StoppedAtLink
  <2>2. CASE ~Usable(link[t])
    BY <1>2, <1>7, <2>2, LeaverRevocationInv DEF ViewLink
  <2>3. QED
    BY <2>1, <2>2
<1>8. CASE AudioPage(t) \/ AudioToken(t)
  <2>1. CASE EndRead(t)
    BY <1>2, <2>1, LeaverRevocationInv
  <2>2. CASE ~EndRead(t)
    <3>1. /\ UNCHANGED <<link, shut_out>> /\ pc[t] \in {"audio_page", "audio_token"}
          /\ \E to \in {"audio_token", "answered"} : pc' = [pc EXCEPT ![t] = to]
      BY <1>8, <2>2 DEF AudioPage, AudioToken, Check, At, Go, thread_vars, history_vars
    <3>2. QED
      BY <1>1, <1>2, <1>3, <3>1 DEF RevocationInv, StoppedAtLink
  <2>3. QED
    BY <2>1, <2>2
<1>9. CASE Answer(t)
  BY <1>2, <1>9, LeaverRevocationInv DEF Answer
<1>10. QED
  BY <1>4, <1>5, <1>6, <1>7, <1>8, <1>9 DEF Read

LEMMA RevocationInvKept == RevocationInv /\ [Next]_vars => RevocationInv'
<1> SUFFICES ASSUME RevocationInv, [Next]_vars PROVE RevocationInv'
  OBVIOUS
<1>1. TypeInv'
  BY TypeInvKept DEF RevocationInv
<1>2. CASE RecordConsent \/ RequestSecondConsent \/ UNCHANGED vars
  BY <1>1, <1>2
  DEF RecordConsent, RequestSecondConsent, vars, store_vars, thread_vars, history_vars,
      RevocationInv, DeadAreRevoked, StoppedAtLink, Created
<1>3. QED
  BY <1>1, <1>2, WithdrawRevocationInv, PublishRevocationInv, LinkRevocationInv,
     ReadRevocationInv DEF Next

\* Nobody who comes with a link whose revocation has returned is answered, even while a
\* publication enables the link again.
THEOREM NobodyUsesRevokedLink == Spec => []RevocationHolds
<1>1. Init => RevocationInv
  BY InitTypeInv DEF Init, RevocationInv, DeadAreRevoked, StoppedAtLink
<1>2. RevocationInv => RevocationHolds
  BY DEF RevocationInv, StoppedAtLink, RevocationHolds, At
<1>3. QED
  BY <1>1, <1>2, RevocationInvKept, PTL DEF Spec
=============================================================================
