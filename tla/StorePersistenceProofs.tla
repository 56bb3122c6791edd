----------------------- MODULE StorePersistenceProofs -----------------------
(* Theorems about StorePersistence, for every value of its constants. *)
EXTENDS StorePersistence, TLAPS

\* No page is open, the deletion is on record.
Silent(m) == m["request"] /\ m["project"].deleted /\ \A p \in Pages : m[p] # "open"

\* A row that differs from memory is still to be written by the call in progress.
ChangesPending ==
  /\ Idle => pending = <<>>
  /\ \A r \in Rows : memory[r] # disk[r] => \E i \in DOMAIN pending : r \in pending[i]

\* The flag of the running process is backed by a record it holds.
FlagHasRecord == has_family_sharing_consent => \E k \in Consents : memory[k] = "active"

\* A deletion silences memory at once and the database before it returns.
DeletionSilences ==
  /\ erased \/ call = "deletion" => Silent(memory)
  /\ erased => Silent(disk)

\* A withdrawal closes the current page in memory before it returns.
WithdrawalCloses ==
  call = "withdrawal" => story_page_id = NoPage \/ memory[story_page_id] # "open"

\* The page of a link is in the database before the link is, and a page in the
\* database is also in memory.
LinkedPagesSaved ==
  /\ \A l \in LinksIn(memory) : disk[memory[l].page] # "none"
  /\ PagesOf(disk) \subseteq PagesOf(memory)

PersistInv ==
  /\ TypeOK
  /\ ChangesPending
  /\ FlagHasRecord
  /\ DeletionSilences
  /\ WithdrawalCloses
  /\ ReturnedWithdrawalIsFinal
  /\ LinkedPagesSaved

\* What all calls have in common, as far as the invariant needs it.
CallEffect ==
  /\ Idle
  /\ UNCHANGED <<disk, erased>>
  /\ pending' \in Seq(SUBSET Rows)
  /\ \A r \in Rows : memory'[r] # memory[r] => \E i \in DOMAIN pending' : r \in pending'[i]
  /\ Records(memory')
  /\ PagesOf(memory) \subseteq PagesOf(memory')
  /\ \A l \in LinksIn(memory') : memory[memory'[l].page] # "none"
  /\ call' \in {"withdrawal", "deletion", "other"}
  /\ story_page_id' \in PagesOf(memory') \cup {NoPage}
  /\ has_family_sharing_consent' \in BOOLEAN
  /\ FlagHasRecord'
  /\ Silent(memory) \/ call' = "deletion" => Silent(memory')
  /\ WithdrawalCloses'
  /\ withdrawn' \subseteq withdrawn
  /\ \A p \in withdrawn' : memory'[p] # "open"

-----------------------------------------------------------------------------
\* Rows of different kinds are different.
LEMMA RowKinds ==
  /\ \A r \in Pages \cup Links \cup Consents : r # "project" /\ r # "request" /\ r \in Rows
  /\ \A p \in Pages : p \notin Links /\ p \notin Consents
  /\ \A l \in Links : l \notin Consents
  /\ NoPage \notin Rows /\ NoPage \notin Pages
  /\ "project" \in Rows /\ "request" \in Rows
  BY RowAssumption, PageAssumption DEF Rows

\* A table stays one of records when pages stay and links keep their pages.
LEMMA TableKept ==
  ASSUME NEW m, NEW n, Records(m),
         n = [r \in Rows |-> n[r]],
         n["project"] \in Project,
         n["request"] \in BOOLEAN,
         \A p \in Pages : /\ n[p] \in {"none", "closed", "open", "deleted"}
                          /\ m[p] # "none" => n[p] # "none",
         \A l \in Links : /\ n[l] \in Link
                          /\ n[l] = m[l] \/ (m[l] # NoLink /\ n[l].page = m[l].page),
         \A k \in Consents : n[k] \in {"none", "active", "withdrawn"}
  PROVE  /\ Records(n)
         /\ PagesOf(m) \subseteq PagesOf(n)
         /\ \A l \in LinksIn(n) : l \in LinksIn(m) /\ n[l].page = m[l].page
                                /\ m[n[l].page] # "none"
<1>1. \A l \in Links : n[l] # NoLink =>
        m[l] # NoLink /\ n[l].page = m[l].page /\ m[l].page \in Pages /\ m[m[l].page] # "none"
  BY DEF Records
<1>2. QED
  BY <1>1 DEF Records, PagesOf, LinksIn

\* Writing a status.
LEMMA StatusEffect ==
  ASSUME PersistInv, Idle, NEW s \in {"created", "family_correction_completed", "verified",
                                      "elder_second_consent_pending"},
         StatusCall(s)
  PROVE  CallEffect
<1> USE DEF PersistInv
<1>1. /\ memory' = [memory EXCEPT !["project"].status = s]
      /\ pending' = <<{"project"}>>
      /\ call' = "other"
      /\ UNCHANGED <<disk, erased, derived_vars, withdrawn>>
  BY DEF StatusCall, Call, Status
<1>2. /\ memory = [r \in Rows |-> memory[r]]
      /\ memory["project"] \in Project
  BY DEF TypeOK, Records
<1>3. /\ memory'["project"] \in Project
      /\ memory'["project"].deleted = memory["project"].deleted
      /\ \A r \in Rows \ {"project"} : memory'[r] = memory[r]
      /\ memory' = [r \in Rows |-> memory'[r]]
  BY <1>1, <1>2, RowKinds DEF Project
<1>4. \A r \in Pages \cup Links \cup Consents \cup {"request"} : memory'[r] = memory[r]
  BY <1>3, RowKinds
<1>5. Records(memory')
  BY <1>3, <1>4, RowKinds DEF TypeOK, Records
<1>6. pending' \in Seq(SUBSET Rows) /\ DOMAIN pending' = {1} /\ pending'[1] = {"project"}
  BY <1>1, RowKinds
<1>7. LinksIn(memory') = LinksIn(memory) /\ PagesOf(memory') = PagesOf(memory)
  BY <1>4 DEF LinksIn, PagesOf
<1>8. \A l \in LinksIn(memory') : memory[memory'[l].page] # "none"
  BY <1>4, <1>7 DEF LinksIn, TypeOK, Records
<1>9. QED
  BY <1>1, <1>3, <1>4, <1>5, <1>6, <1>7, <1>8
     DEF CallEffect, FlagHasRecord, Silent, WithdrawalCloses, ReturnedWithdrawalIsFinal,
         TypeOK, derived_vars, PagesOf

\* Adding a page, one nobody reads.
LEMMA GenerateEffect ==
  ASSUME PersistInv, NEW p \in Pages, GenerateStory(p)
  PROVE  CallEffect
<1> USE DEF PersistInv
<1>1. /\ Idle
      /\ memory[p] = "none"
      /\ memory' = [[memory EXCEPT !["project"].status = "story_generated"] EXCEPT ![p] = "closed"]
      /\ pending' = <<{"project"}, {p}, {"project"}>>
      /\ call' = "other"
      /\ story_page_id' = p
      /\ UNCHANGED <<disk, erased, has_family_sharing_consent, withdrawn>>
  BY DEF GenerateStory, Owned, Call, Status
<1>2. /\ memory = [r \in Rows |-> memory[r]]
      /\ memory["project"] \in Project
  BY DEF TypeOK, Records
<1>3. /\ memory'["project"] \in Project
      /\ memory'["project"].deleted = memory["project"].deleted
      /\ memory'[p] = "closed"
      /\ \A r \in Rows \ {"project", p} : memory'[r] = memory[r]
      /\ memory' = [r \in Rows |-> memory'[r]]
  BY <1>1, <1>2, RowKinds DEF Project
<1>4. \A r \in Links \cup Consents \cup {"request"} \cup (Pages \ {p}) : memory'[r] = memory[r]
  BY <1>3, RowKinds
<1>5. Records(memory')
  <2>1. memory'["request"] \in BOOLEAN
        /\ \A k \in Consents : memory'[k] \in {"none", "active", "withdrawn"}
    BY <1>4 DEF TypeOK, Records
  <2>2. \A q \in Pages : memory'[q] \in {"none", "closed", "open", "deleted"}
                        /\ (memory[q] # "none" => memory'[q] # "none")
    BY <1>3, <1>4 DEF TypeOK, Records
  <2>3. \A l \in Links : memory'[l] \in Link /\ memory'[l] = memory[l]
    BY <1>4 DEF TypeOK, Records
  <2>4. Records(memory)
    BY DEF TypeOK
  <2>5. QED
    BY <1>3, <2>1, <2>2, <2>3, <2>4, TableKept
<1>6. /\ pending' \in Seq(SUBSET Rows)
      /\ DOMAIN pending' = 1..3
      /\ pending'[1] = {"project"}
      /\ pending'[2] = {p}
  BY <1>1, RowKinds
<1>7. LinksIn(memory') = LinksIn(memory) /\ PagesOf(memory') = PagesOf(memory) \cup {p}
  BY <1>3, <1>4 DEF LinksIn, PagesOf
<1>8. \A l \in LinksIn(memory') : memory[memory'[l].page] # "none"
  BY <1>4, <1>7 DEF LinksIn, TypeOK, Records
<1>9. \A r \in Rows : memory'[r] # memory[r] => \E i \in DOMAIN pending' : r \in pending'[i]
  BY <1>3, <1>6
<1>10. \A q \in Pages : memory'[q] = "open" => memory[q] = "open"
  BY <1>3, <1>4
<1>11. Silent(memory) => Silent(memory')
  BY <1>3, <1>4, <1>10 DEF Silent
<1>12. FlagHasRecord' /\ WithdrawalCloses'
  BY <1>1, <1>4 DEF FlagHasRecord, WithdrawalCloses
<1>13. QED
  BY <1>1, <1>5, <1>6, <1>7, <1>8, <1>9, <1>10, <1>11, <1>12
     DEF CallEffect, ReturnedWithdrawalIsFinal, TypeOK

\* Changing one link of a page there is, the project not being deleted.
LEMMA LinkEffect ==
  ASSUME PersistInv, Owned, NEW l \in Links, NEW new \in Link,
         new.page \in Pages, memory[new.page] # "none",
         memory' = [memory EXCEPT ![l] = new],
         pending' = <<{l}>>,
         call' = "other",
         UNCHANGED <<disk, erased, derived_vars, withdrawn>>
  PROVE  CallEffect
<1> USE DEF PersistInv
<1>1. memory = [r \in Rows |-> memory[r]]
  BY DEF TypeOK, Records
<1>2. /\ memory'[l] = new
      /\ \A r \in Rows \ {l} : memory'[r] = memory[r]
      /\ memory' = [r \in Rows |-> memory'[r]]
  BY <1>1, RowKinds
<1>3. \A r \in Pages \cup Consents \cup {"project", "request"} \cup (Links \ {l}) :
        memory'[r] = memory[r]
  BY <1>2, RowKinds
<1>4. Records(memory')
  BY <1>2, <1>3, RowKinds DEF TypeOK, Records
<1>5. pending' \in Seq(SUBSET Rows) /\ DOMAIN pending' = {1} /\ pending'[1] = {l}
  BY RowKinds
<1>6. LinksIn(memory') \subseteq LinksIn(memory) \cup {l} /\ PagesOf(memory') = PagesOf(memory)
  BY <1>3 DEF LinksIn, PagesOf
<1>7. \A k \in LinksIn(memory') : memory[memory'[k].page] # "none"
  <2> SUFFICES ASSUME NEW k \in LinksIn(memory'), k # l
               PROVE  memory[memory'[k].page] # "none"
    BY <1>2
  <2>1. memory'[k] = memory[k] /\ k \in LinksIn(memory)
    BY <1>3, <1>6 DEF LinksIn
  <2>2. QED
    BY <2>1 DEF LinksIn, TypeOK, Records
<1>8. \A r \in Rows : memory'[r] # memory[r] => \E i \in DOMAIN pending' : r \in pending'[i]
  BY <1>2, <1>5
<1>9. ~Silent(memory) /\ Idle
  BY DEF Owned, Silent
<1>10. FlagHasRecord' /\ WithdrawalCloses'
  BY <1>3 DEF FlagHasRecord, WithdrawalCloses, derived_vars
<1>11. QED
  BY <1>3, <1>4, <1>5, <1>6, <1>7, <1>8, <1>9, <1>10
     DEF CallEffect, ReturnedWithdrawalIsFinal, TypeOK, derived_vars

\* Creating, revoking and resetting a link.
LEMMA ShareLinkEffect ==
  ASSUME PersistInv, NEW l \in Links,
         (\E p \in Pages : CreateShareLink(l, p)) \/ RevokeShareLink(l) \/ ResetShareLink(l)
  PROVE  CallEffect
<1>1. ASSUME NEW p \in Pages, CreateShareLink(l, p) PROVE CallEffect
  <2> DEFINE new == [NoLink EXCEPT !.page = p, !.enabled = (memory[p] = "open")]
  <2>1. new \in Link /\ new.page = p
    BY DEF NoLink, Link
  <2>2. memory' = [memory EXCEPT ![l] = new] /\ memory[p] # "none"
    BY <1>1 DEF CreateShareLink, Call
  <2>3. QED
    BY <1>1, <2>1, <2>2, LinkEffect DEF CreateShareLink, Call
<1>2. ASSUME RevokeShareLink(l) PROVE CallEffect
  <2> DEFINE new == [memory[l] EXCEPT !.enabled = FALSE, !.revoked = TRUE]
  <2>1. /\ memory[l] \in Link
        /\ memory[l].page \in Pages
        /\ memory[memory[l].page] # "none"
    BY <1>2 DEF RevokeShareLink, LinksIn, PersistInv, TypeOK, Records
  <2>2. new \in Link /\ new.page = memory[l].page
    BY <2>1 DEF Link
  <2>3. memory' = [memory EXCEPT ![l] = new]
    BY <1>2, <2>1 DEF RevokeShareLink, Call, Link
  <2>4. QED
    BY <1>2, <2>1, <2>2, <2>3, LinkEffect DEF RevokeShareLink, Call
<1>3. ASSUME ResetShareLink(l) PROVE CallEffect
  <2> DEFINE new == [memory[l] EXCEPT !.enabled = (memory[memory[l].page] = "open"),
                                      !.revoked = FALSE]
  <2>1. /\ memory[l] \in Link
        /\ memory[l].page \in Pages
        /\ memory[memory[l].page] # "none"
    BY <1>3 DEF ResetShareLink, LinksIn, PersistInv, TypeOK, Records
  <2>2. new \in Link /\ new.page = memory[l].page
    BY <2>1 DEF Link
  <2>3. memory' = [memory EXCEPT ![l] = new]
    BY <1>3, <2>1 DEF ResetShareLink, Call, Link
  <2>4. QED
    BY <1>3, <2>1, <2>2, <2>3, LinkEffect DEF ResetShareLink, Call
<1>4. QED
  BY <1>1, <1>2, <1>3

\* Recording a consent.
LEMMA ConsentEffect ==
  ASSUME PersistInv, NEW k \in Consents, RecordConsent(k)
  PROVE  CallEffect
<1> USE DEF PersistInv
<1>1. /\ Owned
      /\ memory' = [memory EXCEPT ![k] = "active"]
      /\ pending' = <<{"project"}, {k}, {"project"}>>
      /\ call' = "other"
      /\ has_family_sharing_consent' = TRUE
      /\ UNCHANGED <<disk, erased, story_page_id, withdrawn>>
  BY DEF RecordConsent, Call
<1>2. Records(memory) /\ memory = [r \in Rows |-> memory[r]]
  BY DEF TypeOK, Records
<1>3. /\ memory'[k] = "active"
      /\ \A r \in Rows \ {k} : memory'[r] = memory[r]
      /\ memory' = [r \in Rows |-> memory'[r]]
  BY <1>1, <1>2, RowKinds
<1>4. \A r \in Pages \cup Links \cup {"project", "request"} \cup (Consents \ {k}) :
        memory'[r] = memory[r]
  BY <1>3, RowKinds
<1>5. /\ Records(memory')
      /\ \A l \in LinksIn(memory') : memory[memory'[l].page] # "none"
  <2>1. memory'["project"] \in Project /\ memory'["request"] \in BOOLEAN
    BY <1>2, <1>4 DEF Records
  <2>2. \A p \in Pages : /\ memory'[p] \in {"none", "closed", "open", "deleted"}
                         /\ memory'[p] = memory[p]
    BY <1>2, <1>4 DEF Records
  <2>3. \A l \in Links : memory'[l] \in Link /\ memory'[l] = memory[l]
    BY <1>2, <1>4 DEF Records
  <2>4. \A c \in Consents : memory'[c] \in {"none", "active", "withdrawn"}
    BY <1>2, <1>3, <1>4 DEF Records
  <2>5. QED
    BY <1>2, <1>3, <2>1, <2>2, <2>3, <2>4, TableKept
<1>6. /\ pending' \in Seq(SUBSET Rows)
      /\ DOMAIN pending' = 1..3
      /\ pending'[2] = {k}
  BY <1>1, RowKinds
<1>7. \A r \in Rows : memory'[r] # memory[r] => \E i \in DOMAIN pending' : r \in pending'[i]
  BY <1>3, <1>6
<1>8. ~Silent(memory) /\ Idle
  BY <1>1 DEF Owned, Silent
<1>9. FlagHasRecord' /\ WithdrawalCloses'
  BY <1>1, <1>3 DEF FlagHasRecord, WithdrawalCloses
<1>10. QED
  BY <1>1, <1>4, <1>5, <1>6, <1>7, <1>8, <1>9
     DEF CallEffect, ReturnedWithdrawalIsFinal, TypeOK, PagesOf

\* Publishing the current page.
LEMMA PublishEffect ==
  ASSUME PersistInv, Publish
  PROVE  CallEffect
<1> USE DEF PersistInv
<1> DEFINE p == story_page_id
           opened(l) == [memory[l] EXCEPT !.enabled = @ \/ ~(memory[l].revoked \/ memory[l].deleted)]
<1>1. /\ Owned
      /\ has_family_sharing_consent
      /\ p \in Pages /\ memory[p] # "none"
      /\ memory' = [r \in Rows |-> CASE r = p -> "open"
                                      [] r \in LinksOf(memory, p) -> opened(r)
                                      [] OTHER -> Status("published")[r]]
      /\ pending' = <<{"project"}, {p}, LinksOf(memory, p)>>
      /\ call' = "other"
      /\ withdrawn' = withdrawn \ {p}
      /\ UNCHANGED <<disk, erased, story_page_id, has_family_sharing_consent>>
  BY DEF Publish, Call, derived_vars, TypeOK, PagesOf
<1>2. Records(memory) /\ memory = [r \in Rows |-> memory[r]] /\ memory["project"] \in Project
  BY DEF TypeOK, Records
<1>3. LinksOf(memory, p) \subseteq LinksIn(memory) /\ LinksIn(memory) \subseteq Links
  BY DEF LinksOf, LinksIn
<1>4. /\ Status("published")["project"] \in Project
      /\ \A r \in Rows \ {"project"} : Status("published")[r] = memory[r]
  BY <1>2, RowKinds DEF Status, Project
<1>5. /\ memory' = [r \in Rows |-> memory'[r]]
      /\ memory'["project"] \in Project
      /\ memory'[p] = "open"
      /\ \A l \in LinksOf(memory, p) : memory'[l] = opened(l)
      /\ \A r \in Rows \ ({"project", p} \cup LinksOf(memory, p)) : memory'[r] = memory[r]
  BY <1>1, <1>3, <1>4, RowKinds
<1>6. \A r \in {"request"} \cup Consents \cup (Pages \ {p}) \cup (Links \ LinksOf(memory, p)) :
        memory'[r] = memory[r]
  BY <1>3, <1>5, RowKinds, <1>1
<1>7. /\ Records(memory')
      /\ PagesOf(memory) \subseteq PagesOf(memory')
      /\ \A l \in LinksIn(memory') : memory[memory'[l].page] # "none"
  <2>1. memory'["request"] \in BOOLEAN
    BY <1>2, <1>6 DEF Records
  <2>2. \A q \in Pages : /\ memory'[q] \in {"none", "closed", "open", "deleted"}
                         /\ memory[q] # "none" => memory'[q] # "none"
    BY <1>2, <1>5, <1>6 DEF Records
  <2>3. \A l \in Links : memory[l] \in Link
    BY <1>2 DEF Records
  <2>4. \A l \in LinksOf(memory, p) : opened(l) \in Link /\ opened(l).page = memory[l].page
    BY <1>3, <2>3 DEF Link
  <2>5. \A l \in Links : /\ memory'[l] \in Link
                         /\ memory'[l] = memory[l]
                              \/ (memory[l] # NoLink /\ memory'[l].page = memory[l].page)
    <3> TAKE l \in Links
    <3>1. CASE l \in LinksOf(memory, p)
      <4>1. memory'[l] = opened(l) /\ l \in LinksIn(memory)
        BY <1>3, <1>5, <3>1
      <4>2. QED
        BY <2>4, <3>1, <4>1 DEF LinksIn
    <3>2. CASE l \notin LinksOf(memory, p)
      BY <1>6, <2>3, <3>2
    <3>3. QED
      BY <3>1, <3>2
  <2>6. \A k \in Consents : memory'[k] \in {"none", "active", "withdrawn"}
    BY <1>2, <1>6 DEF Records
  <2>7. QED
    BY <1>2, <1>5, <2>1, <2>2, <2>5, <2>6, TableKept
<1>8. /\ pending' \in Seq(SUBSET Rows)
      /\ DOMAIN pending' = 1..3
      /\ pending'[1] = {"project"} /\ pending'[2] = {p} /\ pending'[3] = LinksOf(memory, p)
  BY <1>1, <1>3, RowKinds
<1>9. \A r \in Rows : memory'[r] # memory[r] => \E i \in DOMAIN pending' : r \in pending'[i]
  BY <1>5, <1>8
<1>10. ~Silent(memory) /\ Idle
  BY <1>1 DEF Owned, Silent
<1>11. FlagHasRecord' /\ WithdrawalCloses'
  BY <1>1, <1>6 DEF FlagHasRecord, WithdrawalCloses
<1>12. \A q \in withdrawn' : memory'[q] # "open"
  BY <1>1, <1>6 DEF ReturnedWithdrawalIsFinal, TypeOK
<1>13. story_page_id' \in PagesOf(memory') \cup {NoPage} /\ has_family_sharing_consent' \in BOOLEAN
  BY <1>1, <1>7 DEF TypeOK
<1>14. QED
  BY <1>1, <1>7, <1>8, <1>9, <1>10, <1>11, <1>12, <1>13 DEF CallEffect

\* Withdrawing a consent.
LEMMA WithdrawEffect ==
  ASSUME PersistInv, NEW k \in Consents, WithdrawConsent(k)
  PROVE  CallEffect
<1> USE DEF PersistInv
<1> DEFINE p == story_page_id
<1>1. /\ Owned
      /\ memory' = [r \in Rows |-> CASE r = k -> "withdrawn"
                                      [] r = p -> "closed"
                                      [] r \in LinksOf(memory, p) -> Closed(memory[r])
                                      [] OTHER -> memory[r]]
      /\ pending' = <<{k}, {"project"}, {p} \ {NoPage}, LinksOf(memory, p)>>
      /\ call' = "withdrawal"
      /\ has_family_sharing_consent' = FALSE
      /\ UNCHANGED <<disk, erased, story_page_id, withdrawn>>
  BY DEF WithdrawConsent, Call, PageSavedByWithdrawal, LinksSavedByWithdrawal
<1>2. Records(memory) /\ memory = [r \in Rows |-> memory[r]] /\ memory["project"] \in Project
  BY DEF TypeOK, Records
<1>3. LinksOf(memory, p) \subseteq LinksIn(memory) /\ LinksIn(memory) \subseteq Links
  BY DEF LinksOf, LinksIn
<1>4. p = NoPage \/ (p \in Pages /\ memory[p] # "none")
  BY DEF TypeOK, PagesOf
<1>5. /\ memory' = [r \in Rows |-> memory'[r]]
      /\ memory'[k] = "withdrawn"
      /\ p # NoPage => memory'[p] = "closed"
      /\ \A l \in LinksOf(memory, p) : memory'[l] = Closed(memory[l])
      /\ \A r \in Rows \ ({k, p} \cup LinksOf(memory, p)) : memory'[r] = memory[r]
  BY <1>1, <1>3, <1>4, RowKinds
<1>6. \A r \in {"project", "request"} \cup (Consents \ {k}) \cup (Pages \ {p})
               \cup (Links \ LinksOf(memory, p)) :
        memory'[r] = memory[r]
  BY <1>3, <1>4, <1>5, RowKinds
<1>7. /\ Records(memory')
      /\ PagesOf(memory) \subseteq PagesOf(memory')
      /\ \A l \in LinksIn(memory') : memory[memory'[l].page] # "none"
  <2>1. memory'["project"] \in Project /\ memory'["request"] \in BOOLEAN
    BY <1>2, <1>6 DEF Records
  <2>2. \A q \in Pages : /\ memory'[q] \in {"none", "closed", "open", "deleted"}
                         /\ memory[q] # "none" => memory'[q] # "none"
    BY <1>2, <1>4, <1>5, <1>6, RowKinds DEF Records
  <2>3. \A l \in Links : memory[l] \in Link
    BY <1>2 DEF Records
  <2>4. \A l \in LinksOf(memory, p) :
          Closed(memory[l]) \in Link /\ Closed(memory[l]).page = memory[l].page
    BY <1>3, <2>3 DEF Link, Closed
  <2>5. \A l \in Links : /\ memory'[l] \in Link
                         /\ memory'[l] = memory[l]
                              \/ (memory[l] # NoLink /\ memory'[l].page = memory[l].page)
    <3> TAKE l \in Links
    <3>1. CASE l \in LinksOf(memory, p)
      BY <1>3, <1>5, <2>4, <3>1 DEF LinksIn
    <3>2. CASE l \notin LinksOf(memory, p)
      BY <1>6, <2>3, <3>2
    <3>3. QED
      BY <3>1, <3>2
  <2>6. \A c \in Consents : memory'[c] \in {"none", "active", "withdrawn"}
    BY <1>2, <1>5, <1>6 DEF Records
  <2>7. QED
    BY <1>2, <1>5, <2>1, <2>2, <2>5, <2>6, TableKept
<1>8. /\ pending' \in Seq(SUBSET Rows)
      /\ DOMAIN pending' = 1..4
      /\ pending'[1] = {k} /\ pending'[3] = {p} \ {NoPage} /\ pending'[4] = LinksOf(memory, p)
  BY <1>1, <1>3, <1>4, RowKinds
<1>9. \A r \in Rows : memory'[r] # memory[r] => \E i \in DOMAIN pending' : r \in pending'[i]
  BY <1>5, <1>8, RowKinds
<1>10. ~Silent(memory) /\ Idle
  BY <1>1 DEF Owned, Silent
<1>11. FlagHasRecord' /\ WithdrawalCloses'
  BY <1>1, <1>5 DEF FlagHasRecord, WithdrawalCloses
<1>12. \A q \in withdrawn' : memory'[q] # "open"
  BY <1>1, <1>4, <1>5, <1>6, RowKinds DEF ReturnedWithdrawalIsFinal, TypeOK
<1>13. story_page_id' \in PagesOf(memory') \cup {NoPage} /\ has_family_sharing_consent' \in BOOLEAN
  BY <1>1, <1>7 DEF TypeOK
<1>14. QED
  BY <1>1, <1>7, <1>8, <1>9, <1>10, <1>11, <1>12, <1>13 DEF CallEffect

\* Requesting the deletion.
LEMMA DeletionEffect ==
  ASSUME PersistInv, RequestDeletion
  PROVE  CallEffect
<1> USE DEF PersistInv
<1> DEFINE marked(l) == [Closed(memory[l]) EXCEPT !.deleted = TRUE]
<1>1. /\ Owned
      /\ memory' = [r \in Rows |->
                      CASE r = "project" -> [status |-> "deletion_requested", deleted |-> TRUE]
                        [] r = "request" -> TRUE
                        [] r \in PagesOf(memory) -> "deleted"
                        [] r \in LinksIn(memory) -> marked(r)
                        [] OTHER -> memory[r]]
      /\ pending' = <<{"project"}, {"request"}, {k \in Consents : memory[k] # "none"},
                      PagesOf(memory) \cup LinksIn(memory)>>
      /\ call' = "deletion"
      /\ UNCHANGED <<disk, erased, story_page_id, has_family_sharing_consent, withdrawn>>
  BY DEF RequestDeletion, Call, SavedByDeletion, derived_vars
<1>2. Records(memory)
  BY DEF TypeOK
<1>3. PagesOf(memory) \subseteq Pages /\ LinksIn(memory) \subseteq Links
  BY DEF PagesOf, LinksIn
<1>4. /\ memory' = [r \in Rows |-> memory'[r]]
      /\ memory'["project"] = [status |-> "deletion_requested", deleted |-> TRUE]
      /\ memory'["request"] = TRUE
      /\ \A q \in PagesOf(memory) : memory'[q] = "deleted"
      /\ \A l \in LinksIn(memory) : memory'[l] = marked(l)
  BY <1>1, <1>3, RowKinds
<1>5. \A r \in Rows \ ({"project", "request"} \cup PagesOf(memory) \cup LinksIn(memory)) :
        memory'[r] = memory[r]
  BY <1>1
<1>6. \A r \in Consents \cup (Pages \ PagesOf(memory)) \cup (Links \ LinksIn(memory)) :
        memory'[r] = memory[r]
  BY <1>3, <1>5, RowKinds
<1>7. /\ Records(memory')
      /\ PagesOf(memory) \subseteq PagesOf(memory')
      /\ \A l \in LinksIn(memory') : memory[memory'[l].page] # "none"
  <2>0. memory'["request"] \in BOOLEAN
    BY <1>4, Zenon
  <2>1. memory'["project"] \in Project
    BY <1>4 DEF Project
  <2>2. \A q \in Pages : /\ memory'[q] \in {"none", "closed", "open", "deleted"}
                         /\ memory[q] # "none" => memory'[q] # "none"
    BY <1>4, <1>6 DEF PagesOf
  <2>3. \A l \in Links : memory[l] \in Link
    BY <1>2 DEF Records
  <2>4. \A l \in LinksIn(memory) : marked(l) \in Link /\ marked(l).page = memory[l].page
    BY <1>3, <2>3 DEF Link, Closed
  <2>5. \A l \in Links : /\ memory'[l] \in Link
                         /\ memory'[l] = memory[l]
                              \/ (memory[l] # NoLink /\ memory'[l].page = memory[l].page)
    <3> TAKE l \in Links
    <3>1. CASE l \in LinksIn(memory)
      BY <1>4, <2>4, <3>1 DEF LinksIn
    <3>2. CASE l \notin LinksIn(memory)
      BY <1>6, <2>3, <3>2
    <3>3. QED
      BY <3>1, <3>2
  <2>6. \A c \in Consents : memory'[c] \in {"none", "active", "withdrawn"}
    BY <1>2, <1>6 DEF Records
  <2>7. QED
    BY <1>2, <1>4, <2>0, <2>1, <2>2, <2>5, <2>6, TableKept
<1>8. /\ pending' \in Seq(SUBSET Rows)
      /\ DOMAIN pending' = 1..4
      /\ pending'[1] = {"project"} /\ pending'[2] = {"request"}
      /\ pending'[4] = PagesOf(memory) \cup LinksIn(memory)
  BY <1>1, <1>3, RowKinds
<1>9. \A r \in Rows : memory'[r] # memory[r] => \E i \in DOMAIN pending' : r \in pending'[i]
  BY <1>5, <1>8
<1>10. Silent(memory')
  BY <1>4, <1>6 DEF Silent, PagesOf
<1>11. FlagHasRecord' /\ WithdrawalCloses'
  BY <1>1, <1>6 DEF FlagHasRecord, WithdrawalCloses
<1>12. \A q \in withdrawn' : memory'[q] # "open"
  BY <1>1, <1>10 DEF TypeOK, Silent
<1>13. story_page_id' \in PagesOf(memory') \cup {NoPage} /\ has_family_sharing_consent' \in BOOLEAN
  BY <1>1, <1>7 DEF TypeOK
<1>14. QED
  BY <1>1, <1>7, <1>8, <1>9, <1>10, <1>11, <1>12, <1>13 DEF CallEffect, Owned

-----------------------------------------------------------------------------
\* Every action is a call, a transaction, a return or a restart.
Calls ==
  \/ InterviewStep \/ CompleteCorrections \/ VerifyProject \/ ResolveIssue
  \/ RequestSecondConsent
  \/ \E p \in Pages : GenerateStory(p)
  \/ Publish
  \/ \E l \in Links : \/ \E p \in Pages : CreateShareLink(l, p)
                      \/ RevokeShareLink(l)
                      \/ ResetShareLink(l)
  \/ \E k \in Consents : RecordConsent(k) \/ WithdrawConsent(k)
  \/ RequestDeletion

LEMMA CallsHaveEffect ==
  ASSUME PersistInv, Calls
  PROVE  CallEffect
<1>1. CASE InterviewStep \/ CompleteCorrections \/ VerifyProject \/ ResolveIssue
            \/ RequestSecondConsent
  <2>1. Idle /\ \E s \in {"created", "family_correction_completed", "verified",
                           "elder_second_consent_pending"} : StatusCall(s)
    BY <1>1 DEF InterviewStep, CompleteCorrections, VerifyProject, ResolveIssue,
                RequestSecondConsent, Owned
  <2>2. QED
    BY <2>1, StatusEffect
<1>2. CASE \E p \in Pages : GenerateStory(p)
  BY <1>2, GenerateEffect
<1>3. CASE Publish
  BY <1>3, PublishEffect
<1>4. CASE \E l \in Links : \/ \E p \in Pages : CreateShareLink(l, p)
                           \/ RevokeShareLink(l)
                           \/ ResetShareLink(l)
  BY <1>4, ShareLinkEffect
<1>5. CASE \E k \in Consents : RecordConsent(k) \/ WithdrawConsent(k)
  BY <1>5, ConsentEffect, WithdrawEffect
<1>6. CASE RequestDeletion
  BY <1>6, DeletionEffect
<1>7. QED
  BY <1>1, <1>2, <1>3, <1>4, <1>5, <1>6 DEF Calls

-----------------------------------------------------------------------------
LEMMA InitPersistInv == Init => PersistInv
<1> SUFFICES ASSUME Init PROVE PersistInv
  OBVIOUS
<1> USE DEF Init
<1>1. /\ memory = [r \in Rows |-> memory[r]]
      /\ memory["project"] = [status |-> "created", deleted |-> FALSE]
      /\ memory["request"] = FALSE
      /\ \A l \in Links : memory[l] = NoLink
      /\ \A r \in Pages \cup Consents : memory[r] = "none"
  BY RowKinds DEF Empty
<1>2. NoLink \in Link /\ [status |-> "created", deleted |-> FALSE] \in Project
  BY DEF NoLink, Link, Project
<1>3. FALSE \in BOOLEAN
  OBVIOUS
<1>4. Records(memory) /\ LinksIn(memory) = {}
  BY <1>1, <1>2, <1>3 DEF Records, LinksIn
<1>5. TypeOK
  <2>1. pending \in Seq(SUBSET Rows)
    OBVIOUS
  <2>2. Records(disk)
    BY <1>4
  <2>3. has_family_sharing_consent \in BOOLEAN /\ erased \in BOOLEAN
    BY <1>3
  <2>4. QED
    BY <1>4, <2>1, <2>2, <2>3 DEF TypeOK
<1>6. QED
  BY <1>1, <1>4, <1>5
     DEF PersistInv, ChangesPending, FlagHasRecord, DeletionSilences, WithdrawalCloses,
         ReturnedWithdrawalIsFinal, LinkedPagesSaved

LEMMA CallKeepsInv ==
  ASSUME PersistInv, CallEffect
  PROVE  PersistInv'
<1> USE DEF PersistInv, CallEffect
<1>1. memory = disk
  <2>1. \A r \in Rows : memory[r] = disk[r]
    BY DEF ChangesPending
  <2>2. QED
    BY <2>1 DEF TypeOK, Records
<1>2. TypeOK'
  BY DEF TypeOK
<1>3. ChangesPending'
  BY <1>1 DEF ChangesPending, Idle
<1>4. DeletionSilences'
  BY <1>1 DEF DeletionSilences, Idle
<1>5. ReturnedWithdrawalIsFinal'
  BY <1>1 DEF ReturnedWithdrawalIsFinal
<1>6. LinkedPagesSaved'
  BY <1>1 DEF LinkedPagesSaved
<1>7. QED
  BY <1>2, <1>3, <1>4, <1>5, <1>6

LEMMA WriteKeepsInv ==
  ASSUME PersistInv, NEW r \in Rows, WriteRow(r)
  PROVE  PersistInv'
<1> USE DEF PersistInv
<1>1. PICK i \in DOMAIN pending :
        /\ r \in pending[i]
        /\ disk' = [disk EXCEPT ![r] = memory[r]]
        /\ pending' = [pending EXCEPT ![i] = @ \ {r}]
        /\ UNCHANGED <<memory, story_page_id, has_family_sharing_consent, call, erased, withdrawn>>
  BY DEF WriteRow, derived_vars, history_vars
<1>2. /\ Records(memory) /\ Records(disk)
      /\ disk = [q \in Rows |-> disk[q]]
      /\ pending \in Seq(SUBSET Rows)
  BY DEF TypeOK, Records
<1>3. /\ disk'[r] = memory[r]
      /\ \A q \in Rows \ {r} : disk'[q] = disk[q]
      /\ disk' = [q \in Rows |-> disk'[q]]
  BY <1>1, <1>2
<1>4. \A q \in Rows : disk'[q] \in {disk[q], memory[q]}
  BY <1>3
<1>5. LinkedPagesSaved'
  <2>1. ASSUME NEW l \in LinksIn(memory)
        PROVE  disk'[memory[l].page] # "none"
    <3>1. memory[l].page \in Pages /\ memory[memory[l].page] # "none"
      BY <1>2 DEF LinksIn, Records
    <3>2. disk[memory[l].page] # "none"
      BY DEF LinkedPagesSaved
    <3>3. QED
      BY <1>4, <3>1, <3>2, RowKinds DEF Rows
  <2>2. PagesOf(disk') \subseteq PagesOf(memory)
    BY <1>4 DEF LinkedPagesSaved, PagesOf, Rows
  <2>3. LinksIn(memory') = LinksIn(memory) /\ PagesOf(memory') = PagesOf(memory)
    BY <1>1
  <2>4. QED
    BY <1>1, <2>1, <2>2, <2>3 DEF LinkedPagesSaved
<1>6. Records(disk')
  <2>1. disk'["project"] \in Project
    BY <1>2, <1>4, RowKinds DEF Records
  <2>2. disk'["request"] \in BOOLEAN
    BY <1>2, <1>4, RowKinds DEF Records
  <2>3. \A p \in Pages : disk'[p] \in {"none", "closed", "open", "deleted"}
    BY <1>2, <1>4, RowKinds DEF Records, Rows
  <2>4. \A c \in Consents : disk'[c] \in {"none", "active", "withdrawn"}
    BY <1>2, <1>4, RowKinds DEF Records, Rows
  <2>5. ASSUME NEW l \in Links
        PROVE  /\ disk'[l] \in Link
               /\ disk'[l] # NoLink => disk'[l].page \in Pages /\ disk'[disk'[l].page] # "none"
    <3>1. CASE l = r
      BY <1>1, <1>2, <1>3, <1>5, <3>1 DEF Records, LinkedPagesSaved, LinksIn
    <3>2. CASE l # r
      <4>1. /\ disk'[l] = disk[l] /\ disk[l] \in Link
            /\ disk[l] # NoLink => disk[l].page \in Pages /\ disk[disk[l].page] # "none"
        BY <1>2, <1>3, <3>2, RowKinds DEF Records, Rows
      <4>2. ASSUME NEW p \in Pages, disk[p] # "none" PROVE disk'[p] # "none"
        <5>1. memory[p] # "none"
          BY <4>2 DEF LinkedPagesSaved, PagesOf
        <5>2. QED
          BY <1>4, <4>2, <5>1 DEF Rows
      <4>3. QED
        BY <4>1, <4>2
    <3>3. QED
      BY <3>1, <3>2
  <2>6. QED
    BY <1>3, <2>1, <2>2, <2>3, <2>4, <2>5 DEF Records
<1>7. TypeOK'
  <2>1. pending' \in Seq(SUBSET Rows)
    BY <1>1, <1>2
  <2>2. QED
    BY <1>1, <1>6, <2>1 DEF TypeOK
<1>8. ChangesPending'
  <2>1. Idle => pending = <<>>
    BY DEF ChangesPending
  <2>2. ~Idle /\ ~Idle'
    BY <1>1, <2>1 DEF Idle
  <2>3. ASSUME NEW q \in Rows, memory'[q] # disk'[q]
        PROVE  \E j \in DOMAIN pending' : q \in pending'[j]
    <3>1. q # r /\ memory[q] # disk[q]
      BY <1>1, <1>3, <2>3
    <3>2. PICK j \in DOMAIN pending : q \in pending[j]
      BY <3>1 DEF ChangesPending
    <3>3. j \in DOMAIN pending' /\ q \in pending'[j]
      BY <1>1, <1>2, <3>1, <3>2
    <3>4. QED
      BY <3>3
  <2>4. QED
    BY <2>2, <2>3 DEF ChangesPending
<1>9. DeletionSilences'
  <2>1. erased => Silent(disk')
    <3> SUFFICES ASSUME erased PROVE Silent(disk')
      OBVIOUS
    <3>1. Silent(memory) /\ Silent(disk)
      BY DEF DeletionSilences
    <3>2. QED
      BY <1>4, <3>1, RowKinds DEF Silent, Rows
  <2>2. Silent(memory') <=> Silent(memory)
    BY <1>1
  <2>3. QED
    BY <1>1, <2>1, <2>2 DEF DeletionSilences
<1>10. ReturnedWithdrawalIsFinal'
  BY <1>1, <1>4 DEF ReturnedWithdrawalIsFinal, TypeOK, Rows
<1>11. FlagHasRecord' /\ WithdrawalCloses'
  BY <1>1 DEF FlagHasRecord, WithdrawalCloses
<1>12. QED
  BY <1>5, <1>7, <1>8, <1>9, <1>10, <1>11

\* When every row is written, the database holds what memory holds.
LEMMA ReturnKeepsInv ==
  ASSUME PersistInv, Return
  PROVE  PersistInv'
<1> USE DEF PersistInv
<1>1. /\ ~Idle /\ Written
      /\ call' = "none" /\ pending' = <<>>
      /\ erased' = (erased \/ call = "deletion")
      /\ withdrawn' = IF call = "withdrawal" THEN withdrawn \cup ({story_page_id} \ {NoPage})
                      ELSE withdrawn
      /\ UNCHANGED <<memory, disk, story_page_id, has_family_sharing_consent>>
  BY DEF Return, derived_vars
<1>2. memory = disk
  <2>1. \A r \in Rows : memory[r] = disk[r]
    BY <1>1 DEF ChangesPending, Written
  <2>2. QED
    BY <2>1 DEF TypeOK, Records
<1>3. TypeOK'
  <2>1. withdrawn' \subseteq Pages
    BY <1>1 DEF TypeOK, PagesOf
  <2>2. pending' \in Seq(SUBSET Rows)
    BY <1>1
  <2>3. QED
    BY <1>1, <2>1, <2>2 DEF TypeOK
<1>4. ChangesPending'
  BY <1>1, <1>2 DEF ChangesPending
<1>5. DeletionSilences'
  BY <1>1, <1>2 DEF DeletionSilences
<1>6. ReturnedWithdrawalIsFinal'
  BY <1>1, <1>2 DEF ReturnedWithdrawalIsFinal, WithdrawalCloses
<1>7. FlagHasRecord' /\ WithdrawalCloses' /\ LinkedPagesSaved'
  BY <1>1 DEF FlagHasRecord, WithdrawalCloses, LinkedPagesSaved
<1>8. QED
  BY <1>3, <1>4, <1>5, <1>6, <1>7

\* A restart forgets what was not written and derives the rest from the rows.
LEMMA RestartKeepsInv ==
  ASSUME PersistInv, Restart
  PROVE  PersistInv'
<1> USE DEF PersistInv
<1>1. /\ memory' = disk /\ call' = "none" /\ pending' = <<>>
      /\ story_page_id' \in CurrentPages(disk)
      /\ has_family_sharing_consent' = (Grants(disk) # {})
      /\ UNCHANGED <<disk, erased, withdrawn>>
  BY DEF Restart, history_vars
<1>2. TypeOK'
  <2>1. story_page_id' \in PagesOf(disk) \cup {NoPage}
    BY <1>1 DEF CurrentPages
  <2>2. pending' \in Seq(SUBSET Rows)
    BY <1>1
  <2>3. QED
    BY <1>1, <2>1, <2>2 DEF TypeOK
<1>3. ChangesPending' /\ WithdrawalCloses'
  BY <1>1 DEF ChangesPending, WithdrawalCloses
<1>4. FlagHasRecord'
  BY <1>1 DEF FlagHasRecord, Grants
<1>5. DeletionSilences'
  BY <1>1 DEF DeletionSilences
<1>6. ReturnedWithdrawalIsFinal'
  BY <1>1 DEF ReturnedWithdrawalIsFinal
<1>7. LinkedPagesSaved'
  BY <1>1 DEF LinkedPagesSaved, LinksIn, TypeOK, Records
<1>8. QED
  BY <1>2, <1>3, <1>4, <1>5, <1>6, <1>7

\* A stutter.
LEMMA StutterKeepsInv ==
  ASSUME PersistInv, UNCHANGED vars
  PROVE  PersistInv'
<1>1. UNCHANGED <<memory, disk, story_page_id, has_family_sharing_consent, pending, call,
                  erased, withdrawn>>
  BY DEF vars, derived_vars, history_vars
<1>2. TypeOK'
  BY <1>1 DEF PersistInv, TypeOK
<1>3. ChangesPending' /\ WithdrawalCloses'
  BY <1>1 DEF PersistInv, ChangesPending, WithdrawalCloses, Idle
<1>4. FlagHasRecord' /\ ReturnedWithdrawalIsFinal' /\ DeletionSilences'
  BY <1>1 DEF PersistInv, FlagHasRecord, ReturnedWithdrawalIsFinal, DeletionSilences
<1>5. LinkedPagesSaved'
  BY <1>1 DEF PersistInv, LinkedPagesSaved
<1>6. QED
  BY <1>2, <1>3, <1>4, <1>5 DEF PersistInv

LEMMA StepKeepsInv == PersistInv /\ [Next]_vars => PersistInv'
<1> SUFFICES ASSUME PersistInv, [Next]_vars PROVE PersistInv'
  OBVIOUS
<1>1. CASE Calls
  BY <1>1, CallsHaveEffect, CallKeepsInv
<1>2. CASE \E r \in Rows : WriteRow(r)
  BY <1>2, WriteKeepsInv
<1>3. CASE Return
  BY <1>3, ReturnKeepsInv
<1>4. CASE Restart
  BY <1>4, RestartKeepsInv
<1>5. CASE UNCHANGED vars
  BY <1>5, StutterKeepsInv
<1>6. QED
  BY <1>1, <1>2, <1>3, <1>4, <1>5 DEF Next, Calls

\* The inductive invariant: what differs is still to be written, and what a deletion
\* or a withdrawal closed is closed in memory before the call returns.
LEMMA PersistInvHolds == Spec => []PersistInv
  BY InitPersistInv, StepKeepsInv, PTL DEF Spec

-----------------------------------------------------------------------------
\* Every variable keeps its type: in memory and in the database each row holds a
\* record of its kind and each link a page that exists, after any crash.
THEOREM StoreTypeCorrect == Spec => []TypeOK
<1>1. PersistInv => TypeOK
  BY DEF PersistInv
<1>2. QED
  BY <1>1, PersistInvHolds, PTL

\* A call that returned has saved every record it changed.
THEOREM CallsSaveTheirChanges == Spec => []WriteThrough
<1>1. PersistInv => WriteThrough
  <2> SUFFICES ASSUME PersistInv, Idle PROVE memory = disk
    BY DEF WriteThrough
  <2>1. \A r \in Rows : memory[r] = disk[r]
    BY DEF PersistInv, ChangesPending
  <2>2. QED
    BY <2>1 DEF PersistInv, TypeOK, Records
<1>2. QED
  BY <1>1, PersistInvHolds, PTL

\* A deletion request that returned closes the project through any number of crashes.
THEOREM DeletionSurvivesCrashes == Spec => []ReturnedDeletionIsFinal
<1>1. PersistInv => ReturnedDeletionIsFinal
  BY DEF PersistInv, DeletionSilences, Silent, ReturnedDeletionIsFinal, Viewable
<1>2. QED
  BY <1>1, PersistInvHolds, PTL

\* A withdrawal that returned keeps its page closed through any number of crashes.
THEOREM WithdrawalSurvivesCrashes == Spec => []ReturnedWithdrawalIsFinal
<1>1. PersistInv => ReturnedWithdrawalIsFinal
  BY DEF PersistInv
<1>2. QED
  BY <1>1, PersistInvHolds, PTL

\* No call opens a page without a consent record in force, whatever restarts derived.
THEOREM OpeningNeedsRecord == Spec => OpenedUnderConsent
<1> DEFINE Opened == \A p \in Pages :
                       memory'[p] = "open" /\ memory[p] # "open" /\ disk[p] # "open"
                         => \E k \in Consents : memory[k] = "active"
<1>1. PersistInv /\ [Next]_vars => [Opened]_vars
  <2> SUFFICES ASSUME PersistInv, Next, NEW p \in Pages,
                      memory'[p] = "open", memory[p] # "open", disk[p] # "open"
               PROVE  \E k \in Consents : memory[k] = "active"
    OBVIOUS
  <2>1. CASE Publish
    BY <2>1 DEF Publish, PersistInv, FlagHasRecord
  <2>2. ASSUME ~Publish PROVE FALSE
    <3>1. /\ Records(memory) /\ memory = [r \in Rows |-> memory[r]]
          /\ p \in Rows /\ p \notin Links \cup Consents \cup {"project", "request"}
      BY RowKinds DEF PersistInv, TypeOK, Records
    <3>2. CASE InterviewStep \/ CompleteCorrections \/ VerifyProject \/ ResolveIssue
                 \/ RequestSecondConsent
      <4>1. \E s \in {"created", "family_correction_completed", "verified",
                  "elder_second_consent_pending"} : StatusCall(s)
        BY <3>2 DEF InterviewStep, CompleteCorrections, VerifyProject, ResolveIssue,
                    RequestSecondConsent
      <4>2. QED
        BY <3>1, <4>1 DEF StatusCall, Call, Status
    <3>3. ASSUME NEW q \in Pages, GenerateStory(q) PROVE FALSE
      BY <3>1, <3>3 DEF GenerateStory, Call, Status
    <3>4. ASSUME NEW l \in Links, \/ \E q \in Pages : CreateShareLink(l, q)
                                 \/ RevokeShareLink(l)
                                 \/ ResetShareLink(l)
          PROVE  FALSE
      BY <3>1, <3>4 DEF CreateShareLink, RevokeShareLink, ResetShareLink, Call
    <3>5. ASSUME NEW k \in Consents, RecordConsent(k) PROVE FALSE
      BY <3>1, <3>5 DEF RecordConsent, Call
    <3>6. ASSUME NEW k \in Consents, WithdrawConsent(k) PROVE FALSE
      <4>1. p \notin LinksOf(memory, story_page_id)
        BY <3>1 DEF LinksOf, LinksIn
      <4>2. memory'[p] = IF p = story_page_id THEN "closed" ELSE memory[p]
        BY <3>1, <3>6, <4>1 DEF WithdrawConsent, Call
      <4>3. QED
        BY <4>2
    <3>7. CASE RequestDeletion
      <4>1. p \notin LinksIn(memory)
        BY <3>1 DEF LinksIn
      <4>2. memory'[p] = IF p \in PagesOf(memory) THEN "deleted" ELSE memory[p]
        BY <3>1, <3>7, <4>1 DEF RequestDeletion, Call
      <4>3. QED
        BY <4>2
    <3>8. CASE (\E r \in Rows : WriteRow(r)) \/ Return \/ Restart
      BY <3>8 DEF WriteRow, Return, Restart
    <3>9. QED
      BY <2>2, <3>2, <3>3, <3>4, <3>5, <3>6, <3>7, <3>8 DEF Next
  <2>3. QED
    BY <2>1, <2>2
<1>2. QED
  BY <1>1, PersistInvHolds, PTL DEF Spec, OpenedUnderConsent

\* Whether a page can be read depends on the rows of the page and of its links.
LEMMA ViewableFromRows ==
  ASSUME NEW m, NEW n, NEW p \in Pages, m[p] = n[p],
         \A l \in LinksOf(m, p) \cup LinksOf(n, p) : m[l] = n[l]
  PROVE  Viewable(m, p) <=> Viewable(n, p)
<1>1. \A l \in LinksOf(m, p) : l \in LinksOf(n, p)
  BY DEF LinksOf, LinksIn
<1>2. \A l \in LinksOf(n, p) : l \in LinksOf(m, p)
  BY DEF LinksOf, LinksIn
<1>3. QED
  BY <1>1, <1>2 DEF Viewable

\* What a restart brings back from the database differs from what relatives could
\* read before only where the call it cut off was still writing.
THEOREM RestartsKeepTheRest == Spec => RestartTouchesOnlyUnderWay
<1> DEFINE UnderWay(p) ==
             \E i \in DOMAIN pending :
               pending[i] \cap ({p} \cup LinksOf(memory, p) \cup LinksOf(disk, p)) # {}
           Touched(p) == Viewable(memory', p) # Viewable(memory, p) => UnderWay(p)
<1>1. ASSUME PersistInv, Restart, NEW p \in Pages, ~UnderWay(p)
      PROVE  Viewable(memory', p) <=> Viewable(memory, p)
  <2>1. memory' = disk /\ p \in Rows /\ Links \subseteq Rows
    BY <1>1 DEF Restart, Rows
  <2>2. \A r \in Rows : memory[r] # disk[r] => \E i \in DOMAIN pending : r \in pending[i]
    BY <1>1 DEF PersistInv, ChangesPending
  <2>3. disk[p] = memory[p]
    BY <1>1, <2>1, <2>2
  <2>4. \A l \in LinksOf(memory, p) : disk[l] = memory[l]
    BY <1>1, <2>1, <2>2 DEF LinksOf, LinksIn
  <2>5. \A l \in LinksOf(disk, p) : disk[l] = memory[l]
    BY <1>1, <2>1, <2>2 DEF LinksOf, LinksIn
  <2>6. QED
    BY <2>1, <2>3, <2>4, <2>5, ViewableFromRows
<1>2. PersistInv /\ [Next]_vars => [Restart => \A p \in Pages : Touched(p)]_vars
  BY <1>1 DEF Viewable
<1>3. QED
  BY <1>2, PersistInvHolds, PTL DEF Spec, RestartTouchesOnlyUnderWay
=============================================================================
