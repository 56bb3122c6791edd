-------------------------- MODULE StorePersistence --------------------------
(***************************************************************************)
(* How SqlAlchemyStore keeps one project's sharing state.  A call changes  *)
(* the records in memory and then writes them to the database, one         *)
(* transaction per row.  The process may stop between any two of them; the *)
(* next one reads the rows again and derives from them what no row holds:  *)
(* the current page and the consent flag.                                  *)
(*                                                                         *)
(* Calls run one after the other.  What claims and issues allow is a free  *)
(* choice here; StoryWorkflow has them.                                    *)
(***************************************************************************)
EXTENDS Naturals, Sequences

CONSTANTS
  Pages,     \* story page ids
  Links,     \* share link ids
  Consents,  \* ids of family_sharing consent records
  NoPage     \* None

\* One row each for the project and its deletion request, one for each record.
Rows == {"project", "request"} \cup Pages \cup Links \cup Consents

ASSUME RowAssumption ==
  /\ {"project", "request"} \cap (Pages \cup Links \cup Consents) = {}
  /\ Pages \cap (Links \cup Consents) = {}
  /\ Links \cap Consents = {}
ASSUME PageAssumption == NoPage \notin Rows

VARIABLES
  memory,         \* the records of the running process
  disk,           \* the rows of the database
  story_page_id,  \* project.story_page_id, which no row holds
  has_family_sharing_consent,  \* likewise
  pending,        \* the rows the call in progress has yet to write, in stages
  call,           \* the call in progress
  \* history
  erased,         \* a deletion request has returned
  withdrawn       \* pages closed by a withdrawal that returned, not published since

derived_vars == <<story_page_id, has_family_sharing_consent>>
history_vars == <<erased, withdrawn>>
vars == <<memory, disk, derived_vars, pending, call, history_vars>>

Project == [status : {"created", "family_correction_completed", "story_generated", "verified",
                      "elder_second_consent_pending", "published", "deletion_requested"},
            deleted : BOOLEAN]
Link == [page : Pages \cup {NoPage}, enabled : BOOLEAN, revoked : BOOLEAN, deleted : BOOLEAN]
NoLink == [page |-> NoPage, enabled |-> FALSE, revoked |-> FALSE, deleted |-> FALSE]

\* A table of records: one of its kind in every row, links only of pages there are.
Records(m) ==
  /\ m = [r \in Rows |-> m[r]]
  /\ m["project"] \in Project
  /\ m["request"] \in BOOLEAN
  /\ \A p \in Pages : m[p] \in {"none", "closed", "open", "deleted"}
  /\ \A l \in Links :
       /\ m[l] \in Link
       /\ m[l] # NoLink => m[l].page \in Pages /\ m[m[l].page] # "none"
  /\ \A k \in Consents : m[k] \in {"none", "active", "withdrawn"}

Empty ==
  [r \in Rows |-> CASE r = "project" -> [status |-> "created", deleted |-> FALSE]
                    [] r = "request" -> FALSE
                    [] r \in Links -> NoLink
                    [] OTHER -> "none"]

-----------------------------------------------------------------------------
(* Helpers *)

PagesOf(m) == {p \in Pages : m[p] # "none"}
LinksIn(m) == {l \in Links : m[l] # NoLink}
LinksOf(m, p) == {l \in LinksIn(m) : m[l].page = p}
Viewable(m, p) ==
  m[p] = "open" /\ \E l \in LinksOf(m, p) : m[l].enabled /\ ~m[l].revoked /\ ~m[l].deleted

Status(s) == [memory EXCEPT !["project"].status = s]

\* Every row of the call in progress is written.
Written == \A i \in DOMAIN pending : pending[i] = {}

Idle == call = "none"
Owned == Idle /\ ~memory["project"].deleted

\* A call changes the records and then has rows to write, stage by stage.
Call(kind, records, rows) ==
  /\ memory' = records
  /\ pending' = rows
  /\ call' = kind
  /\ UNCHANGED <<disk, erased>>

-----------------------------------------------------------------------------
(* Calls *)

\* Handlers that only write a status, in the project's row (touch_project).  Those
\* that verify may also leave the status; then no row here changes.
StatusCall(s) ==
  /\ Call("other", Status(s), <<{"project"}>>)
  /\ UNCHANGED <<derived_vars, withdrawn>>

InterviewStep == Idle /\ StatusCall("created")
CompleteCorrections == Owned /\ StatusCall("family_correction_completed")
VerifyProject == Owned /\ StatusCall("verified")
ResolveIssue == Idle /\ story_page_id # NoPage /\ StatusCall("verified")
RequestSecondConsent ==
  /\ Owned
  /\ memory["project"].status = "verified"
  /\ StatusCall("elder_second_consent_pending")

\* generate_story: touch_project writes the project before the page is saved.
GenerateStory(p) ==
  /\ Owned
  /\ memory[p] = "none"
  /\ Call("other", [Status("story_generated") EXCEPT ![p] = "closed"],
          <<{"project"}, {p}, {"project"}>>)
  /\ story_page_id' = p
  /\ UNCHANGED <<has_family_sharing_consent, withdrawn>>

\* publish: the project with its new status is written before the page opens.
Publish ==
  LET p == story_page_id IN
  /\ Owned
  /\ memory["project"].status = "elder_second_consent_pending"
  /\ has_family_sharing_consent
  /\ p # NoPage
  /\ \A l \in LinksOf(memory, p) : memory[l].enabled => memory[l].deleted
  /\ Call("other",
          [r \in Rows |->
             CASE r = p -> "open"
               [] r \in LinksOf(memory, p) ->
                    [memory[r] EXCEPT !.enabled = @ \/ ~(memory[r].revoked \/ memory[r].deleted)]
               [] OTHER -> Status("published")[r]],
          <<{"project"}, {p}, LinksOf(memory, p)>>)
  /\ withdrawn' = withdrawn \ {p}
  /\ UNCHANGED derived_vars

CreateShareLink(l, p) ==
  /\ Owned
  /\ memory[p] \in {"closed", "open"}
  /\ memory[l] = NoLink
  /\ Call("other", [memory EXCEPT ![l] = [NoLink EXCEPT !.page = p, !.enabled = memory[p] = "open"]],
          <<{l}>>)
  /\ UNCHANGED <<derived_vars, withdrawn>>

RevokeShareLink(l) ==
  /\ Owned
  /\ l \in LinksIn(memory)
  /\ Call("other", [memory EXCEPT ![l].enabled = FALSE, ![l].revoked = TRUE], <<{l}>>)
  /\ UNCHANGED <<derived_vars, withdrawn>>

ResetShareLink(l) ==
  /\ Owned
  /\ l \in LinksIn(memory)
  /\ Call("other",
          [memory EXCEPT ![l].enabled = (memory[memory[l].page] = "open"), ![l].revoked = FALSE],
          <<{l}>>)
  /\ UNCHANGED <<derived_vars, withdrawn>>

RecordConsent(k) ==
  /\ Owned
  /\ memory[k] = "none"
  /\ Call("other", [memory EXCEPT ![k] = "active"], <<{"project"}, {k}, {"project"}>>)
  /\ has_family_sharing_consent' = TRUE
  /\ UNCHANGED <<story_page_id, withdrawn>>

\* A link closed together with its page.
Closed(link) == [link EXCEPT !.enabled = FALSE, !.revoked = TRUE]

\* The page a withdrawal closes, if there is one, and what it saves of it.
PageSavedByNoWithdrawal == {}
PageSavedByWithdrawal == {story_page_id} \ {NoPage}
LinksSavedByNoWithdrawal == {}
LinksSavedByWithdrawal == LinksOf(memory, story_page_id)

\* withdraw_consent closes the current page and its links; other pages stay open.
WithdrawConsent(k) ==
  /\ Owned
  /\ memory[k] # "none"
  /\ Call("withdrawal",
          [r \in Rows |-> CASE r = k -> "withdrawn"
                            [] r = story_page_id -> "closed"
                            [] r \in LinksOf(memory, story_page_id) -> Closed(memory[r])
                            [] OTHER -> memory[r]],
          <<{k}, {"project"}, PageSavedByWithdrawal, LinksSavedByWithdrawal>>)
  /\ has_family_sharing_consent' = FALSE
  /\ UNCHANGED <<story_page_id, withdrawn>>

\* The pages and links request_deletion saves; the consents it saves too lose their
\* evidence only.
SavedByDeletionOfCurrent == ({story_page_id} \ {NoPage}) \cup LinksOf(memory, story_page_id)
SavedByDeletion == PagesOf(memory) \cup LinksIn(memory)

\* request_deletion closes and marks every page and link of the project.  They are
\* written in any order here; in the code each page is followed by its links.
RequestDeletion ==
  /\ Owned
  /\ Call("deletion",
          [r \in Rows |->
             CASE r = "project" -> [status |-> "deletion_requested", deleted |-> TRUE]
               [] r = "request" -> TRUE
               [] r \in PagesOf(memory) -> "deleted"
               [] r \in LinksIn(memory) ->
                    [Closed(memory[r]) EXCEPT !.deleted = TRUE]
               [] OTHER -> memory[r]],
          <<{"project"}, {"request"}, {k \in Consents : memory[k] # "none"}, SavedByDeletion>>)
  /\ UNCHANGED <<derived_vars, withdrawn>>

-----------------------------------------------------------------------------
(* Writing and restarting *)

\* One transaction of the call in progress.
WriteRow(r) ==
  \E i \in DOMAIN pending :
    /\ r \in pending[i]
    /\ \A j \in DOMAIN pending : j < i => pending[j] = {}
    /\ disk' = [disk EXCEPT ![r] = memory[r]]
    /\ pending' = [pending EXCEPT ![i] = @ \ {r}]
    /\ UNCHANGED <<memory, derived_vars, call, history_vars>>

\* Every row is written: the call returns.
Return ==
  /\ ~Idle
  /\ Written
  /\ call' = "none"
  /\ pending' = <<>>
  /\ erased' = (erased \/ call = "deletion")
  /\ withdrawn' = IF call = "withdrawal" THEN withdrawn \cup ({story_page_id} \ {NoPage})
                  ELSE withdrawn
  /\ UNCHANGED <<memory, disk, derived_vars>>

\* _apply_consent_flags: a record that is not withdrawn sets the flag.
GrantsOfAnyRecord(rows) == {k \in Consents : rows[k] # "none"}
Grants(rows) == {k \in Consents : rows[k] = "active"}

\* What _hydrate_story_pages may make the current page: the last row read, and the
\* rows come in no order.
CurrentPages(rows) == IF PagesOf(rows) = {} THEN {NoPage} ELSE PagesOf(rows)

\* The process stops, whatever it was doing, and a new one hydrates its store.
Restart ==
  /\ memory' = disk
  /\ story_page_id' \in CurrentPages(disk)
  /\ has_family_sharing_consent' = (Grants(disk) # {})
  /\ pending' = <<>>
  /\ call' = "none"
  /\ UNCHANGED <<disk, history_vars>>

-----------------------------------------------------------------------------
Init ==
  /\ memory = Empty
  /\ disk = Empty
  /\ story_page_id = NoPage
  /\ has_family_sharing_consent = FALSE
  /\ pending = <<>>
  /\ call = "none"
  /\ erased = FALSE
  /\ withdrawn = {}

Next ==
  \/ InterviewStep \/ CompleteCorrections \/ VerifyProject \/ ResolveIssue \/ RequestSecondConsent
  \/ \E p \in Pages : GenerateStory(p)
  \/ Publish
  \/ \E l \in Links : \/ \E p \in Pages : CreateShareLink(l, p)
                      \/ RevokeShareLink(l)
                      \/ ResetShareLink(l)
  \/ \E k \in Consents : RecordConsent(k) \/ WithdrawConsent(k)
  \/ RequestDeletion
  \/ \E r \in Rows : WriteRow(r)
  \/ Return
  \/ Restart

Spec == Init /\ [][Next]_vars
-----------------------------------------------------------------------------
(* Properties *)

\* Every variable has a value the code can store in it.
TypeOK ==
  /\ Records(memory)
  /\ Records(disk)
  /\ story_page_id \in PagesOf(memory) \cup {NoPage}
  /\ has_family_sharing_consent \in BOOLEAN
  /\ pending \in Seq(SUBSET Rows)
  /\ call \in {"none", "withdrawal", "deletion", "other"}
  /\ erased \in BOOLEAN
  /\ withdrawn \subseteq Pages

\* Each call saves every record it changed: between calls the database is what
\* the process has in memory, so a restart then loses nothing.
WriteThrough == Idle => memory = disk

\* A deletion request that returned is final: through any number of crashes no page
\* of the project can be read again, and the request itself is on record.
ReturnedDeletionIsFinal ==
  erased => \A m \in {memory, disk} :
    m["request"] /\ m["project"].deleted /\ \A p \in Pages : ~Viewable(m, p)

\* A withdrawal that returned holds for its page: no crash, restart, consent recorded
\* later or link reset opens it again, only a new publication.
ReturnedWithdrawalIsFinal ==
  \A p \in withdrawn : memory[p] # "open" /\ disk[p] # "open"

\* Wherever crashes fall and whatever a restart derives, a call opens a page only
\* under a consent record in force.
OpenedUnderConsent ==
  [][\A p \in Pages :
       memory'[p] = "open" /\ memory[p] # "open" /\ disk[p] # "open"
         => \E k \in Consents : memory[k] = "active"]_vars

\* A restart changes which pages relatives can read only where the call it cut off
\* was writing the page or a link of it: neither a page closed before nor one
\* opened before comes back from the database otherwise.
RestartTouchesOnlyUnderWay ==
  [][Restart =>
       \A p \in Pages :
         Viewable(memory', p) # Viewable(memory, p)
           => \E i \in DOMAIN pending :
                pending[i] \cap ({p} \cup LinksOf(memory, p) \cup LinksOf(disk, p)) # {}]_vars

-----------------------------------------------------------------------------
(* docs/runbooks/deletion.md:7: deleted resources are hidden immediately.   *)
(* Refuted by a run.                                                       *)

\* Between calls a deleted project has no page a relative can read.
DeletionHidesPages ==
  Idle /\ memory["project"].deleted => \A p \in Pages : ~Viewable(memory, p)
=============================================================================
