--------------------------- MODULE DeletionPurge ---------------------------
(***************************************************************************)
(* The purge of a deleted project from the relational store.  Every        *)
(* handler changes the memory of the API process first and then saves the  *)
(* rows it changed, one transaction after another; execute_due_deletion    *)
(* clears memory and then deletes the rows of all tables in one            *)
(* transaction, which the foreign keys of the schema may refuse.  The      *)
(* process may stop between any two transactions; the next one reads what  *)
(* it finds in the database.                                               *)
(*                                                                         *)
(* Handlers run one at a time on project Ours; Other has rows of its own   *)
(* and nobody calls for it.  A table holds at most one row of a project,   *)
(* of which only matters whether it is there and whether deleted_at is     *)
(* set.  The retention has passed when the purge is called (its timing is  *)
(* in InterviewIntake), and after a purge that failed no handler runs      *)
(* before the process is restarted, except the purge itself.               *)
(***************************************************************************)
EXTENDS Naturals, Sequences

CONSTANTS
  Ours, Other,    \* two projects
  MaxErrors       \* bound: purges whose connection to the database breaks

ASSUME ProjectAssumption == Ours # Other
ASSUME ErrorAssumption == MaxErrors \in Nat

VARIABLES
  memory,     \* what the process knows: a row of each table of each project
  disk,       \* what the database has
  source,     \* what the evidence of the claim of Ours refers to
  saves,      \* transactions the running handler has yet to commit, in order
  streaming,  \* an interview stream was opened and still delivers
  failed,     \* the process has seen a purge fail in the database
  errors      \* connections broken so far

vars == <<memory, disk, source, saves, streaming, failed, errors>>

InterviewTables == {"photos", "photo_analyses", "audio_recordings", "transcript_segments"}
ClaimTables == {"claims", "claim_evidence", "claim_corrections"}
StoryTables == {"chapters", "citations", "story_pages", "share_links", "access_logs",
                "family_comments", "pdf_exports"}
Tables == {"projects", "deletion_requests"} \cup InterviewTables \cup ClaimTables \cup StoryTables

\* Rows without a deleted_at: they live until they are deleted.
Unmarkable == {"claim_corrections", "access_logs", "deletion_requests"}

Row == {"none", "live", "marked", "pending", "executed"}
Projects == {Ours, Other}
Source == {"user_input", "photos", "transcript_segments"}

\* The foreign keys between the tables of a project; users, sessions and the project
\* itself are never deleted.
References(evidence_of) ==
  {<<"photo_analyses", "photos">>, <<"transcript_segments", "audio_recordings">>,
   <<"claim_evidence", "claims">>, <<"claim_corrections", "claims">>,
   <<"citations", "chapters">>, <<"citations", "claims">>,
   <<"share_links", "story_pages">>, <<"access_logs", "story_pages">>,
   <<"access_logs", "share_links">>, <<"family_comments", "story_pages">>,
   <<"family_comments", "share_links">>, <<"pdf_exports", "story_pages">>}
  \cup CASE evidence_of = "user_input" -> {}
         [] evidence_of = "photos" -> {<<"claim_evidence", "photos">>}
         [] evidence_of = "transcript_segments" ->
              {<<"claim_evidence", "transcript_segments">>,
               <<"claim_evidence", "audio_recordings">>}

\* Every row refers to rows that are there.
Whole(rows, evidence_of) ==
  \A ref \in References(evidence_of) : rows[ref[1]] # "none" => rows[ref[2]] # "none"

NewProject == [table \in Tables |-> IF table = "projects" THEN "live" ELSE "none"]

\* Other is in use; a photo and a claim of it were deleted by the family.
OtherProject ==
  [table \in Tables |->
     IF table \in {"photos", "claims", "claim_evidence"} THEN "marked"
     ELSE IF table = "deletion_requests" THEN "none" ELSE "live"]

Init ==
  /\ memory = [project \in Projects |-> IF project = Ours THEN NewProject ELSE OtherProject]
  /\ disk = memory
  /\ source = "user_input"
  /\ saves = <<>>
  /\ streaming = FALSE
  /\ failed = FALSE
  /\ errors = 0

-----------------------------------------------------------------------------
(* Handlers and the rows they save *)

Has(table, row) == memory[Ours][table] = row
Idle == saves = <<>> /\ ~failed

\* _owned_project: the owner's calls on a deleted project are not found.
Owned == Has("projects", "live")

\* A handler gives these tables new rows in memory and leaves these transactions to do.
Handle(rows, transactions) ==
  /\ Idle
  /\ memory' = [memory EXCEPT ![Ours] =
                  [table \in Tables |-> IF table \in DOMAIN rows THEN rows[table] ELSE @[table]]]
  /\ saves' = transactions
  /\ UNCHANGED <<disk, failed, errors>>

One(table, row) == [t \in {table} |-> row]

Insert(table) ==
  /\ Has(table, "none")
  /\ Handle(One(table, "live"), <<{table}>>)
  /\ UNCHANGED <<source, streaming>>

CompletePhoto == Owned /\ Insert("photos")

DeletePhoto ==
  /\ Owned
  /\ Has("photos", "live")
  /\ Handle(One("photos", "marked"), <<{"photos"}>>)
  /\ UNCHANGED <<source, streaming>>

\* The admin's handlers look at the photo and the analysis, not at the project.
CreatePhotoAnalysis == Has("photos", "live") /\ Insert("photo_analyses")

OpenStream ==
  /\ Idle
  /\ Owned
  /\ streaming' = TRUE
  /\ UNCHANGED <<memory, disk, source, saves, failed, errors>>

\* A chunk that is there stays as it is; with a transcript it gets its segment.
ChunkSavesTextFirst == <<{"transcript_segments"}, {"audio_recordings"}>>
ChunkSaves == <<{"audio_recordings"}, {"transcript_segments"}>>
KeptOrNew(table) == IF Has(table, "none") THEN "live" ELSE memory[Ours][table]

\* By REST the project is looked at, by an open stream no more.
RecordChunk(with_text) ==
  /\ Owned \/ streaming
  /\ Has("audio_recordings", "none") \/ (with_text /\ Has("transcript_segments", "none"))
  /\ Handle([t \in {"audio_recordings"} \cup (IF with_text THEN {"transcript_segments"} ELSE {})
               |-> KeptOrNew(t)],
            ChunkSaves)
  /\ UNCHANGED <<source, streaming>>

\* The claim and its evidence are saved one after the other.
ClaimSavesAlone == <<{"claims"}>>
ClaimSaves == <<{"claims"}, {"claim_evidence"}>>

NewClaim(evidence_of) ==
  /\ Has("claims", "none")
  /\ source' = evidence_of
  /\ Handle([t \in {"claims", "claim_evidence"} |-> "live"], ClaimSaves)
  /\ UNCHANGED streaming

\* The seed claim names a segment that does not exist; save_claim may name a real one.
SaveClaim ==
  /\ Owned
  /\ \/ NewClaim("user_input")
     \/ Has("transcript_segments", "live") /\ NewClaim("transcript_segments")

ConvertPhotoAnalysis == Has("photo_analyses", "live") /\ NewClaim("photos")

\* The claim with its evidence, made again from the claim, then the correction; a deleted
\* claim stays deleted.
CorrectClaim ==
  /\ Owned
  /\ ~Has("claims", "none")
  /\ \E row \in {memory[Ours]["claims"], "marked"} :
       Handle([t \in {"claims", "claim_evidence", "claim_corrections"} |->
                 IF t = "claim_corrections" THEN "live" ELSE row],
              ClaimSaves \o <<{"claim_corrections"}>>)
  /\ UNCHANGED <<source, streaming>>

\* The page, then the chapters with their citations in one transaction that replaces
\* the former ones.  A draft may tell no claim.
GenerateStory ==
  /\ Owned
  /\ \E cited \in {"none"} \cup {row \in {"live"} : Has("claims", "live")} :
       Handle([t \in {"story_pages", "chapters", "citations"} |->
                 IF t = "citations" THEN cited ELSE "live"],
              <<{"story_pages"}, {"chapters", "citations"}>>)
  /\ UNCHANGED <<source, streaming>>

CreateShareLink == Owned /\ Has("story_pages", "live") /\ Insert("share_links")

\* Relatives are let in by the page and the link.
VisitStory ==
  /\ Has("story_pages", "live")
  /\ Has("share_links", "live")
  /\ Insert("access_logs") \/ Insert("family_comments")

ExportPdf ==
  /\ Has("story_pages", "live")
  /\ Owned \/ Has("share_links", "live")
  /\ Insert("pdf_exports")

-----------------------------------------------------------------------------
(* The deletion request *)

\* A claim that is saved gets its evidence again, should a crash have lost it.
Marked(rows) ==
  [table \in Tables |-> IF \/ rows[table] = "live" /\ table \notin Unmarkable
                           \/ table = "claim_evidence" /\ rows["claims"] # "none"
                        THEN "marked"
                        ELSE IF table = "deletion_requests" THEN "pending"
                        ELSE rows[table]]

\* One transaction for each row, in this order.
DeletionSaves ==
  <<{"projects"}, {"deletion_requests"}, {"photos"}, {"audio_recordings"},
    {"transcript_segments"}, {"photo_analyses"}, {"claims"}, {"claim_evidence"},
    {"chapters"}, {"citations"}, {"story_pages"}, {"share_links"}, {"family_comments"},
    {"pdf_exports"}>>

RequestDeletion ==
  /\ Owned
  /\ Handle(Marked(memory[Ours]), DeletionSaves)
  /\ UNCHANGED <<source, streaming>>

-----------------------------------------------------------------------------
(* The purge *)

\* The request is about one project.
DueAll(project) == TRUE
Due(project) == project = Ours

\* Rows of a project that memory gives up.  Evidence and corrections go with their
\* claim, whose project they are not asked for; access logs stay.
PurgedButOrphans(project, rows) ==
  [table \in Tables |-> IF /\ Due(project) /\ rows[table] = "marked"
                            /\ table \notin {"projects", "claim_evidence"}
                        THEN "none"
                        ELSE IF Due(project) /\ table = "deletion_requests" THEN "executed"
                        ELSE rows[table]]
Purged(project, rows) ==
  LET gone == {t \in Tables \ ({"projects"} \cup Unmarkable \cup {"claim_evidence"}) :
                 /\ Due(project) /\ rows[t] = "marked"
                 /\ t = "citations" => rows["chapters"] # "none"
                 /\ t \in {"share_links", "family_comments"} => rows["story_pages"] = "marked"}
      orphans == IF rows["claims"] = "none" \/ "claims" \in gone
                 THEN {"claim_evidence", "claim_corrections"} ELSE {}
  IN [table \in Tables |-> IF table \in gone \cup orphans THEN "none"
                           ELSE IF Due(project) /\ table = "deletion_requests" THEN "executed"
                           ELSE rows[table]]

\* The tables of the project whose rows were collected before memory was purged.
Captured(project, rows) ==
  IF ~Due(project) THEN {}
  ELSE {t \in InterviewTables \cup {"claims", "chapters", "story_pages", "pdf_exports"} :
          rows[t] = "marked"}
       \cup {t \in {"claim_evidence", "claim_corrections"} : rows["claims"] = "marked"}
       \cup {t \in {"citations"} : rows[t] = "marked" /\ rows["chapters"] = "marked"}
       \cup {t \in {"access_logs"} : rows["story_pages"] = "marked"}
       \cup {t \in {"share_links", "family_comments"} :
               rows[t] = "marked" /\ rows["story_pages"] = "marked"}

DeleteOrderLinksFirst ==
  <<"citations", "claim_evidence", "claim_corrections", "share_links", "access_logs",
    "family_comments", "pdf_exports", "story_pages", "chapters", "photo_analyses", "photos",
    "transcript_segments", "audio_recordings", "claims">>
DeleteOrder ==
  <<"citations", "claim_evidence", "claim_corrections", "access_logs", "family_comments",
    "share_links", "pdf_exports", "story_pages", "chapters", "photo_analyses", "photos",
    "transcript_segments", "audio_recordings", "claims">>

\* A project in the database after the first n delete statements.
After(n, rows, captured) ==
  [table \in Tables |->
     IF table \in captured /\ \E i \in 1..n : DeleteOrder[i] = table THEN "none" ELSE rows[table]]

\* The foreign keys are checked after each statement.
Refused(rows, captured) ==
  \E n \in 1..Len(DeleteOrder) : ~Whole(After(n, rows, captured), source)

\* The transaction deletes the rows and then saves the request; a request that is
\* not there is not updated.
Deleted(project, rows, captured) ==
  [After(Len(DeleteOrder), rows, captured) EXCEPT
     !["deletion_requests"] = IF Due(project) /\ @ # "none" THEN "executed" ELSE @]

\* A purge that is refused, or whose connection breaks, leaves memory purged and the
\* database as it was.  Called again by the same process it finds the request executed
\* and nothing to collect.
ExecuteDueDeletion ==
  LET captured == [project \in Projects |-> Captured(project, memory[project])] IN
  /\ saves = <<>>
  /\ memory[Ours]["deletion_requests"] \in {"pending", "executed"}
  /\ memory' = [project \in Projects |->
                  IF Has("deletion_requests", "pending")
                  THEN Purged(project, memory[project]) ELSE memory[project]]
  /\ IF Refused(disk[Ours], captured[Ours])
     THEN /\ failed' = TRUE
          /\ UNCHANGED <<disk, errors>>
     ELSE \/ /\ disk' = [project \in Projects |->
                           Deleted(project, disk[project], captured[project])]
             /\ UNCHANGED <<failed, errors>>
          \/ /\ errors < MaxErrors
             /\ errors' = errors + 1
             /\ failed' = TRUE
             /\ UNCHANGED disk
  /\ UNCHANGED <<source, saves, streaming>>

-----------------------------------------------------------------------------
(* The database and the process *)

\* One transaction commits.
Commit ==
  /\ saves # <<>>
  /\ disk' = [disk EXCEPT ![Ours] =
                [table \in Tables |-> IF table \in Head(saves) THEN memory[Ours][table]
                                      ELSE @[table]]]
  /\ saves' = Tail(saves)
  /\ UNCHANGED <<memory, source, streaming, failed, errors>>

\* The process stops and starts again: streams close, memory is what is read back.
Restart ==
  /\ memory' = disk
  /\ saves' = <<>>
  /\ streaming' = FALSE
  /\ failed' = FALSE
  /\ UNCHANGED <<disk, source, errors>>

InterviewStep ==
  \/ CompletePhoto \/ DeletePhoto \/ CreatePhotoAnalysis \/ OpenStream
  \/ \E with_text \in BOOLEAN : RecordChunk(with_text)
StoryStep ==
  \/ SaveClaim \/ ConvertPhotoAnalysis \/ CorrectClaim \/ GenerateStory
  \/ CreateShareLink \/ VisitStory \/ ExportPdf

Next == InterviewStep \/ StoryStep \/ RequestDeletion \/ ExecuteDueDeletion \/ Commit \/ Restart

Spec == Init /\ [][Next]_vars
-----------------------------------------------------------------------------
(* Properties *)

\* Memory and database hold in every table a row of its kind.
TypeOK ==
  /\ memory \in [Projects -> [Tables -> Row]]
  /\ disk \in [Projects -> [Tables -> Row]]
  /\ source \in Source
  /\ saves \in Seq(SUBSET Tables)
  /\ streaming \in BOOLEAN
  /\ failed \in BOOLEAN
  /\ errors \in 0..MaxErrors

\* No transaction a handler commits is one the foreign keys refuse, after any crash: a
\* row is saved after the rows it refers to.
NoDanglingRows == Whole(disk[Ours], source)

\* Until the purge is called the database has between calls what the process knows.
MemoryIsSaved ==
  Idle /\ ~Has("deletion_requests", "executed") => memory[Ours] = disk[Ours]

\* The order of the deletes is right for the foreign keys: they refuse a purge only if a
\* row of the project was never marked.
RefusedOnlyForUnmarked ==
  [][failed' /\ ~failed /\ errors' = errors =>
       \E table \in Tables \ Unmarkable : disk[Ours][table] = "live"]_vars

\* A process that has seen no purge fail and reports the request executed has removed
\* every marked row from the database, and from memory every row it removed there but
\* the access logs.
ExecutedMeansPurged ==
  [][~failed /\ disk[Ours]["deletion_requests"] = "pending"
       /\ disk'[Ours]["deletion_requests"] = "executed" =>
       \A table \in Tables \ {"projects"} :
         /\ disk'[Ours][table] # "marked"
         /\ table # "access_logs" => memory'[Ours][table] = disk'[Ours][table]]_vars

\* The purge of one project leaves every row of another, deleted ones included.
OthersUntouched == memory[Other] = OtherProject /\ disk[Other] = OtherProject
=============================================================================
