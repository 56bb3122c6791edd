------------------------ MODULE DeletionPurgeProofs ------------------------
(* Theorems about DeletionPurge, for any number of broken connections. *)
EXTENDS DeletionPurge, TLAPS

Ended(row) == row \in {"marked", "pending", "executed"}

\* A row of the first table is marked, or a request made, only after the second is marked.
MarkedAfter ==
  {<<"deletion_requests", "projects">>, <<"claim_evidence", "claims">>,
   <<"citations", "chapters">>, <<"share_links", "story_pages">>,
   <<"family_comments", "story_pages">>}
  \cup {<<table, "projects">> : table \in StoryTables}
Ordered(rows) ==
  \A pair \in MarkedAfter : Ended(rows[pair[1]]) => rows[pair[2]] = "marked"

\* The rows a table can have.
Kinds(rows) ==
  /\ rows["projects"] \in {"live", "marked"}
  /\ rows["deletion_requests"] \in {"none", "pending", "executed"}
  /\ rows["claim_corrections"] \in {"none", "live"}
  /\ rows["access_logs"] \in {"none", "live"}
  /\ \A table \in Tables \ ({"projects"} \cup Unmarkable) :
       rows[table] \in {"none", "live", "marked"}

\* Tables whose rows the purge deletes with those they refer to, marked or not.
Dropped == {"access_logs", "claim_corrections", "claim_evidence"}

\* The database has the row that memory knows, or an executed purge has deleted it.
Settled(mem, dsk, table) ==
  \/ dsk[table] = mem[table]
  \/ /\ mem["deletion_requests"] = "executed"
     /\ dsk[table] = "none"
     /\ mem[table] = "marked" \/ table \in Dropped

\* The rows that the evidence of the claim refers to are there.
SourcesThere(dsk, src) ==
  \A ref \in References(src) :
    ref[1] = "claim_evidence" /\ ref[2] # "claims" => dsk[ref[2]] # "none"

\* The transactions s may be committed one after the other: a row comes after the rows
\* it refers to, a mark after the marks it needs, and nothing that others refer to goes.
Ready(s, mem, dsk, src) ==
  \A i \in 1..Len(s) : \A table \in s[i] :
    /\ mem[table] = "none" => table = "citations" \/ dsk[table] = "none"
    /\ dsk[table] = "marked" => mem[table] = "marked"
    /\ table = "deletion_requests" => mem[table] = "pending"
    /\ mem[table] # "none" =>
         \A ref \in References(src) : ref[1] = table =>
           \/ dsk[ref[2]] # "none"
           \/ mem[ref[2]] # "none" /\ \E j \in 1..i : ref[2] \in s[j]
    /\ Ended(mem[table]) =>
         \A pair \in MarkedAfter : pair[1] = table =>
           \/ dsk[pair[2]] = "marked"
           \/ \E j \in 1..i : pair[2] \in s[j]
    /\ table = "claims" /\ mem[table] # "none" => SourcesThere(dsk, src)

Waits(s, table) == \E i \in 1..Len(s) : table \in s[i]

RowsInv ==
  /\ Kinds(memory[Ours]) /\ Kinds(disk[Ours])
  /\ Ordered(memory[Ours]) /\ Ordered(disk[Ours])
  /\ Whole(disk[Ours], source)
  /\ disk[Ours]["projects"] = "live" /\ disk[Ours]["claims"] # "none" =>
       SourcesThere(disk[Ours], source)

\* What memory and database differ in is still to be committed.
SavesInv ==
  ~failed => \A table \in Tables : Settled(memory[Ours], disk[Ours], table) \/ Waits(saves, table)

\* After a purge that failed, memory has no marked row left, or still all of them.
FailedInv ==
  failed =>
    /\ saves = <<>>
    /\ Has("deletion_requests", "executed")
    /\ disk[Ours]["projects"] = "marked"
    /\ \/ \A table \in Tables \ {"projects"} : memory[Ours][table] # "marked"
       \/ \A table \in Tables : disk[Ours][table] = "marked" => memory[Ours][table] = "marked"

PurgeInv ==
  /\ TypeOK
  /\ OthersUntouched
  /\ RowsInv
  /\ SavesInv
  /\ Ready(saves, memory[Ours], disk[Ours], source)
  /\ FailedInv

-----------------------------------------------------------------------------
(* The tables *)

\* Tables that other tables refer to.
Targets == {"photos", "audio_recordings", "transcript_segments", "claims", "chapters",
            "story_pages", "share_links"}

LEMMA ReferencesAmongTables ==
  ASSUME NEW src \in Source, NEW ref \in References(src)
  PROVE  ref[1] \in Tables /\ ref[2] \in Targets /\ ref[2] \in Tables
BY DEF Source, References, Tables, Targets, InterviewTables, ClaimTables, StoryTables

LEMMA MarkedAfterAmongTables ==
  ASSUME NEW pair \in MarkedAfter
  PROVE  /\ pair[1] \in Tables /\ pair[1] # "projects"
         /\ pair[2] \in {"projects", "claims", "chapters", "story_pages"}
         /\ pair[2] \in Tables
BY DEF MarkedAfter, Tables, InterviewTables, ClaimTables, StoryTables

\* Whatever the evidence refers to, these references are there.
LEMMA FixedReferences ==
  ASSUME NEW src \in Source
  PROVE  {<<"photo_analyses", "photos">>, <<"transcript_segments", "audio_recordings">>,
          <<"claim_evidence", "claims">>, <<"claim_corrections", "claims">>,
          <<"citations", "chapters">>, <<"citations", "claims">>,
          <<"share_links", "story_pages">>, <<"access_logs", "story_pages">>,
          <<"access_logs", "share_links">>, <<"family_comments", "story_pages">>,
          <<"family_comments", "share_links">>, <<"pdf_exports", "story_pages">>}
           \subseteq References(src)
BY DEF References

\* The others are those of the evidence.
LEMMA OtherReferences ==
  ASSUME NEW src \in Source, NEW ref \in References(src)
  PROVE  \/ ref \in {<<"photo_analyses", "photos">>, <<"transcript_segments", "audio_recordings">>,
                     <<"claim_evidence", "claims">>, <<"claim_corrections", "claims">>,
                     <<"citations", "chapters">>, <<"citations", "claims">>,
                     <<"share_links", "story_pages">>, <<"access_logs", "story_pages">>,
                     <<"access_logs", "share_links">>, <<"family_comments", "story_pages">>,
                     <<"family_comments", "share_links">>, <<"pdf_exports", "story_pages">>}
         \/ ref = <<"claim_evidence", "photos">> /\ src = "photos"
         \/ /\ ref \in {<<"claim_evidence", "transcript_segments">>,
                        <<"claim_evidence", "audio_recordings">>}
            /\ src = "transcript_segments"
BY DEF References, Source

LEMMA MarkedAfterReferences ==
  ASSUME NEW src \in Source, NEW pair \in MarkedAfter, pair[2] # "projects"
  PROVE  pair \in References(src)
BY FixedReferences DEF MarkedAfter

\* What the order of the marks says of each table.
LEMMA OrderedMeans ==
  ASSUME NEW rows, Ordered(rows)
  PROVE  /\ Ended(rows["deletion_requests"]) => rows["projects"] = "marked"
         /\ Ended(rows["claim_evidence"]) => rows["claims"] = "marked"
         /\ Ended(rows["citations"]) => rows["chapters"] = "marked"
         /\ Ended(rows["share_links"]) => rows["story_pages"] = "marked"
         /\ Ended(rows["family_comments"]) => rows["story_pages"] = "marked"
         /\ \A table \in StoryTables : Ended(rows[table]) => rows["projects"] = "marked"
<1>1. /\ <<"deletion_requests", "projects">> \in MarkedAfter
      /\ <<"claim_evidence", "claims">> \in MarkedAfter
      /\ <<"citations", "chapters">> \in MarkedAfter
      /\ <<"share_links", "story_pages">> \in MarkedAfter
      /\ <<"family_comments", "story_pages">> \in MarkedAfter
      /\ \A table \in StoryTables : <<table, "projects">> \in MarkedAfter
  BY DEF MarkedAfter
<1>2. \A a, b : <<a, b>> \in MarkedAfter => (Ended(rows[a]) => rows[b] = "marked")
  BY DEF Ordered
<1>3. QED
  BY <1>1, <1>2

-----------------------------------------------------------------------------
(* The purge deletes in a right order *)

LEMMA DeletePositions ==
  /\ Len(DeleteOrder) = 14
  /\ DeleteOrder[1] = "citations" /\ DeleteOrder[2] = "claim_evidence"
  /\ DeleteOrder[3] = "claim_corrections" /\ DeleteOrder[4] = "access_logs"
  /\ DeleteOrder[5] = "family_comments" /\ DeleteOrder[6] = "share_links"
  /\ DeleteOrder[7] = "pdf_exports" /\ DeleteOrder[8] = "story_pages"
  /\ DeleteOrder[9] = "chapters" /\ DeleteOrder[10] = "photo_analyses"
  /\ DeleteOrder[11] = "photos" /\ DeleteOrder[12] = "transcript_segments"
  /\ DeleteOrder[13] = "audio_recordings" /\ DeleteOrder[14] = "claims"
BY DEF DeleteOrder

\* Every table but the project's and the request's is deleted from, once.
LEMMA DeletedTables ==
  ASSUME NEW table \in Tables, table # "projects", table # "deletion_requests"
  PROVE  \E i \in 1..14 : DeleteOrder[i] = table
<1> USE DeletePositions
<1> DEFINE Found(t) == \E i \in 1..14 : DeleteOrder[i] = t
<1>1. /\ Found("citations") /\ Found("claim_evidence") /\ Found("claim_corrections")
      /\ Found("access_logs") /\ Found("family_comments") /\ Found("share_links")
      /\ Found("pdf_exports")
  OBVIOUS
<1>2. /\ Found("story_pages") /\ Found("chapters") /\ Found("photo_analyses")
      /\ Found("photos") /\ Found("transcript_segments") /\ Found("audio_recordings")
      /\ Found("claims")
  OBVIOUS
<1>3. QED
  BY <1>1, <1>2 DEF Tables, InterviewTables, ClaimTables, StoryTables

LEMMA KeptTables ==
  ASSUME NEW i \in 1..14
  PROVE  DeleteOrder[i] \in Tables \ {"projects", "deletion_requests"}
BY DeletePositions DEF Tables, InterviewTables, ClaimTables, StoryTables

\* A table is deleted from after those that refer to it.
LEMMA ReferringDeletedFirst ==
  ASSUME NEW src \in Source, NEW ref \in References(src), NEW i \in 1..14,
         DeleteOrder[i] = ref[2]
  PROVE  \E k \in 1..i : DeleteOrder[k] = ref[1]
<1> USE DeletePositions
<1>1. CASE ref \in {<<"claim_evidence", "claims">>, <<"claim_corrections", "claims">>,
                    <<"citations", "claims">>, <<"citations", "chapters">>,
                    <<"claim_evidence", "photos">>, <<"claim_evidence", "transcript_segments">>,
                    <<"claim_evidence", "audio_recordings">>}
  BY <1>1
<1>2. CASE ref \in {<<"access_logs", "story_pages">>, <<"access_logs", "share_links">>,
                    <<"family_comments", "story_pages">>, <<"family_comments", "share_links">>}
  BY <1>2
<1>3. CASE ref \in {<<"share_links", "story_pages">>, <<"pdf_exports", "story_pages">>,
                    <<"photo_analyses", "photos">>,
                    <<"transcript_segments", "audio_recordings">>}
  BY <1>3
<1>4. QED
  BY <1>1, <1>2, <1>3, OtherReferences

\* A purge collects every marked row, and with it only rows that have no deleted_at and
\* refer to a marked one, or the evidence of a marked claim.
LEMMA CapturesMarked ==
  ASSUME NEW rows, Kinds(rows), Ordered(rows)
  PROVE  /\ Captured(Ours, rows) \subseteq Tables \ {"projects", "deletion_requests"}
         /\ \A table \in Tables \ {"projects"} :
              rows[table] = "marked" => table \in Captured(Ours, rows)
         /\ \A table \in Captured(Ours, rows) \ Dropped : rows[table] = "marked"
         /\ \A table \in {"claim_evidence", "claim_corrections"} :
              table \in Captured(Ours, rows) <=> rows["claims"] = "marked"
         /\ "access_logs" \in Captured(Ours, rows) <=> rows["story_pages"] = "marked"
<1> DEFINE C == Captured(Ours, rows)
<1>1. /\ rows["citations"] = "marked" => rows["chapters"] = "marked"
      /\ rows["claim_evidence"] = "marked" => rows["claims"] = "marked"
      /\ rows["share_links"] = "marked" => rows["story_pages"] = "marked"
      /\ rows["family_comments"] = "marked" => rows["story_pages"] = "marked"
  BY OrderedMeans DEF Ended
<1>2. /\ rows["deletion_requests"] # "marked" /\ rows["claim_corrections"] # "marked"
      /\ rows["access_logs"] # "marked"
  BY DEF Kinds
<1>3. C \subseteq Tables \ {"projects", "deletion_requests"}
  BY DEF Captured, Due, Tables, InterviewTables, ClaimTables, StoryTables
<1>4. \A table \in Tables \ {"projects"} : rows[table] = "marked" => table \in C
  BY <1>1, <1>2 DEF Captured, Due, Tables, InterviewTables, ClaimTables, StoryTables
<1>5. \A table \in C \ Dropped : rows[table] = "marked"
  BY DEF Captured, Due, Dropped
<1>6. \A table \in {"claim_evidence", "claim_corrections"} :
        table \in C <=> rows["claims"] = "marked"
  BY DEF Captured, Due, InterviewTables
<1>7. "access_logs" \in C <=> rows["story_pages"] = "marked"
  BY DEF Captured, Due, InterviewTables
<1>8. QED
  BY <1>3, <1>4, <1>5, <1>6, <1>7

\* After all statements exactly the collected rows are gone.
LEMMA AfterAll ==
  ASSUME NEW rows, NEW captured \in SUBSET (Tables \ {"projects", "deletion_requests"})
  PROVE  /\ After(Len(DeleteOrder), rows, captured) =
              [table \in Tables |-> IF table \in captured THEN "none" ELSE rows[table]]
         /\ Deleted(Ours, rows, captured) =
              [table \in Tables |->
                 IF table \in captured THEN "none"
                 ELSE IF table = "deletion_requests" /\ rows[table] # "none" THEN "executed"
                 ELSE rows[table]]
<1>1. \A table \in Tables :
        table \in captured => \E i \in 1..Len(DeleteOrder) : DeleteOrder[i] = table
  BY DeletedTables, DeletePositions
<1>2. After(Len(DeleteOrder), rows, captured) =
        [table \in Tables |-> IF table \in captured THEN "none" ELSE rows[table]]
  BY <1>1 DEF After
<1>3. "deletion_requests" \in Tables
  BY DEF Tables
<1>4. QED
  BY <1>2, <1>3 DEF Deleted, Due

\* What a transaction that was not refused leaves is whole and ordered.
LEMMA DeletedSound ==
  ASSUME NEW rows, Kinds(rows), Ordered(rows), source \in Source,
         NEW captured \in SUBSET (Tables \ {"projects", "deletion_requests"}),
         ~Refused(rows, captured)
  PROVE  /\ Whole(Deleted(Ours, rows, captured), source)
         /\ Ordered(Deleted(Ours, rows, captured))
         /\ Kinds(Deleted(Ours, rows, captured))
<1> DEFINE after == [table \in Tables |-> IF table \in captured THEN "none" ELSE rows[table]]
           left == Deleted(Ours, rows, captured)
<1>1. /\ left = [table \in Tables |->
                   IF table \in captured THEN "none"
                   ELSE IF table = "deletion_requests" /\ rows[table] # "none" THEN "executed"
                   ELSE rows[table]]
      /\ After(Len(DeleteOrder), rows, captured) = after
  BY AfterAll
<1> HIDE DEF left
<1>2. Whole(after, source)
  BY <1>1, DeletePositions DEF Refused
<1>3. \A table \in Tables : left[table] = "none" <=> after[table] = "none"
  BY <1>1
<1>4. Whole(left, source)
  BY <1>2, <1>3, ReferencesAmongTables DEF Whole
<1>5. Ordered(left)
  <2> SUFFICES ASSUME NEW pair \in MarkedAfter, Ended(left[pair[1]])
               PROVE  left[pair[2]] = "marked"
    BY DEF Ordered
  <2>1. pair[1] \in Tables /\ pair[2] \in Tables /\ pair[2] # "deletion_requests"
    BY MarkedAfterAmongTables
  <2>2. left[pair[1]] # "none" /\ Ended(rows[pair[1]])
    BY <1>1, <2>1 DEF Ended, Kinds
  <2>3. rows[pair[2]] = "marked"
    BY <2>2 DEF Ordered
  <2>4. pair[2] = "projects" \/ left[pair[2]] # "none"
    BY <1>4, <2>2, MarkedAfterReferences DEF Whole
  <2>5. QED
    BY <1>1, <2>1, <2>3, <2>4
<1>6. Kinds(left)
  <2>1. \A table \in Tables : table # "deletion_requests" => left[table] \in {"none", rows[table]}
    BY <1>1
  <2>2. left["projects"] = rows["projects"]
    BY <1>1 DEF Tables
  <2>3. left["deletion_requests"] \in {"none", "executed"}
    BY <1>1 DEF Tables, Kinds
  <2>4. {"claim_corrections", "access_logs", "projects"} \subseteq Tables
    BY DEF Tables, ClaimTables, StoryTables
  <2>5. QED
    BY <2>1, <2>2, <2>3, <2>4 DEF Kinds, Unmarkable
<1>7. QED
  BY <1>4, <1>5, <1>6 DEF left

\* The keys refuse nothing when all rows that can be marked are, and what is on disk is
\* collected from memory.
LEMMA NotRefused ==
  ASSUME NEW mem, NEW dsk, Kinds(mem), Kinds(dsk), Ordered(mem), Whole(dsk, source),
         source \in Source,
         \A table \in Tables : dsk[table] \in {"none", mem[table]},
         \A table \in Tables \ Unmarkable : dsk[table] # "live"
  PROVE  ~Refused(dsk, Captured(Ours, mem))
<1> DEFINE C == Captured(Ours, mem)
<1>1. /\ C \subseteq Tables \ {"projects", "deletion_requests"}
      /\ \A table \in Tables \ {"projects"} : mem[table] = "marked" => table \in C
      /\ \A table \in {"claim_evidence", "claim_corrections"} :
           table \in C <=> mem["claims"] = "marked"
      /\ "access_logs" \in C <=> mem["story_pages"] = "marked"
  BY CapturesMarked
<1> HIDE DEF C
<1>2. \A table \in Tables \ ({"projects"} \cup Unmarkable) :
        dsk[table] # "none" => mem[table] = "marked" /\ table \in C
  BY <1>1 DEF Kinds
<1>3. mem["share_links"] = "marked" => mem["story_pages"] = "marked"
  BY OrderedMeans DEF Ended
<1>4. \A ref \in References(source) :
        dsk[ref[1]] # "none" /\ dsk[ref[2]] # "none" => ref[1] \in C
  <2> SUFFICES ASSUME NEW ref \in References(source), dsk[ref[1]] # "none", dsk[ref[2]] # "none"
               PROVE  ref[1] \in C
    OBVIOUS
  <2>1. mem[ref[2]] = "marked"
    BY <1>2, ReferencesAmongTables DEF Targets, Unmarkable
  <2>2. ref[1] \in Tables \ {"projects", "deletion_requests"}
    BY OtherReferences DEF Tables, InterviewTables, ClaimTables, StoryTables
  <2>3. CASE ref[1] \notin Unmarkable
    BY <1>2, <2>2, <2>3
  <2>4. CASE ref[1] = "claim_corrections"
    <3>1. ref[2] = "claims"
      BY <2>4, OtherReferences
    <3>2. QED
      BY <1>1, <2>1, <2>4, <3>1
  <2>5. CASE ref[1] = "access_logs"
    <3>1. ref[2] \in {"story_pages", "share_links"}
      BY <2>5, OtherReferences
    <3>2. QED
      BY <1>1, <1>3, <2>1, <2>5, <3>1
  <2>6. QED
    BY <2>2, <2>3, <2>4, <2>5 DEF Unmarkable
<1>5. ASSUME NEW n \in 1..Len(DeleteOrder) PROVE Whole(After(n, dsk, C), source)
  <2> SUFFICES ASSUME NEW ref \in References(source),
                      After(n, dsk, C)[ref[1]] # "none",
                      After(n, dsk, C)[ref[2]] = "none"
               PROVE  FALSE
    BY DEF Whole
  <2>1. ref[1] \in Tables /\ ref[2] \in Tables
    BY ReferencesAmongTables
  <2>2. dsk[ref[1]] # "none" /\ dsk[ref[2]] # "none"
    BY <2>1 DEF After, Whole
  <2>3. PICK i \in 1..n : DeleteOrder[i] = ref[2]
    BY <2>1, <2>2 DEF After
  <2>4. i \in 1..14 /\ n \in Nat
    BY DeletePositions
  <2>5. PICK k \in 1..i : DeleteOrder[k] = ref[1]
    BY <2>3, <2>4, ReferringDeletedFirst
  <2>6. k \in 1..n
    BY <2>4, <2>5
  <2>7. QED
    BY <1>4, <2>1, <2>2, <2>5, <2>6 DEF After
<1>6. QED
  BY <1>5 DEF Refused, C

-----------------------------------------------------------------------------
(* Rows in order *)

LEMMA KindsAreRows ==
  ASSUME NEW rows, Kinds(rows)
  PROVE  \A table \in Tables : rows[table] \in Row
BY DEF Kinds, Row, Unmarkable

LEMMA OrderedIf ==
  ASSUME NEW rows,
         Ended(rows["deletion_requests"]) => rows["projects"] = "marked",
         Ended(rows["claim_evidence"]) => rows["claims"] = "marked",
         Ended(rows["citations"]) => rows["chapters"] = "marked",
         Ended(rows["share_links"]) => rows["story_pages"] = "marked",
         Ended(rows["family_comments"]) => rows["story_pages"] = "marked",
         \A table \in StoryTables : Ended(rows[table]) => rows["projects"] = "marked"
  PROVE  Ordered(rows)
BY DEF Ordered, MarkedAfter

\* Rows of a whole project stand with those they refer to.
LEMMA WholeMeans ==
  ASSUME NEW rows, NEW src \in Source, Whole(rows, src)
  PROVE  /\ rows["photo_analyses"] # "none" => rows["photos"] # "none"
         /\ rows["transcript_segments"] # "none" => rows["audio_recordings"] # "none"
         /\ rows["claim_evidence"] # "none" => rows["claims"] # "none"
         /\ rows["claim_corrections"] # "none" => rows["claims"] # "none"
         /\ rows["citations"] # "none" => rows["chapters"] # "none"
<1>1. \A a, b : <<a, b>> \in References(src) => (rows[a] # "none" => rows[b] # "none")
  BY DEF Whole
<1>2. /\ <<"photo_analyses", "photos">> \in References(src)
      /\ <<"transcript_segments", "audio_recordings">> \in References(src)
      /\ <<"claim_evidence", "claims">> \in References(src)
      /\ <<"claim_corrections", "claims">> \in References(src)
      /\ <<"citations", "chapters">> \in References(src)
  BY FixedReferences
<1>3. QED
  BY <1>1, <1>2

\* A process that is idle knows what the database has, but for rows a purge deleted.
LEMMA IdleFacts ==
  ASSUME PurgeInv, ~failed, saves = <<>>
  PROVE  /\ \A table \in Tables : Settled(memory[Ours], disk[Ours], table)
         /\ \A table \in Tables : memory[Ours][table] = "none" => disk[Ours][table] = "none"
         /\ \A table \in Tables \ Dropped :
              memory[Ours][table] = "live" => disk[Ours][table] = "live"
         /\ \A table \in Tables : disk[Ours][table] \in {"none", memory[Ours][table]}
         /\ ~Has("deletion_requests", "executed") => disk[Ours] = memory[Ours]
<1> DEFINE mem == memory[Ours]
           dsk == disk[Ours]
<1>1. \A table \in Tables : ~Waits(saves, table)
  BY DEF Waits
<1>2. \A table \in Tables : Settled(mem, dsk, table)
  BY <1>1 DEF PurgeInv, SavesInv
<1>3. mem \in [Tables -> Row] /\ dsk \in [Tables -> Row]
  BY DEF PurgeInv, TypeOK, Projects
<1>4. QED
  BY <1>2, <1>3 DEF Settled, Has

\* The owner of a project works on one that no purge has touched.
LEMMA OwnedFacts ==
  ASSUME PurgeInv, ~failed, saves = <<>>, Owned
  PROVE  /\ Has("deletion_requests", "none")
         /\ disk[Ours] = memory[Ours]
         /\ \A table \in StoryTables : memory[Ours][table] # "marked"
<1>1. Ordered(memory[Ours]) /\ Kinds(memory[Ours])
  BY DEF PurgeInv, RowsInv
<1>2. Has("deletion_requests", "none")
  BY <1>1, OrderedMeans DEF Owned, Has, Ended, Kinds
<1>3. QED
  BY <1>1, <1>2, IdleFacts, OrderedMeans DEF Owned, Has, Ended

-----------------------------------------------------------------------------
(* Handlers *)

\* A handler keeps the invariant when what it writes is whole and ordered and its
\* transactions cover it in a safe order.
LEMMA HandlerStep ==
  ASSUME PurgeInv, NEW rows, NEW s \in Seq(SUBSET Tables), Handle(rows, s),
         \A table \in DOMAIN rows : Waits(s, table) \/ rows[table] = memory[Ours][table],
         source' \in Source, streaming' \in BOOLEAN,
         "deletion_requests" \in DOMAIN rows => Has("deletion_requests", "none"),
         Kinds(memory'[Ours]), Ordered(memory'[Ours]),
         Whole(disk[Ours], source'),
         disk[Ours]["projects"] = "live" /\ disk[Ours]["claims"] # "none" =>
           SourcesThere(disk[Ours], source'),
         Ready(s, memory'[Ours], disk[Ours], source')
  PROVE  PurgeInv'
<1> USE DEF PurgeInv
<1>1. /\ saves' = s /\ UNCHANGED <<disk, failed, errors>> /\ ~failed /\ saves = <<>>
  BY DEF Handle, Idle
<1>2. /\ memory'[Ours] = [table \in Tables |-> IF table \in DOMAIN rows THEN rows[table]
                                              ELSE memory[Ours][table]]
      /\ memory'[Other] = memory[Other]
      /\ DOMAIN memory' = Projects /\ memory' = [p \in Projects |-> memory'[p]]
  BY ProjectAssumption DEF Handle, TypeOK, Projects
<1>3. TypeOK'
  <2>1. memory'[Ours] \in [Tables -> Row]
    BY <1>2, KindsAreRows
  <2>2. memory'[Other] \in [Tables -> Row]
    BY <1>2 DEF TypeOK, Projects
  <2>3. memory' \in [Projects -> [Tables -> Row]]
    BY <1>2, <2>1, <2>2 DEF Projects
  <2>4. QED
    BY <1>1, <2>3 DEF TypeOK
<1>4. OthersUntouched'
  BY <1>1, <1>2 DEF OthersUntouched
<1>5. RowsInv'
  BY <1>1 DEF RowsInv
<1>6. SavesInv'
  <2> SUFFICES ASSUME NEW table \in Tables, ~Waits(s, table)
               PROVE  Settled(memory'[Ours], disk[Ours], table)
    BY <1>1 DEF SavesInv
  <2>1. memory'[Ours][table] = memory[Ours][table]
    BY <1>2
  <2>2. Has("deletion_requests", "executed") => memory'[Ours]["deletion_requests"] = "executed"
    BY <1>2 DEF Has, Tables
  <2>3. Settled(memory[Ours], disk[Ours], table)
    BY <1>1, IdleFacts
  <2>4. QED
    BY <2>1, <2>2, <2>3 DEF Settled, Has
<1>7. FailedInv'
  BY <1>1 DEF FailedInv
<1>8. QED
  BY <1>1, <1>3, <1>4, <1>5, <1>6, <1>7

\* One new row, once the rows it refers to are there.
LEMMA InsertStep ==
  ASSUME PurgeInv, NEW table \in Tables \ {"projects", "deletion_requests", "claims"},
         Insert(table),
         \A ref \in References(source) : ref[1] = table => Has(ref[2], "live")
  PROVE  PurgeInv'
<1> DEFINE rows == One(table, "live")
           s == <<{table}>>
           mem == memory[Ours]
           dsk == disk[Ours]
           new == memory'[Ours]
<1>1. /\ Handle(rows, s) /\ UNCHANGED <<source, streaming>> /\ mem[table] = "none"
      /\ ~failed /\ saves = <<>>
  BY DEF Insert, Handle, Idle, Has
<1>2. DOMAIN rows = {table} /\ rows[table] = "live"
  BY DEF One
<1>3. mem \in [Tables -> Row] /\ source \in Source /\ streaming \in BOOLEAN
  BY DEF PurgeInv, TypeOK, Projects
<1>4. \A t \in Tables : new[t] = IF t = table THEN "live" ELSE mem[t]
  BY <1>1, <1>2 DEF Handle, PurgeInv, TypeOK, Projects
<1>5. s \in Seq(SUBSET Tables) /\ Len(s) = 1 /\ s[1] = {table} /\ Waits(s, table)
  BY DEF Waits
<1>6. Kinds(mem) /\ Ordered(mem) /\ Whole(dsk, source) /\ dsk[table] = "none"
  BY <1>1, IdleFacts DEF PurgeInv, RowsInv
<1> HIDE DEF rows, s
<1>7. Kinds(new)
  BY <1>4, <1>6 DEF Kinds, Tables, Unmarkable, ClaimTables, StoryTables
<1>8. Ordered(new)
  <2> SUFFICES ASSUME NEW pair \in MarkedAfter, Ended(new[pair[1]])
               PROVE  new[pair[2]] = "marked"
    BY DEF Ordered
  <2>1. pair[1] \in Tables /\ pair[2] \in Tables
    BY MarkedAfterAmongTables
  <2>2. Ended(mem[pair[1]])
    BY <1>4, <2>1 DEF Ended
  <2>3. mem[pair[2]] = "marked"
    BY <1>6, <2>2 DEF Ordered
  <2>4. QED
    BY <1>1, <1>4, <2>1, <2>3
<1>9. Ready(s, new, dsk, source)
  <2>1. \A ref \in References(source) : ref[1] = table => dsk[ref[2]] # "none"
    BY <1>1, <1>3, IdleFacts, ReferencesAmongTables DEF Has, Targets, Dropped
  <2>2. QED
    BY <1>4, <1>5, <1>6, <2>1 DEF Ready, Ended
<1>10. QED
  BY <1>1, <1>2, <1>3, <1>5, <1>6, <1>7, <1>8, <1>9, HandlerStep DEF PurgeInv, RowsInv

LEMMA InsertingHandlers ==
  ASSUME PurgeInv,
         CompletePhoto \/ CreatePhotoAnalysis \/ CreateShareLink \/ VisitStory \/ ExportPdf
  PROVE  PurgeInv'
<1>1. source \in Source
  BY DEF PurgeInv, TypeOK
<1>2. {"photos", "photo_analyses", "share_links", "access_logs", "family_comments",
       "pdf_exports"} \subseteq Tables \ {"projects", "deletion_requests", "claims"}
  BY DEF Tables, InterviewTables, StoryTables
<1>3. CASE CompletePhoto
  <2>1. \A ref \in References(source) : ref[1] # "photos"
    BY <1>1, OtherReferences
  <2>2. QED
    BY <1>2, <1>3, <2>1, InsertStep DEF CompletePhoto
<1>4. CASE CreatePhotoAnalysis
  <2>1. \A ref \in References(source) : ref[1] = "photo_analyses" => ref[2] = "photos"
    BY <1>1, OtherReferences
  <2>2. QED
    BY <1>2, <1>4, <2>1, InsertStep DEF CreatePhotoAnalysis
<1>5. CASE CreateShareLink
  <2>1. \A ref \in References(source) : ref[1] = "share_links" => ref[2] = "story_pages"
    BY <1>1, OtherReferences
  <2>2. QED
    BY <1>2, <1>5, <2>1, InsertStep DEF CreateShareLink
<1>6. CASE VisitStory
  <2>1. \A ref \in References(source) :
          ref[1] \in {"access_logs", "family_comments"} => ref[2] \in {"story_pages", "share_links"}
    BY <1>1, OtherReferences
  <2>2. QED
    BY <1>2, <1>6, <2>1, InsertStep DEF VisitStory
<1>7. CASE ExportPdf
  <2>1. \A ref \in References(source) : ref[1] = "pdf_exports" => ref[2] = "story_pages"
    BY <1>1, OtherReferences
  <2>2. QED
    BY <1>2, <1>7, <2>1, InsertStep DEF ExportPdf
<1>8. QED
  BY <1>3, <1>4, <1>5, <1>6, <1>7

\* The rows of a handler, table by table.
LEMMA NewRows ==
  ASSUME PurgeInv, NEW rows, NEW s, Handle(rows, s)
  PROVE  /\ \A table \in Tables :
              memory'[Ours][table] = IF table \in DOMAIN rows THEN rows[table]
                                     ELSE memory[Ours][table]
         /\ ~failed /\ saves = <<>>
         /\ Kinds(memory[Ours]) /\ Ordered(memory[Ours]) /\ Whole(disk[Ours], source)
         /\ memory[Ours] \in [Tables -> Row] /\ disk[Ours] \in [Tables -> Row]
         /\ source \in Source /\ streaming \in BOOLEAN
BY DEF Handle, Idle, PurgeInv, RowsInv, TypeOK, Projects

LEMMA DeletePhotoStep == PurgeInv /\ DeletePhoto => PurgeInv'
<1> SUFFICES ASSUME PurgeInv, DeletePhoto PROVE PurgeInv'
  OBVIOUS
<1> DEFINE rows == One("photos", "marked")
           s == <<{"photos"}>>
           mem == memory[Ours]
           dsk == disk[Ours]
           new == memory'[Ours]
<1>1. /\ Handle(rows, s) /\ UNCHANGED <<source, streaming>> /\ mem["photos"] = "live"
      /\ DOMAIN rows = {"photos"} /\ rows["photos"] = "marked"
  BY DEF DeletePhoto, Has, One
<1> HIDE DEF rows
<1>2. \A t \in Tables : new[t] = IF t = "photos" THEN "marked" ELSE mem[t]
  BY <1>1, NewRows
<1>3. "photos" \in Tables /\ \A pair \in MarkedAfter : pair[1] # "photos" /\ pair[2] # "photos"
  BY DEF MarkedAfter, Tables, InterviewTables, StoryTables
<1>4. Kinds(new) /\ Ordered(new)
  <2>1. Kinds(mem) /\ Ordered(mem)
    BY <1>1, NewRows
  <2>2. Kinds(new)
    BY <1>2, <2>1 DEF Kinds, Tables, Unmarkable, ClaimTables, StoryTables
  <2>3. Ordered(new)
    BY <1>2, <1>3, <2>1, MarkedAfterAmongTables DEF Ordered
  <2>4. QED
    BY <2>2, <2>3
<1>5. Ready(s, new, dsk, source)
  <2>1. \A ref \in References(source) : ref[1] # "photos"
    BY <1>1, NewRows, OtherReferences
  <2>2. Len(s) = 1 /\ s[1] = {"photos"}
    OBVIOUS
  <2>3. QED
    BY <1>2, <1>3, <2>1, <2>2 DEF Ready
<1>6. s \in Seq(SUBSET Tables) /\ Waits(s, "photos")
  BY <1>3 DEF Waits
<1>7. QED
  BY <1>1, <1>4, <1>5, <1>6, NewRows, HandlerStep DEF PurgeInv, RowsInv

LEMMA RecordChunkStep ==
  ASSUME PurgeInv, NEW with_text \in BOOLEAN, RecordChunk(with_text)
  PROVE  PurgeInv'
<1> DEFINE rows == [t \in {"audio_recordings"} \cup (IF with_text THEN {"transcript_segments"} ELSE {})
                      |-> KeptOrNew(t)]
           s == ChunkSaves
           mem == memory[Ours]
           dsk == disk[Ours]
           new == memory'[Ours]
<1>1. Handle(rows, s) /\ UNCHANGED <<source, streaming>>
  BY DEF RecordChunk
<1>2. /\ DOMAIN rows \subseteq {"audio_recordings", "transcript_segments"}
      /\ "audio_recordings" \in DOMAIN rows
      /\ \A t \in DOMAIN rows : rows[t] = IF mem[t] = "none" THEN "live" ELSE mem[t]
  BY DEF KeptOrNew, Has
<1> HIDE DEF rows, s
<1>3. {"audio_recordings", "transcript_segments"}
        \subseteq Tables \ ({"projects", "deletion_requests", "citations", "claims"} \cup Unmarkable)
  BY DEF Tables, InterviewTables, Unmarkable
<1>4. /\ \A t \in Tables : new[t] # mem[t] => mem[t] = "none" /\ new[t] = "live"
                                             /\ t \in {"audio_recordings", "transcript_segments"}
      /\ new["audio_recordings"] # "none"
  BY <1>1, <1>2, <1>3, NewRows
<1>5. \A pair \in MarkedAfter : /\ pair[1] \notin {"audio_recordings", "transcript_segments"}
                                /\ pair[2] \notin {"audio_recordings", "transcript_segments"}
  BY DEF MarkedAfter, StoryTables
<1>6. Kinds(new) /\ Ordered(new)
  <2>1. Kinds(mem) /\ Ordered(mem)
    BY <1>1, NewRows
  <2>2. Kinds(new)
    BY <1>3, <1>4, <2>1 DEF Kinds, Tables, ClaimTables, StoryTables
  <2>3. Ordered(new)
    BY <1>4, <1>5, <2>1, MarkedAfterAmongTables DEF Ordered
  <2>4. QED
    BY <2>2, <2>3
<1>7. /\ s \in Seq(SUBSET Tables) /\ Len(s) = 2
      /\ s[1] = {"audio_recordings"} /\ s[2] = {"transcript_segments"}
  BY <1>3 DEF s, ChunkSaves
<1>8. Ready(s, new, dsk, source)
  <2>1. \A ref \in References(source) :
          /\ ref[1] # "audio_recordings"
          /\ ref[1] = "transcript_segments" => ref[2] = "audio_recordings"
    BY <1>1, NewRows, OtherReferences
  <2>2. \A t \in Tables : /\ new[t] = "none" => dsk[t] = "none"
                          /\ dsk[t] = "marked" => new[t] = "marked"
    BY <1>1, <1>4, NewRows, IdleFacts
  <2>3. \A t \in s[1] : t = "audio_recordings"
    BY <1>7
  <2>4. \A t \in s[2] : t = "transcript_segments"
    BY <1>7
  <2>5. "audio_recordings" \in s[1]
    BY <1>7
  <2>6. QED
    BY <1>3, <1>4, <1>5, <1>7, <2>1, <2>2, <2>3, <2>4, <2>5 DEF Ready
<1>9. \A t \in DOMAIN rows : Waits(s, t)
  BY <1>2, <1>7 DEF Waits
<1>10. QED
  BY <1>1, <1>2, <1>3, <1>6, <1>7, <1>8, <1>9, NewRows, HandlerStep DEF PurgeInv, RowsInv

\* A claim with evidence that is there.
LEMMA NewClaimStep ==
  ASSUME PurgeInv, NEW e \in Source, NewClaim(e), SourcesThere(disk[Ours], e)
  PROVE  PurgeInv'
<1> DEFINE rows == [t \in {"claims", "claim_evidence"} |-> "live"]
           s == ClaimSaves
           mem == memory[Ours]
           dsk == disk[Ours]
           new == memory'[Ours]
<1>1. /\ Handle(rows, s) /\ source' = e /\ streaming' = streaming /\ mem["claims"] = "none"
      /\ DOMAIN rows = {"claims", "claim_evidence"}
      /\ rows["claims"] = "live" /\ rows["claim_evidence"] = "live"
  BY DEF NewClaim, Has
<1> HIDE DEF rows, s
<1>2. {"claims", "claim_evidence"} \subseteq Tables
  BY DEF Tables, ClaimTables
<1>3. \A t \in Tables : new[t] = IF t \in {"claims", "claim_evidence"} THEN "live" ELSE mem[t]
  BY <1>1, NewRows
<1>4. Kinds(mem) /\ Ordered(mem) /\ Whole(dsk, source) /\ ~failed /\ saves = <<>>
      /\ source \in Source
  BY <1>1, NewRows
<1>5. Kinds(new)
  BY <1>3, <1>4 DEF Kinds, Tables, Unmarkable, ClaimTables, StoryTables
<1>6. Ordered(new)
  <2>1. new["claim_evidence"] = "live" /\ new["claims"] = "live"
    BY <1>2, <1>3
  <2>2. \A t \in StoryTables \cup {"projects", "deletion_requests"} : new[t] = mem[t]
    BY <1>3 DEF Tables, StoryTables
  <2>3. \A t \in {"citations", "chapters", "share_links", "story_pages", "family_comments"} :
          new[t] = mem[t]
    BY <2>2 DEF StoryTables
  <2>4. QED
    BY <1>4, <2>1, <2>2, <2>3, OrderedMeans, OrderedIf DEF Ended
<1>7. dsk["claims"] = "none" /\ dsk["claim_evidence"] = "none"
  BY <1>1, <1>2, <1>4, IdleFacts, WholeMeans
<1>8. Whole(dsk, e)
  <2> SUFFICES ASSUME NEW ref \in References(e), dsk[ref[1]] # "none"
               PROVE  dsk[ref[2]] # "none"
    BY DEF Whole
  <2>1. ref[1] # "claim_evidence"
    BY <1>7
  <2>2. ref \in References(source)
    BY <1>4, <2>1, OtherReferences, FixedReferences
  <2>3. QED
    BY <1>4, <2>2 DEF Whole
<1>9. /\ s \in Seq(SUBSET Tables) /\ Len(s) = 2
      /\ s[1] = {"claims"} /\ s[2] = {"claim_evidence"}
  BY <1>2 DEF s, ClaimSaves
<1>10. Ready(s, new, dsk, e)
  <2>1. \A ref \in References(e) : ref[1] # "claims"
    BY OtherReferences
  <2>2. \A ref \in References(e) :
          ref[1] = "claim_evidence" => ref[2] = "claims" \/ dsk[ref[2]] # "none"
    BY DEF SourcesThere
  <2>3. new["claims"] = "live" /\ new["claim_evidence"] = "live"
    BY <1>2, <1>3
  <2>4. (\A t \in s[1] : t = "claims") /\ (\A t \in s[2] : t = "claim_evidence") /\ "claims" \in s[1]
    BY <1>9
  <2>5. QED
    BY <1>7, <1>9, <2>1, <2>2, <2>3, <2>4 DEF Ready, Ended
<1>11. \A t \in DOMAIN rows : Waits(s, t)
  BY <1>1, <1>9 DEF Waits
<1>12. QED
  BY <1>1, <1>5, <1>6, <1>8, <1>9, <1>10, <1>11, NewRows, HandlerStep

LEMMA ClaimHandlers == PurgeInv /\ (SaveClaim \/ ConvertPhotoAnalysis) => PurgeInv'
<1> SUFFICES ASSUME PurgeInv, SaveClaim \/ ConvertPhotoAnalysis PROVE PurgeInv'
  OBVIOUS
<1>1. ~failed /\ saves = <<>> /\ source \in Source /\ Whole(disk[Ours], source)
  BY DEF SaveClaim, ConvertPhotoAnalysis, NewClaim, Handle, Idle, PurgeInv, RowsInv, TypeOK
<1>2. \A table \in Tables \ Dropped :
        memory[Ours][table] = "live" => disk[Ours][table] # "none"
  BY <1>1, IdleFacts
<1>3. {"photo_analyses", "transcript_segments"} \subseteq Tables \ Dropped
  BY DEF Tables, InterviewTables, Dropped
<1>4. {"user_input", "photos", "transcript_segments"} = Source
  BY DEF Source
<1>5. CASE SaveClaim
  <2>1. CASE NewClaim("user_input")
    <3>1. SourcesThere(disk[Ours], "user_input")
      BY <1>4, OtherReferences DEF SourcesThere
    <3>2. QED
      BY <1>4, <2>1, <3>1, NewClaimStep
  <2>2. CASE Has("transcript_segments", "live") /\ NewClaim("transcript_segments")
    <3>1. disk[Ours]["transcript_segments"] # "none" /\ disk[Ours]["audio_recordings"] # "none"
      BY <1>1, <1>2, <1>3, <2>2, WholeMeans DEF Has
    <3>2. SourcesThere(disk[Ours], "transcript_segments")
      BY <1>4, <3>1, OtherReferences DEF SourcesThere
    <3>3. QED
      BY <1>4, <2>2, <3>2, NewClaimStep
  <2>3. QED
    BY <1>5, <2>1, <2>2 DEF SaveClaim
<1>6. CASE ConvertPhotoAnalysis
  <2>1. disk[Ours]["photos"] # "none"
    BY <1>1, <1>2, <1>3, <1>6, WholeMeans DEF ConvertPhotoAnalysis, Has
  <2>2. SourcesThere(disk[Ours], "photos")
    BY <1>4, <2>1, OtherReferences DEF SourcesThere
  <2>3. QED
    BY <1>4, <1>6, <2>2, NewClaimStep DEF ConvertPhotoAnalysis
<1>7. QED
  BY <1>5, <1>6

LEMMA CorrectClaimStep == PurgeInv /\ CorrectClaim => PurgeInv'
<1> SUFFICES ASSUME PurgeInv, CorrectClaim PROVE PurgeInv'
  OBVIOUS
<1> DEFINE mem == memory[Ours]
           dsk == disk[Ours]
           new == memory'[Ours]
           s == ClaimSaves \o <<{"claim_corrections"}>>
<1>1. PICK row \in {mem["claims"], "marked"} :
        Handle([t \in {"claims", "claim_evidence", "claim_corrections"} |->
                  IF t = "claim_corrections" THEN "live" ELSE row], s)
  BY DEF CorrectClaim
<1> DEFINE rows == [t \in {"claims", "claim_evidence", "claim_corrections"} |->
                      IF t = "claim_corrections" THEN "live" ELSE row]
<1>2. /\ Handle(rows, s) /\ UNCHANGED <<source, streaming>> /\ Owned /\ mem["claims"] # "none"
      /\ DOMAIN rows = {"claims", "claim_evidence", "claim_corrections"}
      /\ rows["claims"] = row /\ rows["claim_evidence"] = row
      /\ rows["claim_corrections"] = "live"
  BY <1>1 DEF CorrectClaim, Has
<1> HIDE DEF rows
<1>3. /\ Kinds(mem) /\ Ordered(mem) /\ Whole(dsk, source) /\ ~failed /\ saves = <<>>
      /\ source \in Source
  BY <1>2, NewRows
<1>4. dsk = mem
  BY <1>2, <1>3, OwnedFacts
<1>5. {"claims", "claim_evidence", "claim_corrections"} \subseteq Tables
  BY DEF Tables, ClaimTables
<1>6. \A t \in Tables : new[t] = IF t \in {"claims", "claim_evidence"} THEN row
                                 ELSE IF t = "claim_corrections" THEN "live" ELSE mem[t]
  BY <1>2, NewRows
<1>7. /\ new["claims"] = row /\ new["claim_evidence"] = row /\ new["claim_corrections"] = "live"
      /\ \A t \in StoryTables \cup {"projects", "deletion_requests"} : new[t] = mem[t]
  BY <1>5, <1>6 DEF Tables, ClaimTables, StoryTables
<1>8. row \in {"live", "marked"} /\ (mem["claims"] = "marked" => row = "marked")
  BY <1>2, <1>3, <1>5 DEF Kinds, Unmarkable
<1>9. Kinds(new)
  BY <1>3, <1>6, <1>7, <1>8 DEF Kinds, Tables, Unmarkable, ClaimTables, StoryTables
<1>10. Ordered(new)
  <2>1. \A t \in {"citations", "chapters", "share_links", "story_pages", "family_comments"} :
          new[t] = mem[t]
    BY <1>7 DEF StoryTables
  <2>2. QED
    BY <1>3, <1>7, <1>8, <2>1, OrderedMeans, OrderedIf DEF Ended
<1>11. SourcesThere(dsk, source)
  BY <1>2, <1>4 DEF PurgeInv, RowsInv, Owned, Has
<1>12. /\ s \in Seq(SUBSET Tables) /\ Len(s) = 3
       /\ s[1] = {"claims"} /\ s[2] = {"claim_evidence"} /\ s[3] = {"claim_corrections"}
  BY <1>5 DEF ClaimSaves
<1> HIDE DEF s
<1>13. Ready(s, new, dsk, source)
  <2>1. \A ref \in References(source) :
          /\ ref[1] # "claims"
          /\ ref[1] = "claim_evidence" => ref[2] = "claims" \/ dsk[ref[2]] # "none"
          /\ ref[1] = "claim_corrections" => ref[2] = "claims"
    BY <1>3, <1>11, OtherReferences DEF SourcesThere
  <2>2. /\ dsk["claims"] # "none"
        /\ dsk["claims"] = "marked" => row = "marked"
        /\ dsk["claim_evidence"] = "marked" => row = "marked"
        /\ dsk["claim_corrections"] # "marked"
    BY <1>2, <1>3, <1>4, <1>8, OrderedMeans DEF Kinds, Ended
  <2>3. /\ \A t \in s[1] : t = "claims"
        /\ \A t \in s[2] : t = "claim_evidence"
        /\ \A t \in s[3] : t = "claim_corrections"
        /\ "claims" \in s[1]
    BY <1>12
  <2>4. \A pair \in MarkedAfter :
          /\ pair[1] \notin {"claims", "claim_corrections"}
          /\ pair[1] = "claim_evidence" => pair[2] = "claims"
    BY DEF MarkedAfter, StoryTables
  <2>5. QED
    BY <1>7, <1>8, <1>11, <1>12, <2>1, <2>2, <2>3, <2>4 DEF Ready
<1>14. \A t \in DOMAIN rows : Waits(s, t)
  BY <1>2, <1>12 DEF Waits
<1>15. QED
  BY <1>2, <1>3, <1>9, <1>10, <1>11, <1>12, <1>13, <1>14, NewRows, HandlerStep

LEMMA GenerateStoryStep == PurgeInv /\ GenerateStory => PurgeInv'
<1> SUFFICES ASSUME PurgeInv, GenerateStory PROVE PurgeInv'
  OBVIOUS
<1> DEFINE mem == memory[Ours]
           dsk == disk[Ours]
           new == memory'[Ours]
           s == <<{"story_pages"}, {"chapters", "citations"}>>
<1>1. PICK cited \in {"none"} \cup {row \in {"live"} : Has("claims", "live")} :
        Handle([t \in {"story_pages", "chapters", "citations"} |->
                  IF t = "citations" THEN cited ELSE "live"], s)
  BY DEF GenerateStory
<1> DEFINE rows == [t \in {"story_pages", "chapters", "citations"} |->
                      IF t = "citations" THEN cited ELSE "live"]
<1>2. /\ Handle(rows, s) /\ UNCHANGED <<source, streaming>> /\ Owned
      /\ DOMAIN rows = {"story_pages", "chapters", "citations"}
      /\ rows["story_pages"] = "live" /\ rows["chapters"] = "live" /\ rows["citations"] = cited
  BY <1>1 DEF GenerateStory
<1> HIDE DEF rows
<1>3. /\ Kinds(mem) /\ Ordered(mem) /\ Whole(dsk, source) /\ ~failed /\ saves = <<>>
      /\ source \in Source
  BY <1>2, NewRows
<1>4. dsk = mem /\ \A t \in StoryTables : mem[t] # "marked"
  BY <1>2, <1>3, OwnedFacts
<1>5. {"story_pages", "chapters", "citations"} \subseteq Tables
  BY DEF Tables, StoryTables
<1>6. \A t \in Tables : new[t] = IF t \in {"story_pages", "chapters"} THEN "live"
                                 ELSE IF t = "citations" THEN cited ELSE mem[t]
  BY <1>2, NewRows
<1>7. cited = "none" \/ (cited = "live" /\ mem["claims"] = "live")
  BY DEF Has
<1>8. /\ new["story_pages"] = "live" /\ new["chapters"] = "live" /\ new["citations"] = cited
      /\ \A t \in {"claims", "claim_evidence", "projects", "deletion_requests"} : new[t] = mem[t]
  BY <1>5, <1>6 DEF Tables, ClaimTables
<1>9. Kinds(new)
  BY <1>3, <1>6, <1>7, <1>8 DEF Kinds, Tables, Unmarkable, ClaimTables, StoryTables
<1>10. Ordered(new)
  <2>1. \A t \in StoryTables : new[t] \in {"none", "live"}
    BY <1>3, <1>4, <1>6, <1>7 DEF Kinds, Tables, Unmarkable, StoryTables
  <2>2. {"citations", "share_links", "family_comments"} \subseteq StoryTables
    BY DEF StoryTables
  <2>3. QED
    BY <1>3, <1>8, <2>1, <2>2, OrderedMeans, OrderedIf DEF Ended
<1>11. /\ s \in Seq(SUBSET Tables) /\ Len(s) = 2
       /\ s[1] = {"story_pages"} /\ s[2] = {"chapters", "citations"}
  BY <1>5
<1> HIDE DEF s
<1>12. Ready(s, new, dsk, source)
  <2>1. \A ref \in References(source) :
          /\ ref[1] \notin {"story_pages", "chapters"}
          /\ ref[1] = "citations" => ref[2] \in {"chapters", "claims"}
    BY <1>3, OtherReferences
  <2>2. \A t \in {"story_pages", "chapters", "citations"} : dsk[t] # "marked"
    BY <1>4 DEF StoryTables
  <2>3. /\ \A t \in s[1] : t = "story_pages"
        /\ \A t \in s[2] : t \in {"chapters", "citations"}
        /\ "chapters" \in s[2]
    BY <1>11
  <2>4. cited = "live" => dsk["claims"] # "none"
    BY <1>4, <1>7
  <2>5. QED
    BY <1>7, <1>8, <1>11, <2>1, <2>2, <2>3, <2>4 DEF Ready, Ended
<1>13. \A t \in DOMAIN rows : Waits(s, t)
  BY <1>2, <1>11 DEF Waits
<1>14. QED
  BY <1>2, <1>3, <1>9, <1>10, <1>11, <1>12, <1>13, NewRows, HandlerStep DEF PurgeInv, RowsInv

\* The order in which a deletion request saves its rows.
LEMMA DeletionPositions ==
  /\ Len(DeletionSaves) = 14 /\ DeletionSaves \in Seq(SUBSET Tables)
  /\ "projects" \in DeletionSaves[1] /\ "claims" \in DeletionSaves[7]
  /\ "chapters" \in DeletionSaves[9] /\ "story_pages" \in DeletionSaves[11]
  /\ \A i \in 1..14 :
       /\ "claim_evidence" \in DeletionSaves[i] => i = 8
       /\ "citations" \in DeletionSaves[i] => i = 10
       /\ "share_links" \in DeletionSaves[i] => i = 12
       /\ "family_comments" \in DeletionSaves[i] => i = 13
       /\ DeletionSaves[i] \subseteq Tables
BY DEF DeletionSaves, Tables, InterviewTables, ClaimTables, StoryTables

LEMMA DeletionCovers ==
  ASSUME NEW table \in Tables \ {"claim_corrections", "access_logs"}
  PROVE  Waits(DeletionSaves, table)
BY DEF Waits, DeletionSaves, Tables, InterviewTables, ClaimTables, StoryTables

LEMMA RequestDeletionStep == PurgeInv /\ RequestDeletion => PurgeInv'
<1> SUFFICES ASSUME PurgeInv, RequestDeletion PROVE PurgeInv'
  OBVIOUS
<1> DEFINE mem == memory[Ours]
           dsk == disk[Ours]
           new == memory'[Ours]
           rows == Marked(mem)
           s == DeletionSaves
<1>1. Handle(rows, s) /\ UNCHANGED <<source, streaming>> /\ Owned /\ DOMAIN rows = Tables
  BY DEF RequestDeletion, Marked
<1>2. /\ Kinds(mem) /\ Ordered(mem) /\ Whole(dsk, source) /\ ~failed /\ saves = <<>>
      /\ source \in Source
  BY <1>1, NewRows
<1>3. dsk = mem /\ mem["deletion_requests"] = "none" /\ mem["projects"] = "live"
  BY <1>1, <1>2, OwnedFacts DEF Owned, Has
<1>4. \A t \in Tables : new[t] = rows[t]
  BY <1>1, NewRows
<1>5. \A t \in Tables :
        new[t] = IF \/ mem[t] = "live" /\ t \notin Unmarkable
                    \/ t = "claim_evidence" /\ mem["claims"] # "none" THEN "marked"
                 ELSE IF t = "deletion_requests" THEN "pending" ELSE mem[t]
  BY <1>4 DEF Marked
<1> HIDE DEF rows
<1>6. /\ new["projects"] = "marked" /\ new["deletion_requests"] = "pending"
      /\ \A t \in {"claim_corrections", "access_logs"} : new[t] = mem[t]
  BY <1>3, <1>5 DEF Tables, Unmarkable, ClaimTables, StoryTables
<1>7. \A t \in Tables \ {"claim_corrections", "access_logs", "deletion_requests"} :
        /\ mem[t] # "none" => new[t] = "marked"
        /\ mem[t] = "none" =>
             \/ new[t] = "none"
             \/ t = "claim_evidence" /\ mem["claims"] # "none" /\ new[t] = "marked"
  <2>1. \A t \in Tables \ ({"projects"} \cup Unmarkable) : mem[t] \in {"none", "live", "marked"}
    BY <1>2 DEF Kinds
  <2>2. QED
    BY <1>3, <1>5, <2>1 DEF Unmarkable
<1>8. Kinds(new)
  BY <1>2, <1>6, <1>7 DEF Kinds, Unmarkable
<1>9. {"claims", "claim_evidence", "citations", "chapters", "share_links", "story_pages",
       "family_comments"} \subseteq Tables \ {"claim_corrections", "access_logs", "deletion_requests"}
  BY DEF Tables, ClaimTables, StoryTables
<1>10. Ordered(new)
  <2>1. /\ mem["claim_evidence"] # "none" => mem["claims"] # "none"
        /\ mem["citations"] # "none" => mem["chapters"] # "none"
    BY <1>2, <1>3, WholeMeans
  <2>2. /\ mem["share_links"] # "none" => mem["story_pages"] # "none"
        /\ mem["family_comments"] # "none" => mem["story_pages"] # "none"
    <3>1. /\ <<"share_links", "story_pages">> \in References(source)
          /\ <<"family_comments", "story_pages">> \in References(source)
      BY <1>2, FixedReferences
    <3>2. \A a, b : <<a, b>> \in References(source) => (mem[a] # "none" => mem[b] # "none")
      BY <1>2, <1>3 DEF Whole
    <3>3. QED
      BY <3>1, <3>2
  <2>3. /\ Ended(new["claim_evidence"]) => new["claims"] = "marked"
        /\ Ended(new["citations"]) => new["chapters"] = "marked"
    BY <1>7, <1>9, <2>1 DEF Ended
  <2>4. /\ Ended(new["share_links"]) => new["story_pages"] = "marked"
        /\ Ended(new["family_comments"]) => new["story_pages"] = "marked"
    BY <1>7, <1>9, <2>2 DEF Ended
  <2>5. QED
    BY <1>6, <2>3, <2>4, OrderedIf
<1>11. dsk["claims"] # "none" => SourcesThere(dsk, source)
  BY <1>3 DEF PurgeInv, RowsInv
<1>12. Ready(s, new, dsk, source)
  <2> SUFFICES ASSUME NEW i \in 1..14, NEW t \in s[i]
               PROVE  /\ new[t] = "none" => dsk[t] = "none"
                      /\ dsk[t] = "marked" => new[t] = "marked"
                      /\ t = "deletion_requests" => new[t] = "pending"
                      /\ new[t] # "none" =>
                           \A ref \in References(source) : ref[1] = t => dsk[ref[2]] # "none"
                      /\ Ended(new[t]) =>
                           \A pair \in MarkedAfter : pair[1] = t =>
                             \/ dsk[pair[2]] = "marked"
                             \/ \E j \in 1..i : pair[2] \in s[j]
                      /\ t = "claims" /\ new[t] # "none" => SourcesThere(dsk, source)
    BY DeletionPositions DEF Ready
  <2>1. t \in Tables
    BY DeletionPositions
  <2>2. /\ new[t] = "none" => dsk[t] = "none"
        /\ dsk[t] = "marked" => new[t] = "marked"
        /\ t = "deletion_requests" => new[t] = "pending"
    BY <1>3, <1>6, <1>7, <2>1
  <2>3. ASSUME new[t] # "none", NEW ref \in References(source), ref[1] = t
        PROVE  dsk[ref[2]] # "none"
    <3>1. t # "deletion_requests"
      BY <1>2, <2>3, OtherReferences
    <3>2. CASE mem[t] # "none"
      BY <1>2, <1>3, <2>3, <3>2 DEF Whole
    <3>3. CASE mem[t] = "none"
      <4>1. t = "claim_evidence" /\ dsk["claims"] # "none"
        BY <1>3, <1>6, <1>7, <2>1, <2>3, <3>1, <3>3
      <4>2. QED
        BY <1>11, <2>3, <4>1 DEF SourcesThere
    <3>4. QED
      BY <3>2, <3>3
  <2>4. ASSUME NEW pair \in MarkedAfter, pair[1] = t
        PROVE  \E j \in 1..i : pair[2] \in s[j]
    <3>1. 1 \in 1..i
      OBVIOUS
    <3>2. CASE pair[2] = "projects"
      BY <3>1, <3>2, DeletionPositions
    <3>3. CASE pair = <<"claim_evidence", "claims">>
      BY <2>4, <3>3, DeletionPositions
    <3>4. CASE pair = <<"citations", "chapters">>
      BY <2>4, <3>4, DeletionPositions
    <3>5. CASE pair \in {<<"share_links", "story_pages">>, <<"family_comments", "story_pages">>}
      BY <2>4, <3>5, DeletionPositions
    <3>6. QED
      BY <3>2, <3>3, <3>4, <3>5 DEF MarkedAfter
  <2>5. t = "claims" /\ new[t] # "none" => SourcesThere(dsk, source)
    BY <1>3, <1>7, <1>9, <1>11
  <2>6. QED
    BY <2>2, <2>3, <2>4, <2>5
<1>13. \A t \in DOMAIN rows : Waits(s, t) \/ rows[t] = mem[t]
  <2> SUFFICES ASSUME NEW t \in Tables, ~Waits(s, t) PROVE rows[t] = mem[t]
    BY <1>1
  <2>1. t \in {"claim_corrections", "access_logs"}
    BY DeletionCovers
  <2>2. QED
    BY <1>4, <1>6, <2>1
<1>14. QED
  BY <1>1, <1>2, <1>3, <1>8, <1>10, <1>12, <1>13, DeletionPositions, NewRows, HandlerStep
  DEF PurgeInv, RowsInv, Has

LEMMA OpenStreamStep == PurgeInv /\ OpenStream => PurgeInv'
<1> SUFFICES ASSUME PurgeInv, OpenStream PROVE PurgeInv'
  OBVIOUS
<1>1. UNCHANGED <<memory, disk, source, saves, failed, errors>> /\ streaming' = TRUE
  BY DEF OpenStream
<1>2. TypeOK'
  BY <1>1 DEF PurgeInv, TypeOK
<1>3. QED
  BY <1>1, <1>2 DEF PurgeInv, OthersUntouched, RowsInv, SavesInv, FailedInv, Has

-----------------------------------------------------------------------------
(* The database and the process *)

\* What one transaction does to the database.
LEMMA CommitFacts ==
  ASSUME PurgeInv, Commit
  PROVE  /\ ~failed
         /\ \A table \in Tables :
              disk'[Ours][table] = IF table \in saves[1] THEN memory[Ours][table]
                                   ELSE disk[Ours][table]
         /\ disk'[Other] = disk[Other]
         /\ disk' \in [Projects -> [Tables -> Row]]
         /\ saves' \in Seq(SUBSET Tables)
         /\ Len(saves) \in Nat \ {0} /\ Len(saves') = Len(saves) - 1
         /\ \A i \in 1..Len(saves') : saves'[i] = saves[i + 1]
         /\ UNCHANGED <<memory, source, streaming, failed, errors>>
<1>1. /\ saves # <<>> /\ saves' = Tail(saves)
      /\ disk' = [disk EXCEPT ![Ours] =
                    [table \in Tables |-> IF table \in Head(saves) THEN memory[Ours][table]
                                          ELSE @[table]]]
      /\ UNCHANGED <<memory, source, streaming, failed, errors>>
  BY DEF Commit
<1>2. saves \in Seq(SUBSET Tables) /\ disk \in [Projects -> [Tables -> Row]]
      /\ memory \in [Projects -> [Tables -> Row]]
  BY DEF PurgeInv, TypeOK
<1>3. /\ Len(saves) \in Nat \ {0} /\ Len(saves') = Len(saves) - 1
      /\ saves' \in Seq(SUBSET Tables) /\ Head(saves) = saves[1]
      /\ \A i \in 1..Len(saves') : saves'[i] = saves[i + 1]
  BY <1>1, <1>2
<1>4. ~failed
  BY <1>1 DEF PurgeInv, FailedInv
<1>5. /\ disk' \in [Projects -> [Tables -> Row]] /\ disk'[Other] = disk[Other]
      /\ \A table \in Tables :
           disk'[Ours][table] = IF table \in saves[1] THEN memory[Ours][table]
                                ELSE disk[Ours][table]
  BY <1>1, <1>2, <1>3, ProjectAssumption DEF Projects
<1>6. QED
  BY <1>1, <1>3, <1>4, <1>5

LEMMA CommitStep == PurgeInv /\ Commit => PurgeInv'
<1> SUFFICES ASSUME PurgeInv, Commit PROVE PurgeInv'
  OBVIOUS
<1> DEFINE mem == memory[Ours]
           dsk == disk[Ours]
           after == disk'[Ours]
           first == saves[1]
<1>1. /\ ~failed
      /\ \A t \in Tables : after[t] = IF t \in first THEN mem[t] ELSE dsk[t]
      /\ disk'[Other] = disk[Other]
      /\ disk' \in [Projects -> [Tables -> Row]]
      /\ saves' \in Seq(SUBSET Tables)
      /\ Len(saves) \in Nat \ {0} /\ Len(saves') = Len(saves) - 1
      /\ \A i \in 1..Len(saves') : saves'[i] = saves[i + 1]
      /\ UNCHANGED <<memory, source, streaming, failed, errors>>
  BY CommitFacts
<1>2. /\ Kinds(mem) /\ Ordered(mem) /\ Kinds(dsk) /\ Ordered(dsk) /\ Whole(dsk, source)
      /\ Ready(saves, mem, dsk, source) /\ source \in Source
      /\ dsk["projects"] = "live" /\ dsk["claims"] # "none" => SourcesThere(dsk, source)
  BY DEF PurgeInv, RowsInv, TypeOK
<1> HIDE DEF mem, dsk, after
<1>3. 1 \in 1..Len(saves) /\ \A j \in 1..1 : j = 1
  BY <1>1
<1>4. \A t \in first :
        /\ mem[t] = "none" => t = "citations" \/ dsk[t] = "none"
        /\ dsk[t] = "marked" => mem[t] = "marked"
        /\ t = "deletion_requests" => mem[t] = "pending"
        /\ mem[t] # "none" =>
             \A ref \in References(source) : ref[1] = t =>
               dsk[ref[2]] # "none" \/ (mem[ref[2]] # "none" /\ ref[2] \in first)
        /\ Ended(mem[t]) =>
             \A pair \in MarkedAfter : pair[1] = t => dsk[pair[2]] = "marked" \/ pair[2] \in first
        /\ t = "claims" /\ mem[t] # "none" => SourcesThere(dsk, source)
  BY <1>2, <1>3 DEF Ready
<1>5. \A t \in Tables : dsk[t] = "marked" => after[t] = "marked"
  BY <1>1, <1>4
<1>6. \A t \in Targets : t \in Tables /\ (dsk[t] # "none" => after[t] # "none")
  BY <1>1, <1>4 DEF Targets, Tables, InterviewTables, ClaimTables, StoryTables
<1>7. SourcesThere(dsk, source) => SourcesThere(after, source)
  BY <1>2, <1>6, ReferencesAmongTables DEF SourcesThere
<1>8. Kinds(after)
  <2>1. {"projects", "deletion_requests", "claim_corrections", "access_logs"} \subseteq Tables
    BY DEF Tables, ClaimTables, StoryTables
  <2>2. QED
    BY <1>1, <1>2, <2>1 DEF Kinds
<1>9. Ordered(after)
  <2> SUFFICES ASSUME NEW pair \in MarkedAfter, Ended(after[pair[1]])
               PROVE  after[pair[2]] = "marked"
    BY DEF Ordered
  <2>1. pair[1] \in Tables /\ pair[2] \in Tables
    BY MarkedAfterAmongTables
  <2>2. CASE pair[1] \in first
    <3>1. Ended(mem[pair[1]])
      BY <1>1, <2>1, <2>2
    <3>2. mem[pair[2]] = "marked"
      BY <1>2, <3>1 DEF Ordered
    <3>3. dsk[pair[2]] = "marked" \/ pair[2] \in first
      BY <1>4, <2>2, <3>1
    <3>4. QED
      BY <1>1, <1>5, <2>1, <3>2, <3>3
  <2>3. CASE pair[1] \notin first
    BY <1>1, <1>2, <1>5, <2>1, <2>3 DEF Ordered
  <2>4. QED
    BY <2>2, <2>3
<1>10. Whole(after, source)
  <2> SUFFICES ASSUME NEW ref \in References(source), after[ref[1]] # "none"
               PROVE  after[ref[2]] # "none"
    BY DEF Whole
  <2>1. ref[1] \in Tables /\ ref[2] \in Targets /\ ref[2] \in Tables
    BY <1>2, ReferencesAmongTables
  <2>2. CASE ref[1] \in first
    <3>1. mem[ref[1]] # "none"
      BY <1>1, <2>1, <2>2
    <3>2. dsk[ref[2]] # "none" \/ (mem[ref[2]] # "none" /\ ref[2] \in first)
      BY <1>4, <2>2, <3>1
    <3>3. QED
      BY <1>1, <1>6, <2>1, <3>2
  <2>3. CASE ref[1] \notin first
    BY <1>1, <1>2, <1>6, <2>1, <2>3 DEF Whole
  <2>4. QED
    BY <2>2, <2>3
<1>11. after["projects"] = "live" /\ after["claims"] # "none" => SourcesThere(after, source)
  <2>1. {"projects", "claims"} \subseteq Tables
    BY DEF Tables, ClaimTables
  <2>2. after["projects"] = "live" => dsk["projects"] = "live"
    BY <1>2, <1>5, <2>1 DEF Kinds
  <2>3. CASE "claims" \in first
    BY <1>1, <1>4, <1>7, <2>1, <2>3
  <2>4. CASE "claims" \notin first
    BY <1>1, <1>2, <1>7, <2>1, <2>2, <2>4
  <2>5. QED
    BY <2>3, <2>4
<1>12. Ready(saves', mem, after, source)
  <2> SUFFICES ASSUME NEW i \in 1..Len(saves'), NEW t \in saves'[i]
               PROVE  /\ mem[t] = "none" => t = "citations" \/ after[t] = "none"
                      /\ after[t] = "marked" => mem[t] = "marked"
                      /\ t = "deletion_requests" => mem[t] = "pending"
                      /\ mem[t] # "none" =>
                           \A ref \in References(source) : ref[1] = t =>
                             \/ after[ref[2]] # "none"
                             \/ mem[ref[2]] # "none" /\ \E j \in 1..i : ref[2] \in saves'[j]
                      /\ Ended(mem[t]) =>
                           \A pair \in MarkedAfter : pair[1] = t =>
                             \/ after[pair[2]] = "marked"
                             \/ \E j \in 1..i : pair[2] \in saves'[j]
                      /\ t = "claims" /\ mem[t] # "none" => SourcesThere(after, source)
    BY DEF Ready
  <2>1. i + 1 \in 1..Len(saves) /\ saves'[i] = saves[i + 1] /\ i \in Nat
    BY <1>1
  <2>2. t \in Tables
    <3>1. saves'[i] \in SUBSET Tables
      BY <1>1
    <3>2. QED
      BY <3>1
  <2>3. /\ mem[t] = "none" => t = "citations" \/ dsk[t] = "none"
        /\ dsk[t] = "marked" => mem[t] = "marked"
        /\ t = "deletion_requests" => mem[t] = "pending"
        /\ mem[t] # "none" =>
             \A ref \in References(source) : ref[1] = t =>
               \/ dsk[ref[2]] # "none"
               \/ mem[ref[2]] # "none" /\ \E j \in 1..(i + 1) : ref[2] \in saves[j]
        /\ Ended(mem[t]) =>
             \A pair \in MarkedAfter : pair[1] = t =>
               \/ dsk[pair[2]] = "marked"
               \/ \E j \in 1..(i + 1) : pair[2] \in saves[j]
        /\ t = "claims" /\ mem[t] # "none" => SourcesThere(dsk, source)
    BY <1>2, <2>1 DEF Ready
  <2>4. ASSUME NEW b, \E j \in 1..(i + 1) : b \in saves[j]
        PROVE  b \in first \/ \E j \in 1..i : b \in saves'[j]
    <3>1. PICK j \in 1..(i + 1) : b \in saves[j]
      BY <2>4
    <3>2. CASE j = 1
      BY <3>1, <3>2
    <3>3. CASE j # 1
      <4>1. j - 1 \in 1..i /\ j - 1 \in 1..Len(saves') /\ (j - 1) + 1 = j
        BY <1>1, <2>1, <3>3
      <4>2. saves'[j - 1] = saves[j]
        BY <1>1, <4>1
      <4>3. QED
        BY <3>1, <4>1, <4>2
    <3>4. QED
      BY <3>2, <3>3
  <2>5. mem[t] = "none" => t = "citations" \/ after[t] = "none"
    BY <1>1, <2>2, <2>3
  <2>6. after[t] = "marked" => mem[t] = "marked"
    BY <1>1, <2>2, <2>3
  <2>7. ASSUME mem[t] # "none", NEW ref \in References(source), ref[1] = t
        PROVE  \/ after[ref[2]] # "none"
               \/ mem[ref[2]] # "none" /\ \E j \in 1..i : ref[2] \in saves'[j]
    <3>1. ref[2] \in Targets /\ ref[2] \in Tables
      BY <1>2, ReferencesAmongTables
    <3>2. CASE dsk[ref[2]] # "none"
      BY <1>6, <3>1, <3>2
    <3>3. CASE mem[ref[2]] # "none" /\ \E j \in 1..(i + 1) : ref[2] \in saves[j]
      BY <1>1, <2>4, <3>1, <3>3
    <3>4. QED
      BY <2>3, <2>7, <3>2, <3>3
  <2>8. ASSUME Ended(mem[t]), NEW pair \in MarkedAfter, pair[1] = t
        PROVE  after[pair[2]] = "marked" \/ \E j \in 1..i : pair[2] \in saves'[j]
    <3>1. pair[2] \in Tables /\ mem[pair[2]] = "marked"
      BY <1>2, <2>8, MarkedAfterAmongTables DEF Ordered
    <3>2. CASE dsk[pair[2]] = "marked"
      BY <1>5, <3>1, <3>2
    <3>3. CASE \E j \in 1..(i + 1) : pair[2] \in saves[j]
      BY <1>1, <2>4, <3>1, <3>3
    <3>4. QED
      BY <2>3, <2>8, <3>2, <3>3
  <2>9. QED
    BY <1>7, <2>3, <2>5, <2>6, <2>7, <2>8
<1>13. ASSUME NEW t \in Tables PROVE Settled(mem, after, t) \/ Waits(saves', t)
  <2>1. Settled(mem, dsk, t) \/ Waits(saves, t)
    BY <1>1 DEF PurgeInv, SavesInv, mem, dsk
  <2>2. CASE t \in first
    BY <1>1, <2>2 DEF Settled
  <2>3. CASE t \notin first /\ Settled(mem, dsk, t)
    BY <1>1, <2>3 DEF Settled
  <2>4. CASE t \notin first /\ Waits(saves, t)
    <3>1. PICK j \in 1..Len(saves) : t \in saves[j]
      BY <2>4 DEF Waits
    <3>2. j - 1 \in 1..Len(saves') /\ (j - 1) + 1 = j
      BY <1>1, <2>4, <3>1
    <3>3. QED
      BY <1>1, <3>1, <3>2 DEF Waits
  <2>5. QED
    BY <2>1, <2>2, <2>3, <2>4
<1>14. memory'[Ours] = mem
  BY <1>1 DEF mem
<1>15. TypeOK' /\ OthersUntouched'
  BY <1>1 DEF PurgeInv, TypeOK, OthersUntouched
<1>16. RowsInv'
  BY <1>1, <1>2, <1>8, <1>9, <1>10, <1>11, <1>14 DEF RowsInv, after
<1>17. SavesInv' /\ FailedInv' /\ Ready(saves, memory[Ours], disk[Ours], source)'
  BY <1>1, <1>12, <1>13, <1>14 DEF SavesInv, FailedInv, after
<1>18. QED
  BY <1>15, <1>16, <1>17 DEF PurgeInv

LEMMA RestartStep == PurgeInv /\ Restart => PurgeInv'
<1> SUFFICES ASSUME PurgeInv, Restart PROVE PurgeInv'
  OBVIOUS
<1>1. /\ memory' = disk /\ disk' = disk /\ saves' = <<>> /\ ~streaming' /\ ~failed'
      /\ streaming' \in BOOLEAN /\ failed' \in BOOLEAN
      /\ UNCHANGED <<source, errors>>
  BY DEF Restart
<1>2. TypeOK'
  BY <1>1 DEF PurgeInv, TypeOK
<1>3. OthersUntouched' /\ RowsInv'
  BY <1>1 DEF PurgeInv, OthersUntouched, RowsInv
<1>4. SavesInv' /\ FailedInv'
  BY <1>1 DEF SavesInv, FailedInv, Settled
<1>5. Ready(saves, memory[Ours], disk[Ours], source)'
  BY <1>1 DEF Ready
<1>6. QED
  BY <1>2, <1>3, <1>4, <1>5 DEF PurgeInv

-----------------------------------------------------------------------------
(* The purge *)

\* Memory gives up exactly the rows that were collected, but for the access logs.
LEMMA PurgedRows ==
  ASSUME NEW rows, Kinds(rows), Ordered(rows), Whole(rows, source), source \in Source,
         rows["deletion_requests"] = "pending"
  PROVE  Purged(Ours, rows) =
           [table \in Tables |->
              IF table \in Captured(Ours, rows) \ {"access_logs"} THEN "none"
              ELSE IF table = "deletion_requests" THEN "executed" ELSE rows[table]]
<1> DEFINE C == Captured(Ours, rows)
           gone == {t \in Tables \ ({"projects"} \cup Unmarkable \cup {"claim_evidence"}) :
                      /\ Due(Ours) /\ rows[t] = "marked"
                      /\ t = "citations" => rows["chapters"] # "none"
                      /\ t \in {"share_links", "family_comments"} => rows["story_pages"] = "marked"}
           orphans == IF rows["claims"] = "none" \/ "claims" \in gone
                      THEN {"claim_evidence", "claim_corrections"} ELSE {}
<1>1. /\ C \subseteq Tables \ {"projects", "deletion_requests"}
      /\ \A t \in Tables \ {"projects"} : rows[t] = "marked" => t \in C
      /\ \A t \in C \ Dropped : rows[t] = "marked"
      /\ \A t \in {"claim_evidence", "claim_corrections"} : t \in C <=> rows["claims"] = "marked"
  BY CapturesMarked
<1>2. \A t \in Tables \ ({"projects", "claim_evidence"} \cup Unmarkable) : t \in gone <=> t \in C
  <2>1. /\ rows["citations"] = "marked" => rows["chapters"] = "marked"
        /\ rows["share_links"] = "marked" => rows["story_pages"] = "marked"
        /\ rows["family_comments"] = "marked" => rows["story_pages"] = "marked"
    BY OrderedMeans DEF Ended
  <2>2. \A t \in Tables \ ({"projects", "claim_evidence"} \cup Unmarkable) :
          t \in gone <=> rows[t] = "marked"
    BY <2>1 DEF Due
  <2>3. QED
    BY <1>1, <2>2 DEF Dropped, Unmarkable
<1>3. "claims" \in Tables \ ({"projects", "claim_evidence"} \cup Unmarkable)
  BY DEF Tables, ClaimTables, Unmarkable
<1>4. "claims" \in gone <=> rows["claims"] = "marked"
  BY <1>1, <1>2, <1>3 DEF Dropped, Unmarkable
<1>5. gone \subseteq Tables \ ({"projects", "claim_evidence"} \cup Unmarkable)
  OBVIOUS
<1>6. Purged(Ours, rows) =
        [t \in Tables |-> IF t \in gone \cup orphans THEN "none"
                          ELSE IF Due(Ours) /\ t = "deletion_requests" THEN "executed"
                          ELSE rows[t]]
  BY DEF Purged
<1> HIDE DEF gone, C
<1>7. ASSUME NEW t \in Tables
      PROVE  (IF t \in gone \cup orphans THEN "none"
              ELSE IF Due(Ours) /\ t = "deletion_requests" THEN "executed" ELSE rows[t])
             = (IF t \in C \ {"access_logs"} THEN "none"
                ELSE IF t = "deletion_requests" THEN "executed" ELSE rows[t])
  <2>1. CASE t \notin {"projects", "claim_evidence"} \cup Unmarkable
    BY <1>2, <2>1 DEF Due, Unmarkable
  <2>2. CASE t \in {"claim_evidence", "claim_corrections"}
    <3>1. rows["claims"] = "none" => rows[t] = "none"
      BY <2>2, WholeMeans
    <3>2. t \notin gone
      BY <1>5, <2>2 DEF Unmarkable
    <3>3. QED
      BY <1>1, <1>4, <2>2, <3>1, <3>2 DEF Due
  <2>3. CASE t \in {"projects", "access_logs", "deletion_requests"}
    <3>1. t \notin gone \cup orphans
      BY <1>5, <2>3 DEF Unmarkable
    <3>2. QED
      BY <1>1, <2>3, <3>1 DEF Due
  <2>4. QED
    BY <2>1, <2>2, <2>3 DEF Unmarkable
<1>8. QED
  BY <1>6, <1>7 DEF C

\* Whatever the purge does, it leaves the other project alone.
LEMMA OtherKept ==
  /\ Purged(Other, OtherProject) = OtherProject
  /\ Captured(Other, OtherProject) = {}
  /\ Deleted(Other, OtherProject, {}) = OtherProject
<1>1. ~Due(Other)
  BY ProjectAssumption DEF Due
<1>2. OtherProject = [t \in Tables |-> OtherProject[t]] /\ OtherProject["claims"] = "marked"
  BY DEF OtherProject, Tables, ClaimTables
<1>3. Purged(Other, OtherProject) = [t \in Tables |-> OtherProject[t]]
  BY <1>1, <1>2 DEF Purged
<1>4. Captured(Other, OtherProject) = {}
  BY <1>1 DEF Captured
<1>5. After(Len(DeleteOrder), OtherProject, {}) = [t \in Tables |-> OtherProject[t]]
  BY DEF After
<1>6. Deleted(Other, OtherProject, {}) = OtherProject
  <2>1. Deleted(Other, OtherProject, {}) =
          [OtherProject EXCEPT !["deletion_requests"] = OtherProject["deletion_requests"]]
    BY <1>1, <1>2, <1>5 DEF Deleted
  <2>2. QED
    BY <1>2, <2>1
<1>7. QED
  BY <1>2, <1>3, <1>4, <1>6

\* What a call of the purge does to memory and database.
LEMMA PurgeFacts ==
  ASSUME PurgeInv, ExecuteDueDeletion
  PROVE  LET mem == memory[Ours]
             dsk == disk[Ours]
             C == Captured(Ours, mem)
         IN /\ saves = <<>> /\ mem["deletion_requests"] \in {"pending", "executed"}
            /\ memory' \in [Projects -> [Tables -> Row]] /\ disk' \in [Projects -> [Tables -> Row]]
            /\ memory'[Other] = OtherProject /\ disk'[Other] = OtherProject
            /\ \/ /\ mem["deletion_requests"] = "pending" /\ ~failed /\ dsk = mem
                  /\ memory'[Ours] =
                       [t \in Tables |-> IF t \in C \ {"access_logs"} THEN "none"
                                         ELSE IF t = "deletion_requests" THEN "executed"
                                         ELSE mem[t]]
               \/ mem["deletion_requests"] = "executed" /\ memory'[Ours] = mem
            /\ \/ /\ ~Refused(dsk, C) /\ failed' = failed /\ errors' = errors
                  /\ disk'[Ours] = Deleted(Ours, dsk, C)
               \/ /\ failed' = TRUE /\ disk' = disk
                  /\ \/ Refused(dsk, C) /\ errors' = errors
                     \/ errors' = errors + 1 /\ errors < MaxErrors
            /\ UNCHANGED <<source, saves, streaming>>
<1> DEFINE mem == memory[Ours]
           dsk == disk[Ours]
           C == Captured(Ours, mem)
           captured == [project \in Projects |-> Captured(project, memory[project])]
<1>1. /\ saves = <<>> /\ mem["deletion_requests"] \in {"pending", "executed"}
      /\ memory' = [project \in Projects |->
                      IF mem["deletion_requests"] = "pending"
                      THEN Purged(project, memory[project]) ELSE memory[project]]
      /\ UNCHANGED <<source, saves, streaming>>
  BY DEF ExecuteDueDeletion, Has
<1>2. \/ /\ ~Refused(dsk, captured[Ours]) /\ UNCHANGED <<failed, errors>>
         /\ disk' = [project \in Projects |-> Deleted(project, disk[project], captured[project])]
      \/ /\ failed' = TRUE /\ disk' = disk
         /\ \/ Refused(dsk, captured[Ours]) /\ errors' = errors
            \/ errors' = errors + 1 /\ errors < MaxErrors
  BY DEF ExecuteDueDeletion
<1>3. /\ captured[Ours] = C /\ captured[Other] = {}
      /\ memory[Other] = OtherProject /\ disk[Other] = OtherProject
  BY OtherKept DEF Projects, PurgeInv, OthersUntouched
<1>4. /\ Kinds(mem) /\ Ordered(mem) /\ Kinds(dsk) /\ Ordered(dsk) /\ Whole(dsk, source)
      /\ source \in Source
      /\ memory \in [Projects -> [Tables -> Row]] /\ disk \in [Projects -> [Tables -> Row]]
  BY DEF PurgeInv, RowsInv, TypeOK
<1>5. OtherProject \in [Tables -> Row]
  BY <1>3, <1>4 DEF Projects
<1>6. C \in SUBSET (Tables \ {"projects", "deletion_requests"})
  BY <1>4, CapturesMarked
<1>7. \/ /\ mem["deletion_requests"] = "pending" /\ ~failed /\ dsk = mem
         /\ memory'[Ours] =
              [t \in Tables |-> IF t \in C \ {"access_logs"} THEN "none"
                                ELSE IF t = "deletion_requests" THEN "executed" ELSE mem[t]]
      \/ mem["deletion_requests"] = "executed" /\ memory'[Ours] = mem
  <2>1. CASE mem["deletion_requests"] = "pending"
    <3>1. ~failed
      BY <2>1 DEF PurgeInv, FailedInv, Has
    <3>2. dsk = mem
      BY <1>1, <2>1, <3>1, IdleFacts DEF Has
    <3>3. memory'[Ours] = Purged(Ours, mem)
      BY <1>1, <2>1 DEF Projects
    <3>4. QED
      BY <1>4, <2>1, <3>1, <3>2, <3>3, PurgedRows
  <2>2. CASE mem["deletion_requests"] = "executed"
    BY <1>1, <2>2 DEF Projects
  <2>3. QED
    BY <1>1, <2>1, <2>2
<1>8. memory' \in [Projects -> [Tables -> Row]] /\ memory'[Other] = OtherProject
  <2>1. memory'[Other] = OtherProject
    BY <1>1, <1>3, OtherKept DEF Projects
  <2>2. memory'[Ours] \in [Tables -> Row]
    BY <1>4, <1>7 DEF Projects, Row
  <2>3. QED
    BY <1>1, <1>5, <2>1, <2>2 DEF Projects
<1>9. CASE /\ ~Refused(dsk, captured[Ours]) /\ UNCHANGED <<failed, errors>>
           /\ disk' = [project \in Projects |-> Deleted(project, disk[project], captured[project])]
  <2>1. disk'[Ours] = Deleted(Ours, dsk, C) /\ disk'[Other] = OtherProject
    BY <1>3, <1>9, OtherKept DEF Projects
  <2>2. Deleted(Ours, dsk, C) \in [Tables -> Row]
    <3>1. Deleted(Ours, dsk, C) =
            [table \in Tables |->
               IF table \in C THEN "none"
               ELSE IF table = "deletion_requests" /\ dsk[table] # "none" THEN "executed"
               ELSE dsk[table]]
      BY <1>6, AfterAll
    <3>2. QED
      BY <1>4, <3>1 DEF Projects, Row
  <2>3. disk' \in [Projects -> [Tables -> Row]]
    BY <1>5, <1>9, <2>1, <2>2 DEF Projects
  <2>4. QED
    BY <1>1, <1>3, <1>7, <1>8, <1>9, <2>1, <2>3
<1>10. CASE /\ failed' = TRUE /\ disk' = disk
            /\ \/ Refused(dsk, captured[Ours]) /\ errors' = errors
               \/ errors' = errors + 1 /\ errors < MaxErrors
  BY <1>1, <1>3, <1>4, <1>7, <1>8, <1>10
<1>11. QED
  BY <1>2, <1>9, <1>10

\* Among the rows memory collects are all that are marked in the database.
LEMMA MarkedIsCaptured ==
  ASSUME PurgeInv, ~failed, saves = <<>>, NEW table \in Tables \ {"projects"},
         disk[Ours][table] = "marked"
  PROVE  table \in Captured(Ours, memory[Ours])
<1>1. memory[Ours][table] = "marked"
  BY IdleFacts
<1>2. Kinds(memory[Ours]) /\ Ordered(memory[Ours])
  BY DEF PurgeInv, RowsInv
<1>3. QED
  BY <1>1, <1>2, CapturesMarked

LEMMA PurgeStep == PurgeInv /\ ExecuteDueDeletion => PurgeInv'
<1> SUFFICES ASSUME PurgeInv, ExecuteDueDeletion PROVE PurgeInv'
  OBVIOUS
<1> DEFINE mem == memory[Ours]
           dsk == disk[Ours]
           new == memory'[Ours]
           after == disk'[Ours]
           C == Captured(Ours, mem)
<1>1. /\ saves = <<>> /\ mem["deletion_requests"] \in {"pending", "executed"}
      /\ memory' \in [Projects -> [Tables -> Row]] /\ disk' \in [Projects -> [Tables -> Row]]
      /\ memory'[Other] = OtherProject /\ disk'[Other] = OtherProject
      /\ \/ /\ mem["deletion_requests"] = "pending" /\ ~failed /\ dsk = mem
            /\ new = [t \in Tables |-> IF t \in C \ {"access_logs"} THEN "none"
                                       ELSE IF t = "deletion_requests" THEN "executed"
                                       ELSE mem[t]]
         \/ mem["deletion_requests"] = "executed" /\ new = mem
      /\ \/ /\ ~Refused(dsk, C) /\ failed' = failed /\ errors' = errors
            /\ after = Deleted(Ours, dsk, C)
         \/ /\ failed' = TRUE /\ disk' = disk
            /\ \/ Refused(dsk, C) /\ errors' = errors
               \/ errors' = errors + 1 /\ errors < MaxErrors
      /\ UNCHANGED <<source, saves, streaming>>
  BY PurgeFacts
<1>2. /\ Kinds(mem) /\ Ordered(mem) /\ Kinds(dsk) /\ Ordered(dsk) /\ Whole(dsk, source)
      /\ source \in Source /\ errors \in 0..MaxErrors /\ failed \in BOOLEAN
      /\ streaming \in BOOLEAN /\ mem \in [Tables -> Row] /\ dsk \in [Tables -> Row]
  BY DEF PurgeInv, RowsInv, TypeOK, Projects
<1>3. /\ C \in SUBSET (Tables \ {"projects", "deletion_requests"})
      /\ \A t \in Tables \ {"projects"} : mem[t] = "marked" => t \in C
      /\ \A t \in C \ Dropped : mem[t] = "marked"
      /\ \A t \in {"claim_evidence", "claim_corrections"} : t \in C <=> mem["claims"] = "marked"
      /\ "access_logs" \in C <=> mem["story_pages"] = "marked"
  BY <1>2, CapturesMarked
<1>4. Deleted(Ours, dsk, C) =
        [t \in Tables |-> IF t \in C THEN "none"
                          ELSE IF t = "deletion_requests" /\ dsk[t] # "none" THEN "executed"
                          ELSE dsk[t]]
  BY <1>3, AfterAll
<1>5. /\ ~Refused(dsk, C) => /\ Whole(Deleted(Ours, dsk, C), source)
                             /\ Ordered(Deleted(Ours, dsk, C))
                             /\ Kinds(Deleted(Ours, dsk, C))
  BY <1>2, <1>3, DeletedSound
<1>6. {"projects", "deletion_requests", "claims", "access_logs", "story_pages"} \subseteq Tables
  BY DEF Tables, ClaimTables, StoryTables
<1>7. mem["projects"] = "marked" /\ dsk["projects"] = "marked"
  <2>1. mem["projects"] = "marked"
    BY <1>1, <1>2, OrderedMeans DEF Ended
  <2>2. CASE failed
    BY <2>1, <2>2 DEF PurgeInv, FailedInv
  <2>3. CASE ~failed
    BY <1>1, <1>2, <1>6, <2>1, <2>3, IdleFacts DEF Kinds
  <2>4. QED
    BY <2>1, <2>2, <2>3
<1> HIDE DEF C
<1>8. mem["deletion_requests"] = "pending" => \A t \in Tables \ {"projects"} : new[t] # "marked"
  <2>1. "access_logs" \notin {t \in Tables : mem[t] = "marked"}
    BY <1>2 DEF Kinds
  <2>2. QED
    BY <1>1, <1>3, <2>1
<1>9. Kinds(new)
  <2>1. new["projects"] = mem["projects"] /\ new["deletion_requests"] = "executed"
    BY <1>1, <1>3, <1>6
  <2>2. \A t \in Tables : t # "deletion_requests" => new[t] \in {"none", mem[t]}
    BY <1>1
  <2>3. {"claim_corrections", "access_logs"} \subseteq Tables
    BY DEF Tables, ClaimTables, StoryTables
  <2>4. QED
    BY <1>2, <2>1, <2>2, <2>3 DEF Kinds, Unmarkable
<1>10. Ordered(new)
  <2>1. CASE mem["deletion_requests"] = "pending"
    <3>1. new["projects"] = "marked"
      BY <1>1, <1>3, <1>6, <1>7
    <3>2. \A t \in Tables \ {"projects", "deletion_requests"} : ~Ended(new[t])
      BY <1>8, <1>9, <2>1 DEF Kinds, Ended, Unmarkable
    <3>3. {"claim_evidence", "citations", "share_links", "family_comments"} \cup StoryTables
            \subseteq Tables \ {"projects", "deletion_requests"}
      BY DEF Tables, ClaimTables, StoryTables
    <3>4. QED
      BY <3>1, <3>2, <3>3, OrderedIf
  <2>2. CASE mem["deletion_requests"] = "executed"
    BY <1>1, <1>2, <2>2
  <2>3. QED
    BY <1>1, <2>1, <2>2
<1>11. RowsInv'
  <2>1. Kinds(after) /\ Ordered(after) /\ Whole(after, source)
    BY <1>1, <1>2, <1>5
  <2>2. after["projects"] = "marked"
    BY <1>1, <1>3, <1>4, <1>6, <1>7
  <2>3. QED
    BY <1>1, <1>9, <1>10, <2>1, <2>2 DEF RowsInv
<1>12. SavesInv'
  <2> SUFFICES ASSUME ~failed', NEW t \in Tables PROVE Settled(new, after, t)
    BY <1>1 DEF SavesInv
  <2>1. ~failed /\ after = Deleted(Ours, dsk, C)
    BY <1>1
  <2>2. CASE mem["deletion_requests"] = "pending"
    <3>1. dsk = mem /\ new["deletion_requests"] = "executed"
      BY <1>1, <1>3, <1>6, <2>2
    <3>2. t # "access_logs" => after[t] = new[t]
      BY <1>1, <1>3, <1>4, <2>1, <2>2, <3>1
    <3>3. t = "access_logs" => after[t] = "none" \/ after[t] = new[t]
      BY <1>1, <1>4, <2>1, <2>2, <3>1
    <3>4. QED
      BY <3>1, <3>2, <3>3 DEF Settled, Dropped
  <2>3. CASE mem["deletion_requests"] = "executed"
    <3>1. new = mem /\ Settled(mem, dsk, t)
      BY <1>1, <2>1, <2>3, IdleFacts
    <3>2. t \in C => after[t] = "none" /\ (mem[t] = "marked" \/ t \in Dropped)
      BY <1>3, <1>4, <2>1
    <3>3. t \notin C => after[t] = dsk[t] \/ (t = "deletion_requests" /\ after[t] = "executed")
      BY <1>4, <2>1
    <3>4. QED
      BY <2>3, <3>1, <3>2, <3>3 DEF Settled
  <2>4. QED
    BY <1>1, <2>2, <2>3
<1>13. FailedInv'
  <2> SUFFICES ASSUME failed'
               PROVE  /\ new["deletion_requests"] = "executed" /\ after["projects"] = "marked"
                      /\ \/ \A t \in Tables \ {"projects"} : new[t] # "marked"
                         \/ \A t \in Tables : after[t] = "marked" => new[t] = "marked"
    BY <1>1 DEF FailedInv, Has
  <2>1. new["deletion_requests"] = "executed"
    BY <1>1, <1>3, <1>6
  <2>2. after["projects"] = "marked"
    <3>1. Deleted(Ours, dsk, C)["projects"] = dsk["projects"]
      BY <1>3, <1>4, <1>6
    <3>2. after \in {dsk, Deleted(Ours, dsk, C)}
      BY <1>1
    <3>3. QED
      BY <1>7, <3>1, <3>2
  <2>3. \A t \in Tables : after[t] = "marked" => dsk[t] = "marked"
    BY <1>1, <1>4
  <2>4. CASE mem["deletion_requests"] = "pending"
    BY <1>8, <2>1, <2>2, <2>4
  <2>5. CASE mem["deletion_requests"] = "executed"
    <3>1. new = mem
      BY <1>1, <2>5
    <3>2. CASE failed
      BY <2>1, <2>2, <2>3, <3>1, <3>2 DEF PurgeInv, FailedInv
    <3>3. CASE ~failed
      <4>1. \A t \in Tables : dsk[t] = "marked" => mem[t] = "marked"
        BY <1>1, <3>3, IdleFacts
      <4>2. QED
        BY <2>1, <2>2, <2>3, <3>1, <4>1
    <3>4. QED
      BY <3>2, <3>3
  <2>6. QED
    BY <1>1, <2>4, <2>5
<1>14. Ready(saves, memory[Ours], disk[Ours], source)'
  BY <1>1 DEF Ready
<1>15. TypeOK' /\ OthersUntouched'
  <2>1. errors' = errors \/ (errors' = errors + 1 /\ errors < MaxErrors)
    BY <1>1
  <2>2. errors' \in 0..MaxErrors
    BY <1>2, <2>1, ErrorAssumption
  <2>3. failed' = failed \/ failed' = TRUE
    BY <1>1
  <2>4. saves' \in Seq(SUBSET Tables) /\ source' \in Source /\ streaming' \in BOOLEAN
    BY <1>1 DEF PurgeInv, TypeOK
  <2>5. QED
    BY <1>1, <1>2, <2>2, <2>3, <2>4 DEF TypeOK, OthersUntouched
<1>16. QED
  BY <1>11, <1>12, <1>13, <1>14, <1>15 DEF PurgeInv

-----------------------------------------------------------------------------
(* Theorems *)

LEMMA InitPurgeInv == Init => PurgeInv
<1> SUFFICES ASSUME Init PROVE PurgeInv
  OBVIOUS
<1>1. /\ memory[Ours] = NewProject /\ memory[Other] = OtherProject /\ disk = memory
      /\ saves = <<>> /\ source = "user_input" /\ streaming = FALSE /\ failed = FALSE
      /\ errors = 0
      /\ memory = [p \in Projects |-> IF p = Ours THEN NewProject ELSE OtherProject]
  BY ProjectAssumption DEF Init, Projects
<1>2. NewProject \in [Tables -> Row] /\ OtherProject \in [Tables -> Row]
  BY DEF NewProject, OtherProject, Row
<1>3. TypeOK
  <2>1. memory \in [Projects -> [Tables -> Row]]
    BY <1>1, <1>2
  <2>2. errors \in 0..MaxErrors /\ saves \in Seq(SUBSET Tables)
    BY <1>1, ErrorAssumption
  <2>3. QED
    BY <1>1, <2>1, <2>2 DEF TypeOK, Source
<1>4. \A t \in Tables : NewProject[t] = IF t = "projects" THEN "live" ELSE "none"
  BY DEF NewProject
<1>5. Kinds(NewProject)
  BY <1>4 DEF Kinds, Tables, Unmarkable, ClaimTables, StoryTables
<1>6. Ordered(NewProject)
  BY <1>4, MarkedAfterAmongTables DEF Ordered, Ended
<1>7. Whole(NewProject, source)
  <2>1. \A ref \in References(source) : ref[1] \in Tables /\ ref[1] # "projects"
    BY <1>1, OtherReferences DEF Source, Tables, InterviewTables, ClaimTables, StoryTables
  <2>2. QED
    BY <1>4, <2>1 DEF Whole
<1>8. NewProject["claims"] = "none"
  BY <1>4 DEF Tables, ClaimTables
<1>9. OthersUntouched /\ SavesInv /\ FailedInv
  BY <1>1 DEF OthersUntouched, SavesInv, Settled, FailedInv
<1>10. Ready(saves, memory[Ours], disk[Ours], source)
  <2>1. saves = <<>>
    BY <1>1
  <2>2. QED
    BY <2>1 DEF Ready
<1>11. RowsInv
  BY <1>1, <1>5, <1>6, <1>7, <1>8 DEF RowsInv
<1>12. QED
  BY <1>3, <1>9, <1>10, <1>11 DEF PurgeInv

LEMMA PurgeInvInductive == Spec => []PurgeInv
<1>1. PurgeInv /\ [Next]_vars => PurgeInv'
  <2> SUFFICES ASSUME PurgeInv, [Next]_vars PROVE PurgeInv'
    OBVIOUS
  <2>1. CASE InterviewStep
    BY <2>1, InsertingHandlers, DeletePhotoStep, OpenStreamStep, RecordChunkStep
    DEF InterviewStep
  <2>2. CASE StoryStep
    BY <2>2, InsertingHandlers, ClaimHandlers, CorrectClaimStep, GenerateStoryStep
    DEF StoryStep
  <2>3. CASE RequestDeletion \/ ExecuteDueDeletion \/ Commit \/ Restart
    BY <2>3, RequestDeletionStep, PurgeStep, CommitStep, RestartStep
  <2>4. CASE UNCHANGED vars
    BY <2>4
    DEF vars, PurgeInv, TypeOK, OthersUntouched, RowsInv, SavesInv, FailedInv, Has
  <2>5. QED
    BY <2>1, <2>2, <2>3, <2>4 DEF Next
<1>2. QED
  BY InitPurgeInv, <1>1, PTL DEF Spec

\* Memory and database keep rows of their kinds in every table.
THEOREM PurgeTypeCorrect == Spec => []TypeOK
<1>1. PurgeInv => TypeOK
  BY DEF PurgeInv
<1>2. QED
  BY PurgeInvInductive, <1>1, PTL

\* However handlers, crashes and purges follow each other, the foreign keys refuse no
\* transaction of a handler.
THEOREM RowsStandWithTheirReferences == Spec => []NoDanglingRows
<1>1. PurgeInv => NoDanglingRows
  BY DEF PurgeInv, RowsInv, NoDanglingRows
<1>2. QED
  BY PurgeInvInductive, <1>1, PTL

\* Until the purge, an idle process knows exactly what the database has.
THEOREM MemoryFollowsDatabase == Spec => []MemoryIsSaved
<1>1. PurgeInv => MemoryIsSaved
  BY IdleFacts DEF MemoryIsSaved, Idle
<1>2. QED
  BY PurgeInvInductive, <1>1, PTL

\* The purge of one project leaves every row of the other, however often it is called.
THEOREM PurgeSparesOthers == Spec => []OthersUntouched
<1>1. PurgeInv => OthersUntouched
  BY DEF PurgeInv
<1>2. QED
  BY PurgeInvInductive, <1>1, PTL

\* The keys refuse a purge only if some row of the project was never marked.
THEOREM RefusalMeansUnmarked == Spec => RefusedOnlyForUnmarked
<1> DEFINE Bad == failed' /\ ~failed /\ errors' = errors
           Good == \E table \in Tables \ Unmarkable : disk[Ours][table] = "live"
<1>1. PurgeInv /\ [Next]_vars => [Bad => Good]_vars
  <2> SUFFICES ASSUME PurgeInv, Next, Bad, ~Good PROVE FALSE
    OBVIOUS
  <2>1. ExecuteDueDeletion
    BY DEF Next, InterviewStep, StoryStep, CompletePhoto, DeletePhoto, CreatePhotoAnalysis,
           OpenStream, RecordChunk, SaveClaim, ConvertPhotoAnalysis, NewClaim, CorrectClaim,
           GenerateStory, CreateShareLink, VisitStory, ExportPdf, Insert, Handle,
           RequestDeletion, Commit, Restart
  <2>2. saves = <<>> /\ Refused(disk[Ours], Captured(Ours, memory[Ours]))
    <3>1. errors \in Nat
      BY ErrorAssumption DEF PurgeInv, TypeOK
    <3>2. saves = <<>> /\ (failed' = failed \/ Refused(disk[Ours], Captured(Ours, memory[Ours])))
      <4>1. errors' # errors + 1
        BY <3>1
      <4>2. QED
        BY <2>1, <4>1, PurgeFacts
    <3>3. QED
      BY <3>2
  <2>3. /\ Kinds(memory[Ours]) /\ Kinds(disk[Ours]) /\ Ordered(memory[Ours])
        /\ Whole(disk[Ours], source) /\ source \in Source
    BY DEF PurgeInv, RowsInv, TypeOK
  <2>4. \A table \in Tables : disk[Ours][table] \in {"none", memory[Ours][table]}
    BY <2>2, IdleFacts
  <2>5. QED
    BY <2>2, <2>3, <2>4, NotRefused
<1>2. QED
  BY PurgeInvInductive, <1>1, PTL DEF Spec, RefusedOnlyForUnmarked

\* Every step but a commit and the purge leaves the database as it is.
LEMMA OtherStepsKeepDisk ==
  ASSUME [Next]_vars, ~Commit, ~ExecuteDueDeletion
  PROVE  disk' = disk
<1>1. CASE InterviewStep
  BY <1>1
  DEF InterviewStep, CompletePhoto, DeletePhoto, CreatePhotoAnalysis, OpenStream, RecordChunk,
      Insert, Handle
<1>2. CASE StoryStep
  BY <1>2
  DEF StoryStep, SaveClaim, ConvertPhotoAnalysis, NewClaim, CorrectClaim, GenerateStory,
      CreateShareLink, VisitStory, ExportPdf, Insert, Handle
<1>3. CASE RequestDeletion \/ Restart \/ UNCHANGED vars
  BY <1>3 DEF RequestDeletion, Handle, Restart, vars
<1>4. QED
  BY <1>1, <1>2, <1>3 DEF Next

\* No transaction of a handler takes a marked row away, and none executes a request.
LEMMA CommitKeepsMarks ==
  ASSUME PurgeInv, Commit
  PROVE  /\ \A table \in Tables :
              disk[Ours][table] = "marked" => disk'[Ours][table] = "marked"
         /\ disk[Ours]["deletion_requests"] # "executed" =>
              disk'[Ours]["deletion_requests"] # "executed"
<1>1. 1 \in 1..Len(saves) /\ "deletion_requests" \in Tables
  BY CommitFacts DEF Tables
<1>2. \A table \in saves[1] :
        /\ disk[Ours][table] = "marked" => memory[Ours][table] = "marked"
        /\ table = "deletion_requests" => memory[Ours][table] = "pending"
  BY <1>1 DEF PurgeInv, Ready
<1>3. QED
  BY <1>1, <1>2, CommitFacts

\* When a process that has seen no failure executes the request, no marked row is left in
\* the database, and memory agrees but for access logs.
THEOREM ExecutionIsComplete == Spec => ExecutedMeansPurged
<1> DEFINE Executes == /\ ~failed /\ disk[Ours]["deletion_requests"] = "pending"
                       /\ disk'[Ours]["deletion_requests"] = "executed"
           Complete == \A table \in Tables \ {"projects"} :
                         /\ disk'[Ours][table] # "marked"
                         /\ table # "access_logs" => memory'[Ours][table] = disk'[Ours][table]
<1>1. PurgeInv /\ [Next]_vars => [Executes => Complete]_vars
  <2> SUFFICES ASSUME PurgeInv, Next, Executes PROVE Complete
    OBVIOUS
  <2> DEFINE mem == memory[Ours]
             C == Captured(Ours, mem)
  <2>1. ExecuteDueDeletion
    BY OtherStepsKeepDisk, CommitKeepsMarks
  <2>2. saves = <<>> /\ "deletion_requests" \in Tables
    BY <2>1, PurgeFacts DEF Tables
  <2>3. mem["deletion_requests"] = "pending"
    BY <2>2, IdleFacts
  <2>4. C \in SUBSET (Tables \ {"projects", "deletion_requests"})
        /\ \A t \in Tables \ {"projects"} : mem[t] = "marked" => t \in C
    BY CapturesMarked DEF PurgeInv, RowsInv
  <2>5. Deleted(Ours, mem, C) =
          [t \in Tables |-> IF t \in C THEN "none"
                            ELSE IF t = "deletion_requests" /\ mem[t] # "none" THEN "executed"
                            ELSE mem[t]]
    BY <2>4, AfterAll
  <2>6. /\ disk[Ours] = mem /\ disk'[Ours] = Deleted(Ours, mem, C)
        /\ memory'[Ours] =
             [t \in Tables |-> IF t \in C \ {"access_logs"} THEN "none"
                               ELSE IF t = "deletion_requests" THEN "executed" ELSE mem[t]]
    BY <2>1, <2>3, PurgeFacts
  <2> HIDE DEF C
  <2>7. QED
    BY <2>3, <2>4, <2>5, <2>6
<1>2. QED
  BY PurgeInvInductive, <1>1, PTL DEF Spec, ExecutedMeansPurged
=============================================================================
