---------------------- MODULE NarrativePipelineProofs ----------------------
(***************************************************************************)
(* Theorems about NarrativePipeline: transcriptions and plans of any       *)
(* length, any number of runs, stops and torn files.                       *)
(***************************************************************************)
EXTENDS NarrativePipeline, SequenceTheorems, TLAPS

\* Steps of batch_ingest, and of narrative_agent after its checkpoint is loaded.
IngestSteps == {"extract", "save_claims", "short_story"}
DraftSteps == {"repair", "polish", "review"}
ChapterSteps == {"chapters"} \cup DraftSteps
NarrativeSteps == {"stages"} \cup ChapterSteps

\* A script works on files it could read.
FilesRead ==
  /\ pc \in NarrativeSteps => narrative \in Book /\ pipeline \in Pipeline
  /\ pc = "load" => narrative \in Book \cup {Absent} /\ pipeline \in Pipeline
  /\ pc = "short_story" => pipeline \in Pipeline
  /\ pc \in IngestSteps => segments \in Transcription

\* Stages are made one after the other.
StagesInOrder ==
  narrative \in Book =>
    /\ narrative.detail_bank # Absent => narrative.plan # Absent
    /\ narrative.plan # Absent => narrative.timeline # Absent
    /\ narrative.timeline # Absent => narrative.canon.done
    /\ narrative.plan = Absent => narrative.approved = <<>> /\ narrative.synopses = <<>>
    /\ pc \in ChapterSteps => narrative.detail_bank # Absent /\ chapter \in Nat \ {0}
    /\ pc \in DraftSteps => chapter <= Len(narrative.plan)

TypeInv == TypeOK /\ FilesRead /\ StagesInOrder

LEMMA PlansAreSequences == Plans \subseteq Seq(Slugs)
  BY BoundAssumption, SeqDef DEF Plans

LEMMA FilesDiffer ==
  /\ Absent # Torn
  /\ \A file \in Extraction \cup Pipeline \cup Book : file # Absent /\ file # Torn
  BY FileAssumption

LEMMA NoValuesTyped ==
  /\ NoStory \in Story
  /\ NoBook \in Book
  /\ NoDraft \in [body : Body, audit_of : Body, verdict : Verdict]
<1>2. NoStory \in Story
  BY EmptySeq DEF NoStory, Story
<1>3. <<>> \in Seq(Fragment) /\ <<>> \in Seq(Slugs) /\ <<>> \in Seq(Chapter)
  BY EmptySeq
<1>4. [events |-> <<>>, next_batch |-> 0, done |-> FALSE] \in Canon
  BY <1>3 DEF Canon
<1>5. NoBook \in Book
  BY <1>3, <1>4 DEF NoBook, Book
<1>6. QED
  BY <1>2, <1>5 DEF NoDraft, Body, Verdict

\* The fields of a checkpoint.
LEMMA BookFields ==
  ASSUME NEW book \in Book
  PROVE  /\ book.version \in {"v2", "v3"} /\ book.canon \in Canon
         /\ book.timeline \in {Absent} \cup SUBSET Fragment
         /\ book.plan \in {Absent} \cup Seq(Slugs) /\ book.synopses \in Seq(Slugs)
         /\ book.detail_bank \in {Absent} \cup Transcription
         /\ book.approved \in Seq(Chapter)
         /\ book.canon.events \in Seq(Fragment) /\ book.canon.next_batch \in Nat
         /\ book.canon.done \in BOOLEAN
  BY DEF Book, Canon

LEMMA OldBookTyped ==
  ASSUME NEW events \in Seq(Fragment), NEW plan \in Seq(Slugs), NEW n \in 0..Len(plan)
  PROVE  /\ OldBook(events, plan, n) \in Book
         /\ OldBook(events, plan, n).detail_bank = Absent
         /\ OldBook(events, plan, n).plan = plan
         /\ OldBook(events, plan, n).canon.done
         /\ OldBook(events, plan, n).timeline # Absent
         /\ OldBook(events, plan, n).version = "v2"
<1>1. n \in Nat /\ \A i \in 1..n : plan[i] \in Slugs
  BY LenProperties, ElementOfSeq
<1>2. SubSeq(plan, 1, n) \in Seq(Slugs)
  BY <1>1, SubSeqProperties
<1>3. [i \in 1..n |-> OldChapter(plan[i])] \in Seq(Chapter)
  <2>1. \A i \in 1..n : OldChapter(plan[i]) \in Chapter
    BY <1>1 DEF OldChapter, Chapter, Body, Verdict
  <2>2. QED
    BY <1>1, <2>1, SeqDef
<1>4. [events |-> events, next_batch |-> Len(events), done |-> TRUE] \in Canon
  BY LenProperties DEF Canon
<1>5. Range(events) \in SUBSET Fragment
  BY RangeOfSeq
<1>6. NoBook \in Book
  BY NoValuesTyped
<1>7. QED
  BY <1>2, <1>3, <1>4, <1>5, <1>6, FileAssumption DEF OldBook, Book, NoBook

LEMMA FirstTranscription ==
  ASSUME MaxRuns > 0
  PROVE  /\ [run |-> 1, batches |-> MaxBatches] \in Transcription
         /\ [i \in 1..MaxBatches |-> [run |-> 1, batch |-> i]] \in Seq(Fragment)
<1>1. 1 \in 1..MaxRuns /\ MaxBatches \in Nat
  BY BoundAssumption
<1>2. \A i \in 1..MaxBatches : [run |-> 1, batch |-> i] \in Fragment
  BY <1>1 DEF Fragment
<1>3. QED
  BY <1>1, <1>2, SeqDef DEF Transcription

LEMMA InitTypeInv == Init => TypeInv
<1> SUFFICES ASSUME Init PROVE TypeInv
  OBVIOUS
<1> USE DEF Init
<1>0. runs \in 0..MaxRuns
  BY BoundAssumption
<1>1. /\ extraction = Absent /\ pc = "idle"
      /\ segments \in Transcription \cup {NoSegments} /\ claims \in Seq(Fragment) /\ batch \in Nat
      /\ done_slugs \subseteq Slugs /\ chapter \in Nat
      /\ draft \in [body : Body, audit_of : Body, verdict : Verdict]
      /\ runs \in 0..MaxRuns /\ failures \in 0..MaxFailures /\ lost \subseteq Fragment
      /\ stale \in BOOLEAN
  <2>1. segments = NoSegments /\ claims = <<>> /\ draft = NoDraft
    OBVIOUS
  <2>2. segments \in Transcription \cup {NoSegments} /\ claims \in Seq(Fragment)
    BY <2>1, NoValuesTyped, EmptySeq
  <2>3. draft \in [body : Body, audit_of : Body, verdict : Verdict]
    BY <2>1, NoValuesTyped
  <2>4. failures \in 0..MaxFailures
    BY BoundAssumption
  <2>5. QED
    BY <1>0, <2>2, <2>3, <2>4
<1>2. CASE pipeline = Absent /\ narrative = Absent /\ runs = 0
  BY <1>1, <1>2, FilesDiffer
  DEF TypeInv, TypeOK, FilesRead, StagesInOrder, NarrativeSteps, ChapterSteps, DraftSteps, IngestSteps
<1>3. CASE MaxRuns > 0 /\ runs = 1
            /\ LET events == [i \in 1..MaxBatches |-> [run |-> 1, batch |-> i]] IN
               /\ pipeline = [segments |-> [run |-> 1, batches |-> MaxBatches],
                              claims |-> events, narrative |-> NoStory]
               /\ \E plan \in Plans : \E written \in 0..Len(plan) :
                    narrative = OldBook(events, plan, written)
  <2> DEFINE events == [i \in 1..MaxBatches |-> [run |-> 1, batch |-> i]]
  <2>0. PICK plan \in Plans : \E written \in 0..Len(plan) : narrative = OldBook(events, plan, written)
    BY <1>3
  <2>1. PICK written \in 0..Len(plan) : narrative = OldBook(events, plan, written)
    BY <2>0
  <2>2. events \in Seq(Fragment) /\ plan \in Seq(Slugs)
    BY <1>3, FirstTranscription, PlansAreSequences
  <2> HIDE DEF events
  <2>3. /\ narrative \in Book /\ narrative.plan = plan /\ narrative.canon.done
        /\ narrative.detail_bank = Absent /\ narrative.timeline # Absent
    BY <2>1, <2>2, OldBookTyped
  <2>4. pipeline \in Pipeline
    BY <1>3, <2>2, FirstTranscription, NoValuesTyped DEF Pipeline, events
  <2>5. plan # Absent
    BY FileAssumption
  <2>6. QED
    BY <1>1, <2>3, <2>4, <2>5
    DEF TypeInv, TypeOK, FilesRead, StagesInOrder, NarrativeSteps, ChapterSteps, DraftSteps, IngestSteps
<1>4. QED
  BY <1>2, <1>3

-----------------------------------------------------------------------------
(* Types *)

LEMMA ForgetTyped ==
  ASSUME Forget
  PROVE  /\ pc' = "idle" /\ segments' \in Transcription \cup {NoSegments}
         /\ claims' \in Seq(Fragment)
         /\ batch' \in Nat /\ done_slugs' \subseteq Slugs /\ chapter' \in Nat
         /\ draft' \in [body : Body, audit_of : Body, verdict : Verdict]
<1>1. claims' = <<>> /\ segments' = NoSegments /\ draft' = NoDraft
  BY DEF Forget
<1>2. claims' \in Seq(Fragment)
  BY <1>1, EmptySeq
<1>3. QED
  BY <1>1, <1>2, NoValuesTyped DEF Forget

\* The slugs of a list of chapters.
LEMMA SlugsTyped ==
  ASSUME NEW chapters \in Seq(Chapter)
  PROVE  /\ SlugsOf(chapters) \in Seq(Slugs) /\ Len(SlugsOf(chapters)) = Len(chapters)
         /\ \A i \in 1..Len(chapters) : SlugsOf(chapters)[i] = chapters[i].slug
<1>1. DOMAIN chapters = 1..Len(chapters) /\ Len(chapters) \in Nat
  BY LenProperties
<1>2. ASSUME NEW i \in 1..Len(chapters) PROVE chapters[i].slug \in Slugs
  <2>1. chapters[i] \in Chapter
    BY ElementOfSeq
  <2>2. QED
    BY <2>1 DEF Chapter
<1>3. SlugsOf(chapters) = [i \in 1..Len(chapters) |-> chapters[i].slug]
  BY <1>1 DEF SlugsOf
<1>4. SlugsOf(chapters) \in Seq(Slugs)
  BY <1>1, <1>2, <1>3, SeqDef
<1>5. QED
  BY <1>1, <1>3, <1>4, LenProperties

\* A step that ends a run, having written at most one file.
LEMMA EndTypeInv ==
  ASSUME TypeInv, Forget,
         extraction' \in {Absent, Torn} \cup Extraction,
         pipeline' \in {Absent, Torn} \cup Pipeline,
         narrative' = narrative \/ narrative' = Torn,
         runs' \in 0..MaxRuns, failures' \in 0..MaxFailures, UNCHANGED history_vars
  PROVE  TypeInv'
<1>1. TypeOK'
  BY ForgetTyped DEF TypeInv, TypeOK, history_vars
<1>2. FilesRead'
  BY ForgetTyped DEF FilesRead, NarrativeSteps, ChapterSteps, DraftSteps, IngestSteps
<1>3. StagesInOrder'
  BY ForgetTyped, FilesDiffer
  DEF TypeInv, StagesInOrder, NarrativeSteps, ChapterSteps, DraftSteps, IngestSteps
<1>4. QED
  BY <1>1, <1>2, <1>3 DEF TypeInv

LEMMA FailTypeInv ==
  ASSUME TypeInv, Fail \/ Tear
  PROVE  TypeInv'
<1>1. failures' \in 0..MaxFailures
  BY BoundAssumption DEF Fail, Tear, TypeInv, TypeOK
<1>2. CASE Fail
  BY <1>1, <1>2, EndTypeInv DEF Fail, files, history_vars, TypeInv, TypeOK
<1>3. CASE Tear
  BY <1>1, <1>3, EndTypeInv DEF Tear, history_vars, TypeInv, TypeOK
<1>4. QED
  BY <1>2, <1>3

LEMMA StartIngestTypeInv ==
  ASSUME TypeInv, NEW transcription \in Transcription, StartIngest(transcription)
  PROVE  TypeInv'
<1>1. ResumePoint.fragments \in Seq(Fragment) /\ ResumePoint.next_batch \in Nat
  BY EmptySeq DEF StartIngest, ResumePoint, Extraction, TypeInv, TypeOK
<1>2. runs' \in 0..MaxRuns
  BY BoundAssumption DEF StartIngest, TypeInv, TypeOK
<1>3. TypeOK'
  BY <1>1, <1>2 DEF StartIngest, files, chapter_vars, history_vars, TypeInv, TypeOK
<1>4. FilesRead' /\ StagesInOrder'
  BY DEF StartIngest, files, TypeInv, FilesRead, StagesInOrder, NarrativeSteps, ChapterSteps,
         DraftSteps, IngestSteps
<1>5. QED
  BY <1>3, <1>4 DEF TypeInv

LEMMA IngestTypeInv ==
  ASSUME TypeInv, Ingest \/ IngestAgain
  PROVE  TypeInv'
<1>1. CASE Ingest
  <2>1. PICK transcription \in Transcriptions : StartIngest(transcription)
    BY <1>1 DEF Ingest
  <2>2. runs + 1 \in 1..MaxRuns
    BY <2>1, BoundAssumption DEF StartIngest, TypeInv, TypeOK
  <2>3. transcription \in Transcription
    BY <2>2 DEF Transcriptions, Transcription
  <2>4. QED
    BY <2>1, <2>3, StartIngestTypeInv
<1>2. CASE IngestAgain
  <2>1. pipeline.segments \in Transcription
    BY <1>2 DEF IngestAgain, Readable, TypeInv, TypeOK, Pipeline
  <2>2. QED
    BY <1>2, <2>1, StartIngestTypeInv DEF IngestAgain
<1>3. QED
  BY <1>1, <1>2

LEMMA ExtractTypeInv ==
  ASSUME TypeInv, ExtractBatch
  PROVE  TypeInv'
<1> DEFINE fragment == [run |-> segments.run, batch |-> batch + 1]
<1>1. segments \in Transcription /\ batch \in Nat /\ batch < segments.batches
  BY DEF ExtractBatch, TypeInv, TypeOK, FilesRead, IngestSteps
<1>2. fragment \in Fragment
  BY <1>1, BoundAssumption DEF Transcription, Fragment
<1>3. claims' \in {claims, Append(claims, fragment)}
  BY DEF ExtractBatch
<1> HIDE DEF fragment
<1>4. claims' \in Seq(Fragment)
  BY <1>2, <1>3, AppendProperties DEF TypeInv, TypeOK
<1>5. extraction' \in {Absent, Torn} \cup Extraction /\ batch' \in Nat
  BY <1>1, <1>4 DEF ExtractBatch, ExtractionSaved, Extraction, TypeInv, TypeOK
<1>6. TypeOK'
  BY <1>4, <1>5 DEF ExtractBatch, chapter_vars, history_vars, TypeInv, TypeOK
<1>7. FilesRead' /\ StagesInOrder'
  BY DEF ExtractBatch, chapter_vars, TypeInv, FilesRead, StagesInOrder
<1>8. QED
  BY <1>6, <1>7 DEF TypeInv

LEMMA FinishExtractionTypeInv ==
  ASSUME TypeInv, FinishExtraction
  PROVE  TypeInv'
  BY DEF FinishExtraction, ingest_vars, chapter_vars, history_vars, TypeInv, TypeOK, FilesRead,
         StagesInOrder, IngestSteps, NarrativeSteps, ChapterSteps, DraftSteps

LEMMA SaveClaimsTypeInv ==
  ASSUME TypeInv, SaveClaims
  PROVE  TypeInv'
<1>1. pipeline' \in Pipeline
  BY NoValuesTyped
  DEF SaveClaims, Pipeline, TypeInv, TypeOK, FilesRead, IngestSteps
<1>2. TypeOK'
  BY <1>1 DEF SaveClaims, ingest_vars, chapter_vars, TypeInv, TypeOK
<1>3. FilesRead' /\ StagesInOrder'
  BY <1>1
  DEF SaveClaims, ingest_vars, chapter_vars, TypeInv, FilesRead, StagesInOrder, IngestSteps,
      NarrativeSteps, ChapterSteps, DraftSteps
<1>4. QED
  BY <1>2, <1>3 DEF TypeInv

LEMMA ShortStoryTypeInv ==
  ASSUME TypeInv, ShortStory
  PROVE  TypeInv'
<1>1. Range(claims) \in SUBSET Fragment
  BY RangeOfSeq DEF TypeInv, TypeOK
<1>2. [by |-> "batch_ingest", slugs |-> <<>>, facts |-> Range(claims), voice |-> segments] \in Story
  BY <1>1, EmptySeq DEF Story, ShortStory, TypeInv, TypeOK, FilesRead, IngestSteps
<1>3. pipeline' \in Pipeline
  BY <1>2 DEF ShortStory, Pipeline, TypeInv, FilesRead
<1>4. QED
  BY <1>3, EndTypeInv DEF ShortStory, TypeInv, TypeOK

LEMMA StartNarrativeTypeInv ==
  ASSUME TypeInv, StartNarrative
  PROVE  TypeInv'
<1>1. TypeOK'
  BY DEF StartNarrative, files, ingest_vars, chapter_vars, history_vars, TypeInv, TypeOK
<1>2. FilesRead' /\ StagesInOrder'
  BY DEF StartNarrative, files, chapter_vars, Readable, TypeInv, TypeOK, FilesRead, StagesInOrder,
         NarrativeSteps, ChapterSteps, DraftSteps, IngestSteps
<1>3. QED
  BY <1>1, <1>2 DEF TypeInv

\* What is loaded is a checkpoint, made in the order of the stages.
LEMMA LoadedTyped ==
  ASSUME TypeInv, pc = "load"
  PROVE  /\ Loaded \in Book
         /\ Loaded.detail_bank # Absent => Loaded.plan # Absent
         /\ Loaded.plan # Absent => Loaded.timeline # Absent
         /\ Loaded.timeline # Absent => Loaded.canon.done
         /\ Loaded.plan = Absent => Loaded.approved = <<>> /\ Loaded.synopses = <<>>
<1>1. CASE narrative = Absent
  BY <1>1, NoValuesTyped DEF Loaded, NoBook
<1>2. CASE narrative # Absent
  BY <1>2 DEF Loaded, TypeInv, FilesRead, StagesInOrder
<1>3. QED
  BY <1>1, <1>2

LEMMA UpgradedFields ==
  ASSUME NEW book \in Book
  PROVE  /\ Upgraded(book) \in Book
         /\ Upgraded(book).version = "v3" /\ Upgraded(book).approved = <<>>
         /\ Upgraded(book).canon = book.canon /\ Upgraded(book).timeline = book.timeline
         /\ Upgraded(book).plan = book.plan /\ Upgraded(book).detail_bank = book.detail_bank
         /\ Upgraded(book).synopses = IF book.approved # <<>> THEN <<>> ELSE book.synopses
<1>1. <<>> \in Seq(Chapter) /\ <<>> \in Seq(Slugs)
  BY EmptySeq
<1>2. QED
  BY <1>1 DEF Upgraded, Book

LEMMA LoadTypeInv ==
  ASSUME TypeInv, LoadCheckpoint
  PROVE  TypeInv'
<1>1. /\ Loaded \in Book
      /\ narrative' = IF Loaded.version # "v3" THEN Upgraded(Loaded) ELSE narrative
  BY LoadedTyped DEF LoadCheckpoint
<1>2. Loaded.version = "v3" => narrative = Loaded
  BY DEF Loaded, NoBook
<1>3. /\ narrative' \in Book /\ narrative'.canon = Loaded.canon
      /\ narrative'.timeline = Loaded.timeline /\ narrative'.plan = Loaded.plan
      /\ narrative'.detail_bank = Loaded.detail_bank
      /\ Loaded.plan = Absent => narrative'.approved = <<>> /\ narrative'.synopses = <<>>
  BY <1>1, <1>2, UpgradedFields, LoadedTyped DEF LoadCheckpoint
<1>4. TypeOK'
  BY <1>3 DEF LoadCheckpoint, ingest_vars, chapter_vars, history_vars, TypeInv, TypeOK
<1>5. FilesRead'
  BY <1>3
  DEF LoadCheckpoint, ingest_vars, TypeInv, FilesRead, NarrativeSteps, ChapterSteps,
      DraftSteps, IngestSteps
<1>6. StagesInOrder'
  BY <1>3, LoadedTyped DEF LoadCheckpoint, StagesInOrder, ChapterSteps, DraftSteps
<1>7. QED
  BY <1>4, <1>5, <1>6 DEF TypeInv

LEMMA StageTypeInv ==
  ASSUME TypeInv, pc = "stages", NEW book \in Book, Stage(book), lost' \in SUBSET Fragment,
         book.detail_bank # Absent => book.plan # Absent,
         book.plan # Absent => book.timeline # Absent,
         book.timeline # Absent => book.canon.done,
         book.plan = Absent => book.approved = <<>> /\ book.synopses = <<>>
  PROVE  TypeInv'
<1>1. TypeOK'
  BY DEF Stage, ingest_vars, chapter_vars, TypeInv, TypeOK
<1>2. FilesRead'
  BY DEF Stage, ingest_vars, TypeInv, FilesRead, NarrativeSteps, ChapterSteps, DraftSteps, IngestSteps
<1>3. StagesInOrder'
  BY DEF Stage, StagesInOrder, ChapterSteps, DraftSteps
<1>4. QED
  BY <1>1, <1>2, <1>3 DEF TypeInv

\* The checkpoint a stage starts from.
LEMMA StageStart ==
  ASSUME TypeInv, pc = "stages"
  PROVE  /\ narrative \in Book /\ pipeline \in Pipeline
         /\ narrative.detail_bank # Absent => narrative.plan # Absent
         /\ narrative.plan # Absent => narrative.timeline # Absent
         /\ narrative.timeline # Absent => narrative.canon.done
         /\ narrative.plan = Absent => narrative.approved = <<>> /\ narrative.synopses = <<>>
         /\ lost \in SUBSET Fragment
  BY DEF TypeInv, TypeOK, FilesRead, StagesInOrder, NarrativeSteps

LEMMA CanonSavedFields ==
  ASSUME NEW canon \in Canon, NEW events \in Seq(Fragment)
  PROVE  /\ CanonSaved(canon, events) \in Canon
         /\ CanonSaved(canon, events).events = canon.events \o events
         /\ CanonSaved(canon, events).next_batch = canon.next_batch + 1
         /\ CanonSaved(canon, events).done = canon.done
<1>1. canon.events \in Seq(Fragment) /\ canon.next_batch \in Nat /\ canon.done \in BOOLEAN
  BY DEF Canon
<1> DEFINE all == canon.events \o events
           next == canon.next_batch + 1
<1>2. all \in Seq(Fragment) /\ next \in Nat
  BY <1>1, ConcatProperties
<1>3. canon = [events |-> canon.events, next_batch |-> canon.next_batch, done |-> canon.done]
  BY DEF Canon
<1>4. CanonSaved(canon, events) = [canon EXCEPT !.events = all, !.next_batch = next]
  BY DEF CanonSaved
<1> HIDE DEF all, next
<1>5. CanonSaved(canon, events) = [events |-> all, next_batch |-> next, done |-> canon.done]
  BY <1>3, <1>4 DEF Canon
<1>6. CanonSaved(canon, events) \in Canon
  BY <1>1, <1>2, <1>5 DEF Canon
<1>7. QED
  BY <1>5, <1>6 DEF all, next

\* What canonicalization makes of the next batch: its fragment is an event or lost.
LEMMA CanonBatchFacts ==
  ASSUME TypeInv, CanonBatch
  PROVE  \E fragment \in Fragment, events \in Seq(Fragment) :
           /\ narrative.canon.next_batch < Len(pipeline.claims)
           /\ fragment = pipeline.claims[narrative.canon.next_batch + 1]
           /\ Stage([narrative EXCEPT !.canon = CanonSaved(narrative.canon, events)])
           /\ \/ events = <<fragment>> /\ lost' = lost
              \/ events = <<>> /\ lost' = lost \cup {fragment}
<1> DEFINE fragment == pipeline.claims[narrative.canon.next_batch + 1]
<1>1. pipeline.claims \in Seq(Fragment) /\ narrative.canon.next_batch \in Nat
  BY StageStart, BookFields DEF CanonBatch, Pipeline
<1>2. narrative.canon.next_batch + 1 \in 1..Len(pipeline.claims)
  BY <1>1, LenProperties DEF CanonBatch
<1>3. fragment \in Fragment
  BY <1>1, <1>2, ElementOfSeq
<1>4. <<fragment>> \in Seq(Fragment) /\ <<>> \in Seq(Fragment)
  BY <1>3, EmptySeq
<1>5. narrative.canon.next_batch < Len(pipeline.claims)
  BY DEF CanonBatch
<1>6. \/ Stage([narrative EXCEPT !.canon = CanonSaved(narrative.canon, <<fragment>>)]) /\ lost' = lost
      \/ /\ Stage([narrative EXCEPT !.canon = CanonSaved(narrative.canon, <<>>)])
         /\ lost' = lost \cup {fragment}
  BY DEF CanonBatch
<1> HIDE DEF fragment
<1>7. QED
  BY <1>3, <1>4, <1>5, <1>6 DEF fragment

LEMMA CanonBatchTypeInv ==
  ASSUME TypeInv, CanonBatch
  PROVE  TypeInv'
<1>1. PICK fragment \in Fragment, events \in Seq(Fragment) :
        /\ Stage([narrative EXCEPT !.canon = CanonSaved(narrative.canon, events)])
        /\ lost' \in {lost, lost \cup {fragment}}
  BY CanonBatchFacts
<1> DEFINE book == [narrative EXCEPT !.canon = CanonSaved(narrative.canon, events)]
<1>2. pc = "stages" /\ narrative \in Book /\ ~narrative.canon.done
  BY StageStart DEF CanonBatch
<1>3. CanonSaved(narrative.canon, events) \in Canon
  BY <1>2, CanonSavedFields, BookFields
<1>4. /\ book \in Book /\ book.plan = narrative.plan /\ book.timeline = narrative.timeline
      /\ book.detail_bank = narrative.detail_bank /\ book.approved = narrative.approved
      /\ book.synopses = narrative.synopses
  BY <1>2, <1>3 DEF Book
<1>5. Stage(book) /\ lost' \in SUBSET Fragment
  BY <1>1, <1>2, StageStart
<1> HIDE DEF book
<1>6. QED
  BY <1>2, <1>4, <1>5, StageStart, StageTypeInv

LEMMA FinishCanonTypeInv ==
  ASSUME TypeInv, FinishCanon
  PROVE  TypeInv'
<1> DEFINE book == [narrative EXCEPT !.canon.done = TRUE]
<1>1. pc = "stages" /\ narrative \in Book /\ narrative.canon \in Canon
  BY StageStart, BookFields DEF FinishCanon
<1>2. [narrative.canon EXCEPT !.done = TRUE] \in Canon
  BY <1>1 DEF Canon
<1>3. /\ book \in Book /\ book.plan = narrative.plan /\ book.timeline = narrative.timeline
      /\ book.detail_bank = narrative.detail_bank /\ book.approved = narrative.approved
      /\ book.synopses = narrative.synopses /\ book.canon.done
  BY <1>1, <1>2 DEF Book, Canon
<1>4. Stage(book) /\ lost' \in SUBSET Fragment
  BY <1>1, StageStart DEF FinishCanon
<1> HIDE DEF book
<1>5. QED
  BY <1>1, <1>3, <1>4, StageStart, StageTypeInv

LEMMA ResolveTimelineTypeInv ==
  ASSUME TypeInv, ResolveTimeline
  PROVE  TypeInv'
<1> DEFINE facts == Ordered(Range(narrative.canon.events))
<1> DEFINE book == [narrative EXCEPT !.timeline = facts]
<1>1. pc = "stages" /\ narrative \in Book /\ narrative.canon.done
  BY StageStart DEF ResolveTimeline
<1>2. facts \in SUBSET Fragment
  BY <1>1, BookFields, RangeOfSeq DEF Ordered
<1>3. facts # Absent
  BY <1>2, FileAssumption
<1>4. Stage(book) /\ lost' \in SUBSET Fragment
  BY <1>1, StageStart DEF ResolveTimeline
<1> HIDE DEF facts
<1>5. /\ book \in Book /\ book.plan = narrative.plan /\ book.timeline # Absent
      /\ book.detail_bank = narrative.detail_bank /\ book.approved = narrative.approved
      /\ book.synopses = narrative.synopses /\ book.canon.done
  BY <1>1, <1>2, <1>3 DEF Book
<1> HIDE DEF book
<1>6. QED
  BY <1>1, <1>4, <1>5, StageStart, StageTypeInv

LEMMA PlanBookTypeInv ==
  ASSUME TypeInv, PlanBook
  PROVE  TypeInv'
<1>1. PICK plan \in Plans : Stage([narrative EXCEPT !.plan = plan, !.synopses = <<>>])
  BY DEF PlanBook
<1> DEFINE book == [narrative EXCEPT !.plan = plan, !.synopses = <<>>]
<1>2. pc = "stages" /\ narrative \in Book /\ narrative.timeline # Absent
  BY StageStart DEF PlanBook
<1>3. plan \in Seq(Slugs) /\ <<>> \in Seq(Slugs)
  BY PlansAreSequences, EmptySeq
<1>4. plan # Absent
  BY FileAssumption
<1>5. /\ book \in Book /\ book.plan # Absent /\ book.timeline = narrative.timeline
      /\ book.canon = narrative.canon
  BY <1>2, <1>3, <1>4 DEF Book
<1>6. Stage(book) /\ lost' \in SUBSET Fragment
  BY <1>1, <1>2, StageStart DEF PlanBook
<1> HIDE DEF book
<1>7. QED
  BY <1>2, <1>5, <1>6, StageStart, StageTypeInv

LEMMA BuildDetailBankTypeInv ==
  ASSUME TypeInv, BuildDetailBank
  PROVE  TypeInv'
<1> DEFINE book == [narrative EXCEPT !.detail_bank = pipeline.segments]
<1>1. pc = "stages" /\ narrative \in Book /\ narrative.plan # Absent
  BY StageStart DEF BuildDetailBank
<1>2. pipeline.segments \in Transcription
  BY <1>1, StageStart DEF Pipeline
<1>3. /\ book \in Book /\ book.plan = narrative.plan /\ book.timeline = narrative.timeline
      /\ book.canon = narrative.canon
  BY <1>1, <1>2 DEF Book
<1>4. Stage(book) /\ lost' \in SUBSET Fragment
  BY <1>1, StageStart DEF BuildDetailBank
<1> HIDE DEF book
<1>5. QED
  BY <1>1, <1>3, <1>4, StageStart, StageTypeInv

LEMMA StartChaptersTypeInv ==
  ASSUME TypeInv, StartChapters
  PROVE  TypeInv'
<1>1. narrative \in Book /\ narrative.approved \in Seq(Chapter)
  BY StageStart, BookFields DEF StartChapters
<1>2. SlugsOf(narrative.approved) \in Seq(Slugs)
  BY <1>1, SlugsTyped
<1>3. done_slugs' \subseteq Slugs
  BY <1>2, RangeOfSeq DEF StartChapters
<1>4. TypeOK'
  BY <1>3 DEF StartChapters, files, ingest_vars, history_vars, TypeInv, TypeOK
<1>5. FilesRead' /\ StagesInOrder'
  BY DEF StartChapters, files, ingest_vars, TypeInv, FilesRead, StagesInOrder, NarrativeSteps,
         ChapterSteps, DraftSteps, IngestSteps
<1>6. QED
  BY <1>4, <1>5 DEF TypeInv

\* The plan the chapter loop follows.
LEMMA ChapterStart ==
  ASSUME TypeInv, pc \in ChapterSteps
  PROVE  /\ narrative \in Book /\ pipeline \in Pipeline
         /\ narrative.plan \in Seq(Slugs) /\ Len(narrative.plan) \in Nat
         /\ chapter \in Nat \ {0}
         /\ narrative.detail_bank \in Transcription /\ narrative.timeline \in SUBSET Fragment
         /\ chapter <= Len(narrative.plan) => narrative.plan[chapter] \in Slugs
<1>1. narrative \in Book /\ pipeline \in Pipeline
  BY DEF TypeInv, FilesRead, NarrativeSteps
<1>2. narrative.detail_bank # Absent /\ narrative.plan # Absent /\ narrative.timeline # Absent
      /\ chapter \in Nat \ {0}
  BY <1>1 DEF TypeInv, StagesInOrder
<1>3. /\ narrative.plan \in Seq(Slugs) /\ narrative.detail_bank \in Transcription
      /\ narrative.timeline \in SUBSET Fragment
  BY <1>1, <1>2, BookFields
<1>4. Len(narrative.plan) \in Nat
  BY <1>3, LenProperties
<1>5. ASSUME chapter <= Len(narrative.plan) PROVE narrative.plan[chapter] \in Slugs
  BY <1>2, <1>3, <1>4, <1>5, ElementOfSeq
<1>6. QED
  BY <1>1, <1>2, <1>3, <1>4, <1>5

LEMMA SkipChapterTypeInv ==
  ASSUME TypeInv, SkipChapter
  PROVE  TypeInv'
<1>1. TypeOK'
  BY DEF SkipChapter, files, ingest_vars, history_vars, TypeInv, TypeOK
<1>2. chapter' \in Nat \ {0}
  BY ChapterStart DEF SkipChapter, ChapterSteps
<1>3. FilesRead' /\ StagesInOrder'
  BY <1>2
  DEF SkipChapter, files, ingest_vars, TypeInv, FilesRead, StagesInOrder, NarrativeSteps,
      ChapterSteps, DraftSteps, IngestSteps
<1>4. QED
  BY <1>1, <1>3 DEF TypeInv

LEMMA ChapterStepTypeInv ==
  ASSUME TypeInv, NEW from \in ChapterSteps, NEW to \in DraftSteps,
         NEW new \in [body : Body, audit_of : Body, verdict : Verdict],
         ChapterStep(from, to, new), chapter <= Len(narrative.plan)
  PROVE  TypeInv'
<1>1. TypeOK'
  BY DEF ChapterStep, files, ingest_vars, history_vars, DraftSteps, TypeInv, TypeOK
<1>2. FilesRead' /\ StagesInOrder'
  BY DEF ChapterStep, files, ingest_vars, TypeInv, FilesRead, StagesInOrder, NarrativeSteps,
         ChapterSteps, DraftSteps, IngestSteps
<1>3. QED
  BY <1>1, <1>2 DEF TypeInv

\* The three steps that change the draft in memory.
LEMMA DraftTyped ==
  ASSUME TypeInv
  PROVE  /\ draft.body \in Body /\ draft.audit_of \in Body /\ draft.verdict \in Verdict
         /\ \A body \in Body, verdict \in Verdict :
              Audited(body, verdict) \in [body : Body, audit_of : Body, verdict : Verdict]
  BY DEF Audited, TypeInv, TypeOK

LEMMA DraftStepTypeInv ==
  ASSUME TypeInv, WriteChapter \/ RepairChapter \/ PolishChapter
  PROVE  TypeInv'
<1>1. CASE WriteChapter
  <2>1. PICK verdict \in Verdict :
          ChapterStep("chapters", IF verdict = "fail" THEN "repair" ELSE "polish",
                      Audited("written", verdict))
    BY <1>1 DEF WriteChapter
  <2>2. Audited("written", verdict) \in [body : Body, audit_of : Body, verdict : Verdict]
    BY DraftTyped DEF Body
  <2>3. chapter <= Len(narrative.plan)
    BY <1>1 DEF WriteChapter
  <2>4. (IF verdict = "fail" THEN "repair" ELSE "polish") \in DraftSteps /\ "chapters" \in ChapterSteps
    BY DEF DraftSteps, ChapterSteps
  <2>5. QED
    BY <2>1, <2>2, <2>3, <2>4, ChapterStepTypeInv
<1>2. CASE RepairChapter
  <2>1. PICK body \in RepairedBodies(draft.body), verdict \in Verdict :
          ChapterStep("repair", "polish", Audited(body, verdict))
    BY <1>2 DEF RepairChapter
  <2>2. body \in Body
    BY <2>1, DraftTyped DEF RepairedBodies, Body
  <2>3. Audited(body, verdict) \in [body : Body, audit_of : Body, verdict : Verdict]
    BY <2>2, DraftTyped
  <2>4. chapter <= Len(narrative.plan)
    BY <2>1 DEF ChapterStep, TypeInv, FilesRead, StagesInOrder, NarrativeSteps, ChapterSteps, DraftSteps
  <2>5. "repair" \in ChapterSteps /\ "polish" \in DraftSteps
    BY DEF DraftSteps, ChapterSteps
  <2>6. QED
    BY <2>1, <2>3, <2>4, <2>5, ChapterStepTypeInv
<1>3. CASE PolishChapter
  <2>1. PICK candidate \in PolishedBodies(draft.body), verdict \in Verdict :
          ChapterStep("polish", "review", Kept(candidate, verdict))
    BY <1>3 DEF PolishChapter, AfterPolish
  <2>2. candidate \in Body
    BY <2>1, DraftTyped DEF PolishedBodies, Body
  <2>3. Kept(candidate, verdict) \in [body : Body, audit_of : Body, verdict : Verdict]
    BY <2>2, DraftTyped DEF Kept, TypeInv, TypeOK
  <2>4. chapter <= Len(narrative.plan)
    BY <2>1 DEF ChapterStep, TypeInv, FilesRead, StagesInOrder, NarrativeSteps, ChapterSteps, DraftSteps
  <2>5. "polish" \in ChapterSteps /\ "review" \in DraftSteps
    BY DEF DraftSteps, ChapterSteps
  <2>6. QED
    BY <2>1, <2>3, <2>4, <2>5, ChapterStepTypeInv
<1>4. QED
  BY <1>1, <1>2, <1>3

\* What a commit adds to the checkpoint.
LEMMA CommitFields ==
  ASSUME TypeInv, CommitChapter
  PROVE  \E new \in Chapter :
           /\ new = [slug |-> narrative.plan[chapter], body |-> draft.body,
                     audit_of |-> draft.audit_of, verdict |-> draft.verdict]
           /\ narrative \in Book /\ narrative' \in Book
           /\ narrative'.approved = Append(narrative.approved, new)
           /\ narrative'.synopses = Append(narrative.synopses, new.slug)
           /\ narrative'.version = narrative.version /\ narrative'.canon = narrative.canon
           /\ narrative'.timeline = narrative.timeline /\ narrative'.plan = narrative.plan
           /\ narrative'.detail_bank = narrative.detail_bank
<1> DEFINE new == [slug |-> narrative.plan[chapter], body |-> draft.body,
                   audit_of |-> draft.audit_of, verdict |-> draft.verdict]
<1>1. narrative \in Book /\ narrative.plan[chapter] \in Slugs
  <2>1. pc = "review"
    BY DEF CommitChapter
  <2>2. narrative \in Book /\ chapter <= Len(narrative.plan)
    BY <2>1 DEF TypeInv, FilesRead, StagesInOrder, NarrativeSteps, ChapterSteps, DraftSteps
  <2>3. QED
    BY <2>1, <2>2, ChapterStart DEF ChapterSteps, DraftSteps
<1>2. new \in Chapter
  BY <1>1, DraftTyped DEF Chapter
<1> DEFINE slug == narrative.plan[chapter]
           approved == Append(narrative.approved, new)
           synopses == Append(narrative.synopses, slug)
<1>3. approved \in Seq(Chapter) /\ synopses \in Seq(Slugs)
  BY <1>1, <1>2, BookFields, AppendProperties
<1>4. narrative' = [narrative EXCEPT !.approved = approved, !.synopses = synopses]
  BY DEF CommitChapter
<1>5. new.slug = slug
  OBVIOUS
<1> HIDE DEF new, slug, approved, synopses
<1>6. /\ narrative' \in Book /\ narrative'.approved = approved /\ narrative'.synopses = synopses
      /\ narrative'.version = narrative.version /\ narrative'.canon = narrative.canon
      /\ narrative'.timeline = narrative.timeline /\ narrative'.plan = narrative.plan
      /\ narrative'.detail_bank = narrative.detail_bank
  BY <1>1, <1>3, <1>4 DEF Book
<1>7. QED
  BY <1>1, <1>2, <1>5, <1>6 DEF new, approved, synopses

LEMMA CommitTypeInv ==
  ASSUME TypeInv, CommitChapter
  PROVE  TypeInv'
<1>1. /\ narrative \in Book /\ narrative' \in Book
      /\ narrative'.canon = narrative.canon /\ narrative'.timeline = narrative.timeline
      /\ narrative'.plan = narrative.plan /\ narrative'.detail_bank = narrative.detail_bank
  BY CommitFields
<1>2. /\ pc = "review" /\ pc' = "chapters" /\ chapter' = chapter + 1 /\ draft' = NoDraft
      /\ UNCHANGED <<extraction, pipeline, segments, claims, batch, done_slugs, runs, failures,
                     lost, stale>>
  BY DEF CommitChapter, ingest_vars, history_vars
<1>3. TypeOK'
  BY <1>1, <1>2, NoValuesTyped DEF TypeInv, TypeOK
<1>4. FilesRead'
  BY <1>1, <1>2 DEF TypeInv, FilesRead, NarrativeSteps, ChapterSteps, DraftSteps, IngestSteps
<1>5. chapter \in Nat \ {0} /\ narrative.plan # Absent
  BY <1>1, <1>2, ChapterStart DEF ChapterSteps, DraftSteps, TypeInv, StagesInOrder
<1>6. StagesInOrder'
  BY <1>1, <1>2, <1>5 DEF TypeInv, StagesInOrder, ChapterSteps, DraftSteps
<1>7. QED
  BY <1>3, <1>4, <1>6 DEF TypeInv

LEMMA WriteStoryTypeInv ==
  ASSUME TypeInv, WriteStory
  PROVE  TypeInv'
<1> DEFINE story == [by |-> "narrative_agent", slugs |-> SlugsOf(narrative.approved),
                     facts |-> narrative.timeline, voice |-> narrative.detail_bank]
<1>1. /\ narrative \in Book /\ pipeline \in Pipeline
      /\ narrative.detail_bank \in Transcription /\ narrative.timeline \in SUBSET Fragment
  BY ChapterStart DEF WriteStory, ChapterSteps
<1>2. SlugsOf(narrative.approved) \in Seq(Slugs)
  BY <1>1, BookFields, SlugsTyped
<1>3. story \in Story
  BY <1>1, <1>2 DEF Story
<1>4. pipeline' = [pipeline EXCEPT !.narrative = story]
  BY DEF WriteStory
<1> HIDE DEF story
<1>5. pipeline' \in Pipeline
  BY <1>1, <1>3, <1>4 DEF Pipeline
<1>6. QED
  BY <1>5, EndTypeInv DEF WriteStory, TypeInv, TypeOK

LEMMA TypeInvKept ==
  ASSUME TypeInv, [Next]_vars
  PROVE  TypeInv'
<1>1. CASE UNCHANGED vars
  BY <1>1
  DEF vars, files, ingest_vars, chapter_vars, history_vars, TypeInv, TypeOK, FilesRead, StagesInOrder
<1>2. CASE Ingest \/ IngestAgain \/ StartNarrative \/ Fail \/ Tear
  BY <1>2, IngestTypeInv, StartNarrativeTypeInv, FailTypeInv
<1>3. CASE RunStep
  BY <1>3, ExtractTypeInv, FinishExtractionTypeInv, SaveClaimsTypeInv, ShortStoryTypeInv, LoadTypeInv,
     CanonBatchTypeInv, FinishCanonTypeInv, ResolveTimelineTypeInv, PlanBookTypeInv,
     BuildDetailBankTypeInv, StartChaptersTypeInv, SkipChapterTypeInv, DraftStepTypeInv,
     CommitTypeInv, WriteStoryTypeInv DEF RunStep
<1>4. QED
  BY <1>1, <1>2, <1>3 DEF Next

\* TypeOK: every file the scripts resume from parses to what they wrote or is torn, and
\* a running script holds values it could have read (batch_ingest, narrative_agent).
THEOREM NarrativeTypeCorrect == Spec => []TypeOK
<1>1. TypeInv => TypeOK
  BY DEF TypeInv
<1>2. QED
  BY InitTypeInv, TypeInvKept, <1>1, PTL DEF Spec

-----------------------------------------------------------------------------
(* What a step may do to the checkpoint *)

\* A stage adds events, or makes what was missing.
StageAdds ==
  /\ pc = "stages" /\ pc' = "stages"
  /\ narrative \in Book /\ narrative' \in Book
  /\ narrative'.approved = narrative.approved /\ narrative'.version = narrative.version
  /\ \/ narrative'.synopses = narrative.synopses
     \/ narrative.plan = Absent /\ narrative'.synopses = <<>>
  /\ narrative.timeline # Absent => narrative'.timeline = narrative.timeline
  /\ narrative.plan # Absent => narrative'.plan = narrative.plan
  /\ \E more \in Seq(Fragment) : narrative'.canon.events = narrative.canon.events \o more

LEMMA CanonBatchAdds ==
  ASSUME TypeInv, CanonBatch
  PROVE  StageAdds
<1>1. PICK events \in Seq(Fragment) :
        Stage([narrative EXCEPT !.canon = CanonSaved(narrative.canon, events)])
  BY CanonBatchFacts
<1>2. pc = "stages" /\ narrative \in Book /\ narrative.canon \in Canon
  BY StageStart, BookFields DEF CanonBatch
<1> DEFINE canon == CanonSaved(narrative.canon, events)
<1>3. canon \in Canon /\ canon.events = narrative.canon.events \o events
  BY <1>2, CanonSavedFields
<1>4. narrative' = [narrative EXCEPT !.canon = canon] /\ pc' = pc
  BY <1>1 DEF Stage
<1> HIDE DEF canon
<1>5. /\ narrative' \in Book /\ narrative'.canon = canon
      /\ narrative'.approved = narrative.approved /\ narrative'.version = narrative.version
      /\ narrative'.synopses = narrative.synopses /\ narrative'.timeline = narrative.timeline
      /\ narrative'.plan = narrative.plan
  BY <1>2, <1>3, <1>4 DEF Book
<1>6. QED
  BY <1>2, <1>3, <1>4, <1>5 DEF StageAdds

LEMMA OtherStagesAdd ==
  ASSUME TypeInv, FinishCanon \/ ResolveTimeline \/ PlanBook \/ BuildDetailBank
  PROVE  StageAdds
<1>0. pc = "stages" /\ pc' = "stages" /\ narrative \in Book
  BY StageStart DEF FinishCanon, ResolveTimeline, PlanBook, BuildDetailBank, Stage
<1>1. narrative' \in Book
  <2>1. TypeInv'
    BY FinishCanonTypeInv, ResolveTimelineTypeInv, PlanBookTypeInv, BuildDetailBankTypeInv
  <2>2. QED
    BY <1>0, <2>1 DEF TypeInv, FilesRead, NarrativeSteps
<1>2. /\ narrative'.approved = narrative.approved /\ narrative'.version = narrative.version
      /\ narrative'.canon.events = narrative.canon.events
      /\ \/ narrative'.synopses = narrative.synopses
         \/ narrative.plan = Absent /\ narrative'.synopses = <<>>
      /\ narrative.timeline # Absent => narrative'.timeline = narrative.timeline
      /\ narrative.plan # Absent => narrative'.plan = narrative.plan
  <2>1. CASE FinishCanon
    <3>1. narrative' = [narrative EXCEPT !.canon.done = TRUE]
      BY <2>1 DEF FinishCanon, Stage
    <3>2. QED
      BY <1>0, <3>1 DEF Book, Canon
  <2>2. CASE ResolveTimeline
    <3> DEFINE facts == Ordered(Range(narrative.canon.events))
    <3>1. narrative' = [narrative EXCEPT !.timeline = facts] /\ narrative.timeline = Absent
      BY <2>2 DEF ResolveTimeline, Stage
    <3> HIDE DEF facts
    <3>2. QED
      BY <1>0, <3>1 DEF Book
  <2>3. CASE PlanBook
    <3>1. PICK plan \in Plans : narrative' = [narrative EXCEPT !.plan = plan, !.synopses = <<>>]
      BY <2>3 DEF PlanBook, Stage
    <3>2. narrative.plan = Absent
      BY <2>3 DEF PlanBook
    <3>3. QED
      BY <1>0, <3>1, <3>2 DEF Book
  <2>4. CASE BuildDetailBank
    <3>1. narrative' = [narrative EXCEPT !.detail_bank = pipeline.segments]
      BY <2>4 DEF BuildDetailBank, Stage
    <3>2. QED
      BY <1>0, <3>1 DEF Book
  <2>5. QED
    BY <2>1, <2>2, <2>3, <2>4
<1>3. <<>> \in Seq(Fragment) /\ narrative'.canon.events = narrative.canon.events \o <<>>
  BY <1>0, <1>2, BookFields, EmptySeq, ConcatEmptySeq
<1>4. QED
  BY <1>0, <1>1, <1>2, <1>3 DEF StageAdds

LEMMA BookSteps ==
  ASSUME [Next]_vars
  PROVE  \/ narrative' = narrative \/ narrative' = Torn
         \/ LoadCheckpoint \/ CanonBatch \/ CommitChapter
         \/ FinishCanon \/ ResolveTimeline \/ PlanBook \/ BuildDetailBank
<1>1. CASE UNCHANGED vars \/ Ingest \/ IngestAgain \/ StartNarrative \/ Fail \/ Tear
  BY <1>1 DEF vars, files, Ingest, IngestAgain, StartIngest, StartNarrative, Fail, Tear
<1>2. CASE ExtractBatch \/ FinishExtraction \/ SaveClaims \/ ShortStory \/ StartChapters
            \/ SkipChapter \/ WriteChapter \/ RepairChapter \/ PolishChapter \/ WriteStory
  BY <1>2
  DEF ExtractBatch, FinishExtraction, SaveClaims, ShortStory, StartChapters, SkipChapter,
      WriteChapter, RepairChapter, PolishChapter, ChapterStep, WriteStory, files
<1>3. QED
  BY <1>1, <1>2 DEF Next, RunStep

LEMMA BookChanges ==
  ASSUME TypeInv, [Next]_vars
  PROVE  \/ narrative' = narrative \/ narrative' = Torn
         \/ LoadCheckpoint \/ StageAdds \/ CommitChapter
  BY BookSteps, CanonBatchAdds, OtherStagesAdd

-----------------------------------------------------------------------------
(* Synopses *)

SynopsesInv == narrative \in Book => narrative.synopses = SlugsOf(narrative.approved)

LEMMA NoSlugs == SlugsOf(<<>>) = <<>>
  BY DEF SlugsOf

LEMMA OldSynopses ==
  ASSUME NEW plan \in Seq(Slugs), NEW n \in 0..Len(plan), NEW events
  PROVE  OldBook(events, plan, n).synopses = SlugsOf(OldBook(events, plan, n).approved)
<1> DEFINE old == [i \in 1..n |-> OldChapter(plan[i])]
<1>1. n \in Nat /\ Len(plan) \in Nat /\ n <= Len(plan)
  BY LenProperties
<1>2. SubSeq(plan, 1, n) = [i \in 1..n |-> plan[i]]
  BY <1>1
<1>3. SlugsOf(old) = [i \in 1..n |-> plan[i]]
  BY DEF SlugsOf, OldChapter
<1>4. OldBook(events, plan, n).approved = old /\ OldBook(events, plan, n).synopses = SubSeq(plan, 1, n)
  BY DEF OldBook, NoBook
<1>5. QED
  BY <1>2, <1>3, <1>4

LEMMA AppendedSlugs ==
  ASSUME NEW chapters \in Seq(Chapter), NEW new \in Chapter
  PROVE  SlugsOf(Append(chapters, new)) = Append(SlugsOf(chapters), new.slug)
<1> DEFINE all == Append(chapters, new)
<1>1. /\ all \in Seq(Chapter) /\ Len(all) = Len(chapters) + 1
      /\ \A i \in 1..Len(chapters) : all[i] = chapters[i]
      /\ all[Len(chapters) + 1] = new
  BY AppendProperties
<1> HIDE DEF all
<1>2. new.slug \in Slugs /\ Len(chapters) \in Nat
  BY LenProperties DEF Chapter
<1>3. /\ SlugsOf(all) \in Seq(Slugs) /\ Len(SlugsOf(all)) = Len(chapters) + 1
      /\ \A i \in 1..Len(chapters) + 1 : SlugsOf(all)[i] = all[i].slug
  BY <1>1, SlugsTyped
<1>4. /\ SlugsOf(chapters) \in Seq(Slugs) /\ Len(SlugsOf(chapters)) = Len(chapters)
      /\ \A i \in 1..Len(chapters) : SlugsOf(chapters)[i] = chapters[i].slug
  BY SlugsTyped
<1> DEFINE slugs == Append(SlugsOf(chapters), new.slug)
<1>5. /\ slugs \in Seq(Slugs) /\ Len(slugs) = Len(chapters) + 1
      /\ \A i \in 1..Len(chapters) : slugs[i] = SlugsOf(chapters)[i]
      /\ slugs[Len(chapters) + 1] = new.slug
  BY <1>2, <1>4, AppendProperties
<1> HIDE DEF slugs
<1>6. \A i \in 1..Len(chapters) + 1 : SlugsOf(all)[i] = slugs[i]
  BY <1>1, <1>2, <1>3, <1>4, <1>5
<1>7. SlugsOf(all) = slugs
  BY <1>3, <1>5, <1>6, SeqEqual
<1>8. QED
  BY <1>7 DEF all, slugs

LEMMA SynopsesKept ==
  ASSUME TypeInv, SynopsesInv, [Next]_vars
  PROVE  SynopsesInv'
<1>1. CASE narrative' = narrative \/ narrative' = Torn
  BY <1>1, FilesDiffer DEF SynopsesInv
<1>2. CASE LoadCheckpoint
  <2>1. Loaded \in Book /\ Loaded.synopses = SlugsOf(Loaded.approved)
    BY <1>2, LoadedTyped, NoSlugs, FilesDiffer
    DEF LoadCheckpoint, Loaded, NoBook, SynopsesInv, TypeInv, FilesRead
  <2>2. CASE Loaded.version # "v3"
    BY <1>2, <2>1, <2>2, UpgradedFields, NoSlugs DEF LoadCheckpoint, SynopsesInv
  <2>3. CASE Loaded.version = "v3"
    BY <1>2, <2>3 DEF LoadCheckpoint, SynopsesInv
  <2>4. QED
    BY <2>2, <2>3
<1>3. CASE StageAdds
  <2>1. narrative.plan = Absent => narrative.approved = <<>>
    BY <1>3 DEF StageAdds, TypeInv, StagesInOrder
  <2>2. QED
    BY <1>3, <2>1, NoSlugs DEF StageAdds, SynopsesInv
<1>4. CASE CommitChapter
  <2>1. PICK new \in Chapter :
          /\ narrative \in Book
          /\ narrative'.approved = Append(narrative.approved, new)
          /\ narrative'.synopses = Append(narrative.synopses, new.slug)
    BY <1>4, CommitFields
  <2>2. QED
    BY <2>1, AppendedSlugs, BookFields DEF SynopsesInv
<1>5. QED
  BY <1>1, <1>2, <1>3, <1>4, BookChanges

\* SynopsesFollowChapters: what review_chapter and later packets are given as the story
\* so far is that of the approved chapters (narrative_agent, main loop and upgrade).
THEOREM SynopsesAreOfApproved == Spec => []SynopsesFollowChapters
<1>1. Init => SynopsesInv
  <2> SUFFICES ASSUME Init, narrative \in Book
               PROVE  narrative.synopses = SlugsOf(narrative.approved)
    BY DEF SynopsesInv
  <2>1. \E events : \E plan \in Plans : \E n \in 0..Len(plan) : narrative = OldBook(events, plan, n)
    BY FilesDiffer DEF Init
  <2>2. QED
    BY <2>1, PlansAreSequences, OldSynopses
<1>2. TypeInv /\ SynopsesInv => SynopsesFollowChapters
  BY DEF SynopsesFollowChapters, SynopsesInv, Readable, TypeInv, TypeOK
<1>3. TypeInv /\ SynopsesInv /\ [Next]_vars => TypeInv' /\ SynopsesInv'
  BY TypeInvKept, SynopsesKept
<1>4. QED
  BY InitTypeInv, <1>1, <1>2, <1>3, PTL DEF Spec

-----------------------------------------------------------------------------
(* Progress *)

LEMMA ExtendsByConcat ==
  ASSUME NEW S, NEW short \in Seq(S), NEW more \in Seq(S)
  PROVE  Extends(short \o more, short)
<1>1. Len(short) \in Nat /\ Len(more) \in Nat /\ Len(short \o more) = Len(short) + Len(more)
  BY LenProperties, ConcatProperties
<1>2. SubSeq(short \o more, 1, Len(short)) = SubSeq(short, 1, Len(short))
  BY <1>1, SubSeqOfConcat1
<1>3. SubSeq(short, 1, Len(short)) = short
  BY SubSeqFull
<1>4. QED
  BY <1>1, <1>2, <1>3 DEF Extends

LEMMA ExtendsItself ==
  ASSUME NEW S, NEW seq \in Seq(S)
  PROVE  Extends(seq, seq)
<1>1. Len(seq) \in Nat
  BY LenProperties
<1>2. QED
  BY <1>1, SubSeqFull DEF Extends

\* ProgressKept: a stop and a resumed run redo no stage and drop no chapter (the save_ckpt
\* of each stage and chapter of narrative_agent, and the upgrade).
THEOREM NarrativeProgressKept == Spec => ProgressKept
<1>1. TypeInv /\ [Next]_vars => KeepsProgress
  <2> SUFFICES ASSUME TypeInv, [Next]_vars, Readable(narrative), narrative' # Torn
               PROVE  KeepsProgress
    BY DEF KeepsProgress
  <2>1. narrative \in Book
    BY DEF Readable, TypeInv, TypeOK
  <2>2. /\ Extends(narrative.canon.events, narrative.canon.events)
        /\ Extends(narrative.approved, narrative.approved)
    BY <2>1, BookFields, ExtendsItself
  <2>3. CASE narrative' = narrative
    BY <2>2, <2>3 DEF KeepsProgress
  <2>4. CASE LoadCheckpoint
    <3>1. Loaded = narrative
      BY <2>1, FilesDiffer DEF Loaded
    <3>2. /\ narrative'.canon = narrative.canon /\ narrative'.timeline = narrative.timeline
          /\ narrative'.plan = narrative.plan
          /\ narrative.version = "v3" => narrative' = narrative
      BY <2>1, <2>4, <3>1, UpgradedFields DEF LoadCheckpoint
    <3>3. QED
      BY <2>2, <3>2 DEF KeepsProgress
  <2>5. CASE StageAdds
    <3>1. PICK more \in Seq(Fragment) : narrative'.canon.events = narrative.canon.events \o more
      BY <2>5 DEF StageAdds
    <3>2. Extends(narrative'.canon.events, narrative.canon.events)
      BY <2>1, <3>1, BookFields, ExtendsByConcat
    <3>3. QED
      BY <2>2, <2>5, <3>2 DEF StageAdds, KeepsProgress
  <2>6. CASE CommitChapter
    <3>1. PICK new \in Chapter :
            /\ narrative'.approved = Append(narrative.approved, new)
            /\ narrative'.canon = narrative.canon /\ narrative'.timeline = narrative.timeline
            /\ narrative'.plan = narrative.plan
      BY <2>6, CommitFields
    <3>2. <<new>> \in Seq(Chapter) /\ narrative'.approved = narrative.approved \o <<new>>
      BY <2>1, <3>1, BookFields, AppendIsConcat
    <3>3. Extends(narrative'.approved, narrative.approved)
      BY <2>1, <3>2, BookFields, ExtendsByConcat
    <3>4. QED
      BY <2>2, <3>1, <3>3 DEF KeepsProgress
  <2>7. QED
    BY <2>3, <2>4, <2>5, <2>6, BookChanges
<1>2. QED
  BY InitTypeInv, TypeInvKept, <1>1, PTL DEF Spec, ProgressKept

-----------------------------------------------------------------------------
(* Audits *)

\* A text and its audit are one pair, in the draft and in the checkpoint.
Sound(ch) == ch.audit_of = ch.body /\ (ch.body = "polished" => ch.verdict = "pass")

DraftSound ==
  /\ pc \in DraftSteps => Sound(draft)
  /\ pc \in {"repair", "polish"} => draft.body # "polished"
  /\ pc \in NarrativeSteps => narrative.version = "v3"

ApprovedSound ==
  narrative \in Book /\ narrative.version = "v3" =>
    \A i \in 1..Len(narrative.approved) : Sound(narrative.approved[i])

LEMMA DraftSoundKept ==
  ASSUME TypeInv, DraftSound, [Next]_vars
  PROVE  DraftSound'
<1> USE DEF NarrativeSteps, ChapterSteps, DraftSteps
<1>1. CASE UNCHANGED vars
  BY <1>1 DEF vars, files, chapter_vars, DraftSound, Sound
<1>2. CASE Ingest \/ IngestAgain \/ StartNarrative \/ Fail \/ Tear \/ ExtractBatch
            \/ FinishExtraction \/ SaveClaims \/ ShortStory \/ WriteStory
  <2>1. pc' \notin NarrativeSteps
    BY <1>2
    DEF Ingest, IngestAgain, StartIngest, StartNarrative, Fail, Tear, ExtractBatch,
        FinishExtraction, SaveClaims, ShortStory, WriteStory, Forget
  <2>2. QED
    BY <2>1 DEF DraftSound
<1>3. CASE LoadCheckpoint
  <2>1. narrative'.version = "v3" /\ pc' = "stages"
    BY <1>3, LoadedTyped, UpgradedFields DEF LoadCheckpoint, Loaded, NoBook
  <2>2. QED
    BY <2>1 DEF DraftSound
<1>4. CASE StageAdds
  BY <1>4 DEF StageAdds, DraftSound
<1>5. CASE StartChapters \/ SkipChapter
  BY <1>5 DEF StartChapters, SkipChapter, files, DraftSound
<1>6. CASE WriteChapter
  BY <1>6 DEF WriteChapter, ChapterStep, Audited, files, DraftSound, Sound, Verdict
<1>7. CASE RepairChapter
  BY <1>7 DEF RepairChapter, RepairedBodies, ChapterStep, Audited, files, DraftSound, Sound
<1>8. CASE PolishChapter
  <2>1. PICK candidate \in PolishedBodies(draft.body), verdict \in Verdict :
          ChapterStep("polish", "review", Kept(candidate, verdict))
    BY <1>8 DEF PolishChapter, AfterPolish
  <2>2. pc = "polish" /\ pc' = "review" /\ draft' = Kept(candidate, verdict) /\ narrative' = narrative
    BY <2>1 DEF ChapterStep, files
  <2>3. Sound(draft')
    BY <2>2 DEF Kept, Audited, DraftSound, Sound, Verdict
  <2>4. QED
    BY <2>2, <2>3 DEF DraftSound
<1>9. CASE CommitChapter
  <2>1. narrative'.version = narrative.version /\ pc = "review" /\ pc' = "chapters"
    BY <1>9, CommitFields DEF CommitChapter
  <2>2. QED
    BY <2>1 DEF DraftSound
<1>10. QED
  BY <1>1, <1>2, <1>3, <1>4, <1>5, <1>6, <1>7, <1>8, <1>9, CanonBatchAdds, OtherStagesAdd
  DEF Next, RunStep

LEMMA ApprovedSoundKept ==
  ASSUME TypeInv, DraftSound, ApprovedSound, [Next]_vars
  PROVE  ApprovedSound'
<1>1. CASE narrative' = narrative \/ narrative' = Torn
  BY <1>1, FilesDiffer DEF ApprovedSound
<1>2. CASE LoadCheckpoint
  <2>1. CASE Loaded.version # "v3"
    <3>1. narrative'.approved = <<>>
      BY <1>2, <2>1, LoadedTyped, UpgradedFields DEF LoadCheckpoint
    <3>2. QED
      BY <3>1 DEF ApprovedSound
  <2>2. CASE Loaded.version = "v3"
    BY <1>2, <2>2 DEF LoadCheckpoint, ApprovedSound
  <2>3. QED
    BY <2>1, <2>2
<1>3. CASE StageAdds
  BY <1>3 DEF StageAdds, ApprovedSound
<1>4. CASE CommitChapter
  <2>1. PICK new \in Chapter :
          /\ new = [slug |-> narrative.plan[chapter], body |-> draft.body,
                    audit_of |-> draft.audit_of, verdict |-> draft.verdict]
          /\ narrative \in Book
          /\ narrative'.approved = Append(narrative.approved, new)
          /\ narrative'.version = narrative.version
    BY <1>4, CommitFields
  <2>2. Sound(new)
    BY <1>4, <2>1 DEF CommitChapter, DraftSound, DraftSteps, Sound
  <2>3. narrative.approved \in Seq(Chapter) /\ Len(narrative.approved) \in Nat
    BY <2>1, BookFields, LenProperties
  <2>4. /\ Len(narrative'.approved) = Len(narrative.approved) + 1
        /\ \A i \in 1..Len(narrative.approved) : narrative'.approved[i] = narrative.approved[i]
        /\ narrative'.approved[Len(narrative.approved) + 1] = new
    BY <2>1, <2>3, AppendProperties
  <2>5. ASSUME narrative.version = "v3", NEW i \in 1..Len(narrative'.approved)
        PROVE  Sound(narrative'.approved[i])
    <3>1. CASE i = Len(narrative.approved) + 1
      BY <2>2, <2>4, <3>1
    <3>2. CASE i # Len(narrative.approved) + 1
      <4>1. i \in 1..Len(narrative.approved)
        BY <2>3, <2>4, <2>5, <3>2
      <4>2. QED
        BY <2>1, <2>4, <2>5, <4>1 DEF ApprovedSound
    <3>3. QED
      BY <3>1, <3>2
  <2>6. QED
    BY <2>1, <2>5 DEF ApprovedSound
<1>5. QED
  BY <1>1, <1>2, <1>3, <1>4, BookChanges

\* AuditMatchesText: an approved chapter carries the audit of the text it carries, and a
\* polished text that failed is never kept (narrative_agent, the polish loop).
THEOREM ChapterAuditsMatch == Spec => []AuditMatchesText
<1>1. Init => DraftSound /\ ApprovedSound
  <2>1. ASSUME Init PROVE DraftSound
    BY <2>1 DEF Init, DraftSound, NarrativeSteps, ChapterSteps, DraftSteps
  <2>2. ASSUME Init, narrative \in Book PROVE narrative.version = "v2"
    BY <2>2, FilesDiffer DEF Init, OldBook, NoBook
  <2>3. QED
    BY <2>1, <2>2 DEF ApprovedSound
<1>2. TypeInv /\ ApprovedSound => AuditMatchesText
  <2> SUFFICES ASSUME TypeInv, ApprovedSound, Readable(narrative), narrative.version = "v3",
                      NEW i \in DOMAIN narrative.approved
               PROVE  Sound(narrative.approved[i])
    BY DEF AuditMatchesText, Sound
  <2>1. narrative \in Book
    BY DEF Readable, TypeInv, TypeOK
  <2>2. DOMAIN narrative.approved = 1..Len(narrative.approved)
    BY <2>1, BookFields, LenProperties
  <2>3. QED
    BY <2>1, <2>2 DEF ApprovedSound
<1>3. TypeInv /\ DraftSound /\ ApprovedSound /\ [Next]_vars => TypeInv' /\ DraftSound' /\ ApprovedSound'
  BY TypeInvKept, DraftSoundKept, ApprovedSoundKept
<1>4. QED
  BY InitTypeInv, <1>1, <1>2, <1>3, PTL DEF Spec

-----------------------------------------------------------------------------
(***************************************************************************)
(* What the files say of each other: claims and batches, events and        *)
(* claims, the story and its plan.                                         *)
(***************************************************************************)

\* What a step may do to pipeline.json: only SaveClaims changes the claims.
LEMMA PipelineChanges ==
  ASSUME TypeInv, [Next]_vars
  PROVE  \/ pipeline' = pipeline \/ pipeline' = Torn
         \/ SaveClaims /\ pipeline' = [segments |-> segments, claims |-> claims, narrative |-> NoStory]
         \/ /\ ShortStory \/ WriteStory
            /\ pipeline \in Pipeline
            /\ pipeline'.claims = pipeline.claims /\ pipeline'.segments = pipeline.segments
<1>1. CASE UNCHANGED vars \/ Ingest \/ IngestAgain \/ StartNarrative \/ Fail \/ Tear
  BY <1>1 DEF vars, files, Ingest, IngestAgain, StartIngest, StartNarrative, Fail, Tear
<1>2. CASE ExtractBatch \/ FinishExtraction \/ LoadCheckpoint \/ StartChapters
            \/ SkipChapter \/ WriteChapter \/ RepairChapter \/ PolishChapter \/ CommitChapter
  BY <1>2
  DEF ExtractBatch, FinishExtraction, LoadCheckpoint, StartChapters,
      SkipChapter, WriteChapter, RepairChapter, PolishChapter, ChapterStep, CommitChapter, files
<1>3. CASE CanonBatch \/ FinishCanon \/ ResolveTimeline \/ PlanBook \/ BuildDetailBank
  BY <1>3 DEF CanonBatch, FinishCanon, ResolveTimeline, PlanBook, BuildDetailBank, Stage
<1>4. CASE SaveClaims
  BY <1>4 DEF SaveClaims
<1>5. CASE ShortStory
  <2>1. PICK story : pipeline' = [pipeline EXCEPT !.narrative = story]
    BY <1>5 DEF ShortStory
  <2>2. pipeline \in Pipeline
    BY <1>5 DEF ShortStory, TypeInv, FilesRead
  <2>3. QED
    BY <1>5, <2>1, <2>2 DEF Pipeline
<1>6. CASE WriteStory
  <2>1. PICK story : pipeline' = [pipeline EXCEPT !.narrative = story]
    BY <1>6 DEF WriteStory
  <2>2. pipeline \in Pipeline
    BY <1>6, ChapterStart DEF WriteStory, ChapterSteps
  <2>3. QED
    BY <1>6, <2>1, <2>2 DEF Pipeline
<1>7. QED
  BY <1>1, <1>2, <1>3, <1>4, <1>5, <1>6 DEF Next, RunStep

-----------------------------------------------------------------------------
(* Claims and batches *)

Sorted(seq) == \A i, j \in 1..Len(seq) : i < j => seq[i].batch < seq[j].batch
UpTo(seq, n) == \A i \in 1..Len(seq) : seq[i].batch <= n

\* What is resumed from, and what a run holds, comes from the batches it is past.
ClaimsInv ==
  /\ extraction \in Extraction =>
       Sorted(extraction.fragments) /\ UpTo(extraction.fragments, extraction.next_batch)
  /\ pc \in IngestSteps => Sorted(claims)
  /\ pc = "extract" => UpTo(claims, batch)
  /\ pipeline \in Pipeline => Sorted(pipeline.claims)

LEMMA SortedEmpty == Sorted(<<>>) /\ \A n \in Nat : UpTo(<<>>, n)
  BY DEF Sorted, UpTo

LEMMA SortedAppend ==
  ASSUME NEW seq \in Seq(Fragment), NEW n \in Nat, Sorted(seq), UpTo(seq, n),
         NEW new \in Fragment, new.batch = n + 1
  PROVE  Sorted(Append(seq, new)) /\ UpTo(Append(seq, new), n + 1)
<1> DEFINE all == Append(seq, new)
<1>1. /\ Len(all) = Len(seq) + 1 /\ Len(seq) \in Nat
      /\ \A i \in 1..Len(seq) : all[i] = seq[i]
      /\ all[Len(seq) + 1] = new
  BY AppendProperties, LenProperties
<1> HIDE DEF all
<1>2. \A i \in 1..Len(seq) : seq[i].batch \in Nat
  <2> SUFFICES ASSUME NEW i \in 1..Len(seq) PROVE seq[i].batch \in Nat
    OBVIOUS
  <2>1. seq[i] \in Fragment
    BY ElementOfSeq
  <2>2. QED
    BY <2>1, BoundAssumption DEF Fragment
<1>3. \A i \in 1..Len(all) : i \in 1..Len(seq) \/ i = Len(seq) + 1
  BY <1>1
<1>4. Sorted(all)
  <2> SUFFICES ASSUME NEW i \in 1..Len(all), NEW j \in 1..Len(all), i < j
               PROVE  all[i].batch < all[j].batch
    BY DEF Sorted
  <2>1. i \in 1..Len(seq)
    BY <1>1
  <2>2. CASE j \in 1..Len(seq)
    BY <1>1, <2>1, <2>2 DEF Sorted
  <2>3. CASE j = Len(seq) + 1
    BY <1>1, <1>2, <2>1, <2>3 DEF UpTo
  <2>4. QED
    BY <1>3, <2>2, <2>3
<1>5. UpTo(all, n + 1)
  <2> SUFFICES ASSUME NEW i \in 1..Len(all) PROVE all[i].batch <= n + 1
    BY DEF UpTo
  <2>1. CASE i \in 1..Len(seq)
    BY <1>1, <1>2, <2>1 DEF UpTo
  <2>2. CASE i = Len(seq) + 1
    BY <1>1, <2>2
  <2>3. QED
    BY <1>3, <2>1, <2>2
<1>6. QED
  BY <1>4, <1>5 DEF all

LEMMA ExtractedClaims ==
  ASSUME TypeInv, ClaimsInv, ExtractBatch
  PROVE  Sorted(claims') /\ UpTo(claims', batch + 1)
<1> DEFINE fragment == [run |-> segments.run, batch |-> batch + 1]
<1>1. segments \in Transcription /\ batch \in Nat /\ batch < segments.batches /\ pc = "extract"
  BY DEF ExtractBatch, TypeInv, TypeOK, FilesRead, IngestSteps
<1>2. fragment \in Fragment /\ fragment.batch = batch + 1
  BY <1>1, BoundAssumption DEF Transcription, Fragment
<1>3. claims' = claims \/ claims' = Append(claims, fragment)
  BY DEF ExtractBatch
<1>4. claims \in Seq(Fragment) /\ Sorted(claims) /\ UpTo(claims, batch)
  BY <1>1 DEF TypeInv, TypeOK, ClaimsInv, IngestSteps
<1> HIDE DEF fragment
<1>5. CASE claims' = claims
  <2>1. \A i \in 1..Len(claims) : claims[i].batch \in Nat
    <3> SUFFICES ASSUME NEW i \in 1..Len(claims) PROVE claims[i].batch \in Nat
      OBVIOUS
    <3>1. claims[i] \in Fragment
      BY <1>4, ElementOfSeq
    <3>2. QED
      BY <3>1, BoundAssumption DEF Fragment
  <2>2. UpTo(claims, batch + 1)
    BY <1>1, <1>4, <2>1 DEF UpTo
  <2>3. QED
    BY <1>4, <1>5, <2>2
<1>6. CASE claims' = Append(claims, fragment)
  BY <1>1, <1>2, <1>4, <1>6, SortedAppend
<1>7. QED
  BY <1>3, <1>5, <1>6

LEMMA ClaimsKept ==
  ASSUME TypeInv, ClaimsInv, [Next]_vars
  PROVE  ClaimsInv'
<1>1. pipeline' \in Pipeline => Sorted(pipeline'.claims)
  <2>1. CASE pipeline' = pipeline
    BY <2>1 DEF ClaimsInv
  <2>2. CASE pipeline' = Torn
    BY <2>2, FilesDiffer
  <2>3. CASE SaveClaims /\ pipeline' = [segments |-> segments, claims |-> claims, narrative |-> NoStory]
    BY <2>3 DEF SaveClaims, ClaimsInv, IngestSteps
  <2>4. CASE pipeline \in Pipeline /\ pipeline'.claims = pipeline.claims
    BY <2>4 DEF ClaimsInv
  <2>5. QED
    BY <2>1, <2>2, <2>3, <2>4, PipelineChanges
<1>2. CASE Ingest \/ IngestAgain
  <2>1. /\ extraction' = extraction /\ pc' = "extract"
        /\ claims' = ResumePoint.fragments /\ batch' = ResumePoint.next_batch
        /\ extraction \in Extraction \/ extraction = Absent
    BY <1>2 DEF Ingest, IngestAgain, StartIngest, files, TypeInv, TypeOK
  <2>2. Sorted(claims') /\ UpTo(claims', batch')
    BY <2>1, SortedEmpty, FilesDiffer DEF ResumePoint, ClaimsInv
  <2>3. QED
    BY <1>1, <2>1, <2>2 DEF ClaimsInv
<1>3. CASE ExtractBatch
  <2>1. pc = "extract" /\ pc' = pc /\ batch' = batch + 1
    BY <1>3 DEF ExtractBatch
  <2>2. Sorted(claims') /\ UpTo(claims', batch')
    BY <1>3, <2>1, ExtractedClaims
  <2>3. extraction' = extraction \/ extraction' = [fragments |-> claims', next_batch |-> batch + 1]
    BY <1>3 DEF ExtractBatch, ExtractionSaved
  <2>4. QED
    BY <1>1, <2>1, <2>2, <2>3 DEF ClaimsInv
<1>4. CASE UNCHANGED vars
  BY <1>4 DEF vars, files, ingest_vars, ClaimsInv
<1>5. CASE FinishExtraction
  BY <1>1, <1>5, FilesDiffer DEF FinishExtraction, ingest_vars, ClaimsInv, IngestSteps
<1>6. CASE SaveClaims
  BY <1>1, <1>6 DEF SaveClaims, ingest_vars, ClaimsInv, IngestSteps
<1>7. CASE ShortStory \/ WriteStory \/ Fail \/ Tear
  <2>1. pc' = "idle" /\ (extraction' = extraction \/ extraction' = Torn)
    BY <1>7 DEF ShortStory, WriteStory, Fail, Tear, Forget, files
  <2>2. QED
    BY <1>1, <2>1, FilesDiffer DEF ClaimsInv, IngestSteps
<1>8. CASE StartNarrative \/ LoadCheckpoint \/ CanonBatch \/ FinishCanon \/ ResolveTimeline
            \/ PlanBook \/ BuildDetailBank
  <2>1. extraction' = extraction /\ pc' \in {"load", "stages"}
    BY <1>8
    DEF StartNarrative, LoadCheckpoint, CanonBatch, FinishCanon, ResolveTimeline, PlanBook,
        BuildDetailBank, Stage, files
  <2>2. QED
    BY <1>1, <2>1 DEF ClaimsInv, IngestSteps
<1>9. CASE StartChapters \/ SkipChapter \/ WriteChapter \/ RepairChapter \/ PolishChapter
            \/ CommitChapter
  <2>1. extraction' = extraction /\ pc' \in ChapterSteps
    BY <1>9
    DEF StartChapters, SkipChapter, WriteChapter, RepairChapter, PolishChapter, CommitChapter,
        ChapterStep, AfterPolish, files, ChapterSteps, DraftSteps
  <2>2. QED
    BY <1>1, <2>1 DEF ClaimsInv, IngestSteps, ChapterSteps, DraftSteps
<1>10. QED
  BY <1>2, <1>3, <1>4, <1>5, <1>6, <1>7, <1>8, <1>9
  DEF Next, RunStep

LEMMA InitClaims == Init => ClaimsInv
<1> SUFFICES ASSUME Init PROVE ClaimsInv
  OBVIOUS
<1>1. /\ extraction \notin Extraction /\ pc \notin IngestSteps
  BY FilesDiffer DEF Init, IngestSteps
<1>2. ASSUME pipeline \in Pipeline PROVE Sorted(pipeline.claims)
  <2> DEFINE events == [i \in 1..MaxBatches |-> [run |-> 1, batch |-> i]]
  <2>0. pipeline # Absent
    BY <1>2, FilesDiffer
  <2>1. pipeline.claims = events /\ MaxRuns > 0
    <3>1. MaxRuns > 0 /\ pipeline = [segments |-> [run |-> 1, batches |-> MaxBatches],
                                    claims |-> events, narrative |-> NoStory]
      BY <2>0 DEF Init
    <3> HIDE DEF events
    <3>2. QED
      BY <3>1
  <2>2. events \in Seq(Fragment) /\ \A i \in 1..MaxBatches : events[i].batch = i
    BY <2>1, FirstTranscription
  <2>3. Len(events) = MaxBatches
    BY <2>2, LenProperties, BoundAssumption
  <2> HIDE DEF events
  <2>4. QED
    BY <2>1, <2>2, <2>3 DEF Sorted
<1>3. QED
  BY <1>1, <1>2 DEF ClaimsInv, IngestSteps

\* ClaimsOncePerBatch: no stop, resumed run or other transcription makes extract_claims
\* give the fragment of a batch twice or out of order (batch_ingest).
THEOREM ClaimsStayOrdered == Spec => []ClaimsOncePerBatch
<1>1. TypeInv /\ ClaimsInv => ClaimsOncePerBatch
  <2> SUFFICES ASSUME TypeInv, ClaimsInv, Readable(pipeline) PROVE Sorted(pipeline.claims)
              /\ DOMAIN pipeline.claims = 1..Len(pipeline.claims)
    BY DEF ClaimsOncePerBatch, Sorted
  <2>1. pipeline \in Pipeline
    BY DEF Readable, TypeInv, TypeOK
  <2>2. pipeline.claims \in Seq(Fragment)
    BY <2>1 DEF Pipeline
  <2>3. QED
    BY <2>1, <2>2, LenProperties DEF ClaimsInv
<1>2. TypeInv /\ ClaimsInv /\ [Next]_vars => TypeInv' /\ ClaimsInv'
  BY TypeInvKept, ClaimsKept
<1>3. QED
  BY InitTypeInv, InitClaims, <1>1, <1>2, PTL DEF Spec

-----------------------------------------------------------------------------
(* Events and claims *)

\* The first n claims are the events, each once, and fragments that are gone.
Covers(events, seq, n, gone) ==
  /\ n <= Len(seq)
  /\ \A k \in 1..Len(events) : \E i \in 1..n : events[k] = seq[i]
  /\ \A i \in 1..n : seq[i] \in gone \/ \E k \in 1..Len(events) : events[k] = seq[i]
  /\ \A k, l \in 1..Len(events) : events[k] = events[l] => k = l

CanonInv ==
  ~stale /\ pipeline \in Pipeline /\ narrative \in Book =>
    Covers(narrative.canon.events, pipeline.claims, narrative.canon.next_batch, lost)

LEMMA CoversEmpty ==
  ASSUME NEW seq \in Seq(Fragment), NEW gone
  PROVE  Covers(<<>>, seq, 0, gone)
  BY LenProperties DEF Covers

LEMMA CoversMore ==
  ASSUME NEW events, NEW seq, NEW n, NEW gone, NEW more, Covers(events, seq, n, gone), gone \subseteq more
  PROVE  Covers(events, seq, n, more)
  BY DEF Covers

\* One batch further, when the claims differ from each other.
LEMMA CoversNext ==
  ASSUME NEW events \in Seq(Fragment), NEW seq \in Seq(Fragment), Sorted(seq), NEW gone,
         NEW n \in Nat, n < Len(seq), Covers(events, seq, n, gone), NEW new, new = seq[n + 1]
  PROVE  /\ Covers(Append(events, new), seq, n + 1, gone)
         /\ Covers(events, seq, n + 1, gone \cup {new})
<1>0. Len(seq) \in Nat /\ Len(events) \in Nat /\ n + 1 <= Len(seq)
  BY LenProperties
<1>1. \A i \in 1..n + 1 : i \in 1..n \/ i = n + 1
  BY <1>0
<1>2. Covers(events, seq, n + 1, gone \cup {new})
  BY <1>0, <1>1 DEF Covers
<1>3. new \in Fragment
  BY <1>0, ElementOfSeq
<1> DEFINE all == Append(events, new)
<1>4. /\ Len(all) = Len(events) + 1
      /\ \A k \in 1..Len(events) : all[k] = events[k]
      /\ all[Len(events) + 1] = new
  BY <1>3, AppendProperties
<1> HIDE DEF all
<1>5. \A k \in 1..Len(all) : k \in 1..Len(events) \/ k = Len(events) + 1
  BY <1>0, <1>4
<1>6. \A k \in 1..Len(events) : events[k] # new
  <2> SUFFICES ASSUME NEW k \in 1..Len(events) PROVE events[k] # new
    OBVIOUS
  <2>1. PICK i \in 1..n : events[k] = seq[i]
    BY DEF Covers
  <2>2. i \in 1..Len(seq) /\ n + 1 \in 1..Len(seq) /\ i < n + 1
    BY <1>0
  <2>3. seq[i].batch < seq[n + 1].batch
    BY <2>2 DEF Sorted
  <2>4. seq[i] \in Fragment
    BY <2>2, ElementOfSeq
  <2>5. seq[i].batch \in 1..MaxBatches
    BY <2>4 DEF Fragment
  <2>6. QED
    BY <2>1, <2>3, <2>5, BoundAssumption
<1>7. \A k \in 1..Len(all) : \E i \in 1..n + 1 : all[k] = seq[i]
  <2> SUFFICES ASSUME NEW k \in 1..Len(all) PROVE \E i \in 1..n + 1 : all[k] = seq[i]
    OBVIOUS
  <2>1. CASE k \in 1..Len(events)
    <3>1. PICK i \in 1..n : events[k] = seq[i]
      BY <2>1 DEF Covers
    <3>2. QED
      BY <1>4, <2>1, <3>1
  <2>2. CASE k = Len(events) + 1
    BY <1>4, <2>2
  <2>3. QED
    BY <1>5, <2>1, <2>2
<1>8. \A i \in 1..n + 1 : seq[i] \in gone \/ \E k \in 1..Len(all) : all[k] = seq[i]
  <2>1. Len(events) + 1 \in 1..Len(all) /\ 1..Len(events) \subseteq 1..Len(all)
    BY <1>0, <1>4
  <2>2. QED
    BY <1>1, <1>4, <2>1 DEF Covers
<1>9. \A k, l \in 1..Len(all) : all[k] = all[l] => k = l
  BY <1>4, <1>5, <1>6 DEF Covers
<1>10. QED
  BY <1>0, <1>2, <1>7, <1>8, <1>9 DEF Covers, all

\* stale only rises, lost only grows.
LEMMA HistoryGrows ==
  ASSUME TypeInv, [Next]_vars
  PROVE  (stale => stale') /\ lost \subseteq lost'
<1>0. CASE UNCHANGED vars
  BY <1>0 DEF vars, history_vars
<1>1. CASE Ingest \/ IngestAgain \/ StartNarrative \/ Fail \/ Tear
  BY <1>1 DEF history_vars, Ingest, IngestAgain, StartIngest, StartNarrative, Fail, Tear
<1>2. CASE ExtractBatch \/ FinishExtraction \/ ShortStory \/ LoadCheckpoint
            \/ StartChapters \/ SkipChapter \/ CommitChapter \/ WriteStory
  BY <1>2
  DEF history_vars, ExtractBatch, FinishExtraction, ShortStory, LoadCheckpoint,
      StartChapters, SkipChapter, CommitChapter, WriteStory
<1>5. CASE SaveClaims
  <2>1. lost' = lost /\ stale' = (stale \/ narrative # Absent) /\ stale \in BOOLEAN
    BY <1>5 DEF SaveClaims, TypeInv, TypeOK
  <2>2. QED
    BY <2>1
<1>3. CASE CanonBatch \/ FinishCanon \/ ResolveTimeline \/ PlanBook \/ BuildDetailBank
  <2>1. CASE CanonBatch
    <3>1. stale' = stale
      BY <2>1 DEF CanonBatch, Stage
    <3>2. \E gone : lost' = lost \cup gone
      BY <2>1, CanonBatchFacts
    <3>3. QED
      BY <3>1, <3>2
  <2>2. CASE FinishCanon \/ ResolveTimeline \/ PlanBook \/ BuildDetailBank
    <3>1. stale' = stale /\ lost' = lost
      BY <2>2 DEF FinishCanon, ResolveTimeline, PlanBook, BuildDetailBank, Stage
    <3>2. QED
      BY <3>1
  <2>3. QED
    BY <1>3, <2>1, <2>2
<1>4. CASE WriteChapter \/ RepairChapter \/ PolishChapter
  BY <1>4 DEF history_vars, WriteChapter, RepairChapter, PolishChapter, ChapterStep
<1>6. QED
  BY <1>0, <1>1, <1>2, <1>3, <1>4, <1>5 DEF Next, RunStep

\* Claims and segments are replaced under a checkpoint only when that is noted.
LEMMA SameClaims ==
  ASSUME TypeInv, [Next]_vars, ~stale', pipeline' \in Pipeline, narrative' \in Book
  PROVE  /\ ~stale /\ pipeline \in Pipeline
         /\ pipeline'.claims = pipeline.claims /\ pipeline'.segments = pipeline.segments
<1>1. CASE SaveClaims
  BY <1>1, FilesDiffer DEF SaveClaims
<1>2. CASE ~SaveClaims
  BY <1>2, PipelineChanges, FilesDiffer, HistoryGrows
<1>3. QED
  BY <1>1, <1>2

\* What the stages after canonicalization make.
LEMMA StageEffects ==
  ASSUME TypeInv, FinishCanon \/ ResolveTimeline \/ PlanBook \/ BuildDetailBank
  PROVE  /\ narrative \in Book
         /\ narrative'.canon.events = narrative.canon.events
         /\ narrative'.canon.next_batch = narrative.canon.next_batch
         /\ \/ narrative'.canon.done = narrative.canon.done
            \/ narrative.canon.next_batch >= Len(pipeline.claims)
         /\ narrative'.timeline \in {narrative.timeline, Range(narrative.canon.events)}
         /\ narrative'.detail_bank \in {narrative.detail_bank, pipeline.segments}
<1>0. narrative \in Book
  BY StageStart DEF FinishCanon, ResolveTimeline, PlanBook, BuildDetailBank
<1>1. CASE FinishCanon
  <2>1. narrative' = [narrative EXCEPT !.canon.done = TRUE]
        /\ narrative.canon.next_batch >= Len(pipeline.claims)
    BY <1>1 DEF FinishCanon, Stage
  <2>2. QED
    BY <1>0, <2>1 DEF Book, Canon
<1>2. CASE ResolveTimeline
  <2> DEFINE facts == Range(narrative.canon.events)
  <2>1. narrative' = [narrative EXCEPT !.timeline = facts]
    BY <1>2 DEF ResolveTimeline, Stage, Ordered
  <2> HIDE DEF facts
  <2>2. QED
    BY <1>0, <2>1 DEF Book, facts
<1>3. CASE PlanBook
  <2>1. PICK plan \in Plans : narrative' = [narrative EXCEPT !.plan = plan, !.synopses = <<>>]
    BY <1>3 DEF PlanBook, Stage
  <2>2. QED
    BY <1>0, <2>1 DEF Book
<1>4. CASE BuildDetailBank
  <2>1. narrative' = [narrative EXCEPT !.detail_bank = pipeline.segments]
    BY <1>4 DEF BuildDetailBank, Stage
  <2>2. QED
    BY <1>0, <2>1 DEF Book
<1>5. QED
  BY <1>1, <1>2, <1>3, <1>4

LEMMA CanonKept ==
  ASSUME TypeInv, ClaimsInv, CanonInv, [Next]_vars
  PROVE  CanonInv'
<1> SUFFICES ASSUME ~stale', pipeline' \in Pipeline, narrative' \in Book
             PROVE  Covers(narrative'.canon.events, pipeline'.claims, narrative'.canon.next_batch, lost')
  BY DEF CanonInv
<1>1. /\ ~stale /\ pipeline \in Pipeline /\ pipeline'.claims = pipeline.claims /\ lost \subseteq lost'
      /\ pipeline.claims \in Seq(Fragment)
  BY SameClaims, HistoryGrows DEF Pipeline
<1>2. narrative \in Book =>
        Covers(narrative.canon.events, pipeline.claims, narrative.canon.next_batch, lost)
  BY <1>1 DEF CanonInv
<1>3. CASE narrative' = narrative
  BY <1>1, <1>2, <1>3, CoversMore
<1>4. CASE LoadCheckpoint
  <2>1. Loaded \in Book /\ narrative'.canon = Loaded.canon
    BY <1>4, LoadedTyped, UpgradedFields DEF LoadCheckpoint, Loaded, NoBook
  <2>2. Covers(Loaded.canon.events, pipeline.claims, Loaded.canon.next_batch, lost)
    BY <1>1, <1>2, <1>4, CoversEmpty DEF Loaded, NoBook, LoadCheckpoint, TypeInv, FilesRead
  <2>3. QED
    BY <1>1, <2>1, <2>2, CoversMore
<1>5. CASE CanonBatch
  <2>1. PICK fragment \in Fragment, events \in Seq(Fragment) :
          /\ narrative.canon.next_batch < Len(pipeline.claims)
          /\ fragment = pipeline.claims[narrative.canon.next_batch + 1]
          /\ Stage([narrative EXCEPT !.canon = CanonSaved(narrative.canon, events)])
          /\ \/ events = <<fragment>> /\ lost' = lost
             \/ events = <<>> /\ lost' = lost \cup {fragment}
    BY <1>5, CanonBatchFacts
  <2>2. /\ narrative \in Book /\ narrative.canon \in Canon
        /\ narrative.canon.events \in Seq(Fragment) /\ narrative.canon.next_batch \in Nat
    BY <1>5, StageStart, BookFields DEF CanonBatch
  <2> DEFINE canon == CanonSaved(narrative.canon, events)
  <2>3. /\ canon.events = narrative.canon.events \o events
        /\ canon.next_batch = narrative.canon.next_batch + 1
    BY <2>2, CanonSavedFields
  <2>4. narrative' = [narrative EXCEPT !.canon = canon]
    BY <2>1 DEF Stage
  <2> HIDE DEF canon
  <2>5. narrative'.canon = canon
    BY <2>2, <2>4 DEF Book
  <2>6. Sorted(pipeline.claims)
    BY <1>1 DEF ClaimsInv
  <2>7. /\ Covers(Append(narrative.canon.events, fragment), pipeline.claims,
                  narrative.canon.next_batch + 1, lost)
        /\ Covers(narrative.canon.events, pipeline.claims, narrative.canon.next_batch + 1,
                  lost \cup {fragment})
    BY <1>1, <1>2, <2>1, <2>2, <2>6, CoversNext
  <2>8. /\ events = <<fragment>> => canon.events = Append(narrative.canon.events, fragment)
        /\ events = <<>> => canon.events = narrative.canon.events
    <3>1. Append(narrative.canon.events, fragment) = narrative.canon.events \o <<fragment>>
      BY <2>2, AppendIsConcat
    <3>2. narrative.canon.events \o <<>> = narrative.canon.events
      BY <2>2, ConcatEmptySeq
    <3>3. QED
      BY <2>3, <3>1, <3>2
  <2>9. QED
    BY <1>1, <2>1, <2>3, <2>5, <2>7, <2>8
<1>6. CASE FinishCanon \/ ResolveTimeline \/ PlanBook \/ BuildDetailBank
  BY <1>1, <1>2, <1>6, StageEffects, CoversMore
<1>7. CASE CommitChapter
  <2>1. narrative \in Book /\ narrative'.canon = narrative.canon
    BY <1>7, CommitFields
  <2>2. QED
    BY <1>1, <1>2, <2>1, CoversMore
<1>8. QED
  BY <1>3, <1>4, <1>5, <1>6, <1>7, BookSteps, FilesDiffer

LEMMA InitCanon == Init => CanonInv
<1> SUFFICES ASSUME Init, pipeline \in Pipeline, narrative \in Book
             PROVE  Covers(narrative.canon.events, pipeline.claims, narrative.canon.next_batch, lost)
  BY DEF CanonInv
<1> DEFINE events == [i \in 1..MaxBatches |-> [run |-> 1, batch |-> i]]
<1>1. narrative # Absent
  BY FilesDiffer
<1>2. /\ MaxRuns > 0
      /\ pipeline = [segments |-> [run |-> 1, batches |-> MaxBatches], claims |-> events,
                     narrative |-> NoStory]
      /\ \E plan, n : narrative = OldBook(events, plan, n)
  BY <1>1 DEF Init
<1>3. events \in Seq(Fragment) /\ \A i \in 1..MaxBatches : events[i].batch = i
  BY <1>2, FirstTranscription
<1>4. Len(events) = MaxBatches /\ MaxBatches \in Nat
  BY <1>3, LenProperties, BoundAssumption
<1> HIDE DEF events
<1>5. /\ pipeline.claims = events /\ narrative.canon.events = events
      /\ narrative.canon.next_batch = Len(events)
  BY <1>2 DEF OldBook, NoBook
<1>6. Covers(events, events, Len(events), lost)
  BY <1>3, <1>4 DEF Covers
<1>7. QED
  BY <1>5, <1>6

\* CanonCoversClaims: no stop or resumed run makes canonicalize_events read a claim twice
\* or pass one over, save those a truncated answer loses (narrative_agent).
THEOREM EventsCoverClaims == Spec => []CanonCoversClaims
<1>1. TypeInv /\ CanonInv => CanonCoversClaims
  <2> SUFFICES ASSUME TypeInv, CanonInv, ~stale, Readable(pipeline), Readable(narrative)
               PROVE  CanonCoversClaims
    BY DEF CanonCoversClaims
  <2> DEFINE n == narrative.canon.next_batch
             events == narrative.canon.events
             read == SubSeq(pipeline.claims, 1, n)
  <2>1. /\ pipeline \in Pipeline /\ narrative \in Book
    BY DEF Readable, TypeInv, TypeOK
  <2>2. n \in Nat /\ events \in Seq(Fragment) /\ pipeline.claims \in Seq(Fragment)
    BY <2>1, BookFields DEF Pipeline
  <2>3. Covers(events, pipeline.claims, n, lost)
    BY <2>1 DEF CanonInv
  <2>4. n <= Len(pipeline.claims) /\ Len(pipeline.claims) \in Nat
    BY <2>2, <2>3, LenProperties DEF Covers
  <2>5. \A i \in 1..n : pipeline.claims[i] \in Fragment
    BY <2>2, <2>4, ElementOfSeq
  <2>6. /\ read \in Seq(Fragment) /\ Len(read) = n
        /\ \A i \in 1..n : read[i] = pipeline.claims[i]
    BY <2>2, <2>5, SubSeqProperties
  <2> HIDE DEF read
  <2>7. DOMAIN read = 1..n /\ DOMAIN events = 1..Len(events)
    BY <2>2, <2>6, LenProperties
  <2> HIDE DEF n, events
  <2>8. Range(events) \subseteq Range(read)
    BY <2>3, <2>6, <2>7 DEF Covers, Range
  <2>9. Range(read) \subseteq Range(events) \cup lost
    <3> SUFFICES ASSUME NEW i \in 1..n, read[i] \notin lost PROVE read[i] \in Range(events)
      BY <2>7 DEF Range
    <3>1. PICK k \in 1..Len(events) : events[k] = read[i]
      BY <2>3, <2>6 DEF Covers
    <3>2. QED
      BY <2>7, <3>1 DEF Range
  <2>10. IsInjective(events)
    BY <2>3, <2>7 DEF Covers, IsInjective
  <2>11. QED
    BY <2>4, <2>8, <2>9, <2>10 DEF CanonCoversClaims, n, events, read
<1>2. TypeInv /\ ClaimsInv /\ CanonInv /\ [Next]_vars => TypeInv' /\ ClaimsInv' /\ CanonInv'
  BY TypeInvKept, ClaimsKept, CanonKept
<1>3. QED
  BY InitTypeInv, InitClaims, InitCanon, <1>1, <1>2, PTL DEF Spec

-----------------------------------------------------------------------------
(* The story and the claims *)

\* What the stages made of the claims and segments beside the checkpoint.
StagesInv ==
  ~stale /\ pipeline \in Pipeline /\ narrative \in Book =>
    /\ narrative.canon.done => narrative.canon.next_batch >= Len(pipeline.claims)
    /\ narrative.timeline # Absent => narrative.timeline = Range(narrative.canon.events)
    /\ narrative.detail_bank # Absent => narrative.detail_bank = pipeline.segments

Tells(facts, voice, file) ==
  /\ facts \subseteq Range(file.claims)
  /\ Range(file.claims) \ lost \subseteq facts
  /\ voice = file.segments

TellsInv ==
  ~stale /\ pipeline \in Pipeline /\ pipeline.narrative.by = "narrative_agent" =>
    Tells(pipeline.narrative.facts, pipeline.narrative.voice, pipeline)

LEMMA StagesKept ==
  ASSUME TypeInv, StagesInv, [Next]_vars
  PROVE  StagesInv'
<1> DEFINE Good(book, file) ==
      /\ book.canon.done => book.canon.next_batch >= Len(file.claims)
      /\ book.timeline # Absent => book.timeline = Range(book.canon.events)
      /\ book.detail_bank # Absent => book.detail_bank = file.segments
<1> SUFFICES ASSUME ~stale', pipeline' \in Pipeline, narrative' \in Book
             PROVE  Good(narrative', pipeline')
  BY DEF StagesInv
<1>1. /\ ~stale /\ pipeline \in Pipeline /\ pipeline'.claims = pipeline.claims
      /\ pipeline'.segments = pipeline.segments /\ Len(pipeline.claims) \in Nat
  BY SameClaims, LenProperties DEF Pipeline
<1>2. narrative \in Book => Good(narrative, pipeline)
  BY <1>1 DEF StagesInv
<1>3. CASE narrative' = narrative
  BY <1>1, <1>2, <1>3
<1>4. CASE LoadCheckpoint
  <2>1. /\ narrative'.canon = Loaded.canon /\ narrative'.timeline = Loaded.timeline
        /\ narrative'.detail_bank = Loaded.detail_bank
    BY <1>4, LoadedTyped, UpgradedFields DEF LoadCheckpoint, Loaded, NoBook
  <2>2. Good(Loaded, pipeline)
    BY <1>2, <1>4 DEF Loaded, NoBook, LoadCheckpoint, TypeInv, FilesRead
  <2>3. QED
    BY <1>1, <2>1, <2>2
<1>5. CASE CanonBatch
  <2>1. pc = "stages" /\ narrative \in Book /\ ~narrative.canon.done
    BY <1>5, StageStart DEF CanonBatch
  <2>2. narrative.timeline = Absent /\ narrative.detail_bank = Absent
    BY <2>1, StageStart
  <2>3. PICK events \in Seq(Fragment) :
          narrative' = [narrative EXCEPT !.canon = CanonSaved(narrative.canon, events)]
    BY <1>5, CanonBatchFacts DEF Stage
  <2> DEFINE canon == CanonSaved(narrative.canon, events)
  <2>4. canon.done = narrative.canon.done
    BY <2>1, BookFields, CanonSavedFields
  <2>5. narrative' = [narrative EXCEPT !.canon = canon]
    BY <2>3
  <2> HIDE DEF canon
  <2>6. /\ narrative'.canon = canon /\ narrative'.timeline = narrative.timeline
        /\ narrative'.detail_bank = narrative.detail_bank
    BY <2>1, <2>5 DEF Book
  <2>7. QED
    BY <2>1, <2>2, <2>4, <2>6
<1>6. CASE FinishCanon \/ ResolveTimeline \/ PlanBook \/ BuildDetailBank
  <2>1. /\ narrative \in Book
        /\ narrative'.canon.events = narrative.canon.events
        /\ narrative'.canon.next_batch = narrative.canon.next_batch
        /\ \/ narrative'.canon.done = narrative.canon.done
           \/ narrative.canon.next_batch >= Len(pipeline.claims)
        /\ narrative'.timeline \in {narrative.timeline, Range(narrative.canon.events)}
        /\ narrative'.detail_bank \in {narrative.detail_bank, pipeline.segments}
    BY <1>6, StageEffects
  <2>2. QED
    BY <1>1, <1>2, <2>1
<1>7. CASE CommitChapter
  <2>1. /\ narrative \in Book /\ narrative'.canon = narrative.canon
        /\ narrative'.timeline = narrative.timeline /\ narrative'.detail_bank = narrative.detail_bank
    BY <1>7, CommitFields
  <2>2. QED
    BY <1>1, <1>2, <2>1
<1>8. QED
  BY <1>3, <1>4, <1>5, <1>6, <1>7, BookSteps, FilesDiffer

\* A book whose chapters are being written rests on every claim that is not lost.
LEMMA BookTells ==
  ASSUME TypeInv, CanonInv, StagesInv, ~stale, pc \in ChapterSteps
  PROVE  Tells(narrative.timeline, narrative.detail_bank, pipeline)
<1> DEFINE events == narrative.canon.events
           n == narrative.canon.next_batch
<1>1. /\ narrative \in Book /\ pipeline \in Pipeline
      /\ narrative.timeline # Absent /\ narrative.detail_bank # Absent
  BY ChapterStart, FileAssumption DEF TypeInv, StagesInOrder
<1>2. narrative.canon.done
  BY <1>1 DEF TypeInv, StagesInOrder
<1>3. /\ n >= Len(pipeline.claims) /\ narrative.timeline = Range(events)
      /\ narrative.detail_bank = pipeline.segments
  BY <1>1, <1>2 DEF StagesInv
<1>4. Covers(events, pipeline.claims, n, lost)
  BY <1>1 DEF CanonInv
<1>5. events \in Seq(Fragment) /\ n \in Nat /\ pipeline.claims \in Seq(Fragment)
  BY <1>1, BookFields DEF Pipeline
<1>6. /\ DOMAIN events = 1..Len(events) /\ DOMAIN pipeline.claims = 1..Len(pipeline.claims)
      /\ Len(pipeline.claims) \in Nat
  BY <1>5, LenProperties
<1> HIDE DEF events, n
<1>7. n = Len(pipeline.claims)
  BY <1>3, <1>4, <1>5, <1>6 DEF Covers
<1>8. Range(events) \subseteq Range(pipeline.claims)
  BY <1>4, <1>6, <1>7 DEF Covers, Range
<1>9. Range(pipeline.claims) \ lost \subseteq Range(events)
  <2> SUFFICES ASSUME NEW i \in 1..n, pipeline.claims[i] \notin lost
               PROVE  pipeline.claims[i] \in Range(events)
    BY <1>6, <1>7 DEF Range
  <2>1. PICK k \in 1..Len(events) : events[k] = pipeline.claims[i]
    BY <1>4 DEF Covers
  <2>2. QED
    BY <1>6, <2>1 DEF Range
<1>10. QED
  BY <1>3, <1>8, <1>9 DEF Tells, events

LEMMA TellsKept ==
  ASSUME TypeInv, CanonInv, StagesInv, TellsInv, [Next]_vars
  PROVE  TellsInv'
<1> SUFFICES ASSUME ~stale', pipeline' \in Pipeline, pipeline'.narrative.by = "narrative_agent"
             PROVE  Tells(pipeline.narrative.facts, pipeline.narrative.voice, pipeline)'
  BY DEF TellsInv
<1>1. ~stale /\ lost \subseteq lost'
  BY HistoryGrows
<1>2. CASE pipeline' = pipeline
  BY <1>1, <1>2 DEF TellsInv, Tells
<1>3. CASE pipeline' = [segments |-> segments, claims |-> claims, narrative |-> NoStory]
  BY <1>3 DEF NoStory
<1>4. CASE ShortStory
  <2> DEFINE story == [by |-> "batch_ingest", slugs |-> <<>>, facts |-> Range(claims), voice |-> segments]
  <2>1. pipeline' = [pipeline EXCEPT !.narrative = story] /\ pipeline \in Pipeline
    BY <1>4 DEF ShortStory, TypeInv, FilesRead
  <2>2. story.by = "batch_ingest"
    OBVIOUS
  <2> HIDE DEF story
  <2>3. QED
    BY <2>1, <2>2 DEF Pipeline
<1>5. CASE WriteStory
  <2> DEFINE story == [by |-> "narrative_agent", slugs |-> SlugsOf(narrative.approved),
                       facts |-> narrative.timeline, voice |-> narrative.detail_bank]
  <2>1. pc \in ChapterSteps /\ lost' = lost /\ pipeline' = [pipeline EXCEPT !.narrative = story]
    BY <1>5 DEF WriteStory, ChapterSteps, history_vars
  <2>2. Tells(narrative.timeline, narrative.detail_bank, pipeline) /\ pipeline \in Pipeline
    BY <1>1, <2>1, BookTells, ChapterStart
  <2>3. story.facts = narrative.timeline /\ story.voice = narrative.detail_bank
    OBVIOUS
  <2> HIDE DEF story
  <2>4. /\ pipeline'.narrative = story /\ pipeline'.claims = pipeline.claims
        /\ pipeline'.segments = pipeline.segments
    BY <2>1, <2>2 DEF Pipeline
  <2>5. QED
    BY <2>1, <2>2, <2>3, <2>4 DEF Tells
<1>6. QED
  BY <1>2, <1>3, <1>4, <1>5, PipelineChanges, FilesDiffer

LEMMA InitStages == Init => StagesInv /\ TellsInv
<1> SUFFICES ASSUME Init, pipeline \in Pipeline PROVE StagesInv /\ TellsInv
  BY DEF StagesInv, TellsInv
<1> DEFINE events == [i \in 1..MaxBatches |-> [run |-> 1, batch |-> i]]
<1>1. pipeline # Absent
  BY FilesDiffer
<1>2. /\ MaxRuns > 0
      /\ pipeline = [segments |-> [run |-> 1, batches |-> MaxBatches], claims |-> events,
                     narrative |-> NoStory]
      /\ \E plan, n : narrative = OldBook(events, plan, n)
  BY <1>1 DEF Init
<1>3. Len(events) \in Nat
  BY <1>2, FirstTranscription, LenProperties
<1> HIDE DEF events
<1>4. /\ pipeline.claims = events /\ pipeline.narrative.by = "nobody"
  BY <1>2 DEF NoStory
<1>5. /\ narrative.canon.next_batch = Len(events) /\ narrative.canon.events = events
      /\ narrative.timeline = Range(events) /\ narrative.detail_bank = Absent
  BY <1>2 DEF OldBook, NoBook
<1>6. QED
  BY <1>3, <1>4, <1>5 DEF StagesInv, TellsInv

\* StoryTellsItsClaims: the book in pipeline.json is of the claims and segments beside it
\* (WriteStory after stages that may have run in different processes, narrative_agent).
THEOREM StoryRestsOnClaims == Spec => []StoryTellsItsClaims
<1> DEFINE Inv == TypeInv /\ ClaimsInv /\ CanonInv /\ StagesInv /\ TellsInv
<1>1. Init => Inv
  BY InitTypeInv, InitClaims, InitCanon, InitStages
<1>2. Inv /\ [Next]_vars => Inv'
  BY TypeInvKept, ClaimsKept, CanonKept, StagesKept, TellsKept
<1>3. Inv => StoryTellsItsClaims
  BY DEF StoryTellsItsClaims, TellsInv, Tells, Readable, TypeInv, TypeOK
<1>4. QED
  BY <1>1, <1>2, <1>3, PTL DEF Spec

-----------------------------------------------------------------------------
(* The story and the plan *)

\* Chapters of planned slugs, in the order of the plan where that order has a meaning.
InPlan(slugs, plan) ==
  /\ Range(slugs) \subseteq Range(plan)
  /\ IsInjective(plan) =>
       Len(slugs) <= Len(plan) /\ \A i \in 1..Len(slugs) : slugs[i] = plan[i]

\* What the loop knows at position n: chapters before n are there, and the slugs it will
\* pass over are those of the chapters that were there when it began.
LoopAt(slugs, plan, n, skipped) ==
  /\ \A j \in 1..Len(plan) : j < n => plan[j] \in Range(slugs)
  /\ skipped \subseteq Range(slugs)
  /\ IsInjective(plan) =>
       /\ n <= Len(slugs) + 1
       /\ skipped \subseteq {plan[i] : i \in 1..Len(slugs)}
       /\ \A i \in 1..Len(slugs) : n <= i => plan[i] \in skipped

PlanInv ==
  narrative \in Book /\ narrative.plan # Absent =>
    /\ InPlan(SlugsOf(narrative.approved), narrative.plan)
    /\ pc \in ChapterSteps =>
         LoopAt(SlugsOf(narrative.approved), narrative.plan, chapter, done_slugs)
    /\ pc \in DraftSteps => narrative.plan[chapter] \notin done_slugs

Whole(slugs, plan) == Range(slugs) = Range(plan) /\ (IsInjective(plan) => slugs = plan)

WholeInv ==
  pipeline \in Pipeline /\ pipeline.narrative.by = "narrative_agent" =>
    /\ narrative # Absent
    /\ narrative \in Book =>
         narrative.plan # Absent /\ Whole(pipeline.narrative.slugs, narrative.plan)

LEMMA InPlanEmpty ==
  ASSUME NEW plan \in Seq(Slugs)
  PROVE  InPlan(<<>>, plan)
  BY LenProperties DEF InPlan, Range

LEMMA LoopBegins ==
  ASSUME NEW slugs \in Seq(Slugs), NEW plan \in Seq(Slugs), InPlan(slugs, plan)
  PROVE  LoopAt(slugs, plan, 1, Range(slugs))
<1>1. DOMAIN slugs = 1..Len(slugs) /\ Len(slugs) \in Nat /\ Len(plan) \in Nat
  BY LenProperties
<1>2. ASSUME IsInjective(plan)
      PROVE  /\ Range(slugs) \subseteq {plan[i] : i \in 1..Len(slugs)}
             /\ \A i \in 1..Len(slugs) : plan[i] \in Range(slugs)
  <2>1. \A i \in 1..Len(slugs) : slugs[i] = plan[i]
    BY <1>2 DEF InPlan
  <2>2. QED
    BY <1>1, <2>1 DEF Range
<1>3. QED
  BY <1>1, <1>2 DEF LoopAt

\* A slug the loop passes over is that of a chapter it has.
LEMMA LoopSkips ==
  ASSUME NEW slugs \in Seq(Slugs), NEW plan \in Seq(Slugs), NEW n \in Nat \ {0}, NEW skipped,
         n <= Len(plan), InPlan(slugs, plan), LoopAt(slugs, plan, n, skipped),
         plan[n] \in skipped
  PROVE  LoopAt(slugs, plan, n + 1, skipped)
<1>1. /\ DOMAIN plan = 1..Len(plan) /\ Len(plan) \in Nat /\ Len(slugs) \in Nat
  BY LenProperties
<1>2. \A j \in 1..Len(plan) : j < n + 1 => plan[j] \in Range(slugs)
  <2> SUFFICES ASSUME NEW j \in 1..Len(plan), j < n + 1 PROVE plan[j] \in Range(slugs)
    OBVIOUS
  <2>1. CASE j = n
    BY <2>1 DEF LoopAt
  <2>2. CASE j < n
    BY <2>2 DEF LoopAt
  <2>3. QED
    BY <1>1, <2>1, <2>2
<1>3. ASSUME IsInjective(plan) PROVE n + 1 <= Len(slugs) + 1
  <2>1. PICK i \in 1..Len(slugs) : plan[n] = plan[i]
    BY <1>3 DEF LoopAt
  <2>2. i \in DOMAIN plan /\ n \in DOMAIN plan
    BY <1>1, <1>3 DEF InPlan
  <2>3. n = i
    BY <1>3, <2>1, <2>2 DEF IsInjective
  <2>4. QED
    BY <1>1, <2>3
<1>4. ASSUME IsInjective(plan) PROVE \A i \in 1..Len(slugs) : n + 1 <= i => plan[i] \in skipped
  BY <1>1, <1>4 DEF LoopAt
<1>5. QED
  BY <1>2, <1>3, <1>4 DEF LoopAt

\* A chapter that is written is the next one of the plan.
LEMMA LoopWrites ==
  ASSUME NEW slugs \in Seq(Slugs), NEW plan \in Seq(Slugs), NEW n \in Nat \ {0}, NEW skipped,
         n <= Len(plan), InPlan(slugs, plan), LoopAt(slugs, plan, n, skipped),
         plan[n] \notin skipped
  PROVE  /\ InPlan(Append(slugs, plan[n]), plan)
         /\ LoopAt(Append(slugs, plan[n]), plan, n + 1, skipped)
<1> DEFINE all == Append(slugs, plan[n])
<1>1. /\ DOMAIN plan = 1..Len(plan) /\ Len(plan) \in Nat /\ Len(slugs) \in Nat
      /\ DOMAIN slugs = 1..Len(slugs) /\ n \in 1..Len(plan)
  BY LenProperties
<1>2. plan[n] \in Slugs
  BY <1>1, ElementOfSeq
<1>3. /\ Len(all) = Len(slugs) + 1 /\ all \in Seq(Slugs)
      /\ \A i \in 1..Len(slugs) : all[i] = slugs[i]
      /\ all[Len(slugs) + 1] = plan[n]
  BY <1>2, AppendProperties
<1> HIDE DEF all
<1>4. DOMAIN all = 1..Len(slugs) + 1
  BY <1>3, LenProperties
<1>5. Range(all) = Range(slugs) \cup {plan[n]}
  <2>1. \A i \in DOMAIN all : i \in DOMAIN slugs \/ i = Len(slugs) + 1
    BY <1>1, <1>4
  <2>2. DOMAIN slugs \subseteq DOMAIN all /\ Len(slugs) + 1 \in DOMAIN all
    BY <1>1, <1>4
  <2>3. Range(all) \subseteq Range(slugs) \cup {plan[n]}
    BY <1>1, <1>3, <2>1 DEF Range
  <2>4. Range(slugs) \subseteq Range(all)
    BY <1>1, <1>3, <2>2 DEF Range
  <2>5. plan[n] \in Range(all)
    BY <1>3, <2>2 DEF Range
  <2>6. QED
    BY <2>3, <2>4, <2>5
<1>6. Range(all) \subseteq Range(plan)
  <2>1. plan[n] \in Range(plan)
    BY <1>1 DEF Range
  <2>2. QED
    BY <1>5, <2>1 DEF InPlan
<1>7. \A j \in 1..Len(plan) : j < n + 1 => plan[j] \in Range(all)
  <2> SUFFICES ASSUME NEW j \in 1..Len(plan), j < n + 1 PROVE plan[j] \in Range(all)
    OBVIOUS
  <2>1. CASE j = n
    BY <1>5, <2>1
  <2>2. CASE j < n
    BY <1>5, <2>2 DEF LoopAt
  <2>3. QED
    BY <1>1, <2>1, <2>2
<1>8. ASSUME IsInjective(plan)
      PROVE  /\ n = Len(slugs) + 1
             /\ \A i \in 1..Len(all) : all[i] = plan[i]
             /\ skipped \subseteq {plan[i] : i \in 1..Len(all)}
  <2>1. n = Len(slugs) + 1
    <3>1. n <= Len(slugs) + 1
      BY <1>8 DEF LoopAt
    <3>2. ~(n \in 1..Len(slugs))
      BY <1>1, <1>8 DEF LoopAt
    <3>3. QED
      BY <1>1, <3>1, <3>2
  <2>2. \A i \in 1..Len(slugs) : slugs[i] = plan[i]
    BY <1>8 DEF InPlan
  <2>3. \A i \in 1..Len(all) : i \in 1..Len(slugs) \/ i = Len(slugs) + 1
    BY <1>1, <1>3
  <2>4. \A i \in 1..Len(all) : all[i] = plan[i]
    BY <1>3, <2>1, <2>2, <2>3
  <2>5. 1..Len(slugs) \subseteq 1..Len(all)
    BY <1>1, <1>3
  <2>6. skipped \subseteq {plan[i] : i \in 1..Len(all)}
    BY <1>8, <2>5 DEF LoopAt
  <2>7. QED
    BY <2>1, <2>4, <2>6
<1>9. InPlan(all, plan)
  BY <1>1, <1>3, <1>6, <1>8 DEF InPlan
<1>10. ASSUME IsInjective(plan)
       PROVE  /\ n + 1 <= Len(all) + 1
              /\ \A i \in 1..Len(all) : n + 1 <= i => plan[i] \in skipped
  BY <1>1, <1>3, <1>8, <1>10
<1>11. LoopAt(all, plan, n + 1, skipped)
  BY <1>5, <1>7, <1>8, <1>10 DEF LoopAt
<1>12. QED
  BY <1>9, <1>11 DEF all

\* A loop past the plan has the whole plan.
LEMMA LoopEnds ==
  ASSUME NEW slugs \in Seq(Slugs), NEW plan \in Seq(Slugs), NEW n \in Nat, NEW skipped,
         n > Len(plan), InPlan(slugs, plan), LoopAt(slugs, plan, n, skipped)
  PROVE  Whole(slugs, plan)
<1>1. /\ DOMAIN plan = 1..Len(plan) /\ Len(plan) \in Nat /\ Len(slugs) \in Nat
  BY LenProperties
<1>2. \A j \in 1..Len(plan) : plan[j] \in Range(slugs)
  BY <1>1 DEF LoopAt
<1>3. Range(plan) \subseteq Range(slugs)
  BY <1>1, <1>2 DEF Range
<1>4. ASSUME IsInjective(plan) PROVE slugs = plan
  <2>1. Len(slugs) <= Len(plan) /\ \A i \in 1..Len(slugs) : slugs[i] = plan[i]
    BY <1>4 DEF InPlan
  <2>2. n <= Len(slugs) + 1
    BY <1>4 DEF LoopAt
  <2>3. Len(slugs) = Len(plan)
    BY <1>1, <2>1, <2>2
  <2>4. QED
    BY <2>1, <2>3, SeqEqual
<1>5. QED
  BY <1>3, <1>4 DEF InPlan, Whole

\* The slugs of the chapters, and the plan, of a book that has one.
LEMMA PlannedBook ==
  ASSUME NEW book \in Book, book.plan # Absent
  PROVE  SlugsOf(book.approved) \in Seq(Slugs) /\ book.plan \in Seq(Slugs)
  BY BookFields, SlugsTyped

LEMMA PlanKept ==
  ASSUME TypeInv, PlanInv, [Next]_vars
  PROVE  PlanInv'
<1> DEFINE slugs == SlugsOf(narrative.approved)
           plan == narrative.plan
<1>0. pc \in ChapterSteps =>
        /\ narrative \in Book /\ plan # Absent /\ slugs \in Seq(Slugs) /\ plan \in Seq(Slugs)
        /\ chapter \in Nat \ {0} /\ InPlan(slugs, plan) /\ LoopAt(slugs, plan, chapter, done_slugs)
        /\ pc \in DraftSteps => chapter <= Len(plan) /\ plan[chapter] \notin done_slugs
  BY ChapterStart, PlannedBook DEF TypeInv, StagesInOrder, PlanInv
<1>1. CASE UNCHANGED vars
  BY <1>1 DEF vars, files, chapter_vars, PlanInv
<1>2. CASE Ingest \/ IngestAgain \/ StartNarrative \/ Fail \/ Tear \/ ExtractBatch
            \/ FinishExtraction \/ SaveClaims \/ ShortStory \/ WriteStory
  <2>1. pc' \notin ChapterSteps /\ (narrative' = narrative \/ narrative' = Torn)
    BY <1>2
    DEF Ingest, IngestAgain, StartIngest, StartNarrative, Fail, Tear, ExtractBatch, files,
        FinishExtraction, SaveClaims, ShortStory, WriteStory, Forget, ChapterSteps, DraftSteps
  <2>2. QED
    BY <2>1, FilesDiffer DEF PlanInv, ChapterSteps
<1>3. CASE LoadCheckpoint
  <2>1. pc' = "stages"
    BY <1>3 DEF LoadCheckpoint
  <2>2. ASSUME narrative' \in Book, narrative'.plan # Absent
        PROVE  InPlan(SlugsOf(narrative'.approved), narrative'.plan)
    <3>1. CASE Loaded.version = "v3"
      <4>1. narrative' = narrative
        BY <1>3, <3>1 DEF LoadCheckpoint
      <4>2. QED
        BY <2>2, <4>1 DEF PlanInv
    <3>2. CASE Loaded.version # "v3"
      <4>1. narrative'.approved = <<>>
        BY <1>3, <3>2, LoadedTyped, UpgradedFields DEF LoadCheckpoint
      <4>2. narrative'.plan \in Seq(Slugs)
        BY <2>2, PlannedBook
      <4>3. QED
        BY <4>1, <4>2, NoSlugs, InPlanEmpty
    <3>3. QED
      BY <3>1, <3>2
  <2>3. QED
    BY <2>1, <2>2 DEF PlanInv, ChapterSteps, DraftSteps
<1>4. CASE StageAdds
  <2>1. pc' = "stages" /\ narrative \in Book /\ narrative'.approved = narrative.approved
    BY <1>4 DEF StageAdds
  <2>2. ASSUME narrative' \in Book, narrative'.plan # Absent
        PROVE  InPlan(SlugsOf(narrative'.approved), narrative'.plan)
    <3>1. CASE narrative.plan # Absent
      BY <1>4, <2>1, <3>1 DEF StageAdds, PlanInv
    <3>2. CASE narrative.plan = Absent
      <4>1. narrative.approved = <<>>
        BY <2>1, <3>2 DEF TypeInv, StagesInOrder
      <4>2. narrative'.plan \in Seq(Slugs)
        BY <2>2, PlannedBook
      <4>3. QED
        BY <2>1, <4>1, <4>2, NoSlugs, InPlanEmpty
    <3>3. QED
      BY <3>1, <3>2
  <2>3. QED
    BY <2>1, <2>2 DEF PlanInv, ChapterSteps, DraftSteps
<1>5. CASE StartChapters
  <2>1. /\ narrative' = narrative /\ pc' = "chapters" /\ chapter' = 1 /\ done_slugs' = Range(slugs)
    BY <1>5 DEF StartChapters, files
  <2>2. ASSUME narrative \in Book, plan # Absent
        PROVE  InPlan(slugs, plan) /\ LoopAt(slugs, plan, 1, Range(slugs))
    BY <2>2, PlannedBook, LoopBegins DEF PlanInv
  <2>3. QED
    BY <2>1, <2>2 DEF PlanInv, DraftSteps
<1>6. CASE SkipChapter
  <2>1. /\ pc = "chapters" /\ pc' = "chapters" /\ narrative' = narrative /\ done_slugs' = done_slugs
        /\ chapter' = chapter + 1 /\ chapter <= Len(plan) /\ plan[chapter] \in done_slugs
    BY <1>6 DEF SkipChapter, Done, files
  <2>2. LoopAt(slugs, plan, chapter + 1, done_slugs)
    BY <1>0, <2>1, LoopSkips DEF ChapterSteps
  <2>3. QED
    BY <1>0, <2>1, <2>2 DEF PlanInv, ChapterSteps, DraftSteps
<1>7. CASE WriteChapter
  <2>1. /\ pc = "chapters" /\ narrative' = narrative /\ done_slugs' = done_slugs
        /\ chapter' = chapter /\ plan[chapter] \notin done_slugs
    BY <1>7 DEF WriteChapter, ChapterStep, Done, files
  <2>2. QED
    BY <1>0, <2>1 DEF PlanInv, ChapterSteps
<1>8. CASE RepairChapter \/ PolishChapter
  <2>1. /\ pc \in DraftSteps /\ narrative' = narrative /\ done_slugs' = done_slugs
        /\ chapter' = chapter
    BY <1>8 DEF RepairChapter, PolishChapter, ChapterStep, files, DraftSteps
  <2>2. QED
    BY <1>0, <2>1 DEF PlanInv, ChapterSteps
<1>9. CASE CommitChapter
  <2>1. pc = "review" /\ pc' = "chapters" /\ chapter' = chapter + 1 /\ done_slugs' = done_slugs
    BY <1>9 DEF CommitChapter
  <2>2. PICK new \in Chapter :
          /\ new = [slug |-> plan[chapter], body |-> draft.body,
                    audit_of |-> draft.audit_of, verdict |-> draft.verdict]
          /\ narrative'.approved = Append(narrative.approved, new)
          /\ narrative'.plan = plan
    BY <1>9, CommitFields
  <2>3. new.slug = plan[chapter]
    BY <2>2
  <2>4. SlugsOf(narrative'.approved) = Append(slugs, plan[chapter])
    BY <1>0, <2>1, <2>2, <2>3, BookFields, AppendedSlugs DEF ChapterSteps, DraftSteps
  <2>5. /\ InPlan(Append(slugs, plan[chapter]), plan)
        /\ LoopAt(Append(slugs, plan[chapter]), plan, chapter + 1, done_slugs)
    BY <1>0, <2>1, LoopWrites DEF ChapterSteps, DraftSteps
  <2>6. QED
    BY <2>1, <2>2, <2>4, <2>5 DEF PlanInv, DraftSteps
<1>10. QED
  BY <1>1, <1>2, <1>3, <1>4, <1>5, <1>6, <1>7, <1>8, <1>9, CanonBatchAdds, OtherStagesAdd
  DEF Next, RunStep

LEMMA WholeKept ==
  ASSUME TypeInv, PlanInv, WholeInv, [Next]_vars
  PROVE  WholeInv'
<1> SUFFICES ASSUME pipeline' \in Pipeline, pipeline'.narrative.by = "narrative_agent"
             PROVE  /\ narrative' # Absent
                    /\ narrative' \in Book =>
                         /\ narrative'.plan # Absent
                         /\ Whole(pipeline'.narrative.slugs, narrative'.plan)
  BY DEF WholeInv
<1>1. CASE WriteStory
  <2> DEFINE story == [by |-> "narrative_agent", slugs |-> SlugsOf(narrative.approved),
                       facts |-> narrative.timeline, voice |-> narrative.detail_bank]
  <2>1. /\ pc = "chapters" /\ chapter > Len(narrative.plan) /\ narrative' = narrative
        /\ pipeline' = [pipeline EXCEPT !.narrative = story]
    BY <1>1 DEF WriteStory
  <2>2. /\ narrative \in Book /\ pipeline \in Pipeline /\ chapter \in Nat
        /\ narrative.plan # Absent
    BY <2>1, ChapterStart DEF ChapterSteps, TypeInv, StagesInOrder
  <2>3. Whole(SlugsOf(narrative.approved), narrative.plan)
    BY <2>1, <2>2, PlannedBook, LoopEnds DEF PlanInv, ChapterSteps
  <2>4. story.slugs = SlugsOf(narrative.approved)
    OBVIOUS
  <2> HIDE DEF story
  <2>5. pipeline'.narrative = story
    BY <2>1, <2>2 DEF Pipeline
  <2>6. QED
    BY <2>1, <2>2, <2>3, <2>4, <2>5, FilesDiffer
<1>2. CASE ~WriteStory
  <2>1. pipeline' = pipeline
    <3>1. CASE ShortStory
      <4> DEFINE story == [by |-> "batch_ingest", slugs |-> <<>>, facts |-> Range(claims), voice |-> segments]
      <4>1. pipeline' = [pipeline EXCEPT !.narrative = story] /\ pipeline \in Pipeline
        BY <3>1 DEF ShortStory, TypeInv, FilesRead
      <4>2. story.by = "batch_ingest"
        OBVIOUS
      <4> HIDE DEF story
      <4>3. QED
        BY <4>1, <4>2 DEF Pipeline
    <3>2. CASE pipeline' = [segments |-> segments, claims |-> claims, narrative |-> NoStory]
      BY <3>2 DEF NoStory
    <3>3. QED
      BY <1>2, <3>1, <3>2, PipelineChanges, FilesDiffer
  <2>2. /\ narrative # Absent
        /\ narrative \in Book =>
             narrative.plan # Absent /\ Whole(pipeline.narrative.slugs, narrative.plan)
    BY <2>1 DEF WholeInv
  <2>3. CASE narrative' = narrative
    BY <2>1, <2>2, <2>3
  <2>4. CASE narrative' = Torn
    BY <2>4, FilesDiffer
  <2>5. CASE LoadCheckpoint
    <3>1. Loaded = narrative /\ Loaded \in Book
      BY <2>2, <2>5, LoadedTyped DEF Loaded, LoadCheckpoint
    <3>2. narrative' \in Book /\ narrative'.plan = narrative.plan
      BY <2>5, <3>1, UpgradedFields DEF LoadCheckpoint
    <3>3. QED
      BY <2>1, <2>2, <3>1, <3>2, FilesDiffer
  <2>6. CASE StageAdds
    BY <2>1, <2>2, <2>6, FilesDiffer DEF StageAdds
  <2>7. CASE CommitChapter
    <3>1. narrative \in Book /\ narrative' \in Book /\ narrative'.plan = narrative.plan
      BY <2>7, CommitFields
    <3>2. QED
      BY <2>1, <2>2, <3>1, FilesDiffer
  <2>8. QED
    BY <2>3, <2>4, <2>5, <2>6, <2>7, BookChanges
<1>3. QED
  BY <1>1, <1>2

LEMMA InitPlan == Init => PlanInv /\ WholeInv
<1> SUFFICES ASSUME Init PROVE PlanInv /\ WholeInv
  OBVIOUS
<1>1. WholeInv
  BY FilesDiffer DEF Init, WholeInv, NoStory
<1>2. pc = "idle"
  BY DEF Init
<1>3. ASSUME narrative \in Book PROVE InPlan(SlugsOf(narrative.approved), narrative.plan)
  <2>1. \E events : \E plan \in Plans : \E n \in 0..Len(plan) : narrative = OldBook(events, plan, n)
    BY <1>3, FilesDiffer DEF Init
  <2>2. PICK events, plan, n :
          plan \in Seq(Slugs) /\ n \in 0..Len(plan) /\ narrative = OldBook(events, plan, n)
    BY <2>1, PlansAreSequences
  <2>3. narrative.plan = plan /\ narrative.approved = [i \in 1..n |-> OldChapter(plan[i])]
    BY <2>2 DEF OldBook, NoBook
  <2>4. SlugsOf(narrative.approved) = [i \in 1..n |-> plan[i]]
    BY <2>3 DEF SlugsOf, OldChapter
  <2>5. DOMAIN plan = 1..Len(plan) /\ Len(plan) \in Nat /\ n \in Nat /\ n <= Len(plan)
    BY <2>2, LenProperties
  <2>6. [i \in 1..n |-> plan[i]] \in Seq(Slugs)
    BY <2>2, <2>5, ElementOfSeq, SeqDef
  <2>7. Len([i \in 1..n |-> plan[i]]) = n
    BY <2>5, <2>6, LenProperties
  <2>8. Range([i \in 1..n |-> plan[i]]) \subseteq Range(plan)
    BY <2>5 DEF Range
  <2>9. QED
    BY <2>3, <2>4, <2>5, <2>7, <2>8 DEF InPlan
<1>4. PlanInv
  BY <1>2, <1>3 DEF PlanInv, ChapterSteps, DraftSteps
<1>5. QED
  BY <1>1, <1>4

\* StoryIsWholePlan: a book finished over any number of runs has every planned chapter, in
\* the order of the plan when its slugs differ (the chapter loop of narrative_agent).
THEOREM StoryHasWholePlan == Spec => []StoryIsWholePlan
<1> DEFINE Inv == TypeInv /\ PlanInv /\ WholeInv
<1>1. Init => Inv
  BY InitTypeInv, InitPlan
<1>2. Inv /\ [Next]_vars => Inv'
  BY TypeInvKept, PlanKept, WholeKept
<1>3. Inv => StoryIsWholePlan
  BY DEF StoryIsWholePlan, WholeInv, Whole, Readable, TypeInv, TypeOK
<1>4. QED
  BY <1>1, <1>2, <1>3, PTL DEF Spec
-----------------------------------------------------------------------------
(* How far a run is from its end *)

Gap(total, passed) == IF passed < total THEN total - passed ELSE 0

\* What canonicalization has left, an entry that is still missing, the chapters ahead.
CanonLeft(canon) ==
  IF canon.done THEN 0 ELSE Gap(Len(pipeline.claims), canon.next_batch) + 1
EntryLeft(entry) == IF entry = Absent THEN 1 ELSE 0
ChaptersAhead(plan) == IF plan = Absent THEN MaxChapters ELSE Len(plan)

\* A chapter is at most written, repaired, polished and committed.
StagesLeft(book) ==
  CanonLeft(book.canon) + EntryLeft(book.timeline) + EntryLeft(book.plan)
    + EntryLeft(book.detail_bank) + 4 * ChaptersAhead(book.plan) + 2

ChaptersLeft == Gap(Len(narrative.plan), chapter)

\* The most steps the running script can still take.
StepsLeft ==
  CASE pc = "idle" -> 0
    [] pc = "extract" -> Gap(segments.batches, batch) + 3
    [] pc = "save_claims" -> 2
    [] pc = "short_story" -> 1
    [] pc = "load" -> StagesLeft(Loaded) + 1
    [] pc = "stages" -> StagesLeft(narrative)
    [] pc = "chapters" -> IF chapter > Len(narrative.plan) THEN 1 ELSE 4 * ChaptersLeft + 5
    [] pc = "repair" -> 4 * ChaptersLeft + 4
    [] pc = "polish" -> 4 * ChaptersLeft + 3
    [] pc = "review" -> 4 * ChaptersLeft + 2

\* Whatever the models answer, a step of a run brings it nearer its end: no batch, stage
\* or chapter is tried again within a run, so none of its loops can go on for ever.
RunsShorten ==
  /\ [](StepsLeft \in Nat)
  /\ [][pc # "idle" => StepsLeft' < StepsLeft]_vars

LEMMA GapFacts ==
  ASSUME NEW total \in Nat, NEW passed \in Nat
  PROVE  /\ Gap(total, passed) \in Nat
         /\ passed < total => Gap(total, passed) = total - passed
         /\ passed < total => Gap(total, passed + 1) = total - passed - 1
         /\ passed >= total => Gap(total, passed) = 0
  BY DEF Gap

LEMMA StagesLeftTyped ==
  ASSUME NEW book \in Book, pipeline \in Pipeline
  PROVE  /\ CanonLeft(book.canon) \in Nat /\ EntryLeft(book.timeline) \in Nat
         /\ EntryLeft(book.plan) \in Nat /\ EntryLeft(book.detail_bank) \in Nat
         /\ ChaptersAhead(book.plan) \in Nat
         /\ StagesLeft(book) \in Nat \ {0}
<1>1. Len(pipeline.claims) \in Nat
  BY LenProperties DEF Pipeline
<1>2. CanonLeft(book.canon) \in Nat
  BY <1>1, BookFields, GapFacts DEF CanonLeft
<1>3. ChaptersAhead(book.plan) \in Nat
  BY BookFields, LenProperties, BoundAssumption DEF ChaptersAhead
<1>4. /\ EntryLeft(book.timeline) \in Nat /\ EntryLeft(book.plan) \in Nat
      /\ EntryLeft(book.detail_bank) \in Nat
  BY DEF EntryLeft
<1>5. StagesLeft(book) \in Nat \ {0}
  BY <1>2, <1>3, <1>4 DEF StagesLeft
<1>6. QED
  BY <1>2, <1>3, <1>4, <1>5

LEMMA StepsLeftTyped ==
  ASSUME TypeInv
  PROVE  /\ StepsLeft \in Nat
         /\ pc # "idle" => StepsLeft > 0
<1>1. CASE pc = "extract"
  <2>1. segments.batches \in Nat /\ batch \in Nat
    BY <1>1, BoundAssumption DEF TypeInv, TypeOK, FilesRead, IngestSteps, Transcription
  <2>2. QED
    BY <1>1, <2>1, GapFacts DEF StepsLeft
<1>2. CASE pc = "load"
  <2>1. Loaded \in Book /\ pipeline \in Pipeline
    BY <1>2, LoadedTyped DEF TypeInv, FilesRead
  <2>2. QED
    BY <1>2, <2>1, StagesLeftTyped DEF StepsLeft
<1>3. CASE pc = "stages"
  BY <1>3, StageStart, StagesLeftTyped DEF StepsLeft
<1>4. CASE pc \in ChapterSteps
  <2>1. ChaptersLeft \in Nat
    BY <1>4, ChapterStart, GapFacts DEF ChaptersLeft
  <2>2. QED
    BY <1>4, <2>1 DEF StepsLeft, ChapterSteps, DraftSteps
<1>5. CASE pc \in {"idle", "save_claims", "short_story"}
  BY <1>5 DEF StepsLeft
<1>6. QED
  BY <1>1, <1>2, <1>3, <1>4, <1>5 DEF TypeInv, TypeOK, ChapterSteps, DraftSteps

LEMMA EndShortens ==
  ASSUME TypeInv, pc # "idle", Forget
  PROVE  StepsLeft' < StepsLeft
<1>1. StepsLeft' = 0
  BY DEF Forget, StepsLeft
<1>2. QED
  BY <1>1, StepsLeftTyped

LEMMA IngestShortens ==
  ASSUME TypeInv, ExtractBatch \/ FinishExtraction \/ SaveClaims
  PROVE  StepsLeft' < StepsLeft
<1>1. CASE ExtractBatch
  <2>1. /\ pc = "extract" /\ pc' = "extract" /\ batch < segments.batches
        /\ batch' = batch + 1 /\ segments' = segments
    BY <1>1 DEF ExtractBatch
  <2>2. segments.batches \in Nat /\ batch \in Nat
    BY <2>1, BoundAssumption DEF TypeInv, TypeOK, FilesRead, IngestSteps, Transcription
  <2>3. StepsLeft = Gap(segments.batches, batch) + 3
    BY <2>1 DEF StepsLeft
  <2>4. StepsLeft' = Gap(segments.batches, batch + 1) + 3
    BY <2>1 DEF StepsLeft
  <2>5. QED
    BY <2>1, <2>2, <2>3, <2>4 DEF Gap
<1>2. CASE FinishExtraction
  <2>1. pc = "extract" /\ pc' = "save_claims"
    BY <1>2 DEF FinishExtraction
  <2>2. segments.batches \in Nat /\ batch \in Nat
    BY <2>1, BoundAssumption DEF TypeInv, TypeOK, FilesRead, IngestSteps, Transcription
  <2>3. StepsLeft = Gap(segments.batches, batch) + 3 /\ StepsLeft' = 2
    BY <2>1 DEF StepsLeft
  <2>4. QED
    BY <2>2, <2>3 DEF Gap
<1>3. CASE SaveClaims
  BY <1>3 DEF SaveClaims, StepsLeft
<1>4. QED
  BY <1>1, <1>2, <1>3

LEMMA LoadShortens ==
  ASSUME TypeInv, LoadCheckpoint
  PROVE  StepsLeft' < StepsLeft
<1>1. /\ pc = "load" /\ pc' = "stages" /\ pipeline' = pipeline
      /\ narrative' = IF Loaded.version # "v3" THEN Upgraded(Loaded) ELSE narrative
  BY DEF LoadCheckpoint
<1>2. Loaded \in Book /\ (Loaded.version = "v3" => narrative = Loaded)
  BY <1>1, LoadedTyped DEF Loaded, NoBook
<1>3. /\ narrative'.canon = Loaded.canon /\ narrative'.timeline = Loaded.timeline
      /\ narrative'.plan = Loaded.plan /\ narrative'.detail_bank = Loaded.detail_bank
  BY <1>1, <1>2, UpgradedFields
<1>4. StepsLeft = StagesLeft(Loaded) + 1
  BY <1>1 DEF StepsLeft
<1>5. StepsLeft' = StagesLeft(Loaded)
  BY <1>1, <1>3 DEF StepsLeft, StagesLeft, CanonLeft, EntryLeft, ChaptersAhead
<1>6. StagesLeft(Loaded) \in Nat
  BY <1>1, <1>2, StagesLeftTyped DEF TypeInv, FilesRead
<1>7. QED
  BY <1>4, <1>5, <1>6

\* A stage shortens the run when less is left of the book it saves.
LEMMA StageShortens ==
  ASSUME TypeInv, pc = "stages", NEW book, Stage(book), StagesLeft(book) < StagesLeft(narrative)
  PROVE  StepsLeft' < StepsLeft
<1>1. narrative' = book /\ pipeline' = pipeline /\ pc' = "stages"
  BY DEF Stage
<1>2. StepsLeft = StagesLeft(narrative)
  BY DEF StepsLeft
<1>3. StepsLeft' = StagesLeft(book)
  BY <1>1 DEF StepsLeft, StagesLeft, CanonLeft, EntryLeft, ChaptersAhead
<1>4. QED
  BY <1>2, <1>3

LEMMA CanonShortens ==
  ASSUME TypeInv, CanonBatch \/ FinishCanon
  PROVE  StepsLeft' < StepsLeft
<1>0. /\ pc = "stages" /\ narrative \in Book /\ pipeline \in Pipeline /\ ~narrative.canon.done
      /\ narrative.canon \in Canon /\ narrative.canon.next_batch \in Nat
      /\ Len(pipeline.claims) \in Nat
  BY StageStart, BookFields, LenProperties DEF CanonBatch, FinishCanon, Pipeline
\* Only what canonicalization has left changes.
<1>1. ASSUME NEW canon \in Canon, CanonLeft(canon) < CanonLeft(narrative.canon),
             Stage([narrative EXCEPT !.canon = canon])
      PROVE  StepsLeft' < StepsLeft
  <2> DEFINE book == [narrative EXCEPT !.canon = canon]
  <2>1. /\ book \in Book /\ book.canon = canon /\ book.timeline = narrative.timeline
        /\ book.plan = narrative.plan /\ book.detail_bank = narrative.detail_bank
    BY <1>0, <1>1 DEF Book
  <2>2. Stage(book)
    BY <1>1
  <2> HIDE DEF book
  <2>3. StagesLeft(book) < StagesLeft(narrative)
    <3>1. /\ EntryLeft(narrative.timeline) \in Nat /\ EntryLeft(narrative.plan) \in Nat
          /\ EntryLeft(narrative.detail_bank) \in Nat /\ ChaptersAhead(narrative.plan) \in Nat
          /\ CanonLeft(narrative.canon) \in Nat /\ CanonLeft(canon) \in Nat
      BY <1>0, <2>1, StagesLeftTyped
    <3>2. QED
      BY <1>1, <2>1, <3>1 DEF StagesLeft
  <2>4. QED
    BY <1>0, <2>2, <2>3, StageShortens
<1>2. CASE CanonBatch
  <2>1. PICK events \in Seq(Fragment) :
          /\ narrative.canon.next_batch < Len(pipeline.claims)
          /\ Stage([narrative EXCEPT !.canon = CanonSaved(narrative.canon, events)])
    BY <1>2, CanonBatchFacts
  <2> DEFINE canon == CanonSaved(narrative.canon, events)
  <2>2. /\ canon \in Canon /\ ~canon.done
        /\ canon.next_batch = narrative.canon.next_batch + 1
    BY <1>0, CanonSavedFields
  <2>3. Stage([narrative EXCEPT !.canon = canon])
    BY <2>1
  <2> HIDE DEF canon
  <2>4. CanonLeft(canon) < CanonLeft(narrative.canon)
    BY <1>0, <2>1, <2>2 DEF CanonLeft, Gap
  <2>5. QED
    BY <1>1, <2>2, <2>3, <2>4
<1>3. CASE FinishCanon
  <2> DEFINE canon == [narrative.canon EXCEPT !.done = TRUE]
  <2>1. canon \in Canon /\ canon.done
    BY <1>0 DEF Canon
  <2>2. Stage([narrative EXCEPT !.canon = canon])
    BY <1>3 DEF FinishCanon
  <2> HIDE DEF canon
  <2>3. CanonLeft(canon) < CanonLeft(narrative.canon)
    BY <1>0, <2>1 DEF CanonLeft, Gap
  <2>4. QED
    BY <1>1, <2>1, <2>2, <2>3
<1>4. QED
  BY <1>2, <1>3

\* Timeline, plan and detail bank: one missing entry less, and no more chapters than a
\* plan may have.
LEMMA EntryShortens ==
  ASSUME TypeInv, ResolveTimeline \/ PlanBook \/ BuildDetailBank
  PROVE  StepsLeft' < StepsLeft
<1>0. pc = "stages" /\ narrative \in Book /\ pipeline \in Pipeline
  BY StageStart DEF ResolveTimeline, PlanBook, BuildDetailBank
<1>1. /\ EntryLeft(narrative.timeline) \in Nat /\ EntryLeft(narrative.plan) \in Nat
      /\ EntryLeft(narrative.detail_bank) \in Nat /\ ChaptersAhead(narrative.plan) \in Nat
      /\ CanonLeft(narrative.canon) \in Nat
  BY <1>0, StagesLeftTyped
<1>2. CASE ResolveTimeline
  <2> DEFINE facts == Ordered(Range(narrative.canon.events))
             book == [narrative EXCEPT !.timeline = facts]
  <2>1. narrative.timeline = Absent /\ Stage(book)
    BY <1>2 DEF ResolveTimeline
  <2>2. facts # Absent
    BY <1>0, BookFields, RangeOfSeq, FileAssumption DEF Ordered
  <2> HIDE DEF facts
  <2>3. /\ book.canon = narrative.canon /\ book.timeline # Absent /\ book.plan = narrative.plan
        /\ book.detail_bank = narrative.detail_bank
    BY <1>0, <2>2 DEF Book
  <2> HIDE DEF book
  <2>4. EntryLeft(narrative.timeline) = 1 /\ EntryLeft(book.timeline) = 0
    BY <2>1, <2>3 DEF EntryLeft
  <2>5. StagesLeft(book) < StagesLeft(narrative)
    BY <1>1, <2>3, <2>4 DEF StagesLeft
  <2>6. QED
    BY <1>0, <2>1, <2>5, StageShortens
<1>3. CASE PlanBook
  <2>1. PICK plan \in Plans : Stage([narrative EXCEPT !.plan = plan, !.synopses = <<>>])
    BY <1>3 DEF PlanBook
  <2> DEFINE book == [narrative EXCEPT !.plan = plan, !.synopses = <<>>]
  <2>2. narrative.plan = Absent /\ plan # Absent
    BY <1>3, FileAssumption DEF PlanBook
  <2>3. Len(plan) \in 0..MaxChapters
    <3>1. PICK n \in 0..MaxChapters : plan \in [1..n -> Slugs]
      BY DEF Plans
    <3>2. Len(plan) = n
      BY <3>1, BoundAssumption, LenProperties, PlansAreSequences
    <3>3. QED
      BY <3>2
  <2>4. /\ book.canon = narrative.canon /\ book.timeline = narrative.timeline /\ book.plan = plan
        /\ book.detail_bank = narrative.detail_bank
    BY <1>0 DEF Book
  <2>5. Stage(book)
    BY <2>1
  <2> HIDE DEF book
  <2>6. EntryLeft(narrative.plan) = 1 /\ EntryLeft(book.plan) = 0
    BY <2>2, <2>4 DEF EntryLeft
  <2>7. ChaptersAhead(narrative.plan) = MaxChapters /\ ChaptersAhead(book.plan) = Len(plan)
    BY <2>2, <2>4 DEF ChaptersAhead
  <2>8. StagesLeft(book) < StagesLeft(narrative)
    BY <1>1, <2>3, <2>4, <2>6, <2>7, BoundAssumption DEF StagesLeft
  <2>9. QED
    BY <1>0, <2>5, <2>8, StageShortens
<1>4. CASE BuildDetailBank
  <2> DEFINE bank == pipeline.segments
             book == [narrative EXCEPT !.detail_bank = bank]
  <2>1. narrative.detail_bank = Absent /\ Stage(book)
    BY <1>4 DEF BuildDetailBank
  <2>2. bank # Absent
    BY <1>0, FileAssumption DEF Pipeline
  <2> HIDE DEF bank
  <2>3. /\ book.canon = narrative.canon /\ book.timeline = narrative.timeline
        /\ book.plan = narrative.plan /\ book.detail_bank # Absent
    BY <1>0, <2>2 DEF Book
  <2> HIDE DEF book
  <2>4. EntryLeft(narrative.detail_bank) = 1 /\ EntryLeft(book.detail_bank) = 0
    BY <2>1, <2>3 DEF EntryLeft
  <2>5. StagesLeft(book) < StagesLeft(narrative)
    BY <1>1, <2>3, <2>4 DEF StagesLeft
  <2>6. QED
    BY <1>0, <2>1, <2>5, StageShortens
<1>5. QED
  BY <1>2, <1>3, <1>4

LEMMA StartChaptersShortens ==
  ASSUME TypeInv, StartChapters
  PROVE  StepsLeft' < StepsLeft
<1>1. /\ pc = "stages" /\ pc' = "chapters" /\ chapter' = 1 /\ narrative' = narrative
      /\ narrative.detail_bank # Absent
  BY DEF StartChapters, files
<1>2. narrative \in Book /\ pipeline \in Pipeline /\ narrative.plan # Absent
  BY <1>1, StageStart
<1>3. narrative.plan \in Seq(Slugs)
  BY <1>2, BookFields
<1>4. Len(narrative.plan) \in Nat
  BY <1>3, LenProperties
<1>5. /\ CanonLeft(narrative.canon) \in Nat /\ EntryLeft(narrative.timeline) \in Nat
      /\ EntryLeft(narrative.plan) \in Nat /\ EntryLeft(narrative.detail_bank) \in Nat
      /\ ChaptersAhead(narrative.plan) = Len(narrative.plan)
  BY <1>2, StagesLeftTyped DEF ChaptersAhead
<1>6. StepsLeft >= 4 * Len(narrative.plan) + 2
  <2>1. StepsLeft = StagesLeft(narrative)
    BY <1>1 DEF StepsLeft
  <2>2. QED
    BY <1>4, <1>5, <2>1 DEF StagesLeft
<1>7. StepsLeft' = IF 1 > Len(narrative.plan) THEN 1 ELSE 4 * Gap(Len(narrative.plan), 1) + 5
  BY <1>1 DEF StepsLeft, ChaptersLeft
<1>8. StepsLeft' \in Nat /\ StepsLeft' <= 4 * Len(narrative.plan) + 1
  BY <1>4, <1>7 DEF Gap
<1>9. QED
  BY <1>4, <1>6, <1>8, StepsLeftTyped

\* Within a chapter each step is taken once.
LEMMA DraftShortens ==
  ASSUME TypeInv, WriteChapter \/ RepairChapter \/ PolishChapter
  PROVE  StepsLeft' < StepsLeft
<1>1. /\ narrative' = narrative /\ chapter' = chapter
      /\ \/ pc = "chapters" /\ chapter <= Len(narrative.plan) /\ pc' \in {"repair", "polish"}
         \/ pc = "repair" /\ pc' = "polish"
         \/ pc = "polish" /\ pc' = "review"
  BY DEF WriteChapter, RepairChapter, PolishChapter, ChapterStep, AfterPolish, files
<1>2. ChaptersLeft' = ChaptersLeft
  BY <1>1 DEF ChaptersLeft
<1>3. /\ ChaptersLeft \in Nat /\ chapter \in Nat /\ Len(narrative.plan) \in Nat
  BY <1>1, ChapterStart, GapFacts DEF ChaptersLeft, ChapterSteps, DraftSteps
<1>4. CASE pc = "chapters" /\ chapter <= Len(narrative.plan) /\ pc' \in {"repair", "polish"}
  <2>1. StepsLeft = 4 * ChaptersLeft + 5
    BY <1>3, <1>4 DEF StepsLeft
  <2>2. StepsLeft' \in {4 * ChaptersLeft + 4, 4 * ChaptersLeft + 3}
    BY <1>2, <1>4 DEF StepsLeft
  <2>3. QED
    BY <1>3, <2>1, <2>2
<1>5. CASE pc = "repair" /\ pc' = "polish"
  <2>1. StepsLeft = 4 * ChaptersLeft + 4 /\ StepsLeft' = 4 * ChaptersLeft + 3
    BY <1>2, <1>5 DEF StepsLeft
  <2>2. QED
    BY <1>3, <2>1
<1>6. CASE pc = "polish" /\ pc' = "review"
  <2>1. StepsLeft = 4 * ChaptersLeft + 3 /\ StepsLeft' = 4 * ChaptersLeft + 2
    BY <1>2, <1>6 DEF StepsLeft
  <2>2. QED
    BY <1>3, <2>1
<1>7. QED
  BY <1>1, <1>4, <1>5, <1>6

\* A chapter that is skipped or committed is one chapter less.
LEMMA ChapterShortens ==
  ASSUME TypeInv, SkipChapter \/ CommitChapter
  PROVE  StepsLeft' < StepsLeft
<1>1. /\ pc \in {"chapters", "review"} /\ pc' = "chapters" /\ chapter' = chapter + 1
      /\ narrative'.plan = narrative.plan
  BY CommitFields DEF SkipChapter, CommitChapter, files
<1>2. chapter \in Nat /\ Len(narrative.plan) \in Nat
  BY <1>1, ChapterStart DEF ChapterSteps, DraftSteps
<1>3. chapter <= Len(narrative.plan)
  <2>1. pc = "review" => narrative \in Book
    BY ChapterStart DEF ChapterSteps, DraftSteps
  <2>2. QED
    BY <2>1 DEF SkipChapter, CommitChapter, TypeInv, StagesInOrder, DraftSteps
<1>4. StepsLeft >= 4 * (Len(narrative.plan) - chapter) + 2
  <2>1. 4 * ChaptersLeft = 4 * (Len(narrative.plan) - chapter)
    BY <1>2, <1>3 DEF ChaptersLeft, Gap
  <2>2. StepsLeft \in {4 * ChaptersLeft + 5, 4 * ChaptersLeft + 2}
    BY <1>1, <1>2, <1>3 DEF StepsLeft
  <2>3. QED
    BY <1>2, <1>3, <2>1, <2>2
<1>5. StepsLeft' = IF chapter + 1 > Len(narrative.plan) THEN 1
                   ELSE 4 * Gap(Len(narrative.plan), chapter + 1) + 5
  BY <1>1 DEF StepsLeft, ChaptersLeft
<1>6. StepsLeft' \in Nat /\ StepsLeft' <= 4 * (Len(narrative.plan) - chapter) + 1
  BY <1>2, <1>3, <1>5 DEF Gap
<1>7. QED
  BY <1>2, <1>3, <1>4, <1>6, StepsLeftTyped

\* RunsShorten: the loops of extract_claims and of narrative_agent's stages and chapters
\* only go forward; a run of batch_ingest or narrative_agent is no longer than StepsLeft
\* when it starts, whatever the models answer.
THEOREM RunsAreBounded == Spec => RunsShorten
<1>1. TypeInv => StepsLeft \in Nat
  BY StepsLeftTyped
<1>2. TypeInv /\ [Next]_vars => [pc # "idle" => StepsLeft' < StepsLeft]_vars
  <2> SUFFICES ASSUME TypeInv, Next, pc # "idle"
               PROVE  StepsLeft' < StepsLeft
    OBVIOUS
  <2>1. CASE Ingest \/ IngestAgain \/ StartNarrative
    BY <2>1 DEF Ingest, IngestAgain, StartIngest, StartNarrative
  <2>2. CASE Fail \/ Tear \/ ShortStory \/ WriteStory
    BY <2>2, EndShortens DEF Fail, Tear, ShortStory, WriteStory
  <2>3. CASE ExtractBatch \/ FinishExtraction \/ SaveClaims
    BY <2>3, IngestShortens
  <2>4. CASE LoadCheckpoint
    BY <2>4, LoadShortens
  <2>5. CASE CanonBatch \/ FinishCanon
    BY <2>5, CanonShortens
  <2>6. CASE ResolveTimeline \/ PlanBook \/ BuildDetailBank
    BY <2>6, EntryShortens
  <2>7. CASE StartChapters
    BY <2>7, StartChaptersShortens
  <2>8. CASE WriteChapter \/ RepairChapter \/ PolishChapter
    BY <2>8, DraftShortens
  <2>9. CASE SkipChapter \/ CommitChapter
    BY <2>9, ChapterShortens
  <2>10. QED
    BY <2>1, <2>2, <2>3, <2>4, <2>5, <2>6, <2>7, <2>8, <2>9 DEF Next, RunStep
<1>3. QED
  BY InitTypeInv, TypeInvKept, <1>1, <1>2, PTL DEF Spec, RunsShorten

=============================================================================
