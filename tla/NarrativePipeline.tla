------------------------- MODULE NarrativePipeline -------------------------
(***************************************************************************)
(* The two scripts that make a book from a recording, and the files they   *)
(* resume from.  batch_ingest transcribes, extracts fragments batch by     *)
(* batch and writes pipeline.json; narrative_agent (also reached by        *)
(* --narrative-only) makes events of the fragments, orders them, plans     *)
(* chapters, then writes, audits, repairs, polishes and reviews each.  A   *)
(* run ends early when a model call still fails after its retries, when an *)
(* answer is not JSON, or when it is killed; killed in write_text it       *)
(* leaves a torn file, which every later run fails to parse.               *)
(*                                                                         *)
(* One run at a time, all with the same paths.  A batch of extraction      *)
(* gives at most one fragment, a batch of canonicalization reads one, and  *)
(* an event is named by the fragment it was made of.  Whatever narrative_  *)
(* agent adds to its checkpoint it saves before it goes on, so the file    *)
(* stands for the dictionary in memory.                                    *)
(***************************************************************************)
EXTENDS Naturals, Sequences, Functions

CONSTANTS
  Slugs,          \* chapter slugs a plan may use
  Absent, Torn,   \* a file that is not there, or that json.loads rejects
  SaveEvery,      \* batches between two extraction checkpoints (20)
  MaxBatches,     \* bound: extraction batches of a transcription
  MaxChapters,    \* bound: chapters of a plan
  MaxRuns,        \* bound: runs of batch_ingest
  MaxFailures     \* bound: runs that end early

ASSUME BoundAssumption ==
  /\ SaveEvery \in Nat \ {0}
  /\ MaxBatches \in Nat /\ MaxChapters \in Nat /\ MaxRuns \in Nat /\ MaxFailures \in Nat

VARIABLES
  extraction,   \* <name>.extraction_ckpt.json
  pipeline,     \* <name>.pipeline.json
  narrative,    \* <name>.narr_ckpt.json
  pc,           \* where the running script is, or "idle"
  segments,     \* of the ingest run
  claims,       \* all_fragments of the ingest run
  batch,        \* batches the ingest run is past
  done_slugs,   \* approved when the chapter loop began
  chapter,      \* position in the plan
  draft,        \* the chapter in progress
  runs,         \* runs of batch_ingest so far
  failures,     \* runs that ended early
  \* history
  lost,         \* fragments whose canonicalization answer was truncated
  stale         \* claims were extracted again while a narrative checkpoint existed

files == <<extraction, pipeline, narrative>>
ingest_vars == <<segments, claims, batch>>
chapter_vars == <<done_slugs, chapter, draft>>
history_vars == <<lost, stale>>
vars == <<files, pc, ingest_vars, chapter_vars, runs, failures, history_vars>>

Transcription == [run : 1..MaxRuns, batches : 0..MaxBatches]
NoSegments == [run |-> 0, batches |-> 0]
Fragment == [run : 1..MaxRuns, batch : 1..MaxBatches]
Verdict == {"pass", "fail"}
Body == {"none", "old", "written", "repaired", "polished"}

Plans == UNION {[1..n -> Slugs] : n \in 0..MaxChapters}

Chapter == [slug : Slugs, body : Body, audit_of : Body, verdict : Verdict]
Story == [by : {"nobody", "batch_ingest", "narrative_agent"}, slugs : Seq(Slugs),
          facts : SUBSET Fragment, voice : Transcription \cup {NoSegments}]
Extraction == [fragments : Seq(Fragment), next_batch : Nat]
Pipeline == [segments : Transcription, claims : Seq(Fragment), narrative : Story]
Canon == [events : Seq(Fragment), next_batch : Nat, done : BOOLEAN]
Book == [version : {"v2", "v3"}, canon : Canon, timeline : {Absent} \cup SUBSET Fragment,
         plan : {Absent} \cup Seq(Slugs), synopses : Seq(Slugs),
         detail_bank : {Absent} \cup Transcription, approved : Seq(Chapter)]

\* A missing or a torn file is not a file that parses, a missing entry is not an entry.
ASSUME FileAssumption ==
  /\ Absent # Torn
  /\ \A file \in {Absent, Torn} : file \notin Extraction /\ file \notin Pipeline /\ file \notin Book
  /\ \A facts \in SUBSET Fragment : facts # Absent
  /\ \A plan \in Plans : plan # Absent
  /\ Absent \notin Transcription

NoStory == [by |-> "nobody", slugs |-> <<>>, facts |-> {}, voice |-> NoSegments]
NoDraft == [body |-> "none", audit_of |-> "none", verdict |-> "fail"]
NoBook == [version |-> "v2", canon |-> [events |-> <<>>, next_batch |-> 0, done |-> FALSE],
           timeline |-> Absent, plan |-> Absent, synopses |-> <<>>, detail_bank |-> Absent,
           approved |-> <<>>]

Readable(file) == file \notin {Absent, Torn}
SlugsOf(chapters) == [i \in DOMAIN chapters |-> chapters[i].slug]

-----------------------------------------------------------------------------
(* The end of a run, early or not *)

\* What a script had in memory is gone.
Forget ==
  /\ pc' = "idle"
  /\ segments' = NoSegments
  /\ claims' = <<>>
  /\ batch' = 0
  /\ done_slugs' = {}
  /\ chapter' = 0
  /\ draft' = NoDraft

\* A call is given up, an answer cannot be used, or the process is killed.
Fail ==
  /\ pc # "idle"
  /\ failures < MaxFailures
  /\ failures' = failures + 1
  /\ Forget
  /\ UNCHANGED <<files, runs, history_vars>>

\* What narrative_agent finds: no file is an empty dictionary.
Loaded == IF narrative = Absent THEN NoBook ELSE narrative

\* The steps that end with write_text to a file; a resumed run may also save events to
\* which it added their quotes.
SavesExtraction == pc = "extract" /\ batch < segments.batches /\ (batch + 1) % SaveEvery = 0
SavesPipeline == \/ pc \in {"save_claims", "short_story"}
                 \/ pc = "chapters" /\ chapter > Len(narrative.plan)
SavesNarrative == \/ pc = "load" /\ Loaded.version # "v3"
                  \/ pc \in {"stages", "review"}

\* Killed between the truncation of a file and the end of its write.
Tear ==
  /\ failures < MaxFailures
  /\ failures' = failures + 1
  /\ \/ SavesExtraction /\ extraction' = Torn /\ UNCHANGED <<pipeline, narrative>>
     \/ SavesPipeline /\ pipeline' = Torn /\ UNCHANGED <<extraction, narrative>>
     \/ SavesNarrative /\ narrative' = Torn /\ UNCHANGED <<extraction, pipeline>>
  /\ Forget
  /\ UNCHANGED <<runs, history_vars>>

-----------------------------------------------------------------------------
(* batch_ingest *)

\* A transcription has segments of its own, with fresh ids.
Transcriptions == [run : {runs + 1}, batches : 0..MaxBatches]

\* What extract_claims starts from.
ResumePoint == IF extraction = Absent THEN [fragments |-> <<>>, next_batch |-> 0] ELSE extraction

StartIngest(transcription) ==
  /\ pc = "idle"
  /\ extraction # Torn
  /\ runs < MaxRuns
  /\ runs' = runs + 1
  /\ pc' = "extract"
  /\ segments' = transcription
  /\ claims' = ResumePoint.fragments
  /\ batch' = ResumePoint.next_batch
  /\ UNCHANGED <<files, chapter_vars, failures, history_vars>>

Ingest == \E transcription \in Transcriptions : StartIngest(transcription)

\* --skip-asr <name>.pipeline.json
IngestAgain == Readable(pipeline) /\ StartIngest(pipeline.segments)

\* A checkpoint that would repeat its last batch.
ExtractionSavedEarly(fragments) == [fragments |-> fragments, next_batch |-> batch]
ExtractionSaved(fragments) == [fragments |-> fragments, next_batch |-> batch + 1]

\* A truncated answer gives no fragments.
ExtractBatch ==
  LET fragment == [run |-> segments.run, batch |-> batch + 1] IN
  /\ pc = "extract"
  /\ batch < segments.batches
  /\ claims' \in {claims, Append(claims, fragment)}
  /\ batch' = batch + 1
  /\ extraction' = IF SavesExtraction THEN ExtractionSaved(claims') ELSE extraction
  /\ UNCHANGED <<pipeline, narrative, pc, segments, chapter_vars, runs, failures, history_vars>>

\* The checkpoint is removed before pipeline.json is written.
FinishExtraction ==
  /\ pc = "extract"
  /\ batch >= segments.batches
  /\ extraction' = Absent
  /\ pc' = "save_claims"
  /\ UNCHANGED <<pipeline, narrative, ingest_vars, chapter_vars, runs, failures, history_vars>>

SaveClaims ==
  /\ pc = "save_claims"
  /\ pipeline' = [segments |-> segments, claims |-> claims, narrative |-> NoStory]
  /\ stale' = (stale \/ narrative # Absent)
  /\ pc' = "short_story"
  /\ UNCHANGED <<extraction, narrative, ingest_vars, chapter_vars, runs, failures, lost>>

\* generate_narrative: one call for the whole story; priorities are left out.
ShortStory ==
  /\ pc = "short_story"
  /\ pipeline' = [pipeline EXCEPT !.narrative =
                    [by |-> "batch_ingest", slugs |-> <<>>, facts |-> Range(claims),
                     voice |-> segments]]
  /\ Forget
  /\ UNCHANGED <<extraction, narrative, runs, failures, history_vars>>

-----------------------------------------------------------------------------
(* narrative_agent: stages 1 to 4 *)

StartNarrative ==
  /\ pc = "idle"
  /\ Readable(pipeline)
  /\ narrative # Torn
  /\ pc' = "load"
  /\ UNCHANGED <<files, ingest_vars, chapter_vars, runs, failures, history_vars>>

\* Chapters of a checkpoint from before v3 are written again.
UpgradedChaptersOnly(book) == [book EXCEPT !.version = "v3", !.approved = <<>>]
Upgraded(book) ==
  [book EXCEPT !.version = "v3", !.approved = <<>>,
               !.synopses = IF book.approved # <<>> THEN <<>> ELSE @]

LoadCheckpoint ==
  /\ pc = "load"
  /\ narrative' = IF Loaded.version # "v3" THEN Upgraded(Loaded) ELSE narrative
  /\ pc' = "stages"
  /\ UNCHANGED <<extraction, pipeline, ingest_vars, chapter_vars, runs, failures, history_vars>>

\* Each stage runs when the checkpoint has what the stages before it made.
Stage(book) ==
  /\ narrative' = book
  /\ UNCHANGED <<extraction, pipeline, pc, ingest_vars, chapter_vars, runs, failures, stale>>

\* The checkpoint after a batch whose answer held these events.
CanonSavedFresh(canon, events) ==
  [canon EXCEPT !.events = events, !.next_batch = @ + 1]
CanonSavedEarly(canon, events) == [canon EXCEPT !.events = @ \o events]
CanonSaved(canon, events) ==
  [canon EXCEPT !.events = @ \o events, !.next_batch = @ + 1]

\* A truncated answer is skipped and its fragments are lost.
CanonBatch ==
  LET canon == narrative.canon
      fragment == pipeline.claims[canon.next_batch + 1]
  IN /\ pc = "stages"
     /\ ~canon.done
     /\ canon.next_batch < Len(pipeline.claims)
     /\ \/ /\ Stage([narrative EXCEPT !.canon = CanonSaved(canon, <<fragment>>)])
           /\ UNCHANGED lost
        \/ /\ Stage([narrative EXCEPT !.canon = CanonSaved(canon, <<>>)])
           /\ lost' = lost \cup {fragment}

FinishCanon ==
  /\ pc = "stages"
  /\ ~narrative.canon.done
  /\ narrative.canon.next_batch >= Len(pipeline.claims)
  /\ Stage([narrative EXCEPT !.canon.done = TRUE])
  /\ UNCHANGED lost

\* Events the model's order leaves out are appended; the order itself is left out.
OrderedAsAnswered(events) == {e \in events : e.batch = 1}
Ordered(events) == events

ResolveTimeline ==
  /\ pc = "stages"
  /\ narrative.canon.done
  /\ narrative.timeline = Absent
  /\ Stage([narrative EXCEPT !.timeline = Ordered(Range(narrative.canon.events))])
  /\ UNCHANGED lost

\* The model may plan no chapter, and two chapters with one slug; the story bible it
\* answers has no synopses yet.
PlanBook ==
  /\ pc = "stages"
  /\ narrative.timeline # Absent
  /\ narrative.plan = Absent
  /\ \E plan \in Plans :
       Stage([narrative EXCEPT !.plan = plan, !.synopses = <<>>])
  /\ UNCHANGED lost

BuildDetailBank ==
  /\ pc = "stages"
  /\ narrative.plan # Absent
  /\ narrative.detail_bank = Absent
  /\ Stage([narrative EXCEPT !.detail_bank = pipeline.segments])
  /\ UNCHANGED lost

-----------------------------------------------------------------------------
(* narrative_agent: the chapters *)

StartChapters ==
  /\ pc = "stages"
  /\ narrative.detail_bank # Absent
  /\ pc' = "chapters"
  /\ done_slugs' = Range(SlugsOf(narrative.approved))
  /\ chapter' = 1
  /\ UNCHANGED <<files, ingest_vars, draft, runs, failures, history_vars>>

\* A step of the chapter in progress, in memory only.
ChapterStep(from, to, new) ==
  /\ pc = from
  /\ pc' = to
  /\ draft' = new
  /\ UNCHANGED <<files, ingest_vars, done_slugs, chapter, runs, failures, history_vars>>

\* Slugs of the plan the loop passes over.
DoneByCount(plan) == {plan[i] : i \in 1..Len(narrative.approved) + 1}
Done(plan) == done_slugs

SkipChapter ==
  /\ pc = "chapters"
  /\ chapter <= Len(narrative.plan)
  /\ narrative.plan[chapter] \in Done(narrative.plan)
  /\ chapter' = chapter + 1
  /\ UNCHANGED <<files, pc, ingest_vars, done_slugs, draft, runs, failures, history_vars>>

Audited(body, verdict) == [body |-> body, audit_of |-> body, verdict |-> verdict]

\* write_chapter and the first audit.  An answer that is not JSON fails the audit; an
\* empty text passes it.
WriteChapter ==
  /\ pc = "chapters"
  /\ chapter <= Len(narrative.plan)
  /\ narrative.plan[chapter] \notin Done(narrative.plan)
  /\ \E verdict \in Verdict :
       ChapterStep("chapters", IF verdict = "fail" THEN "repair" ELSE "polish",
                   Audited("written", verdict))

\* Without sentences to delete the text stays.
RepairedBodies(body) == {body, "repaired"}

\* repair_chapter and the second audit, whose verdict changes nothing
RepairChapter ==
  \E body \in RepairedBodies(draft.body) : \E verdict \in Verdict :
    ChapterStep("repair", "polish", Audited(body, verdict))

\* A candidate that dropped more than a fifth of the text is refused.
PolishedBodies(body) == {body, "polished"}

\* A text that fails after the polish gives way to the one before, with its own audit.
KeptWithLastAudit(candidate, verdict) ==
  IF verdict = "fail" THEN [draft EXCEPT !.audit_of = candidate, !.verdict = verdict]
  ELSE Audited(candidate, verdict)
Kept(candidate, verdict) ==
  IF verdict = "fail" THEN draft ELSE Audited(candidate, verdict)

\* Where the chapter goes after the polish: each step is tried once.
RepairedAgain(verdict) == IF verdict = "fail" THEN "repair" ELSE "review"
AfterPolish(verdict) == "review"

\* polish_chapter and the third audit
PolishChapter ==
  \E candidate \in PolishedBodies(draft.body) : \E verdict \in Verdict :
    ChapterStep("polish", AfterPolish(verdict), Kept(candidate, verdict))

\* review_chapter only warns; the chapter and its synopsis are committed together.
CommitChapter ==
  LET slug == narrative.plan[chapter] IN
  /\ pc = "review"
  /\ narrative' = [narrative EXCEPT
       !.approved = Append(@, [slug |-> slug, body |-> draft.body, audit_of |-> draft.audit_of,
                               verdict |-> draft.verdict]),
       !.synopses = Append(@, slug)]
  /\ pc' = "chapters"
  /\ chapter' = chapter + 1
  /\ draft' = NoDraft
  /\ UNCHANGED <<extraction, pipeline, ingest_vars, done_slugs, runs, failures, history_vars>>

\* The story replaces the narrative of pipeline.json.
WriteStory ==
  /\ pc = "chapters"
  /\ chapter > Len(narrative.plan)
  /\ pipeline' = [pipeline EXCEPT !.narrative =
       [by |-> "narrative_agent", slugs |-> SlugsOf(narrative.approved),
        facts |-> narrative.timeline, voice |-> narrative.detail_bank]]
  /\ Forget
  /\ UNCHANGED <<extraction, narrative, runs, failures, history_vars>>

-----------------------------------------------------------------------------
OldChapter(slug) == [slug |-> slug, body |-> "old", audit_of |-> "none", verdict |-> "pass"]

\* A checkpoint an agent from before v3 left in its chapter loop.
OldBook(events, plan, n) ==
  [NoBook EXCEPT !.canon = [events |-> events, next_batch |-> Len(events), done |-> TRUE],
                 !.timeline = Range(events), !.plan = plan,
                 !.synopses = SubSeq(plan, 1, n),
                 !.approved = [i \in 1..n |-> OldChapter(plan[i])]]

\* Nothing done yet, or a recording whose book an older agent began.
Init ==
  /\ \/ pipeline = Absent /\ narrative = Absent /\ runs = 0
     \/ /\ MaxRuns > 0
        /\ runs = 1
        /\ LET events == [i \in 1..MaxBatches |-> [run |-> 1, batch |-> i]] IN
           /\ pipeline = [segments |-> [run |-> 1, batches |-> MaxBatches], claims |-> events,
                          narrative |-> NoStory]
           /\ \E plan \in Plans : \E written \in 0..Len(plan) :
                narrative = OldBook(events, plan, written)
  /\ extraction = Absent
  /\ pc = "idle"
  /\ segments = NoSegments
  /\ claims = <<>>
  /\ batch = 0
  /\ done_slugs = {}
  /\ chapter = 0
  /\ draft = NoDraft
  /\ failures = 0
  /\ lost = {}
  /\ stale = FALSE

\* A step of the script that is running.
RunStep ==
  \/ ExtractBatch \/ FinishExtraction \/ SaveClaims \/ ShortStory
  \/ LoadCheckpoint \/ CanonBatch \/ FinishCanon \/ ResolveTimeline \/ PlanBook
  \/ BuildDetailBank \/ StartChapters
  \/ SkipChapter \/ WriteChapter \/ RepairChapter \/ PolishChapter \/ CommitChapter
  \/ WriteStory

Next == Ingest \/ IngestAgain \/ StartNarrative \/ RunStep \/ Fail \/ Tear

\* A model call ends: it has a time limit and at most five attempts.  Nobody has to
\* start a run.
Fairness == WF_vars(RunStep)

Spec == Init /\ [][Next]_vars /\ Fairness
-----------------------------------------------------------------------------
(* Properties *)

\* Every file and every variable of the scripts has a value the code can store in it.
TypeOK ==
  /\ extraction \in {Absent, Torn} \/ extraction \in Extraction
  /\ pipeline \in {Absent, Torn} \/ pipeline \in Pipeline
  /\ narrative \in {Absent, Torn} \/ narrative \in Book
  /\ pc \in {"idle", "extract", "save_claims", "short_story", "load", "stages", "chapters",
             "repair", "polish", "review"}
  /\ segments \in Transcription \cup {NoSegments}
  /\ claims \in Seq(Fragment)
  /\ batch \in Nat
  /\ done_slugs \subseteq Slugs
  /\ chapter \in Nat
  /\ draft \in [body : Body, audit_of : Body, verdict : Verdict]
  /\ runs \in 0..MaxRuns
  /\ failures \in 0..MaxFailures
  /\ lost \subseteq Fragment
  /\ stale \in BOOLEAN

\* However often extraction is stopped and resumed, of this transcription or another,
\* no batch gives its fragment twice and the fragments keep their order.
ClaimsOncePerBatch ==
  Readable(pipeline) =>
    \A i, j \in DOMAIN pipeline.claims :
      i < j => pipeline.claims[i].batch < pipeline.claims[j].batch

\* However often canonicalization is stopped and resumed, the checkpoint has read each
\* claim it is past once: it became an event or its batch was truncated.
CanonCoversClaims ==
  ~stale /\ Readable(pipeline) /\ Readable(narrative) =>
    LET read == SubSeq(pipeline.claims, 1, narrative.canon.next_batch)
        events == narrative.canon.events
    IN /\ narrative.canon.next_batch <= Len(pipeline.claims)
       /\ Range(events) \subseteq Range(read)
       /\ Range(read) \subseteq Range(events) \cup lost
       /\ IsInjective(events)

\* The synopses later chapters are written and reviewed against are those of the
\* chapters approved so far, through any number of stops and the upgrade.
SynopsesFollowChapters ==
  Readable(narrative) => narrative.synopses = SlugsOf(narrative.approved)

\* The audit kept with a chapter is an audit of the text kept, and a polished text
\* passed it.
AuditMatchesText ==
  Readable(narrative) /\ narrative.version = "v3" =>
    \A i \in DOMAIN narrative.approved :
      LET ch == narrative.approved[i] IN
      ch.audit_of = ch.body /\ (ch.body = "polished" => ch.verdict = "pass")

\* A finished book has a chapter of every planned slug, and if no slug is planned twice
\* exactly the plan, whatever the stops on the way.
StoryIsWholePlan ==
  Readable(pipeline) /\ pipeline.narrative.by = "narrative_agent" /\ Readable(narrative) =>
    /\ Range(pipeline.narrative.slugs) = Range(narrative.plan)
    /\ IsInjective(narrative.plan) => pipeline.narrative.slugs = narrative.plan

\* Unless the claims were extracted again under an old checkpoint, a finished book
\* rests on the claims and the segments beside it in pipeline.json, on all of them
\* that no truncated answer lost.
StoryTellsItsClaims ==
  ~stale /\ Readable(pipeline) /\ pipeline.narrative.by = "narrative_agent" =>
    /\ pipeline.narrative.facts \subseteq Range(pipeline.claims)
    /\ Range(pipeline.claims) \ lost \subseteq pipeline.narrative.facts
    /\ pipeline.narrative.voice = pipeline.segments

Extends(longer, shorter) ==
  Len(shorter) <= Len(longer) /\ SubSeq(longer, 1, Len(shorter)) = shorter

KeepsProgress ==
  Readable(narrative) /\ narrative' # Torn =>
    /\ Extends(narrative'.canon.events, narrative.canon.events)
    /\ narrative.timeline # Absent => narrative'.timeline = narrative.timeline
    /\ narrative.plan # Absent => narrative'.plan = narrative.plan
    /\ narrative.version = "v3" => Extends(narrative'.approved, narrative.approved)

\* Work that reached the checkpoint is kept: a step adds to the events and chapters,
\* and redoes no stage.  A torn file is lost, and the upgrade drops old chapters.
ProgressKept == [][KeepsProgress]_vars

\* A run that was started ends: no loop of the script waits for an answer of the model
\* that never comes good.
EveryRunEnds == (pc # "idle") ~> (pc = "idle")
=============================================================================
