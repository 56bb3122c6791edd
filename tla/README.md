# Verification of Changjuan

Changjuan interviews an older person about their life, turns the recordings into
claims, has the family correct them, writes a story from them, verifies it, and
shares it with relatives once the family agreed. This directory holds TLA+ models
of that program, the TLC runs that check them and the TLAPS proofs about them.
Source paths are relative to the repository root (`src/`); `API` is
`apps/api/changjuan_api`, `core` is `packages/changjuan_core`.

To check it: `tlc -config X.cfg M` for each run of the table below, and
`tlapm M.tla` for each module whose name ends in `Proofs`.

## 1. The system

### Components, their state and their operations

| Component | State | Operations | What makes it correct |
|---|---|---|---|
| **Story handlers** (API `main.py` 592-793, 1020-1088; `store.py`) | claims, issues, story pages, `project.status` | pending corrections, correct, complete, generate, verify, resolve, review | a draft tells only what the family allows; "verified" means the verifier read it |
| **Sharing** (`main.py` 536-590, 686-793; `store.py`) | family-sharing consents and flag, page and link flags | consent, withdraw, second consent, publish, create/revoke/reset link | nobody reads the story outside a consent or past the gate |
| **Interview intake** (`main.py` 338-534, 1241-1273) | payment, interview consent, photos, sessions, chunks, segments, rate windows | pay, consent, photo, session, REST chunk, websocket stream | recordings were agreed to and stay within the voice limit |
| **Deletion** (`store.py` 1080-1246, `sqlalchemy_store.py` 874-995) | `deleted_at` of every record, the deletion request | request, purge when due | silent at once, kept for 7 days, then gone, in memory and in every table |
| **Core gates** (core `ai/verifier.py`, `ai/narrative.py`, `story/publish_gate.py`, `audio/rate_limit.py`) | the window of `AudioChunkPolicy`; otherwise pure | called by the above | as above |
| **SQLAlchemy store** (`sqlalchemy_store.py`) | the in-memory store plus the database rows | write-through of each call, hydration at start | after a crash and restart no page is more open than before, and no row refers to nothing |
| **Thread pool** (FastAPI; no lock in `store.py`) | the local variables of each running handler | handlers read and write the shared store at the same time | a reader who comes after a deletion or a revocation gets nothing |
| **Tokens and limits** (`auth.py`, `main.py` 98-207, 850-857) | token sessions, revocations, admin sessions, rate hits | login, refresh, logout, request limit | a logout is final for its login and touches no other |
| **Provider router** (core `providers/router.py`) | generation-run records | call primary up to three times, then the backup | a result is recorded once and with its provider |
| **Extraction and capture** (core `ai/extraction.py`, `ai/capture.py`) | none | rule-based claim extraction, duplicate merge | |
| **Compliance** (core `compliance/`) | audit list | encrypt, redact, plan a deletion | |
| **Worker** (`apps/worker`) | none | celery tasks; nothing enqueues or schedules them | |
| **Voice pipeline** (`apps/voice-pipeline`) | one chunk policy per connection | accept a stream | |
| **Mini program** (`miniprogram/pages/interview`) | session, recorder, stream, sequence number, frames in upload | create, start and end a session, presign, upload and send each frame, recover | a chunk is the sound of its frame; nothing is kept that was recorded after the end |
| **Narrative scripts** (`scripts/narrative_agent.py`, `scripts/batch_ingest.py`) | `pipeline.json` and two checkpoint files | ingest, extract, canonicalize, order, plan, write, audit, repair, polish, review, resume | however often it is stopped, the book rests on its claims and every text has its own audit |
| **Web admin, H5, client library, PDF, storage, WeChat, settings, migrations, validators** | none that matters here | rendering, formatting, configuration | |

### How they interact

All handlers share one store object. A handler checks ownership (`_owned_project`,
which hides deleted projects), then the state it needs, then calls one or two store
methods. Admin handlers skip the ownership check and therefore also work on deleted
projects. `project.status` is written by the interview handlers, the story handlers,
`mark_payment`, the admin's issue resolution and the deletion alike; only
`request_second_consent` and the publish gate read it. `ProjectStateMachine`
(core `story/state_machine.py`) lists allowed transitions, but no handler asks it: a
payment marked late, on a project whose deletion was requested too (`store.py` 596),
writes a status the table refuses.
The websocket stream checks owner and session once and then writes chunks into the
same store as the REST handler. The SQLAlchemy store inherits from the in-memory
store and repeats each change in the database, in one transaction per record.
The narrative scripts are a world of their own: they share with the API neither store
nor process, and pass work from run to run in files beside the recording.
Flags are kept twice: the consent records and `has_family_sharing_consent`, the
page's `enabled` and each link's `enabled`, a claim's status and its `deleted_at`.

### Where it is hard

* State read early and used late: the draft tells the claims as they were when it was
  generated; issues refer to an earlier draft; the stream remembers its session.
* Two pieces of state that must agree: consent records and flag, page and links,
  `story_page_id` and the pages that stay behind it.
* Calls in an order nobody wrote a test for: a link before publication, a reset after
  a withdrawal, a second consent record, an admin acting on a deleted project.
* Limits: 240 chunks in any minute, 3 to 10 photos, a purge after 7 days and not before.
* Handlers run in a thread pool without locks, and a loop over a dictionary breaks off
  when another handler inserts into it.
* The process may stop between two transactions of one call; the purge may be refused by
  the foreign keys after it has cleared memory.
* A narrative run may be killed anywhere, in the middle of a write too, and the next one
  goes on from what it left; models answer truncated, unusable or not at all.
* Frames are uploaded concurrently, connections break and are replaced, and the answers
  to a start or an end come after the user has gone on.
* A refresh, a logout and a restart overlap, each revocation being two steps.

`PROJECT.json` lists each hazard at its line with the properties that would catch it going
wrong, and says of each that none catches, or none wholly, why.

## 2. The modules

| Module | What it is |
|---|---|
| `StoryWorkflow` | claims, corrections, drafts, verification, second consent, publication, links, sharing consent, deletion request of one project |
| `ConsentGatedSharing` | abstract: relatives read the story only between grant and withdrawal, never after erasure |
| `InterviewIntake` | payment, interview consent, photos, sessions, chunks by REST and stream, deletion request and purge of one project |
| `RecordedSpeech` | abstract: each frame's sound is kept and recorded under a number of its own, in the order of speaking, and none after the end |
| `LoginLifetimes` | abstract: a login is usable from its answer to its own logout or its end of life, whatever restarts |
| `StorePersistence` | the rows of one project's sharing state in memory and in the database, crashes and restarts |
| `DeletionPurge` | every table of one project in memory and in the database, foreign keys, deletion request and purge, broken connections, crashes; a second project that must stay as it is |
| `ConcurrentSharing` | publication, withdrawal, links, deletion and readers of one page, in threads that interleave at each read and write |
| `NarrativePipeline` | the two narrative scripts, the files they resume from, stops anywhere |
| `TokenSessions` | login, refresh and logout of users and admins, revocations in memory and in the database, restarts |
| `AudioCapture` | the interview page, its stream and its frames, against the session, presign, stream and recovery handlers and the request limit |
| `MCStoryWorkflow`, `MCInterviewIntake`, `MCStorePersistence`, `MCConcurrentSharing`, `MCTokenSessions`, `MCAudioCapture` | symmetry sets and definitions for TLC |
| `StoryWorkflowProofs`, `InterviewIntakeProofs`, `StorePersistenceProofs`, `DeletionPurgeProofs`, `ConcurrentSharingProofs`, `NarrativePipelineProofs`, `TokenSessionsProofs`, `AudioCaptureProofs` | the theorems about each module |

The modules look at the same handlers from different sides: `StoryWorkflow` takes each
as one step, `ConcurrentSharing` splits it at the accesses to the shared store,
`StorePersistence` and `DeletionPurge` at the transactions it commits. `InterviewIntake`
has the API's side of an interview, `AudioCapture` the page's.

### StoryWorkflow

One project (projects share no state the handlers use). Each action is one handler
with all store methods it calls; a call the handler rejects changes nothing and is no
step. The exception: several handlers first call `seed_claims_for_project`, and its
seed claim stays when the handler then rejects; that trace is `PendingCorrections`.

* Claims: `listed` is `claims_by_project`; `verification_status`, `deleted_claims`
  (`deleted_at`), `reviewed` (`human_reviewed`) are fields. Priority, evidence, support
  and sensitivity never change and are constants (`P0`, `Evidenced`, `Unsupported`,
  `Sensitive`). Claims enter by the seed, by extraction (`SaveClaim`, the store's
  `save_claim`) or from a photo hypothesis (`ConvertPhotoAnalysis`).
* Text: the verifier compares the number of factful sentences of a chapter with its
  claims. Here a modified claim is `wordy` (two such sentences) or not (one), and a
  chapter is `overfull` if it tells a wordy claim.
* Issues: `open_issues[k]` counts the unresolved ones of kind and subject `k`. The
  verifier adds issues without looking at those of an earlier run, so there may be
  several; `MaxOpen` caps the count (a run that would exceed it is not taken).
  Every issue of `Verifier.verify` has severity "block".
* Pages: a page id and its draft. `enabled` is both `enabled` and
  `share_links_enabled`: every handler writes them together.
* `examined` and `resolved_once` are history variables of the properties
  (`resolved_once` is also the guard of resolving an issue a second time, which the
  handler allows). `taken_back[p]` is one too: the claims hidden or deleted when page
  `p` already told them.
* `InterviewStep` is what the interview half does to this half: it sets the status back.

What the model shows beyond its properties. A page keeps its draft, so a claim hidden or
deleted after generation (`main.py` 634) is still told by it, whether it was published
before or is published now; `docs/architecture.md:83` says hidden and deleted claims do
not leak. A sensitive claim that is deleted so late also drops out of the claims the
verifier reads (`store.py` 884), so the draft that tells it is verified and published
without the review that `docs/product/phase1.md:1105` wants. `OpenPageIsCleared` is what
is true: until an admin resolves or reviews something, these claims (`taken_back`) are
all that an open page tells against the family or the verifier; a claim withheld in any
other order, deleted and confirmed again for instance, reaches nobody. Resolving the last issue of an
older verifier run makes any status "verified" (`store.py` 966), so the second consent
may be asked for a draft nobody examined; `docs/product/phase1.md:879` requires a passed
run, and `VerifiedDraftWasExamined` is what is true. A photo candidate listed before the
first read of the claims keeps the P0 seed claim from ever being made (`store.py` 840).

Left out: comments, PDF exports, the chapter and citation rows and the purge (in
`DeletionPurge`), media tokens and access logs (in `ConcurrentSharing`).

### InterviewIntake

One project again. Time is a tick counter; a minute, the retention and the horizon are
constants. A chunk is a session and a sequence number; only chunks of a legal duration
and object key are sent. `received_at` and `said_at` hold the time of the chunk record
and of its transcript segment, `Never` before and after. `window` is
`AudioChunkPolicy._received`, as a set of numbered times (the deque is in their order).
A rejected chunk prunes the window in the code; pruning
again later gives the same result, so it is no step here. An open stream (`stream`)
keeps delivering whatever happens to its session or project, as the handler does. The
guard of `ExecuteDueDeletion` is `deletion.execute_after_at`; its `at` parameter is the
clock. Nothing forces it to happen, because nothing in the repository schedules it.

What the model shows beyond its properties. A chunk that an open stream delivers after the
deletion request is never marked, so the purge leaves it, although
`docs/runbooks/deletion.md:8` has the purge remove the rows and objects.
`PurgeTakesOlderRecords` and `OnlyOpenStreamsOutliveDeletion` are what is true: nothing
older is left, and what is left is of sessions a connection was streaming when the
deletion was requested (the history variable `listening`).

### StorePersistence

`SqlAlchemyStore` overrides each method of the in-memory store: it calls it, then saves
the records it changed, each in a transaction of its own. `memory` and `disk` hold one
record per row; a call changes `memory` at once and leaves in `pending` the rows it has
yet to write, in stages that follow each other as in the code. `touch_project` is
overridden too, so where the in-memory method calls it the project's row is written
before the page or consent is. `WriteRow` is one transaction, `Return` the end of the
call. `Restart` may come at any moment: the new process reads the rows (`__init__` and
`_hydrate_*`) and derives what no row holds. `story_page_id` becomes the last page read
of a query without an order, so any page; the consent flag follows from the records.

Only what sharing depends on has rows: project, deletion request, pages, links and
family-sharing consents; the other tables are in `DeletionPurge`. Claims and issues are in `StoryWorkflow`; here what they allow
is a free choice. A rejected publish saves rows that did not change and is no step.
Calls run one at a time, and a transaction that fails while the process goes on is not
modelled.

### DeletionPurge

`memory[p]` and `disk[p]` give each table of project `p` one row: none, live or marked
(`deleted_at`), and for the deletion request pending or executed. One row is enough
because every statement concerned treats the rows of a project and a table alike; what
two rows would add is one marked and one live, which a photo deleted by the family and
the half-written states after a crash also give. A handler changes `memory` at once and
leaves in `saves` the transactions it has yet to commit, in the order of the code;
`Commit` does the next. `References` are the foreign keys of the schema, `source` what
the evidence of the claim points to. `ExecuteDueDeletion` is one step in memory, and one
transaction that commits, is refused (`Refused`: some statement leaves a dangling row)
or breaks with its connection. `failed` records a purge that did not commit; after it
only the purge is called again or the process restarts, as the other handlers on
half-purged memory are no concern of the purge. Calls on the purge wait until the
retention has passed; that waiting is in `InterviewIntake`.

What the model shows beyond its properties. A crash in the middle of a deletion request
leaves, say, photos marked and their analyses live; the purge then deletes a photo an
analysis refers to and is refused for ever. And a purge that failed in the database has
already cleared memory: called again by the same process it sees `executed_at`, returns
"executed", and its transaction, with nothing collected, only saves that status.
`RefusedOnlyForUnmarked` and `ExecutedMeansPurged` say that nothing else goes wrong.

### ConcurrentSharing

FastAPI runs plain functions in a thread pool, and the store has no lock. `pc[t]` is
where thread `t` is; each attribute that another handler may change is read or written
in its own step. `rest` and `size` are a loop over `share_links`: Python raises an error
when the dictionary has grown since the loop began, so the handler ends there and its
caller gets an error. The page exists and the project is verified from the start;
consents are given and second consents asked for in one step each (one write each
matters). Readers come by a link (page, comment and PDF read the same flags) or with a
media token for audio. `erased`, `overtaken`, `dead` and `shut_out` are history.

What the model shows beyond its properties. A publication that has read the consent
opens the page after the withdrawal is done (`overtaken`); a link created from flags
read before a withdrawal is enabled on a closed page and keeps a later publication from
passing the gate; a loop that breaks off leaves links unrevoked and returns an error
before anything is saved to the database; a deletion that breaks off before the pages
leaves a deleted project with an open page that its owner cannot delete again. Reset
links are left out: they clear `revoked_at`, which is what the caller asks for.

### NarrativePipeline

`extraction`, `pipeline` and `narrative` are the three files, `Absent` or `Torn` where
they are missing or half written; the other variables are the memory of the one running
script, gone when it ends. A fragment is the run and batch it was extracted from, an
event the fragment it was made of, a chapter its slug with the version of its text
(`old`, `written`, `repaired`, `polished`), the version the kept audit was made of, and
the verdict. Model answers are free choices where the code looks at them: truncated or
not, verdict, sentences to repair, a polish that dropped too much. `Fail` ends a run at
any step, `Tear` in the middle of a write. `Init` includes the checkpoints of the
version before v3, which the code upgrades. `lost` and `stale` are history: fragments
whose batch was answered truncated, and claims extracted again under an old checkpoint.

What the model shows beyond its properties. A torn checkpoint makes every later run
fail until somebody removes it. `FinishExtraction` removes the extraction checkpoint
before `SaveClaims` writes the claims. The narrative checkpoint is found by the file's
name alone, so after a new extraction (`stale`) the old book comes back, with
`--narrative-only` too. Two planned chapters with one slug are both written in an
uninterrupted run and one of them is skipped in a resumed one. A chapter whose repair
failed its audit is committed with the verdict "fail" (`AuditMatchesText` says that the
verdict is at least that of this text). `docs/product/narrative-v3-plan.md:655` has
people remove `approved_chapters` by hand and keep the story bible: that leaves the
synopses of chapters that are gone, which is why `Upgraded` clears both; the manual edit
is not modelled.

### TokenSessions

A token is its claims: kind (`typ`, and admin for the roles), session, expiry, and the
login it goes back to, which only the properties use. The server keeps no tokens, only
`revoked_tokens`, `revoked_sessions` and `admin_sessions`, each with its rows in the
database. `Accepted` is `decode_token`, `ensure_token_active` and, for admins,
`is_admin_session_active`. A refresh is let in (`Refresh`) and answers later
(`RefreshReturns`); a logout is four steps, and calls overlap in any order. `Restart`
drops the calls under way and reads the rows. An admin holds a token only once the login
has answered, after its row was written. The assumption: a tick (days) is long compared
with a call, so the clock waits for refreshes under way. The enabled flag and role of an
admin are never changed by any handler and are left out.

What the model shows beyond its properties. A refresh that was let in before the logout
still answers with a new access token, refused at its first use. The refresh token is
given back unchanged, so a login ends 30 days after it began, plus what is left of the
last access token: up to 37 days. A stop between the two revocations leaves the session
alive; its owner got no answer and holds another token of it to log out with.

### AudioCapture

`session_id`, `sequence_number` and `recording` are the page's data, `socket` and
`socket_open` the two module variables beside it. Each frame goes through
`uploadAudioFrame` on its own: it gets its number and key at once (`CaptureFrame`), and
each `await` ends a step (`Presign`, `Upload`, `Send`). `link` is the state of each
connection, with the events still to come for it; `streamed` is the session in its
address, `queue` what was sent and not yet received. `calls` and `started` are start and
end calls on their way and their answers. On the other side `session_status` and `chunk` are
the API's records, `object` the storage, whose signed addresses stay good, and `counted`
the presign calls of the last minute. Whether a deleted project hides a session is the
status "hidden". A call that is refused or lost, a frame whose upload fails: the page
tries nothing again, so each just stays where it is. Payment, consent, the voice limit
and the REST upload of chunks are in `InterviewIntake`; the unload of the page is left
out.

What the model shows beyond its properties. `createSession`
(`interview.ts` 89) does not set the numbers back, and `session_recovery` (`store.py` 799)
counts from 0, so the numbers of a first session are reported missing from the second;
`ChunksAreTheirFrames` says that no chunk is taken for another. The close event of a connection the page has replaced comes
late and clears `socketOpen` of the new one: frames are dropped while the page says that
it records. A session whose stream broke can never be resumed, because start is refused
once it is in progress and only a start opens a stream. The answer to a start may come
after the end was pressed; the page then records into a session that is over, and
`LateFramesUnheard` says that none of it is kept.

Mutant operators (`ClosedByNoWithdrawal`, `PublishGateIgnoringStatus`, `InNewWindow`, ...)
stand before the definition they imitate, each a plausible bug of that code. No
specification uses them; putting one in place of its definition makes the property
that PROJECT.json pairs with it fail.

## 3. The runs

| Run (cfg) | Checks | Instance | Result |
|---|---|---|---|
| `StorySharing` | `CurrentShareHasConsent`, `LinksFollowPages`, `DeletedProjectIsSilent`, `PromiseKept` | seed claim and one photo candidate, 3 pages, 2 links, 2 consent records | holds, 220,292 states |
| `StoryReview` | `VerifiedDraftWasExamined`, `OpenPageWasExamined`, `OpenPageIsCleared` | seed claim and a sensitive claim, modified or deleted, 2 pages | holds, 1,515,054 states |
| `InterviewIntake` | `WithinVoiceLimit`, `RecordingsWereAgreed`, `PurgeTakesOlderRecords`, `OnlyOpenStreamsOutliveDeletion` | 1 session, 1 stream and REST, 3 sequence numbers with 2 per minute of 2 ticks, 2 photos, retention 2, clock to 3 | holds, 1,597,431 states |
| `StorePersistence` | `WriteThrough`, `ReturnedDeletionIsFinal`, `ReturnedWithdrawalIsFinal`, `OpenedUnderConsent`, `RestartTouchesOnlyUnderWay` | 2 pages, 2 links, 2 consent records, crashes at any row, any number of them | holds, 148,539 states |
| `NarrativePipeline` | `ClaimsOncePerBatch`, `CanonCoversClaims`, `SynopsesFollowChapters`, `AuditMatchesText`, `StoryIsWholePlan`, `StoryTellsItsClaims`, `ProgressKept`, `EveryRunEnds` | up to 2 batches, a checkpoint every 2, 2 chapters of 2 slugs (equal ones too), 2 ingest runs, any number of narrative runs, 1 of all runs stopped early | holds, 1,127,970 states |
| `DeletionPurge` | `NoDanglingRows`, `MemoryIsSaved`, `OthersUntouched`, `RefusedOnlyForUnmarked`, `ExecutedMeansPurged` | 16 tables of 2 projects, any number of crashes, 1 broken connection | holds, 488,280 states |
| `ConcurrentSharing` | `SharedUnderConsent`, `DeletionSilences`, `RevocationHolds` | 2 threads, 2 links, any number of calls | holds, 1,774,616 states |
| `TokenSessions` | `LogoutHolds`, `OthersStayLoggedIn`, `RestartLogsNobodyOut`, `LifetimesKept` | 4 tokens, 2 logins, an access token lives 1 tick, a refresh token 2, clock to 3, any number of restarts | holds, 270,611 states |
| `AudioCapture` | `ChunksAreTheirFrames`, `OneStream`, `LateFramesUnheard`, `SpeechKept` | 2 sessions, 2 connections, 2 frames, limits 1 and 2 a minute | holds, 2,590,210 states |
| `OldPageWithoutConsent` | `EveryShareHasConsent` | 2 pages, 1 link, 1 consent record | violated |
| `HalfDoneDeletion` | `DeletionHidesPages` | 1 page, 1 link, 1 consent record | violated |
| `PresignThrottled` | `VoiceLimitGoverns` | 1 session, 1 connection, 1 frame, limits 1 and 2 a minute | violated |

The type invariant of every module, `PublicationNeedsGate` and `LoginsEnd` are proved
(section 4) and left to the proof, so no run spends time on them.

Why the bounds are enough. Three pages give a published page, a newer published one and
an unpublished draft; two links a link of each page, or two of one; two consent records
one withdrawn while the other is in force. Two claims give one that keeps a draft
non-empty while the other changes, and a P0 with a non-P0 claim. `MaxOpen` = 2 in
`StorySharing` has an issue repeated by a second verifier run; `StoryReview` needs only
that one issue stays open while a later run passes. Two of three chunks fill the limit,
and the clock covers request, retention, purge and a chunk after it. Two pages let a restart
choose the wrong one, two consent records let one in force set the flag again after the
other was withdrawn. Two threads give every pair of calls, one overtaking the other at
any access, and two links one that a loop has visited with one inserted meanwhile; a
third thread or link is covered by the theorems. In `NarrativePipeline` two batches and a
checkpoint every two give fragments saved and fragments lost with a stop, two runs two
transcriptions of different length on the same files, and one early end every point at
which a stop or a torn write can come; the theorems again cover longer ones. In
`DeletionPurge` one broken connection is followed by a retry, and restarts are not
bounded. In `TokenSessions` one login of a user with its two tokens leaves two ids for
what refreshes add or for an admin's login, and the clock passes both lives. Two
sessions, connections and frames in `AudioCapture` give every way one can be taken for
the other or overtake it. Pages, links, consents, photos,
streams, threads, tokens, sessions, connections and frames are interchangeable, hence the
symmetry; it is used with invariants and action properties only. Deadlock is not checked: a deleted project, or
one whose ids are used up, really stops, and so do the scripts when nobody starts them.

**Fairness.** Only `NarrativePipeline` assumes any: `WF_vars(RunStep)`, a started script
goes on. Its only waits are calls of a model, and each ends: `_llm` has a time limit of
300 seconds and at most five attempts, the extraction calls at most five and the story
call three under the time limit of the client library, after which the answer is used
or the run fails. Nobody has to start a run, stop one or tear a file,
so those actions have no fairness. `EveryRunEnds` then says that no loop of the scripts
(batches, chapters, audit and repair, polish) waits for an answer that may never come
good. It is checked without symmetry. In the API every step waits for a person or a
client, and the one thing that must eventually happen (the purge) is scheduled by
nobody: no fairness is justified there and no liveness is stated.

### What the violations show

1. **An old page outlives its consent.** Publish, generate a new draft, withdraw.
   `withdraw_consent` (`store.py` 1069) closes the current page only, so the published
   one stays readable. `docs/architecture.md:82` wants a consent behind every
   family-facing share. `CurrentShareHasConsent` and `PromiseKept` are what is true.
2. **Half a deletion.** `request_deletion` saves the project first
   (`sqlalchemy_store.py` 876). If the process stops there, the next one has a deleted
   project whose pages are still served, no deletion request, and an owner who can no
   longer reach the project to repeat the call. `docs/runbooks/deletion.md:7` hides
   deleted resources immediately. `ReturnedDeletionIsFinal` is what is true.
3. **Presign has the limit of ordinary paths.** `rate_limit` (`main.py` 103) allows 240
   calls a minute to paths that end in `/audio-chunks`; presign ends in
   `/audio-chunks/presign` and gets 60, while the page presigns every frame.
   `docs/reports/phase1-completion-audit.md:16` says presign bypasses the generic limit.

## 4. The proofs

Every property of every passing run is also a theorem, but for the liveness property
`EveryRunEnds`. The theorems hold for every value of the constants under the modules'
`ASSUME`s: how the sets of claims relate (the seed claim is a supported, evidenced P0
claim; photo candidates are none of these); values that stand for nothing (`NoPage`,
`NoSession`, `NoFrame`, `NoToken`, `Absent`, `Torn`, ...) being none of the things they
stand beside; limits being natural numbers, with a minute, a retention, a checkpoint
distance and the lives of tokens at least 1; the two projects of DeletionPurge being two,
and the ids of pages, links and consents of StorePersistence differing. Nothing is
assumed finite.

| Theorem | States |
|---|---|
| `TypeCorrect` | `Spec => []TypeOK` (StoryWorkflow) |
| `VerificationReadsDraft` | `Spec => []VerifiedDraftWasExamined` |
| `ConsentCoversCurrentShare` | `Spec => []CurrentShareHasConsent` |
| `LinksOpenOnlyOpenPages` | `Spec => []LinksFollowPages` |
| `DeletionSilencesProject` | `Spec => []DeletedProjectIsSilent` |
| `HandlersKeepPromise` | `Spec => PromiseKept`: StoryWorkflow implements ConsentGatedSharing |
| `GateBeforePublication` | `Spec => PublicationNeedsGate` (defined beside the proof): a page opens only past the gate, under consent, with no block unresolved |
| `ReadersGetExaminedDrafts` | `Spec => []OpenPageWasExamined` |
| `ReadersGetClearedDrafts` | `Spec => []OpenPageIsCleared` |
| `RecordingsFollowAgreement` | `Spec => []RecordingsWereAgreed` (InterviewIntake) |
| `PurgeIsThorough` | `Spec => []PurgeTakesOlderRecords` |
| `LateRecordsWereStreamed` | `Spec => []OnlyOpenStreamsOutliveDeletion` |
| `StoreTypeCorrect` | `Spec => []TypeOK` (StorePersistence) |
| `CallsSaveTheirChanges` | `Spec => []WriteThrough` |
| `DeletionSurvivesCrashes` | `Spec => []ReturnedDeletionIsFinal` |
| `WithdrawalSurvivesCrashes` | `Spec => []ReturnedWithdrawalIsFinal` |
| `OpeningNeedsRecord` | `Spec => OpenedUnderConsent` |
| `RestartsKeepTheRest` | `Spec => RestartTouchesOnlyUnderWay` |
| `IntakeTypeCorrect` | `Spec => []TypeOK` (InterviewIntake) |
| `VoiceLimitHolds` | `Spec => []WithinVoiceLimit` |
| `PurgeTypeCorrect` | `Spec => []TypeOK` (DeletionPurge) |
| `RowsStandWithTheirReferences` | `Spec => []NoDanglingRows` |
| `MemoryFollowsDatabase` | `Spec => []MemoryIsSaved` |
| `PurgeSparesOthers` | `Spec => []OthersUntouched` |
| `RefusalMeansUnmarked` | `Spec => RefusedOnlyForUnmarked` |
| `ExecutionIsComplete` | `Spec => ExecutedMeansPurged` |
| `SharingTypeCorrect` | `Spec => []TypeOK` (ConcurrentSharing) |
| `OpenPageHasConsent` | `Spec => []SharedUnderConsent` |
| `NobodyReadsDeleted` | `Spec => []DeletionSilences` |
| `NobodyUsesRevokedLink` | `Spec => []RevocationHolds` |
| `NarrativeTypeCorrect` | `Spec => []TypeOK` (NarrativePipeline) |
| `SynopsesAreOfApproved` | `Spec => []SynopsesFollowChapters` |
| `NarrativeProgressKept` | `Spec => ProgressKept` |
| `ChapterAuditsMatch` | `Spec => []AuditMatchesText` |
| `ClaimsStayOrdered` | `Spec => []ClaimsOncePerBatch` |
| `EventsCoverClaims` | `Spec => []CanonCoversClaims` |
| `StoryRestsOnClaims` | `Spec => []StoryTellsItsClaims` |
| `StoryHasWholePlan` | `Spec => []StoryIsWholePlan` |
| `RunsAreBounded` | `Spec => RunsShorten`: `StepsLeft` is a natural number that every step of a run lowers |
| `SessionsTypeCorrect` | `Spec => []TypeOK` (TokenSessions) |
| `LogoutIsFinal` | `Spec => []LogoutHolds` |
| `LoginsDoEnd` | `Spec => []LoginsEnd` |
| `LogoutSparesOthers` | `Spec => OthersStayLoggedIn` |
| `RestartKeepsLogins` | `Spec => RestartLogsNobodyOut` |
| `LoginsKeepLifetimes` | `Spec => LifetimesKept`: TokenSessions implements LoginLifetimes |
| `CaptureTypeCorrect` | `Spec => []TypeOK` (AudioCapture) |
| `PageHasOneStream` | `Spec => []OneStream` |
| `ChunksHaveTheirSound` | `Spec => []ChunksAreTheirFrames` |
| `LateSoundIsLost` | `Spec => []LateFramesUnheard` |
| `CaptureKeepsSpeech` | `Spec => SpeechKept`: AudioCapture implements RecordedSpeech |
| `OrdinaryLimitGoverns` | `Spec => []PresignsWithinOrdinaryLimit` (defined beside the proof): the limit of ordinary paths bounds presign calls, whatever the voice limit |

**Sharing.** The sharing invariants are proved together (`SharingInv`), because they
need each other: a withdrawal closes links by page, so `LinksFollowPages` is needed to
know none stays open. `NothingDeletedYet` strengthens them: before the deletion request
no page or link is marked deleted. Without it a state is conceivable in which a page
marked earlier is missed by the request. The refinement maps `granted` to the consent
flag, `shared` to "the current page is viewable" and `erased` to `deleted`. Handlers
that open or close something are `Share` or `Unshare`, according to what relatives can
read after them; `SharingInv'` supplies the consent that `Share` asks for.

**Draft and verification.** Only `GenerateStory` makes pages and only `VerifyProject`,
the admin's actions and nothing else makes "verified"; `VerifiedDraftWasExamined` is
inductive given `TypeOK`, because a new draft takes the status back. `OpenPageWasExamined`
rests on it: publication looks at the status, and only the current draft can be published.
`OpenPageIsCleared` needs two facts more (`ClearedInv`). A page of a live project tells
claims of that project, withheld ones only if they were taken back: a new draft tells
none, and a correction that withholds a told one takes it back. And a current draft that
counts as verified is cleared. The first gives the second at the verifier's run: what
the run did not read is deleted, so taken back if told. Corrections keep a page cleared
and nothing else touches one, so it still is when it opens and as long as it is open;
the deletion, which withholds everything, closes all pages (`SharingInv`).

**Intake.** `IntakeInv` adds to the properties: an open stream belongs to a session
that was started (so a chunk on it does too, however late); the flag follows a consent
record; the deletion request lies in the past (so a late chunk is not older than it);
and between request and purge whatever is not marked is younger than the request. The
purge removes what is marked, and the last fact gives `PurgeTakesOlderRecords`.
`LateInv` says of the time after the request that connections still streaming belong to
sessions in `listening`, and that what is not marked does: the request marks what there
is, and afterwards no connection opens and no upload finds the project, before the purge
or after it.

**Persistence.** `PersistInv` says that every row in which memory and database differ is
still to be written by the call in progress; that a deletion or withdrawal has closed in
memory what it promises before it returns; that the flag is backed by a record in
memory; and that the page of a link is on disk, as no crash may leave a link without its
page. `CallEffect` collects what all calls have in common, each call is shown to have
it, and one lemma shows that it keeps the invariant; writing, returning and restarting
have a lemma each. `RestartTouchesOnlyUnderWay` follows from the first fact alone: a page
whose rows, and the rows of whose links, are all written reads the same from both.

**Voice limit.** `WithinVoiceLimit` speaks of chunk records, the code of its window.
`LimitInv` connects them: every record of the last minute that still exists is counted in
the window. A chunk recorded now finds the window below the limit, so the minute that
ends now holds at most one more; for a minute that ended earlier, only fewer records can
be left.

**Purge.** `PurgeInv` has four parts. No row of the other project changes. Marks are
ordered (`RowsInv`): a deletion request marks the project before it makes the request,
chapters before citations, pages before links and comments, claims before evidence, so
that a crash leaves a beginning. The transactions a call has yet to commit come in an
order in which each row follows what it refers to (`SavesInv`), and memory and database
differ only in those rows, or in rows a purge removed whose transaction failed
(`FailedInv`). The statements of the purge delete the tables that refer before the
tables referred to, so a refusal comes from a row that was never marked.

**Threads.** Four invariants, each over what a thread may be in the middle of. `TypeInv`:
a thread in a loop works on links it counted. `ConsentInv`: an open page is covered by a
consent, by a withdrawal that will close it, or by a publication that read the consent
first; the same for what a link creation has read. `DeletionInv`: once the deletion has
passed the page, the page stays marked, and a reader who began later stops there.
`RevocationInv`: a link whose revocation returned stays revoked, whatever enables it,
and a reader who began later stops at the mark.

**Narrative.** `TypeInv` says that a script works on files it could read and that stages
of a checkpoint come in order. On it rest separate invariants: the fragments a script
holds are those of batches up to where it is, with the saved ones a beginning
(`ClaimsInv`); events cover the claims up to the checkpoint's position (`CanonInv`, which
needs `ClaimsInv`); text, audit and verdict of the draft in work belong together, which
the repair and polish loops keep; a loop over the plan has a chapter for every slug
behind it (`PlanInv`, `WholeInv`); and `TellsInv` carries what the events cover into the
finished book.

`RunsAreBounded` is the part of `EveryRunEnds` that needs no fairness. `StepsLeft` counts
what the running script can still do: batches, entries missing from the checkpoint, and
four steps (write, repair, polish, commit) for each chapter ahead, of which there are at
most `MaxChapters` while no plan is made. `TypeInv` makes it a natural number, and one
lemma for each group of steps shows that it goes down whatever the models answer.

**Tokens.** `SessionsInv`: the session of a token is its login's; a refresh token expires
one life after its login, every other token at most one access life later, which a
refresh keeps because its token is still good; a logout under way has revoked what it is
about to save; rows are never ahead of memory, what was answered is in the rows, and an
admin session without a row belongs to a login not yet answered. The last three make a
restart harmless.

The refinement of `LoginLifetimes` maps `usable` to the logins of tokens that are held and
accepted, `waiting` to those of admins not yet answered, `ending` to those of logouts under
way. `LifetimeInv` is what it needs besides: whatever is revoked without a row belongs to
a logout under way, so a restart gives back only logins that are `ending`; a logout saves
its token before it turns to the session; no session is revoked before it is opened, so a
new login is usable; an admin's login has one token; and a refresh let in before the
logout of its login ends while that logout is under way or finds the session revoked, so
what it gives back (`Regain`) no logout has answered.

**Capture.** `CaptureInv`: a taken frame has a number of its own, because the page never
sets its counter back; an uploaded frame's object holds its sound, because no other frame
has its key; what is queued or recorded was sent, each under its key; and a late frame
gets no further than the answer to its presign, because the status of a session that is
over, or hidden, never changes back. `OneStream` is inductive by itself.

The refinement of `RecordedSpeech` maps `taken` to number and session of each frame,
`sound` to the storage, `record` to the chunk records, `over` to the sessions whose status
is past recording and `unheard` to the frames taken since. `LedgerInv` adds that a frame
has a key exactly from the time it is taken, and that an object holds nothing but the
sound of an uploaded frame with its key; so an upload finds its object empty and a chunk
record is made once.

**Presign.** `CountedInv`: the counted calls are finitely many, each of a frame that was
taken, and no session has more of them than the limit of ordinary paths. The cardinality
grows by at most one with a call, and only below the limit. This is the refutation of
`VoiceLimitGoverns` for every value of the two limits.

**Only model-checked**: `EveryRunEnds`, whose other half is that a started run always has
a step to take and takes it. Liveness, `ENABLED` and recursion over data are
out of the prover's reach and stay with TLC; no module has a recursive operator. The
properties of the runs that expect a violation are false and have no theorem.

## 5. Not modelled, and what is left

Not modelled: rendering (web, H5, PDF), object storage, WeChat login, settings,
observability, migrations, validators, compliance helpers, and admin records nothing
else reads (notes, feedback, tickets, alerts): they keep no state the rest depends on.
The worker's tasks and the voice pipeline service keep none either, or one chunk policy
per connection, which is that of `InterviewIntake`. The provider router is called by the
worker alone, with providers that never fail; its three attempts and one backup are a loop within
one call.

Left out of modelled parts, and worth adding first:

1. Both halves of a project on one `status`, with the photos and the intake's handlers
   interleaved as in `ConcurrentSharing`; two `complete_photo` calls at once, each
   counting nine photos, and reset links in that module.
2. A database write that fails while the process goes on, outside the purge.
3. Two narrative runs at once on the same files.
4. The unload of the interview page, and the saved hits of the request limit.

Open questions: can a project whose page is open be published again after a further
second consent (`store.py` 927); can corrections always be completed (`store.py` 856).
In both the code refuses a call that may be repeated, and nothing in the repository says
who repeats it; so neither is stated as a property.
