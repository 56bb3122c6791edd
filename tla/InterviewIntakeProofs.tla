----------------------- MODULE InterviewIntakeProofs -----------------------
(* Theorems about InterviewIntake, for every value of its constants. *)
EXTENDS InterviewIntake, FiniteSetTheorems, FunctionTheorems, TLAPS

\* A session whose recordings are in order has been started.
Started(s) == session_status[s] \in {"in_progress", "ended"}

\* An open stream writes to a session that was started.
StreamsFollowSessions == \A w \in Streams : stream[w] # NoSession => Started(stream[w])

\* The consent flag is set only after a consent record was made.
FlagFollowsRecord == has_interview_consent => \E k \in Consents : consent[k] # "none"

\* The deletion request lies in the past and comes before the purge.
DeletionPrecedesPurge ==
  /\ deleted_at # Never => deleted_at <= now
  /\ executed => deleted_at # Never

\* Between the request and the purge a record is marked or younger than the request.
RequestMarkedOlderRecords ==
  deleted_at # Never /\ ~executed =>
    /\ \A c \in Recorded(received_at) : c \in marked \/ received_at[c] >= deleted_at
    /\ \A c \in Recorded(said_at) : c \in said_marked \/ said_at[c] >= deleted_at
    /\ \A p \in Photos : photo[p] # "live"
    /\ evidence = {}

TypesOK == ProjectTypeOK /\ SessionTypeOK /\ ChunkTypeOK

SessionInv == StreamsFollowSessions /\ FlagFollowsRecord /\ RecordingsWereAgreed
PurgeInv == DeletionPrecedesPurge /\ RequestMarkedOlderRecords /\ PurgeTakesOlderRecords
IntakeInv == TypesOK /\ SessionInv /\ PurgeInv

-----------------------------------------------------------------------------
\* The present is a time, and no time is Never.
LEMMA NeverIsNoTime == \A t \in Times : t \in Nat /\ t # Never
  BY LimitAssumption DEF Times, Never

LEMMA NeverIsNat == Never \in Nat
  BY LimitAssumption DEF Never

\* What a chunk that is received changes, by REST or on a stream.
LEMMA ReceiveChunkEffect ==
  ASSUME NEW c \in Chunks, NEW has_transcript \in BOOLEAN, ChunkTypeOK,
         ReceiveChunk(c, has_transcript)
  PROVE  /\ \A d \in Chunks : received_at'[d] = received_at[d] \/ (d = c /\ received_at'[d] = now)
         /\ \A d \in Chunks : said_at'[d] = said_at[d] \/ (d = c /\ said_at'[d] = now)
         /\ received_at[c] # Never => received_at' = received_at
         /\ said_at[c] # Never => said_at' = said_at
         /\ received_at' \in [Chunks -> Times \cup {Never, now}]
         /\ said_at' \in [Chunks -> Times \cup {Never, now}]
         /\ UNCHANGED <<marked, said_marked, now, status, paid, consent_vars, photo,
                        session_status, stream, deletion_vars>>
<1> USE DEF ReceiveChunk, RecordChunk, ChunkTypeOK
<1>1. \/ received_at' = received_at
      \/ received_at' = [received_at EXCEPT ![c] = now] /\ received_at[c] = Never
  OBVIOUS
<1>2. \/ said_at' = said_at
      \/ said_at' = [said_at EXCEPT ![c] = now] /\ said_at[c] = Never
  OBVIOUS
<1>3. UNCHANGED <<marked, said_marked, now, status, paid, consent_vars, photo,
                  session_status, stream, deletion_vars>>
  OBVIOUS
<1>4. QED
  BY <1>1, <1>2, <1>3

-----------------------------------------------------------------------------
LEMMA InitIntakeInv == Init => IntakeInv
<1> SUFFICES ASSUME Init PROVE IntakeInv
  OBVIOUS
<1> USE DEF Init
<1>1. TypesOK
  <2>1. now \in Times
    BY LimitAssumption DEF Times
  <2>2. ProjectTypeOK
    BY <2>1 DEF ProjectTypeOK
  <2>3. SessionTypeOK
    BY DEF SessionTypeOK
  <2>4. ChunkTypeOK
    BY DEF ChunkTypeOK
  <2>5. QED
    BY <2>2, <2>3, <2>4 DEF TypesOK
<1>2. SessionInv
  BY DEF SessionInv, StreamsFollowSessions, FlagFollowsRecord, RecordingsWereAgreed,
         Recorded, Started
<1>3. PurgeInv
  BY DEF PurgeInv, DeletionPrecedesPurge, RequestMarkedOlderRecords, PurgeTakesOlderRecords
<1>4. QED
  BY <1>1, <1>2, <1>3 DEF IntakeInv

\* Everything the purge looks at, and everything a session does.
purge_vars == <<now, photo, evidence, received_at, said_at, marked, said_marked, deletion_vars>>
session_vars == <<session_status, stream, received_at, said_at, paid, consent,
                  has_interview_consent>>

LEMMA StablePurge == PurgeInv /\ UNCHANGED purge_vars => PurgeInv'
  BY DEF purge_vars, deletion_vars, PurgeInv, DeletionPrecedesPurge,
         RequestMarkedOlderRecords, PurgeTakesOlderRecords, Recorded

LEMMA StableSessions == SessionInv /\ UNCHANGED session_vars => SessionInv'
  BY DEF session_vars, SessionInv, StreamsFollowSessions, FlagFollowsRecord,
         RecordingsWereAgreed, Recorded, Started

LEMMA StableChunks == ChunkTypeOK /\ UNCHANGED chunk_vars => ChunkTypeOK'
  BY DEF chunk_vars, ChunkTypeOK, Recorded

LEMMA StableSessionTypes ==
  SessionTypeOK /\ UNCHANGED <<session_status, stream>> => SessionTypeOK'
  BY DEF SessionTypeOK

-----------------------------------------------------------------------------
(* Types *)

LEMMA ChunkStepTypes ==
  ASSUME NEW c \in Chunks, NEW has_transcript \in BOOLEAN, TypesOK,
         ReceiveChunk(c, has_transcript)
  PROVE  TypesOK'
<1> USE DEF TypesOK
<1>1. ProjectTypeOK' /\ SessionTypeOK'
  BY ReceiveChunkEffect DEF ProjectTypeOK, SessionTypeOK, consent_vars, deletion_vars
<1>2. ChunkTypeOK'
  <2>1. now \in Times
    BY DEF ProjectTypeOK
  <2>2. received_at' \in [Chunks -> Times \cup {Never}] /\ said_at' \in [Chunks -> Times \cup {Never}]
    BY <2>1, ReceiveChunkEffect
  <2>3. marked' \subseteq Recorded(received_at')
    BY <2>1, ReceiveChunkEffect, NeverIsNoTime DEF ChunkTypeOK, Recorded
  <2>4. said_marked' \subseteq Recorded(said_at')
    BY <2>1, ReceiveChunkEffect, NeverIsNoTime DEF ChunkTypeOK, Recorded
  <2>5. QED
    BY <2>2, <2>3, <2>4 DEF ChunkTypeOK, Recorded
<1>3. QED
  BY <1>1, <1>2

LEMMA PreparationTypes ==
  ASSUME TypesOK,
         \/ MarkPayment
         \/ \E k \in Consents : RecordConsent(k) \/ WithdrawConsent(k)
         \/ \E p \in Photos : CompletePhoto(p) \/ DeletePhoto(p)
  PROVE  TypesOK'
<1> USE DEF TypesOK
<1>1. CASE MarkPayment
  BY <1>1, StableChunks, StableSessionTypes
  DEF MarkPayment, ProjectTypeOK, consent_vars, deletion_vars
<1>2. ASSUME NEW k \in Consents, RecordConsent(k) PROVE TypesOK'
  BY <1>2, StableChunks, StableSessionTypes DEF RecordConsent, ProjectTypeOK, deletion_vars
<1>3. ASSUME NEW k \in Consents, WithdrawConsent(k) PROVE TypesOK'
  BY <1>3, StableChunks, StableSessionTypes DEF WithdrawConsent, ProjectTypeOK, deletion_vars
<1>4. ASSUME NEW p \in Photos, CompletePhoto(p) PROVE TypesOK'
  BY <1>4, StableChunks, StableSessionTypes
  DEF CompletePhoto, ProjectTypeOK, consent_vars, deletion_vars
<1>5. ASSUME NEW p \in Photos, DeletePhoto(p) PROVE TypesOK'
  BY <1>5, StableChunks, StableSessionTypes
  DEF DeletePhoto, ProjectTypeOK, consent_vars, deletion_vars
<1>6. QED
  BY <1>1, <1>2, <1>3, <1>4, <1>5

LEMMA SessionTypes ==
  ASSUME TypesOK,
         \/ \E s \in Sessions : CreateSession(s) \/ StartSession(s) \/ EndSession(s)
         \/ \E w \in Streams : CloseStream(w) \/ \E s \in Sessions : OpenStream(w, s)
  PROVE  TypesOK'
<1> USE DEF TypesOK, ProjectTypeOK, SessionTypeOK, consent_vars, deletion_vars
<1>1. ASSUME NEW s \in Sessions, CreateSession(s) PROVE TypesOK'
  BY <1>1, StableChunks DEF CreateSession
<1>2. ASSUME NEW s \in Sessions, StartSession(s) PROVE TypesOK'
  BY <1>2, StableChunks DEF StartSession
<1>3. ASSUME NEW s \in Sessions, EndSession(s) PROVE TypesOK'
  BY <1>3, StableChunks DEF EndSession, EndStatus
<1>4. ASSUME NEW w \in Streams, CloseStream(w) PROVE TypesOK'
  BY <1>4, StableChunks DEF CloseStream
<1>5. ASSUME NEW w \in Streams, NEW s \in Sessions, OpenStream(w, s) PROVE TypesOK'
  BY <1>5, StableChunks DEF OpenStream
<1>6. QED
  BY <1>1, <1>2, <1>3, <1>4, <1>5

LEMMA DeletionTypes == TypesOK /\ (RequestDeletion \/ ExecuteDueDeletion) => TypesOK'
<1> SUFFICES ASSUME TypesOK, RequestDeletion \/ ExecuteDueDeletion PROVE TypesOK'
  OBVIOUS
<1> USE DEF TypesOK
<1>1. CASE RequestDeletion
  <2>1. ProjectTypeOK' /\ SessionTypeOK'
    BY <1>1 DEF RequestDeletion, ProjectTypeOK, SessionTypeOK, Owned
  <2>2. ChunkTypeOK'
    BY <1>1 DEF RequestDeletion, ChunkTypeOK, Recorded
  <2>3. QED
    BY <2>1, <2>2
<1>2. CASE ExecuteDueDeletion
  <2>1. ProjectTypeOK' /\ SessionTypeOK'
    BY <1>2 DEF ExecuteDueDeletion, ProjectTypeOK, SessionTypeOK, consent_vars
  <2>2. ChunkTypeOK'
    BY <1>2 DEF ExecuteDueDeletion, ChunkTypeOK, Recorded, PurgedSegments
  <2>3. QED
    BY <2>1, <2>2
<1>3. QED
  BY <1>1, <1>2

LEMMA TickTypes == TypesOK /\ Tick => TypesOK'
<1> SUFFICES ASSUME TypesOK, Tick PROVE TypesOK'
  OBVIOUS
<1>1. ProjectTypeOK' /\ SessionTypeOK'
  BY LimitAssumption
  DEF Tick, TypesOK, ProjectTypeOK, SessionTypeOK, Times, consent_vars, deletion_vars, Never
<1>2. ChunkTypeOK'
  BY StableChunks DEF Tick, TypesOK
<1>3. QED
  BY <1>1, <1>2 DEF TypesOK

LEMMA NextTypes == TypesOK /\ Next => TypesOK'
<1> SUFFICES ASSUME TypesOK, Next PROVE TypesOK'
  OBVIOUS
<1>1. ASSUME NEW c \in Chunks, NEW h \in BOOLEAN,
             UploadChunk(c, h) \/ \E w \in Streams : StreamChunk(w, c, h)
      PROVE  TypesOK'
  BY <1>1, ChunkStepTypes DEF UploadChunk, StreamChunk
<1>2. QED
  BY <1>1, PreparationTypes, SessionTypes, DeletionTypes, TickTypes DEF Next
-----------------------------------------------------------------------------
(* Sessions *)

\* A chunk is recorded of a started session, so nothing about agreement changes.
LEMMA ChunkStepSessions ==
  ASSUME NEW c \in Chunks, NEW has_transcript \in BOOLEAN, TypesOK, SessionInv,
         Started(c[1]), ReceiveChunk(c, has_transcript)
  PROVE  SessionInv'
<1>1. UNCHANGED <<session_status, stream, paid, consent, has_interview_consent>>
  BY ReceiveChunkEffect DEF TypesOK, consent_vars
<1>2. \A d \in Recorded(received_at') \cup Recorded(said_at') :
        d = c \/ d \in Recorded(received_at) \cup Recorded(said_at)
  BY ReceiveChunkEffect DEF TypesOK, Recorded
<1>3. QED
  BY <1>1, <1>2
  DEF SessionInv, StreamsFollowSessions, FlagFollowsRecord, RecordingsWereAgreed, Started

LEMMA NextSessions == TypesOK /\ SessionInv /\ Next => SessionInv'
<1> SUFFICES ASSUME TypesOK, SessionInv, Next PROVE SessionInv'
  OBVIOUS
<1> USE DEF SessionInv
<1>1. CASE MarkPayment
  BY <1>1
  DEF MarkPayment, StreamsFollowSessions, FlagFollowsRecord, RecordingsWereAgreed, Recorded,
      Started, consent_vars, chunk_vars
<1>2. ASSUME NEW k \in Consents, RecordConsent(k) \/ WithdrawConsent(k) PROVE SessionInv'
  <2>1. \A j \in Consents : consent[j] # "none" => consent'[j] # "none"
    BY <1>2 DEF RecordConsent, WithdrawConsent, TypesOK, ProjectTypeOK
  <2>2. consent'[k] # "none"
    BY <1>2 DEF RecordConsent, WithdrawConsent, TypesOK, ProjectTypeOK
  <2>3. UNCHANGED <<session_status, stream, received_at, said_at, paid>>
    BY <1>2 DEF RecordConsent, WithdrawConsent, chunk_vars
  <2>4. QED
    BY <2>1, <2>2, <2>3
    DEF StreamsFollowSessions, FlagFollowsRecord, RecordingsWereAgreed, Recorded, Started
<1>3. ASSUME NEW p \in Photos, CompletePhoto(p) \/ DeletePhoto(p) PROVE SessionInv'
  BY <1>3, StableSessions DEF CompletePhoto, DeletePhoto, session_vars, consent_vars, chunk_vars
<1>4. ASSUME NEW s \in Sessions, CreateSession(s) \/ StartSession(s) \/ EndSession(s)
      PROVE  SessionInv'
  <2>1. \A t \in Sessions : Started(t) => Started(t)'
    BY <1>4 DEF CreateSession, StartSession, EndSession, EndStatus, Started, TypesOK,
                SessionTypeOK
  <2>2. UNCHANGED <<stream, received_at, said_at, paid, consent, has_interview_consent>>
    BY <1>4 DEF CreateSession, StartSession, EndSession, consent_vars, chunk_vars
  <2>3. StreamsFollowSessions'
    BY <2>1, <2>2 DEF StreamsFollowSessions, TypesOK, SessionTypeOK
  <2>4. \A c \in Chunks : c[1] \in Sessions
    BY DEF Chunks
  <2>5. \/ paid /\ has_interview_consent
        \/ \E t \in Sessions : session_status[t] # "none"
    BY <1>4 DEF CreateSession, StartSession, EndSession, MayInterview
  <2>6. RecordingsWereAgreed'
    BY <2>1, <2>2, <2>4, <2>5
    DEF RecordingsWereAgreed, FlagFollowsRecord, Recorded, Started
  <2>7. QED
    BY <2>2, <2>3, <2>6 DEF FlagFollowsRecord
<1>5. ASSUME NEW w \in Streams, CloseStream(w) \/ \E s \in Sessions : OpenStream(w, s)
      PROVE  SessionInv'
  <2>1. StreamsFollowSessions'
    BY <1>5 DEF CloseStream, OpenStream, MayStream, StreamsFollowSessions, Started, TypesOK,
                SessionTypeOK
  <2>2. FlagFollowsRecord' /\ RecordingsWereAgreed'
    BY <1>5
    DEF CloseStream, OpenStream, FlagFollowsRecord, RecordingsWereAgreed, Recorded,
        consent_vars, chunk_vars
  <2>3. QED
    BY <2>1, <2>2
<1>6. ASSUME NEW c \in Chunks, NEW h \in BOOLEAN, UploadChunk(c, h) PROVE SessionInv'
  BY <1>6, ChunkStepSessions DEF UploadChunk, Started
<1>7. ASSUME NEW c \in Chunks, NEW h \in BOOLEAN, NEW w \in Streams, StreamChunk(w, c, h)
      PROVE  SessionInv'
  <2>1. c[1] \in Sessions
    BY DEF Chunks
  <2>2. Started(c[1])
    BY <1>7, <2>1, SessionAssumption DEF StreamChunk, StreamsFollowSessions
  <2>3. QED
    BY <1>7, <2>2, ChunkStepSessions DEF StreamChunk
<1>8. CASE RequestDeletion
  BY <1>8, StableSessions DEF RequestDeletion, session_vars
<1>9. CASE ExecuteDueDeletion
  <2>1. UNCHANGED <<session_status, stream, paid, consent, has_interview_consent>>
    BY <1>9 DEF ExecuteDueDeletion, consent_vars
  <2>2. /\ Recorded(received_at') \subseteq Recorded(received_at)
        /\ Recorded(said_at') \subseteq Recorded(said_at)
    BY <1>9 DEF ExecuteDueDeletion, Recorded
  <2>3. QED
    BY <2>1, <2>2 DEF StreamsFollowSessions, FlagFollowsRecord, RecordingsWereAgreed, Started
<1>10. CASE Tick
  BY <1>10, StableSessions DEF Tick, session_vars, consent_vars, chunk_vars
<1>11. QED
  BY <1>1, <1>2, <1>3, <1>4, <1>5, <1>6, <1>7, <1>8, <1>9, <1>10 DEF Next

-----------------------------------------------------------------------------
(* The purge *)

\* A chunk received after the deletion request is not older than it.
LEMMA ChunkStepPurge ==
  ASSUME NEW c \in Chunks, NEW has_transcript \in BOOLEAN, TypesOK, PurgeInv,
         ReceiveChunk(c, has_transcript)
  PROVE  PurgeInv'
<1>1. UNCHANGED <<now, photo, evidence, marked, said_marked, deleted_at, executed>>
  BY ReceiveChunkEffect DEF TypesOK, consent_vars, deletion_vars
<1>2. deleted_at # Never => now >= deleted_at
  BY NeverIsNoTime DEF PurgeInv, DeletionPrecedesPurge, TypesOK, ProjectTypeOK
<1>3. deleted_at # Never =>
        /\ \A d \in Recorded(received_at') :
             \/ d \in Recorded(received_at) /\ received_at'[d] = received_at[d]
             \/ received_at'[d] >= deleted_at
        /\ \A d \in Recorded(said_at') :
             \/ d \in Recorded(said_at) /\ said_at'[d] = said_at[d]
             \/ said_at'[d] >= deleted_at
  BY <1>2, ReceiveChunkEffect DEF TypesOK, Recorded
<1>4. QED
  BY <1>1, <1>3
  DEF PurgeInv, DeletionPrecedesPurge, RequestMarkedOlderRecords, PurgeTakesOlderRecords,
      Recorded

LEMMA NextPurge == TypesOK /\ PurgeInv /\ Next => PurgeInv'
<1> SUFFICES ASSUME TypesOK, PurgeInv, Next PROVE PurgeInv'
  OBVIOUS
<1>1. ASSUME NEW k \in Consents, RecordConsent(k) \/ WithdrawConsent(k) PROVE PurgeInv'
  BY <1>1
  DEF RecordConsent, WithdrawConsent, Owned, PurgeInv, DeletionPrecedesPurge,
      RequestMarkedOlderRecords, PurgeTakesOlderRecords, Recorded, chunk_vars, deletion_vars
<1>2. ASSUME NEW p \in Photos, CompletePhoto(p) \/ DeletePhoto(p) PROVE PurgeInv'
  BY <1>2
  DEF CompletePhoto, DeletePhoto, Owned, PurgeInv, DeletionPrecedesPurge,
      RequestMarkedOlderRecords, PurgeTakesOlderRecords, Recorded, consent_vars, chunk_vars,
      deletion_vars
<1>3. ASSUME NEW c \in Chunks, NEW h \in BOOLEAN,
             UploadChunk(c, h) \/ \E w \in Streams : StreamChunk(w, c, h)
      PROVE  PurgeInv'
  BY <1>3, ChunkStepPurge DEF UploadChunk, StreamChunk
<1>4. CASE RequestDeletion
  <2>1. now # Never /\ now \in Nat
    BY NeverIsNoTime DEF TypesOK, ProjectTypeOK
  <2>2. ~executed
    BY <1>4 DEF RequestDeletion, Owned, PurgeInv, DeletionPrecedesPurge
  <2>3. \A p \in Photos : photo'[p] # "live"
    BY <1>4 DEF RequestDeletion
  <2>4. QED
    BY <1>4, <2>1, <2>2, <2>3
    DEF RequestDeletion, PurgeInv, DeletionPrecedesPurge, RequestMarkedOlderRecords,
        PurgeTakesOlderRecords, Recorded
<1>5. CASE ExecuteDueDeletion
  <2>1. \A c \in Recorded(received_at') :
          /\ c \in Recorded(received_at) /\ c \notin marked
          /\ received_at'[c] = received_at[c]
    BY <1>5 DEF ExecuteDueDeletion, Recorded
  <2>2. \A c \in Recorded(said_at') :
          /\ c \in Recorded(said_at) /\ c \notin said_marked
          /\ said_at'[c] = said_at[c]
    BY <1>5 DEF ExecuteDueDeletion, Recorded, PurgedSegments
  <2>3. PurgeTakesOlderRecords'
    <3>1. \A p \in Photos : photo'[p] \in {"none", "purged"}
      BY <1>5
      DEF ExecuteDueDeletion, PurgeInv, RequestMarkedOlderRecords, TypesOK, ProjectTypeOK
    <3>2. evidence' = {}
      BY <1>5 DEF ExecuteDueDeletion, PurgeInv, RequestMarkedOlderRecords, consent_vars
    <3>3. QED
      BY <1>5, <2>1, <2>2, <3>1, <3>2
      DEF ExecuteDueDeletion, PurgeInv, RequestMarkedOlderRecords, PurgeTakesOlderRecords,
          Recorded
  <2>4. QED
    BY <1>5, <2>3
    DEF ExecuteDueDeletion, PurgeInv, DeletionPrecedesPurge, RequestMarkedOlderRecords
<1>6. CASE Tick
  <2>1. UNCHANGED <<photo, evidence, received_at, said_at, marked, said_marked, deletion_vars>>
    BY <1>6 DEF Tick, consent_vars, chunk_vars
  <2>2. DeletionPrecedesPurge'
    BY <1>6, <2>1, NeverIsNoTime
    DEF Tick, PurgeInv, DeletionPrecedesPurge, TypesOK, ProjectTypeOK, deletion_vars
  <2>3. QED
    BY <2>1, <2>2
    DEF PurgeInv, RequestMarkedOlderRecords, PurgeTakesOlderRecords, Recorded, deletion_vars
<1>7. CASE MarkPayment
  BY <1>7, StablePurge DEF MarkPayment, purge_vars, consent_vars, chunk_vars
<1>8. ASSUME NEW s \in Sessions, CreateSession(s) \/ StartSession(s) \/ EndSession(s)
      PROVE  PurgeInv'
  BY <1>8, StablePurge
  DEF CreateSession, StartSession, EndSession, purge_vars, consent_vars, chunk_vars
<1>9. ASSUME NEW w \in Streams, CloseStream(w) \/ \E s \in Sessions : OpenStream(w, s)
      PROVE  PurgeInv'
  BY <1>9, StablePurge DEF CloseStream, OpenStream, purge_vars, consent_vars, chunk_vars
<1>10. QED
  BY <1>1, <1>2, <1>3, <1>4, <1>5, <1>6, <1>7, <1>8, <1>9 DEF Next

-----------------------------------------------------------------------------
(* Theorems *)

LEMMA IntakeInvInductive == Spec => []IntakeInv
<1>1. IntakeInv /\ [Next]_vars => IntakeInv'
  <2> SUFFICES ASSUME IntakeInv, [Next]_vars PROVE IntakeInv'
    OBVIOUS
  <2>1. CASE Next
    BY <2>1, NextTypes, NextSessions, NextPurge DEF IntakeInv
  <2>2. CASE UNCHANGED vars
    <3>1. TypesOK'
      BY <2>2, StableChunks, StableSessionTypes
      DEF IntakeInv, TypesOK, vars, ProjectTypeOK, consent_vars, deletion_vars
    <3>2. SessionInv'
      BY <2>2, StableSessions DEF IntakeInv, vars, session_vars, consent_vars, chunk_vars
    <3>3. PurgeInv'
      BY <2>2, StablePurge DEF IntakeInv, vars, purge_vars, consent_vars, chunk_vars
    <3>4. QED
      BY <3>1, <3>2, <3>3 DEF IntakeInv
  <2>3. QED
    BY <2>1, <2>2
<1>2. QED
  BY InitIntakeInv, <1>1, PTL DEF Spec

\* Whatever the limits and however streams and uploads interleave, audio and text
\* exist only of started sessions, and sessions only of paid projects whose
\* storyteller had agreed.
THEOREM RecordingsFollowAgreement == Spec => []RecordingsWereAgreed
<1>1. IntakeInv => RecordingsWereAgreed
  BY DEF IntakeInv, SessionInv
<1>2. QED
  BY IntakeInvInductive, <1>1, PTL

\* The purge leaves nothing that is older than the deletion request.
THEOREM PurgeIsThorough == Spec => []PurgeTakesOlderRecords
<1>1. IntakeInv => PurgeTakesOlderRecords
  BY DEF IntakeInv, PurgeInv
<1>2. QED
  BY IntakeInvInductive, <1>1, PTL

-----------------------------------------------------------------------------
(* Records that come after the deletion request *)

\* The connections still open are those of the request.
LateInv ==
  deleted_at # Never =>
    /\ \A w \in Streams : stream[w] \in listening \cup {NoSession}
    /\ \A c \in Recorded(received_at) \ marked : c[1] \in listening
    /\ \A c \in Recorded(said_at) \ said_marked : c[1] \in listening

late_vars == <<stream, received_at, said_at, marked, said_marked, deleted_at, listening>>

LEMMA StableLate == LateInv /\ UNCHANGED late_vars => LateInv'
  BY DEF LateInv, late_vars, Recorded

\* Before the request there is nothing to show.
LEMMA NothingLate == deleted_at' = Never => LateInv'
  BY DEF LateInv

LEMMA ChunkStepLate ==
  ASSUME NEW c \in Chunks, NEW has_transcript \in BOOLEAN, TypesOK, LateInv,
         ReceiveChunk(c, has_transcript), deleted_at # Never => c[1] \in listening
  PROVE  LateInv'
<1>1. UNCHANGED <<stream, marked, said_marked, deleted_at, listening>>
  BY ReceiveChunkEffect DEF TypesOK, deletion_vars
<1>2. /\ \A d \in Recorded(received_at') : d \in Recorded(received_at) \/ d = c
      /\ \A d \in Recorded(said_at') : d \in Recorded(said_at) \/ d = c
  BY ReceiveChunkEffect DEF TypesOK, Recorded
<1>3. QED
  BY <1>1, <1>2 DEF LateInv

LEMMA NextLate == TypesOK /\ LateInv /\ Next => LateInv'
<1> SUFFICES ASSUME TypesOK, LateInv, Next PROVE LateInv'
  OBVIOUS
<1>1. CASE \/ MarkPayment
           \/ \E k \in Consents : RecordConsent(k) \/ WithdrawConsent(k)
           \/ \E p \in Photos : CompletePhoto(p) \/ DeletePhoto(p)
           \/ \E s \in Sessions : CreateSession(s) \/ StartSession(s) \/ EndSession(s)
           \/ Tick
  BY <1>1, StableLate
  DEF MarkPayment, RecordConsent, WithdrawConsent, CompletePhoto, DeletePhoto, CreateSession,
      StartSession, EndSession, Tick, late_vars, chunk_vars, deletion_vars
<1>2. ASSUME NEW w \in Streams, NEW s \in Sessions, OpenStream(w, s) PROVE LateInv'
  BY <1>2, NothingLate DEF OpenStream, Owned, deletion_vars
<1>3. ASSUME NEW w \in Streams, CloseStream(w) PROVE LateInv'
  <2>1. \A v \in Streams : stream'[v] \in {stream[v], NoSession}
    BY <1>3 DEF CloseStream, TypesOK, SessionTypeOK
  <2>2. UNCHANGED <<received_at, said_at, marked, said_marked, deleted_at, listening>>
    BY <1>3 DEF CloseStream, chunk_vars, deletion_vars
  <2>3. QED
    BY <2>1, <2>2 DEF LateInv, Recorded
<1>4. ASSUME NEW c \in Chunks, NEW h \in BOOLEAN, UploadChunk(c, h) PROVE LateInv'
  BY <1>4, ChunkStepLate DEF UploadChunk, Owned
<1>5. ASSUME NEW c \in Chunks, NEW h \in BOOLEAN, NEW w \in Streams, StreamChunk(w, c, h)
      PROVE  LateInv'
  <2>1. c[1] \in Sessions
    BY DEF Chunks
  <2>2. deleted_at # Never => c[1] \in listening
    BY <1>5, <2>1, SessionAssumption DEF StreamChunk, LateInv
  <2>3. QED
    BY <1>5, <2>2, ChunkStepLate DEF StreamChunk
\* The request marks every record there is.
<1>6. CASE RequestDeletion
  <2>1. /\ stream' = stream /\ listening' = {stream[w] : w \in Streams} \ {NoSession}
        /\ received_at' = received_at /\ said_at' = said_at
        /\ marked' = marked \cup Recorded(received_at)
        /\ said_marked' = said_marked \cup Recorded(said_at)
    BY <1>6 DEF RequestDeletion
  <2>2. QED
    BY <2>1 DEF LateInv, Recorded
\* The purge removes what is marked and leaves the rest unmarked.
<1>7. CASE ExecuteDueDeletion
  <2>1. /\ Recorded(received_at') \ marked' \subseteq Recorded(received_at) \ marked
        /\ Recorded(said_at') \ said_marked' \subseteq Recorded(said_at) \ said_marked
    BY <1>7 DEF ExecuteDueDeletion, PurgedSegments, Recorded
  <2>2. UNCHANGED <<stream, deleted_at, listening>>
    BY <1>7 DEF ExecuteDueDeletion
  <2>3. QED
    BY <2>1, <2>2 DEF LateInv
<1>8. QED
  BY <1>1, <1>2, <1>3, <1>4, <1>5, <1>6, <1>7 DEF Next

\* OnlyOpenStreamsOutliveDeletion: what the deletion request did not mark came on a stream
\* that was open at the time (stream_session looks at owner and session once), whatever
\* the number of streams and sessions and however the purge falls between their chunks.
THEOREM LateRecordsWereStreamed == Spec => []OnlyOpenStreamsOutliveDeletion
<1>1. Init => LateInv
  BY DEF Init, LateInv
<1>2. TypesOK /\ LateInv /\ [Next]_vars => LateInv'
  <2>1. UNCHANGED vars => UNCHANGED late_vars
    BY DEF vars, chunk_vars, deletion_vars, late_vars
  <2>2. QED
    BY <2>1, NextLate, StableLate
<1>3. IntakeInv => TypesOK
  BY DEF IntakeInv
<1>4. LateInv => OnlyOpenStreamsOutliveDeletion
  BY DEF LateInv, OnlyOpenStreamsOutliveDeletion
<1>5. QED
  BY IntakeInvInductive, <1>1, <1>2, <1>3, <1>4, PTL DEF Spec

-----------------------------------------------------------------------------
(* The voice limit *)

\* The chunks of s that were recorded within the minute that ends at t.
Heard(s, t) ==
  {n \in SequenceNumbers : received_at[<<s, n>>] <= t /\ t < received_at[<<s, n>>] + Minute}

WindowTypeOK == window \in [Sessions -> SUBSET (SequenceNumbers \X Times)]

\* Whatever the policy has dropped from a window is a minute old: a chunk of the last
\* minute that is still there is counted.
RecentAreCounted ==
  \A s \in Sessions, n \in SequenceNumbers :
    LET at == received_at[<<s, n>>]
    IN at # Never /\ now < at + Minute => <<n, at>> \in window[s]

RecordedInPast == \A c \in Recorded(received_at) : received_at[c] <= now
WindowsFinite == \A s \in Sessions : IsFiniteSet(window[s])
HeardWithinLimit ==
  \A s \in Sessions, t \in Times : IsFiniteSet(Heard(s, t)) /\ Cardinality(Heard(s, t)) <= MaxChunks

LimitInv ==
  /\ WindowTypeOK
  /\ WindowsFinite
  /\ RecordedInPast
  /\ RecentAreCounted
  /\ HeardWithinLimit

\* Numbers that stand in a finite set of pairs are no more than the pairs.
LEMMA NumbersOfPairs ==
  ASSUME NEW P, IsFiniteSet(P), NEW N, \A n \in N : \E p \in P : p[1] = n
  PROVE  IsFiniteSet(N) /\ Cardinality(N) <= Cardinality(P)
<1> DEFINE All == {p[1] : p \in P}
           f == [p \in P |-> p[1]]
<1>1. f \in Surjection(P, All)
  BY DEF Surjection
<1>2. IsFiniteSet(All) /\ Cardinality(All) <= Cardinality(P)
  BY <1>1, FS_Surjection
<1>3. N \subseteq All
  OBVIOUS
<1>4. IsFiniteSet(N) /\ Cardinality(N) <= Cardinality(All)
  BY <1>2, <1>3, FS_Subset
<1>5. Cardinality(N) \in Nat /\ Cardinality(All) \in Nat /\ Cardinality(P) \in Nat
  BY <1>2, <1>4, FS_CardinalityType
<1>6. QED
  BY <1>2, <1>4, <1>5

\* Fewer numbers stay within the limit.
LEMMA FewerWithinLimit ==
  ASSUME NEW S, IsFiniteSet(S), Cardinality(S) <= MaxChunks, NEW T \in SUBSET S
  PROVE  IsFiniteSet(T) /\ Cardinality(T) <= MaxChunks
<1>1. IsFiniteSet(T) /\ Cardinality(T) <= Cardinality(S)
  BY FS_Subset
<1>2. Cardinality(T) \in Nat /\ Cardinality(S) \in Nat
  BY <1>1, FS_CardinalityType
<1>3. QED
  BY <1>1, <1>2, LimitAssumption

LEMMA InitLimitInv == Init => LimitInv
<1> SUFFICES ASSUME Init PROVE LimitInv
  OBVIOUS
<1>1. WindowTypeOK /\ WindowsFinite
  BY FS_EmptySet DEF Init, WindowTypeOK, WindowsFinite
<1>2. RecordedInPast /\ RecentAreCounted
  BY DEF Init, RecordedInPast, RecentAreCounted, Recorded, Chunks
<1>3. \A s \in Sessions, t \in Times : Heard(s, t) = {}
  BY NeverIsNoTime, LimitAssumption DEF Init, Heard, Chunks, Times, Never
<1>4. HeardWithinLimit
  BY <1>3, FS_EmptySet, LimitAssumption DEF HeardWithinLimit
<1>5. QED
  BY <1>1, <1>2, <1>4 DEF LimitInv

\* Time may pass and chunks may go without anything being added to a window.
LEMMA NothingRecordedLimit ==
  ASSUME TypesOK, LimitInv, window' = window, now \in Times, now' \in Times, now <= now',
         \A c \in Chunks : received_at'[c] \in {received_at[c], Never}
  PROVE  LimitInv'
<1> USE DEF LimitInv
<1>1. WindowTypeOK' /\ WindowsFinite'
  BY DEF WindowTypeOK, WindowsFinite
<1>2. \A c \in Chunks : received_at[c] \in Nat
  BY NeverIsNoTime, NeverIsNat DEF TypesOK, ChunkTypeOK
<1>3. RecordedInPast'
  BY <1>2, NeverIsNoTime DEF RecordedInPast, Recorded
<1>4. RecentAreCounted'
  BY <1>2, NeverIsNoTime, LimitAssumption DEF RecentAreCounted, Chunks
<1>5. \A s \in Sessions, t \in Times : Heard(s, t)' \subseteq Heard(s, t)
  BY <1>2, LimitAssumption DEF Heard, Chunks, Never, Times
<1>6. HeardWithinLimit'
  BY <1>5, FewerWithinLimit DEF HeardWithinLimit
<1>7. QED
  BY <1>1, <1>3, <1>4, <1>6

\* A chunk is recorded only where the window has room, and the window counts every
\* other chunk of the minute that ends now.
LEMMA ChunkStepLimit ==
  ASSUME NEW c \in Chunks, NEW has_transcript \in BOOLEAN, TypesOK, LimitInv,
         ReceiveChunk(c, has_transcript)
  PROVE  LimitInv'
<1> DEFINE s == c[1]
           n == c[2]
<1>1. c = <<s, n>> /\ s \in Sessions /\ n \in SequenceNumbers
  BY DEF Chunks
<1>2. now \in Times /\ now' = now /\ now \in Nat /\ now # Never
  BY NeverIsNoTime, ReceiveChunkEffect DEF TypesOK, ProjectTypeOK
<1>3. \A d \in Chunks : received_at[d] \in Nat
  BY NeverIsNoTime, NeverIsNat DEF TypesOK, ChunkTypeOK
<1>4. CASE received_at[c] # Never
  <2>1. received_at' = received_at /\ window' = window
    BY <1>4 DEF ReceiveChunk, RecordChunk
  <2>2. QED
    BY <2>1, <1>2, NothingRecordedLimit
<1>5. CASE received_at[c] = Never
  <2>1. /\ Cardinality(InWindow(s)) < MaxChunks
        /\ window' = [window EXCEPT ![s] = InWindow(s) \cup {<<n, now>>}]
        /\ received_at' = [received_at EXCEPT ![c] = now]
    BY <1>5 DEF ReceiveChunk, RecordChunk
  <2>2. InWindow(s) \subseteq window[s]
    BY DEF InWindow
  <2>3. IsFiniteSet(window[s])
    BY <1>1 DEF LimitInv, WindowsFinite
  <2>4. IsFiniteSet(InWindow(s))
    BY <2>2, <2>3, FS_Subset
  <2>5. IsFiniteSet(InWindow(s) \cup {<<n, now>>})
    BY <2>4, FS_AddElement
  <2>6. /\ window'[s] = InWindow(s) \cup {<<n, now>>}
        /\ \A r \in Sessions : r # s => window'[r] = window[r]
    BY <1>1, <2>1 DEF LimitInv, WindowTypeOK
  <2>7. /\ received_at'[<<s, n>>] = now
        /\ \A d \in Chunks : d # <<s, n>> => received_at'[d] = received_at[d]
    BY <1>1, <2>1 DEF TypesOK, ChunkTypeOK
  <2>8. WindowTypeOK'
    BY <1>1, <1>2, <2>1, <2>2 DEF LimitInv, WindowTypeOK
  <2>9. WindowsFinite'
    BY <2>5, <2>6 DEF LimitInv, WindowsFinite
  <2>10. RecordedInPast'
    BY <1>2, <2>7, <1>1 DEF LimitInv, RecordedInPast, Recorded
  <2>11. RecentAreCounted'
    <3> SUFFICES ASSUME NEW r \in Sessions, NEW m \in SequenceNumbers,
                        received_at'[<<r, m>>] # Never,
                        now < received_at'[<<r, m>>] + Minute
                 PROVE  <<m, received_at'[<<r, m>>]>> \in window'[r]
      BY <1>2 DEF RecentAreCounted, Never
    <3>1. CASE r = s /\ m = n
      BY <3>1, <2>6, <2>7
    <3>2. CASE r # s \/ m # n
      <4>1. <<r, m>> # <<s, n>> /\ <<r, m>> \in Chunks
        BY <3>2 DEF Chunks
      <4>2. received_at'[<<r, m>>] = received_at[<<r, m>>]
        BY <4>1, <2>7
      <4>3. <<m, received_at[<<r, m>>]>> \in window[r]
        BY <4>2 DEF LimitInv, RecentAreCounted
      <4>4. r = s => <<m, received_at[<<r, m>>]>> \in InWindow(s)
        BY <4>2, <4>3 DEF InWindow
      <4>5. QED
        BY <4>2, <4>3, <4>4, <2>6
    <3>3. QED
      BY <3>1, <3>2
  <2>12. HeardWithinLimit'
    <3>1. \A m \in Heard(s, now)' : m = n \/ <<m, received_at[<<s, m>>]>> \in InWindow(s)
      <4> SUFFICES ASSUME NEW m \in SequenceNumbers, m # n,
                          received_at'[<<s, m>>] <= now,
                          now < received_at'[<<s, m>>] + Minute
                   PROVE  <<m, received_at[<<s, m>>]>> \in InWindow(s)
        BY <1>2 DEF Heard
      <4>1. <<s, m>> \in Chunks /\ <<s, m>> # <<s, n>>
        BY <1>1 DEF Chunks
      <4>2. received_at'[<<s, m>>] = received_at[<<s, m>>]
        BY <4>1, <2>7
      <4>3. received_at[<<s, m>>] # Never
        BY <4>2, <1>2, LimitAssumption DEF Never, Times
      <4>4. <<m, received_at[<<s, m>>]>> \in window[s]
        BY <1>1, <4>2, <4>3 DEF LimitInv, RecentAreCounted
      <4>5. QED
        BY <4>2, <4>4 DEF InWindow
    <3>2. /\ IsFiniteSet(Heard(s, now)' \ {n})
          /\ Cardinality(Heard(s, now)' \ {n}) <= Cardinality(InWindow(s))
      <4> DEFINE Others == Heard(s, now)' \ {n}
      <4> HIDE DEF s, n
      <4>1. \A m \in Others : \E p \in InWindow(s) : p[1] = m
        BY <3>1
      <4> HIDE DEF Others
      <4>2. IsFiniteSet(Others) /\ Cardinality(Others) <= Cardinality(InWindow(s))
        BY <2>4, <4>1, NumbersOfPairs
      <4>3. QED
        BY <4>2 DEF Others
    <3>3. /\ IsFiniteSet((Heard(s, now)' \ {n}) \cup {n})
          /\ Cardinality((Heard(s, now)' \ {n}) \cup {n}) <= MaxChunks
      <4>1. /\ IsFiniteSet((Heard(s, now)' \ {n}) \cup {n})
            /\ Cardinality((Heard(s, now)' \ {n}) \cup {n})
                 = Cardinality(Heard(s, now)' \ {n}) + 1
        BY <3>2, FS_AddElement
      <4>2. Cardinality(Heard(s, now)' \ {n}) \in Nat /\ Cardinality(InWindow(s)) \in Nat
        BY <3>2, <2>4, FS_CardinalityType
      <4>3. QED
        BY <4>1, <4>2, <3>2, <2>1, LimitAssumption
    <3> SUFFICES ASSUME NEW r \in Sessions, NEW t \in Times
                 PROVE  IsFiniteSet(Heard(r, t)') /\ Cardinality(Heard(r, t)') <= MaxChunks
      BY DEF HeardWithinLimit
    <3>4. CASE r = s /\ now <= t
      <4>1. \A m \in SequenceNumbers : received_at'[<<s, m>>] <= t => received_at'[<<s, m>>] <= now
        <5> SUFFICES ASSUME NEW m \in SequenceNumbers, received_at'[<<s, m>>] <= t
                     PROVE  received_at'[<<s, m>>] <= now
          OBVIOUS
        <5>0. received_at'[<<s, m>>] <= t
          OBVIOUS
        <5>1. CASE m = n
          BY <5>1, <2>7, <1>2
        <5>2. CASE m # n
          <6>1. <<s, m>> \in Chunks /\ received_at'[<<s, m>>] = received_at[<<s, m>>]
            BY <5>2, <2>7, <1>1 DEF Chunks
          <6>2. received_at[<<s, m>>] # Never
            BY <5>0, <6>1, LimitAssumption DEF Never, Times
          <6>3. QED
            BY <6>1, <6>2 DEF LimitInv, RecordedInPast, Recorded
        <5>3. QED
          BY <5>1, <5>2
      <4>2. \A m \in SequenceNumbers : received_at'[<<s, m>>] \in Nat
        BY <1>1, <1>2, <1>3, <2>7 DEF Chunks
      <4>3. Heard(s, t)' \subseteq (Heard(s, now)' \ {n}) \cup {n}
        BY <3>4, <4>1, <4>2, <1>2, NeverIsNoTime, LimitAssumption DEF Heard
      <4>4. QED
        BY <3>4, <4>3, <3>3, FewerWithinLimit
    <3>5. CASE r # s \/ t < now
      <4>1. Heard(r, t)' \subseteq Heard(r, t)
        <5> SUFFICES ASSUME NEW m \in Heard(r, t)' PROVE m \in Heard(r, t)
          OBVIOUS
        <5>1. /\ m \in SequenceNumbers /\ received_at'[<<r, m>>] <= t
              /\ t < received_at'[<<r, m>>] + Minute
          BY DEF Heard
        <5>2. <<r, m>> # <<s, n>>
          BY <3>5, <5>1, <2>7, <1>2, NeverIsNoTime
        <5>3. received_at'[<<r, m>>] = received_at[<<r, m>>]
          BY <5>1, <5>2, <2>7 DEF Chunks
        <5>4. QED
          BY <5>1, <5>3 DEF Heard
      <4>2. QED
        BY <4>1, FewerWithinLimit DEF LimitInv, HeardWithinLimit
    <3>6. QED
      BY <3>4, <3>5, <1>2, NeverIsNoTime
  <2>13. QED
    BY <2>8, <2>9, <2>10, <2>11, <2>12 DEF LimitInv
<1>6. QED
  BY <1>4, <1>5

LEMMA NextLimit == TypesOK /\ LimitInv /\ [Next]_vars => LimitInv'
<1> SUFFICES ASSUME TypesOK, LimitInv, [Next]_vars PROVE LimitInv'
  OBVIOUS
<1>1. now \in Times /\ now \in Nat
  BY NeverIsNoTime DEF TypesOK, ProjectTypeOK
<1>2. ASSUME NEW c \in Chunks, NEW h \in BOOLEAN,
             UploadChunk(c, h) \/ \E w \in Streams : StreamChunk(w, c, h)
      PROVE  LimitInv'
  BY <1>2, ChunkStepLimit DEF UploadChunk, StreamChunk
<1>3. CASE ExecuteDueDeletion
  <2>1. window' = window /\ now' = now
    BY <1>3 DEF ExecuteDueDeletion
  <2>2. \A c \in Chunks : received_at'[c] \in {received_at[c], Never}
    BY <1>3 DEF ExecuteDueDeletion
  <2>3. QED
    BY <1>1, <2>1, <2>2, NothingRecordedLimit
<1>4. CASE Tick
  <2>1. window' = window /\ received_at' = received_at /\ now' = now + 1 /\ now < LastTime
    BY <1>4 DEF Tick, chunk_vars
  <2>2. now' \in Times /\ now <= now'
    BY <1>1, <2>1, LimitAssumption DEF Times
  <2>3. QED
    BY <1>1, <2>1, <2>2, NothingRecordedLimit
<1>5. ASSUME \/ MarkPayment
             \/ \E k \in Consents : RecordConsent(k) \/ WithdrawConsent(k)
             \/ \E p \in Photos : CompletePhoto(p) \/ DeletePhoto(p)
             \/ \E s \in Sessions : CreateSession(s) \/ StartSession(s) \/ EndSession(s)
             \/ \E w \in Streams : CloseStream(w) \/ \E s \in Sessions : OpenStream(w, s)
             \/ RequestDeletion
             \/ UNCHANGED vars
      PROVE  LimitInv'
  <2>1. UNCHANGED <<now, window, received_at>>
    BY <1>5
    DEF MarkPayment, RecordConsent, WithdrawConsent, CompletePhoto, DeletePhoto,
        CreateSession, StartSession, EndSession, CloseStream, OpenStream, RequestDeletion,
        vars, chunk_vars
  <2>2. QED
    BY <1>1, <2>1, NothingRecordedLimit
<1>6. QED
  BY <1>2, <1>3, <1>4, <1>5 DEF Next

LEMMA LimitInvInductive == Spec => [](TypesOK /\ LimitInv)
<1>1. Init => LimitInv
  BY InitLimitInv
<1>2. IntakeInv => TypesOK
  BY DEF IntakeInv
<1>3. QED
  BY IntakeInvInductive, NextLimit, <1>1, <1>2, PTL DEF Spec

\* Every variable keeps a value of its type, the windows of the chunk policy included.
THEOREM IntakeTypeCorrect == Spec => []TypeOK
<1>1. TypesOK /\ LimitInv => TypeOK
  BY DEF TypesOK, TypeOK, LimitInv, WindowTypeOK
<1>2. QED
  BY LimitInvInductive, <1>1, PTL

\* However uploads and streams interleave, are repeated, or go on over a purge, no minute
\* holds more chunks of a session than the limit, whatever the limit is.
THEOREM VoiceLimitHolds == Spec => []WithinVoiceLimit
<1>1. LimitInv => WithinVoiceLimit
  BY DEF LimitInv, HeardWithinLimit, Heard, WithinVoiceLimit
<1>2. QED
  BY LimitInvInductive, <1>1, PTL
=============================================================================
