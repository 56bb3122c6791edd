-------------------------- MODULE InterviewIntake --------------------------
(***************************************************************************)
(* The interview half of one project's life in the API: payment, interview *)
(* consent, photos, interview sessions, audio chunks arriving by REST and  *)
(* by the websocket stream, the deletion request and the purge that        *)
(* follows.  Each action is one handler of main.py with the store methods  *)
(* it calls, or one message of an open stream; a rejected call is no step. *)
(*                                                                         *)
(* Time advances in ticks.  A chunk of a legal duration is a pair of a     *)
(* session and a sequence number; what it says is left out.                *)
(***************************************************************************)
EXTENDS Naturals, FiniteSets

CONSTANTS
  Photos,      \* photo ids
  Sessions,    \* interview session ids
  SequenceNumbers,  \* sequence numbers a client sends
  Streams,     \* websocket connections
  Consents,    \* ids of interview_consent records
  NoSession,   \* a connection that streams nothing
  MinPhotos,   \* photos an interview needs (3)
  MaxPhotos,   \* photos a project may have (10)
  MaxChunks,   \* max_chunks_per_minute (240)
  Minute,      \* ticks in a minute
  Retention,   \* ticks between a deletion request and its purge (7 days)
  LastTime     \* bound: when the clock stops

ASSUME LimitAssumption ==
  /\ MinPhotos \in Nat /\ MaxPhotos \in Nat /\ MaxChunks \in Nat
  /\ Minute \in Nat \ {0} /\ Retention \in Nat \ {0} /\ LastTime \in Nat
ASSUME SequenceAssumption == SequenceNumbers \subseteq Nat
ASSUME SessionAssumption == NoSession \notin Sessions

VARIABLES
  now,              \* the clock
  status,           \* project.status, as far as these handlers write it
  paid,             \* payment_status is "paid" or "waived"
  consent,          \* state of each interview_consent record
  evidence,         \* consent records with an evidence_oss_key
  has_interview_consent,
  photo,            \* state of each photo record
  session_status,   \* session.status
  stream,           \* the session each open connection writes to
  received_at,      \* when the record of each chunk was made, or Never
  marked,           \* chunks whose deleted_at is set
  said_at,          \* when the transcript segment of each chunk was made, or Never
  said_marked,      \* chunks whose transcript segment has deleted_at set
  window,           \* AudioChunkPolicy._received of each session
  deleted_at,       \* project.deleted_at, or Never
  executed,         \* deletion.executed_at is set
  listening             \* history: sessions a connection streamed when the deletion came

consent_vars == <<consent, evidence, has_interview_consent>>
chunk_vars == <<received_at, marked, said_at, said_marked, window>>
deletion_vars == <<deleted_at, executed, listening>>
vars == <<now, status, paid, consent_vars, photo, session_status, stream, chunk_vars,
          deletion_vars>>

Chunks == Sessions \X SequenceNumbers
Times == 0..LastTime
Never == LastTime + 1
Recorded(at) == {c \in Chunks : at[c] # Never}

-----------------------------------------------------------------------------
(* Preparation *)

OwnedUntilPurged == ~executed
Owned == deleted_at = Never

LivePhotos == {p \in Photos : photo[p] = "live"}

\* POST admin/projects/{id}/mark-payment: any project, a deleted one too, and
\* any status.
MarkPayment ==
  /\ paid' = TRUE
  /\ status' = "payment_marked"
  /\ UNCHANGED <<now, consent_vars, photo, session_status, stream, chunk_vars, deletion_vars>>

\* POST consents with consent_type "interview_consent", by text or by audio.
RecordConsent(k) ==
  /\ Owned
  /\ consent[k] = "none"
  /\ consent' = [consent EXCEPT ![k] = "active"]
  /\ evidence' \in {evidence, evidence \cup {k}}
  /\ has_interview_consent' = TRUE
  /\ UNCHANGED <<now, status, paid, photo, session_status, stream, chunk_vars, deletion_vars>>

\* POST consents/{id}/withdraw: the evidence goes at once, the record stays.
WithdrawConsent(k) ==
  /\ Owned
  /\ consent[k] # "none"
  /\ consent' = [consent EXCEPT ![k] = "withdrawn"]
  /\ evidence' = evidence \ {k}
  /\ has_interview_consent' = FALSE
  /\ UNCHANGED <<now, status, paid, photo, session_status, stream, chunk_vars, deletion_vars>>

\* POST photos/complete
CompletePhoto(p) ==
  /\ Owned
  /\ photo[p] = "none"
  /\ Cardinality(LivePhotos) < MaxPhotos
  /\ photo' = [photo EXCEPT ![p] = "live"]
  /\ UNCHANGED <<now, status, paid, consent_vars, session_status, stream, chunk_vars,
                 deletion_vars>>

\* DELETE photos/{id}
DeletePhoto(p) ==
  /\ Owned
  /\ photo[p] \in {"live", "deleted"}
  /\ photo' = [photo EXCEPT ![p] = "deleted"]
  /\ UNCHANGED <<now, status, paid, consent_vars, session_status, stream, chunk_vars,
                 deletion_vars>>

-----------------------------------------------------------------------------
(* Sessions *)

MayInterview ==
  /\ paid
  /\ has_interview_consent
  /\ Cardinality(LivePhotos) >= MinPhotos

\* POST interview-sessions
CreateSession(s) ==
  /\ Owned
  /\ MayInterview
  /\ session_status[s] = "none"
  /\ session_status' = [session_status EXCEPT ![s] = "scheduled"]
  /\ status' = "interview_ready"
  /\ UNCHANGED <<now, paid, consent_vars, photo, stream, chunk_vars, deletion_vars>>

\* POST interview-sessions/{id}/start: payment, consent and photos are not looked
\* at again.
StartSession(s) ==
  /\ Owned
  /\ session_status[s] = "scheduled"
  /\ session_status' = [session_status EXCEPT ![s] = "in_progress"]
  /\ status' = "interview_in_progress"
  /\ UNCHANGED <<now, paid, consent_vars, photo, stream, chunk_vars, deletion_vars>>

\* The statuses an end may give, completed or aborted, are one here.
EndStatus == "ended"

\* POST interview-sessions/{id}/end
EndSession(s) ==
  /\ Owned
  /\ session_status[s] = "in_progress"
  /\ session_status' = [session_status EXCEPT ![s] = EndStatus]
  /\ status' = "interview_completed"
  /\ UNCHANGED <<now, paid, consent_vars, photo, stream, chunk_vars, deletion_vars>>

-----------------------------------------------------------------------------
(* Audio chunks *)

\* accept_chunk: the accepted times that still count against the limit.  The code's
\* deque is sorted, as time only advances, so what it drops from the left is what is
\* old.  Here each time stands with the number of its chunk, so that a set tells the
\* entries apart: a number is accepted again only after a purge, at a later time.
InNewWindow(s) == {}
InWindow(s) == {accepted \in window[s] : now < accepted[2] + Minute}

\* record_audio_chunk: a sequence number received before keeps its first record.
RecordChunk(c) ==
  LET s == c[1] IN
  IF received_at[c] # Never
  THEN UNCHANGED <<received_at, marked, window>>
  ELSE /\ Cardinality(InWindow(s)) < MaxChunks
       /\ window' = [window EXCEPT ![s] = InWindow(s) \cup {<<c[2], now>>}]
       /\ received_at' = [received_at EXCEPT ![c] = now]
       /\ UNCHANGED marked

\* _record_audio_chunk_payload: a chunk, then its partial transcript if it has one
\* and none was recorded for it.
ReceiveChunk(c, has_transcript) ==
  /\ RecordChunk(c)
  /\ said_at' = IF has_transcript /\ said_at[c] = Never
                THEN [said_at EXCEPT ![c] = now] ELSE said_at
  /\ UNCHANGED <<said_marked, now, status, paid, consent_vars, photo, session_status, stream,
                 deletion_vars>>

\* POST audio-chunks
UploadChunk(c, has_transcript) ==
  /\ Owned
  /\ session_status[c[1]] = "in_progress"
  /\ ReceiveChunk(c, has_transcript)

MayStreamScheduled(s) == session_status[s] \in {"scheduled", "in_progress"}
MayStream(s) == session_status[s] = "in_progress"

\* The websocket handler checks owner and session once, when the stream opens.
OpenStream(w, s) ==
  /\ Owned
  /\ MayStream(s)
  /\ stream[w] = NoSession
  /\ stream' = [stream EXCEPT ![w] = s]
  /\ UNCHANGED <<now, status, paid, consent_vars, photo, session_status, chunk_vars,
                 deletion_vars>>

\* The client closes it or the connection breaks; the server never does.
CloseStream(w) ==
  /\ stream[w] # NoSession
  /\ stream' = [stream EXCEPT ![w] = NoSession]
  /\ UNCHANGED <<now, status, paid, consent_vars, photo, session_status, chunk_vars,
                 deletion_vars>>

\* A message on an open stream, whatever became of its session and project.
StreamChunk(w, c, has_transcript) ==
  /\ stream[w] = c[1]
  /\ ReceiveChunk(c, has_transcript)

-----------------------------------------------------------------------------
(* Deletion *)

\* DELETE projects/{id}: everything recorded so far is marked, the consent
\* evidence is removed.
RequestDeletion ==
  /\ Owned
  /\ deleted_at' = now
  /\ status' = "deletion_requested"
  /\ marked' = marked \cup Recorded(received_at)
  /\ said_marked' = said_marked \cup Recorded(said_at)
  /\ photo' = [p \in Photos |-> IF photo[p] = "live" THEN "deleted" ELSE photo[p]]
  /\ evidence' = {}
  /\ listening' = {stream[w] : w \in Streams} \ {NoSession}
  /\ UNCHANGED <<now, paid, consent, has_interview_consent, session_status, stream,
                 received_at, said_at, window, executed>>

\* execute_due_deletion compares with execute_after_at the time it is given, by
\* default the present.
Due == now >= deleted_at + Retention

\* The transcript segments execute_due_deletion removes.
PurgedSegmentsForgotten == {}
PurgedSegments == said_marked

\* execute_due_deletion
ExecuteDueDeletion ==
  /\ deleted_at # Never
  /\ ~executed
  /\ Due
  /\ received_at' = [c \in Chunks |-> IF c \in marked THEN Never ELSE received_at[c]]
  /\ marked' = {}
  /\ said_at' = [c \in Chunks |-> IF c \in PurgedSegments THEN Never ELSE said_at[c]]
  /\ said_marked' = said_marked \ PurgedSegments
  /\ photo' = [p \in Photos |-> IF photo[p] = "deleted" THEN "purged" ELSE photo[p]]
  /\ executed' = TRUE
  /\ UNCHANGED <<now, status, paid, consent_vars, session_status, stream, window, deleted_at,
                 listening>>

Tick ==
  /\ now < LastTime
  /\ now' = now + 1
  /\ UNCHANGED <<status, paid, consent_vars, photo, session_status, stream, chunk_vars,
                 deletion_vars>>

-----------------------------------------------------------------------------
Init ==
  /\ now = 0
  /\ status = "created"
  /\ paid = FALSE
  /\ consent = [k \in Consents |-> "none"]
  /\ evidence = {}
  /\ has_interview_consent = FALSE
  /\ photo = [p \in Photos |-> "none"]
  /\ session_status = [s \in Sessions |-> "none"]
  /\ stream = [w \in Streams |-> NoSession]
  /\ received_at = [c \in Chunks |-> Never]
  /\ marked = {}
  /\ said_at = [c \in Chunks |-> Never]
  /\ said_marked = {}
  /\ window = [s \in Sessions |-> {}]
  /\ deleted_at = Never
  /\ executed = FALSE
  /\ listening = {}

Next ==
  \/ MarkPayment
  \/ \E k \in Consents : RecordConsent(k) \/ WithdrawConsent(k)
  \/ \E p \in Photos : CompletePhoto(p) \/ DeletePhoto(p)
  \/ \E s \in Sessions : CreateSession(s) \/ StartSession(s) \/ EndSession(s)
  \/ \E w \in Streams : CloseStream(w) \/ \E s \in Sessions : OpenStream(w, s)
  \/ \E c \in Chunks, has_transcript \in BOOLEAN :
       \/ UploadChunk(c, has_transcript)
       \/ \E w \in Streams : StreamChunk(w, c, has_transcript)
  \/ RequestDeletion
  \/ ExecuteDueDeletion
  \/ Tick

Spec == Init /\ [][Next]_vars
-----------------------------------------------------------------------------
(* Properties *)

ProjectTypeOK ==
  /\ now \in Times
  /\ status \in {"created", "payment_marked", "interview_ready", "interview_in_progress",
                 "interview_completed", "deletion_requested"}
  /\ paid \in BOOLEAN
  /\ consent \in [Consents -> {"none", "active", "withdrawn"}]
  /\ evidence \subseteq Consents
  /\ has_interview_consent \in BOOLEAN
  /\ photo \in [Photos -> {"none", "live", "deleted", "purged"}]
  /\ deleted_at \in Times \cup {Never}
  /\ executed \in BOOLEAN
  /\ listening \subseteq Sessions

SessionTypeOK ==
  /\ session_status \in [Sessions -> {"none", "scheduled", "in_progress", "ended"}]
  /\ stream \in [Streams -> Sessions \cup {NoSession}]

ChunkTypeOK ==
  /\ received_at \in [Chunks -> Times \cup {Never}]
  /\ marked \subseteq Recorded(received_at)
  /\ said_at \in [Chunks -> Times \cup {Never}]
  /\ said_marked \subseteq Recorded(said_at)

\* Every variable has a value the code can store in it.
TypeOK ==
  /\ ProjectTypeOK
  /\ SessionTypeOK
  /\ ChunkTypeOK
  /\ window \in [Sessions -> SUBSET (SequenceNumbers \X Times)]

\* However uploads and streams mix, repeat and resume, no span of a minute holds
\* more chunk records of one session than the voice limit allows.
WithinVoiceLimit ==
  \A s \in Sessions, t \in Times :
    Cardinality({n \in SequenceNumbers : received_at[<<s, n>>] <= t /\ t < received_at[<<s, n>>] + Minute})
      <= MaxChunks

\* Audio and text exist only of sessions that were started, and a session only
\* of a project that was paid for and whose storyteller had given a consent,
\* withdrawn since or not.
RecordingsWereAgreed ==
  /\ \A c \in Recorded(received_at) \cup Recorded(said_at) :
       session_status[c[1]] \in {"in_progress", "ended"}
  /\ (\E s \in Sessions : session_status[s] # "none") =>
       paid /\ \E k \in Consents : consent[k] # "none"

\* Nothing recorded before the deletion request outlives the purge: chunks,
\* transcript segments, photos (deleted earlier or with the project) and consent
\* evidence; a stream that stayed open does not shield them.
PurgeTakesOlderRecords ==
  executed =>
    /\ \A c \in Recorded(received_at) : received_at[c] >= deleted_at
    /\ \A c \in Recorded(said_at) : said_at[c] >= deleted_at
    /\ \A p \in Photos : photo[p] \in {"none", "purged"}
    /\ evidence = {}

\* After the deletion request audio and text come in only by a stream that was open when
\* it was made: whatever the request did not mark, and the purge therefore leaves, is of
\* such a session.  A stream looks at owner and session once, so those go on; but no
\* upload, new stream or forgotten mark adds to them, before the purge or after it.
OnlyOpenStreamsOutliveDeletion ==
  deleted_at # Never =>
    \A c \in (Recorded(received_at) \ marked) \cup (Recorded(said_at) \ said_marked) :
      c[1] \in listening
=============================================================================
