---------------------------- MODULE AudioCapture ----------------------------
(***************************************************************************)
(* The interview page of the mini program against the API: how a recorded  *)
(* frame becomes an audio chunk.  The page counts frames, and for each one *)
(* separately asks for an upload address, puts the sound there and then    *)
(* announces it on the websocket of the moment; it starts and ends         *)
(* sessions with calls whose answers come later.  Frames overtake each     *)
(* other, answers come after the user has gone on, calls fail, connections *)
(* break, and the API counts the calls of every path.                      *)
(*                                                                         *)
(* One page and one project.  Handlers of the API are one step each (their *)
(* payment, consent and voice limit checks are in InterviewIntake).  The   *)
(* page tries nothing again: a call that is refused or lost, a frame whose *)
(* upload fails and a message lost with its connection stay where they are *)
(* for good.                                                               *)
(***************************************************************************)
EXTENDS Naturals, Sequences, FiniteSets

CONSTANTS
  Sessions,      \* ids of interview sessions
  Connections,   \* websockets the page may open
  Frames,        \* frames the recorder may deliver
  NoSession, NoConnection, NoFrame,
  ApiLimit,      \* calls of a path per minute (60)
  VoiceLimit,    \* calls of a path ending in audio-chunks per minute (240)
  LastNumber     \* bound: the last number the page gives

ASSUME NoneAssumption ==
  /\ NoSession \notin Sessions /\ NoConnection \notin Connections /\ NoFrame \notin Frames
ASSUME LimitAssumption == ApiLimit \in Nat /\ VoiceLimit \in Nat /\ LastNumber \in Nat

VARIABLES
  session_id, sequence_number, recording,  \* data of the page
  socket, socket_open,   \* its socketTask and socketOpen
  session_status,        \* session.status of each session, "none", or "hidden"
  chunk,                 \* the frame whose message made each chunk record, or NoFrame
  object,                \* the frame whose sound each object of the storage has, or NoFrame
  counted,               \* frames whose presign call came within the last minute
  calls,                 \* start and end calls not yet handled: kind and session
  started,               \* sessions whose start was handled and not yet answered
  link,                  \* state of each connection
  streamed,              \* the session each connection streams to
  queue,                 \* frames announced on each connection and not yet received
  stage,                 \* how far each frame has come
  key,                   \* session and sequence number the page gave each frame
  late                   \* frames of a session over or deleted when recorded (history)

page_vars == <<session_id, sequence_number, recording>>
socket_vars == <<socket, socket_open>>
link_vars == <<link, streamed, queue>>
call_vars == <<calls, started>>
frame_vars == <<stage, key, late>>
api_vars == <<session_status, chunk>>
store_vars == <<object, counted>>
vars == <<page_vars, socket_vars, link_vars, call_vars, frame_vars, api_vars, store_vars>>

Numbers == 0..LastNumber
Chunks == Sessions \X Numbers
NoKey == <<NoSession, 0>>

-----------------------------------------------------------------------------
(* Sessions *)

Status(s, from, to) ==
  /\ session_status[s] = from
  /\ session_status' = [session_status EXCEPT ![s] = to]

\* createSession; sequenceNumber goes on where it is.  A session whose answer is lost is
\* one nobody uses.
CreateSession(s) ==
  /\ Status(s, "none", "scheduled")
  /\ session_id' = s
  /\ UNCHANGED <<sequence_number, recording, socket_vars, link_vars, call_vars, frame_vars,
                 chunk, store_vars>>

\* ensureSessionId
HasSession == session_id # NoSession

Call(kind) == calls' = calls \cup {<<kind, session_id>>}

\* startInterview
StartInterview ==
  /\ HasSession
  /\ Call("start")
  /\ UNCHANGED <<page_vars, socket_vars, link_vars, started, frame_vars, api_vars,
                 store_vars>>

\* POST start is handled.
StartSession(s) ==
  /\ <<"start", s>> \in calls
  /\ calls' = calls \ {<<"start", s>>}
  /\ Status(s, "scheduled", "in_progress")
  /\ started' = started \cup {s}
  /\ UNCHANGED <<page_vars, socket_vars, link_vars, frame_vars, chunk, store_vars>>

\* POST end is handled.
EndSession(s) ==
  /\ <<"end", s>> \in calls
  /\ calls' = calls \ {<<"end", s>>}
  /\ Status(s, "in_progress", "ended")
  /\ UNCHANGED <<page_vars, socket_vars, link_vars, started, frame_vars,
                 chunk, store_vars>>

\* DELETE projects/{id}, from another page: _owned_session finds none of the project's
\* sessions any more, whatever their status.
DeleteProject ==
  /\ session_status' = [s \in Sessions |-> "hidden"]
  /\ session_status' # session_status
  /\ UNCHANGED <<page_vars, socket_vars, link_vars, call_vars, frame_vars, chunk, store_vars>>

-----------------------------------------------------------------------------
(* The stream *)

Live == {"connecting", "accepted", "open"}

\* closeInterviewStream, as far as the connections go: the close event comes later.
Kept == link
Closed ==
  [w \in Connections |-> IF w = socket /\ link[w] \in Live THEN "closing" ELSE link[w]]

\* The start is answered: openInterviewStream closes the stream there is and connects to
\* the session the page has by now.
OpenInterviewStream(s, w) ==
  /\ s \in started
  /\ started' = started \ {s}
  /\ link[w] = "unused"
  /\ link' = [Closed EXCEPT ![w] = "connecting"]
  /\ streamed' = [streamed EXCEPT ![w] = session_id]
  /\ socket' = w
  /\ socket_open' = FALSE
  /\ UNCHANGED <<page_vars, queue, calls, frame_vars, api_vars, store_vars>>

Link(w, from, to) ==
  /\ link[w] \in from
  /\ link' = [link EXCEPT ![w] = to]

\* The websocket handler looks at owner and session ...
AcceptStream(w) ==
  /\ Link(w, {"connecting"}, "accepted")
  /\ session_status[streamed[w]] = "in_progress"
  /\ UNCHANGED <<page_vars, socket_vars, streamed, queue, call_vars, frame_vars, api_vars,
                 store_vars>>

\* ... or refuses; or the network breaks.
Break(w) ==
  /\ Link(w, Live, "broken")
  /\ UNCHANGED <<page_vars, socket_vars, streamed, queue, call_vars, frame_vars, api_vars,
                 store_vars>>

\* onOpen: the recorder starts.
OnOpen(w) ==
  /\ Link(w, {"accepted"}, "open")
  /\ socket_open' = TRUE
  /\ recording' = TRUE
  /\ UNCHANGED <<session_id, sequence_number, socket, streamed, queue, call_vars,
                 frame_vars, api_vars, store_vars>>

\* onError: the recorder stops; the close event is still to come.
OnError(w) ==
  /\ Link(w, {"broken"}, "closing")
  /\ socket_open' = FALSE
  /\ recording' = FALSE
  /\ UNCHANGED <<session_id, sequence_number, socket, streamed, queue, call_vars, frame_vars,
                 api_vars, store_vars>>

\* onClose, also of a connection the page has replaced.
OnClose(w) ==
  /\ Link(w, {"broken", "closing"}, "closed")
  /\ socket_open' = FALSE
  /\ UNCHANGED <<page_vars, socket, streamed, queue, call_vars, frame_vars, api_vars,
                 store_vars>>

\* recorder.stop and closeInterviewStream
StopRecording ==
  /\ recording' = FALSE
  /\ link' = Closed
  /\ socket' = NoConnection
  /\ socket_open' = FALSE

\* endInterview
EndInterview ==
  /\ HasSession
  /\ StopRecording
  /\ Call("end")
  /\ UNCHANGED <<session_id, sequence_number, streamed, queue, started, frame_vars,
                 api_vars, store_vars>>

\* recorder.onError
RecorderFails ==
  /\ recording
  /\ StopRecording
  /\ UNCHANGED <<session_id, sequence_number, streamed, queue, call_vars, frame_vars,
                 api_vars, store_vars>>

-----------------------------------------------------------------------------
(* Frames *)

\* this.data.sequenceNumber after a frame
NextNumberUnsaved == sequence_number
NextNumber == sequence_number + 1

\* uploadAudioFrame up to its first await: the frame gets the next number.
CaptureFrame(f) ==
  /\ stage[f] = "unused"
  /\ sequence_number \in Numbers
  /\ HasSession /\ recording /\ socket # NoConnection /\ socket_open
  /\ key' = [key EXCEPT ![f] = <<session_id, sequence_number>>]
  /\ sequence_number' = NextNumber
  /\ stage' = [stage EXCEPT ![f] = "presigning"]
  /\ late' = IF session_status[session_id] \in {"ended", "hidden"} THEN late \cup {f} ELSE late
  /\ UNCHANGED <<session_id, recording, socket_vars, link_vars, call_vars, api_vars,
                 store_vars>>

\* The rate limit of the API: calls of the path presign in the last minute.
Recent(s) == {f \in counted : key[f][1] = s}
PathLimit(path) == IF path = "audio-chunks" THEN VoiceLimit ELSE ApiLimit
Throttled(s) == Cardinality(Recent(s)) >= PathLimit("audio-chunks/presign")

\* POST audio-chunks/presign looks at the session; the call counts whatever it says.
MayPresignOwned(s) == session_status[s] # "hidden"
MayPresign(s) == session_status[s] = "in_progress"

Presign(f) ==
  LET s == key[f][1] IN
  /\ stage[f] = "presigning"
  /\ ~Throttled(s)
  /\ counted' = counted \cup {f}
  /\ stage' = [stage EXCEPT ![f] = IF MayPresign(s) THEN "uploading" ELSE "refused"]
  /\ UNCHANGED <<page_vars, socket_vars, link_vars, call_vars, key, late, api_vars, object>>

\* uploadAudioBytes: the storage takes what comes under a signed address.
Upload(f) ==
  /\ stage[f] = "uploading"
  /\ object' = [object EXCEPT ![key[f]] = f]
  /\ stage' = [stage EXCEPT ![f] = "uploaded"]
  /\ UNCHANGED <<page_vars, socket_vars, link_vars, call_vars, key, late, api_vars, counted>>

\* socketTask.send, on the connection the page has by now.
Send(f) ==
  /\ stage[f] = "uploaded"
  /\ socket # NoConnection /\ link[socket] = "open"
  /\ queue' = [queue EXCEPT ![socket] = Append(@, f)]
  /\ stage' = [stage EXCEPT ![f] = "sent"]
  /\ UNCHANGED <<page_vars, socket_vars, link, streamed, call_vars, key, late, api_vars,
                 store_vars>>

\* _record_audio_chunk_payload: the object must be one of the streamed session.
InProject(w, f) == TRUE
Expected(w, f) == key[f][1] = streamed[w]

\* A message is received; record_audio_chunk keeps the first record of a number, and may
\* refuse a new one (the voice limit, in InterviewIntake).
Receive(w) ==
  /\ queue[w] # <<>>
  /\ LET f == Head(queue[w])
         c == <<streamed[w], key[f][2]>>
     IN chunk' \in {chunk} \cup
          (IF Expected(w, f) /\ chunk[c] = NoFrame THEN {[chunk EXCEPT ![c] = f]} ELSE {})
  /\ queue' = [queue EXCEPT ![w] = Tail(@)]
  /\ UNCHANGED <<page_vars, socket_vars, link, streamed, call_vars, frame_vars,
                 session_status, store_vars>>

\* A presign call is a minute old.
Forget(f) ==
  /\ f \in counted
  /\ counted' = counted \ {f}
  /\ UNCHANGED <<page_vars, socket_vars, link_vars, call_vars, frame_vars, api_vars, object>>

-----------------------------------------------------------------------------
Init ==
  /\ session_id = NoSession /\ sequence_number = 0 /\ recording = FALSE
  /\ socket = NoConnection /\ socket_open = FALSE
  /\ session_status = [s \in Sessions |-> "none"]
  /\ chunk = [c \in Chunks |-> NoFrame]
  /\ object = [c \in Chunks |-> NoFrame]
  /\ counted = {}
  /\ calls = {} /\ started = {}
  /\ link = [w \in Connections |-> "unused"]
  /\ streamed = [w \in Connections |-> NoSession]
  /\ queue = [w \in Connections |-> <<>>]
  /\ stage = [f \in Frames |-> "unused"]
  /\ key = [f \in Frames |-> NoKey]
  /\ late = {}

PageStep ==
  \/ StartInterview \/ EndInterview \/ RecorderFails
  \/ \E s \in Sessions, w \in Connections : OpenInterviewStream(s, w)
  \/ \E w \in Connections : OnOpen(w) \/ OnError(w) \/ OnClose(w)
  \/ \E f \in Frames : CaptureFrame(f) \/ Send(f)

ApiStep ==
  \/ \E s \in Sessions : CreateSession(s) \/ StartSession(s) \/ EndSession(s)
  \/ \E w \in Connections : AcceptStream(w) \/ Receive(w)
  \/ \E f \in Frames : Presign(f) \/ Upload(f)

WorldStep ==
  \/ \E w \in Connections : Break(w)
  \/ \E f \in Frames : Forget(f)
  \/ DeleteProject

Next == PageStep \/ ApiStep \/ WorldStep

Spec == Init /\ [][Next]_vars
-----------------------------------------------------------------------------
(* Properties *)

PageTypeOK ==
  /\ session_id \in Sessions \cup {NoSession}
  /\ sequence_number \in 0..(LastNumber + 1)
  /\ recording \in BOOLEAN
  /\ socket \in Connections \cup {NoConnection}
  /\ socket_open \in BOOLEAN
  /\ stage \in [Frames -> {"unused", "presigning", "refused", "uploading", "uploaded", "sent"}]
  /\ key \in [Frames -> Chunks \cup {NoKey}]
  /\ late \subseteq Frames

NetworkTypeOK ==
  /\ calls \subseteq {"start", "end"} \X Sessions
  /\ started \subseteq Sessions
  /\ link \in [Connections -> Live \cup {"unused", "broken", "closing", "closed"}]
  /\ streamed \in [Connections -> Sessions \cup {NoSession}]
  /\ queue \in [Connections -> Seq(Frames)]

\* Every variable has a value the code can store in it.
TypeOK ==
  /\ PageTypeOK
  /\ NetworkTypeOK
  /\ session_status \in [Sessions -> {"none", "scheduled", "in_progress", "ended", "hidden"}]
  /\ chunk \in [Chunks -> Frames \cup {NoFrame}]
  /\ object \in [Chunks -> Frames \cup {NoFrame}]
  /\ counted \subseteq Frames

\* The sound behind a chunk record is that of the frame recorded in this session under
\* this number, however frames, sessions and connections overtook each other.
ChunksAreTheirFrames ==
  \A c \in Chunks : chunk[c] # NoFrame => key[chunk[c]] = c /\ object[c] = chunk[c]

\* The page has one stream at a time: a connection it replaced or closed never lives on.
OneStream == \A w \in Connections : link[w] \in Live => w = socket

\* What is recorded after a session ended or the project was deleted, by a page that has
\* not noticed, never becomes a chunk, though the stream itself does not look again.
LateFramesUnheard == \A c \in Chunks : chunk[c] \notin late

\* What is promised about the sound of an interview: RecordedSpeech.
Speech == INSTANCE RecordedSpeech WITH
  NoKey <- NoKey,
  taken <- key,
  over <- {s \in Sessions : session_status[s] \in {"ended", "hidden"}},
  unheard <- late,
  sound <- object,
  record <- chunk

\* Page, network and API together implement that promise.
SpeechKept == Speech!Spec

-----------------------------------------------------------------------------
(* docs/reports/phase1-completion-audit.md:16 of presign, REST and stream: they  *)
(* "expose recovery gaps, and bypass the generic 60/min API limit in favor of    *)
(* the voice-specific 240/min limit".  The second part is refuted by a run.       *)

\* The API turns the frames of a session away only at the voice limit.
VoiceLimitGoverns == \A s \in Sessions : Throttled(s) => Cardinality(Recent(s)) >= VoiceLimit
=============================================================================
