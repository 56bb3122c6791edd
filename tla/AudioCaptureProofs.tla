------------------------- MODULE AudioCaptureProofs -------------------------
(***************************************************************************)
(* Theorems about AudioCapture: any number of frames, sessions and         *)
(* connections, and every order of calls, answers, uploads and messages.   *)
(***************************************************************************)
EXTENDS AudioCapture, FiniteSetTheorems, TLAPS

Stages == {"unused", "presigning", "refused", "uploading", "uploaded", "sent"}

\* Every frame taken has a number of its own, below the next one to be given.
KeysInv ==
  /\ \A f \in Frames : stage[f] # "unused" => key[f] \in Chunks /\ key[f][2] < sequence_number
  /\ \A f, g \in Frames :
       f # g /\ stage[f] # "unused" /\ stage[g] # "unused" => key[f][2] # key[g][2]

\* What was uploaded stays in its object.
ObjectsInv ==
  \A f \in Frames : stage[f] \in {"uploaded", "sent"} => object[key[f]] = f

\* Only frames that were sent are on their way or recorded, each under its key.
SentInv ==
  /\ \A w \in Connections : \A i \in 1..Len(queue[w]) : stage[queue[w][i]] = "sent"
  /\ \A c \in Chunks : chunk[c] # NoFrame => stage[chunk[c]] = "sent" /\ key[chunk[c]] = c

\* Frames taken too late get no further than the API's answer to their presign call.
LateInv ==
  \A f \in late :
    /\ stage[f] \in {"presigning", "refused"}
    /\ session_status[key[f][1]] \in {"ended", "hidden"}

FramesInv == KeysInv /\ ObjectsInv /\ SentInv /\ LateInv
CaptureInv == TypeOK /\ FramesInv

-----------------------------------------------------------------------------
(* Types *)

LEMMA TypeInitially == Init => TypeOK
<1> SUFFICES ASSUME Init
             PROVE  TypeOK
  OBVIOUS
<1>1. PageTypeOK
  <2>1. sequence_number \in 0..(LastNumber + 1)
    BY LimitAssumption DEF Init
  <2>2. QED
    BY <2>1 DEF Init, PageTypeOK
<1>2. NetworkTypeOK
  BY DEF Init, NetworkTypeOK
<1>3. QED
  BY <1>1, <1>2 DEF Init, TypeOK

LEMMA SessionStepsTyped ==
  ASSUME TypeOK,
         \/ \E s \in Sessions : CreateSession(s) \/ StartSession(s) \/ EndSession(s)
         \/ StartInterview \/ EndInterview \/ RecorderFails \/ DeleteProject
  PROVE  TypeOK'
<1> USE DEF TypeOK, PageTypeOK, NetworkTypeOK, page_vars, socket_vars, link_vars, call_vars,
        frame_vars, api_vars, store_vars
<1>1. ASSUME NEW s \in Sessions, CreateSession(s)
      PROVE  TypeOK'
  BY <1>1 DEF CreateSession, Status
<1>2. ASSUME NEW s \in Sessions, StartSession(s)
      PROVE  TypeOK'
  BY <1>2 DEF StartSession, Status
<1>3. ASSUME NEW s \in Sessions, EndSession(s)
      PROVE  TypeOK'
  BY <1>3 DEF EndSession, Status
<1>4. CASE StartInterview
  BY <1>4 DEF StartInterview, Call, HasSession
<1>5. CASE EndInterview \/ RecorderFails
  <2>1. Closed \in [Connections -> Live \cup {"unused", "broken", "closing", "closed"}]
    BY DEF Closed, Live
  <2>2. PageTypeOK'
    BY <1>5 DEF EndInterview, RecorderFails, StopRecording
  <2>3. NetworkTypeOK'
    BY <1>5, <2>1 DEF EndInterview, RecorderFails, StopRecording, Call, HasSession
  <2>4. QED
    BY <1>5, <2>2, <2>3 DEF EndInterview, RecorderFails
<1>6. CASE DeleteProject
  BY <1>6 DEF DeleteProject
<1>7. QED
  BY <1>1, <1>2, <1>3, <1>4, <1>5, <1>6

LEMMA StreamStepsTyped ==
  ASSUME TypeOK,
         NEW w \in Connections,
         \/ \E s \in Sessions : OpenInterviewStream(s, w)
         \/ AcceptStream(w) \/ Break(w) \/ OnOpen(w) \/ OnError(w) \/ OnClose(w)
  PROVE  TypeOK'
<1> USE DEF TypeOK, PageTypeOK, NetworkTypeOK, page_vars, socket_vars, link_vars, call_vars,
        frame_vars, api_vars, store_vars
<1>1. ASSUME NEW s \in Sessions, OpenInterviewStream(s, w)
      PROVE  TypeOK'
  <2>1. link' \in [Connections -> Live \cup {"unused", "broken", "closing", "closed"}]
    BY <1>1 DEF OpenInterviewStream, Closed, Live
  <2>2. QED
    BY <1>1, <2>1 DEF OpenInterviewStream
<1>2. CASE AcceptStream(w) \/ Break(w) \/ OnOpen(w) \/ OnError(w) \/ OnClose(w)
  <2>1. link' \in [Connections -> Live \cup {"unused", "broken", "closing", "closed"}]
    BY <1>2 DEF AcceptStream, Break, OnOpen, OnError, OnClose, Link, Live
  <2>2. QED
    BY <1>2, <2>1 DEF AcceptStream, Break, OnOpen, OnError, OnClose
<1>3. QED
  BY <1>1, <1>2

LEMMA FrameStepsTyped ==
  ASSUME TypeOK,
         \/ \E f \in Frames : CaptureFrame(f) \/ Presign(f) \/ Upload(f) \/ Send(f) \/ Forget(f)
         \/ \E w \in Connections : Receive(w)
  PROVE  TypeOK'
<1>1. ASSUME NEW f \in Frames, CaptureFrame(f)
      PROVE  TypeOK'
  <2>1. <<session_id, sequence_number>> \in Chunks
    BY <1>1 DEF TypeOK, PageTypeOK, CaptureFrame, HasSession, Chunks
  <2>2. sequence_number' \in 0..(LastNumber + 1)
    BY <1>1, LimitAssumption DEF CaptureFrame, Numbers, NextNumber
  <2>3. PageTypeOK'
    BY <1>1, <2>1, <2>2 DEF TypeOK, PageTypeOK, CaptureFrame, socket_vars
  <2>4. NetworkTypeOK'
    BY <1>1 DEF TypeOK, NetworkTypeOK, CaptureFrame, link_vars, call_vars
  <2>5. QED
    BY <1>1, <2>3, <2>4 DEF TypeOK, CaptureFrame, api_vars, store_vars
<1>2. ASSUME NEW f \in Frames, Presign(f) \/ Upload(f) \/ Forget(f)
      PROVE  TypeOK'
  BY <1>2 DEF TypeOK, PageTypeOK, NetworkTypeOK, Presign, Upload, Forget, page_vars,
         socket_vars, link_vars, call_vars, frame_vars, api_vars
<1>3. ASSUME NEW f \in Frames, Send(f)
      PROVE  TypeOK'
  BY <1>3 DEF TypeOK, PageTypeOK, NetworkTypeOK, Send, page_vars, socket_vars, call_vars,
         api_vars, store_vars
<1>4. ASSUME NEW w \in Connections, Receive(w)
      PROVE  TypeOK'
  <2> DEFINE f == Head(queue[w])
             c == <<streamed[w], key[f][2]>>
  <2>1. f \in Frames /\ Tail(queue[w]) \in Seq(Frames)
    BY <1>4 DEF TypeOK, NetworkTypeOK, Receive
  <2>2. chunk' = chunk \/ chunk' = [chunk EXCEPT ![c] = f]
    BY <1>4 DEF Receive
  <2>3. chunk' \in [Chunks -> Frames \cup {NoFrame}]
    BY <2>1, <2>2 DEF TypeOK
  <2>4. NetworkTypeOK'
    BY <1>4, <2>1 DEF TypeOK, NetworkTypeOK, Receive, call_vars
  <2>5. PageTypeOK'
    BY <1>4 DEF TypeOK, PageTypeOK, Receive, page_vars, socket_vars, frame_vars
  <2>6. QED
    BY <1>4, <2>3, <2>4, <2>5 DEF TypeOK, Receive, store_vars
<1>5. QED
  BY <1>1, <1>2, <1>3, <1>4

LEMMA TypeKept == TypeOK /\ [Next]_vars => TypeOK'
<1>1. ASSUME TypeOK, Next
      PROVE  TypeOK'
  BY <1>1, SessionStepsTyped, StreamStepsTyped, FrameStepsTyped
     DEF Next, PageStep, ApiStep, WorldStep
<1>2. ASSUME TypeOK, UNCHANGED vars
      PROVE  TypeOK'
  BY <1>2 DEF TypeOK, PageTypeOK, NetworkTypeOK, vars, page_vars, socket_vars, link_vars,
         call_vars, frame_vars, api_vars, store_vars
<1>3. QED
  BY <1>1, <1>2

\* Every variable of page, network and API keeps its type.
THEOREM CaptureTypeCorrect == Spec => []TypeOK
  BY TypeInitially, TypeKept, PTL DEF Spec

-----------------------------------------------------------------------------
(* One stream at a time *)

LEMMA StreamKept == TypeOK /\ OneStream /\ [Next]_vars => OneStream'
<1> SUFFICES ASSUME TypeOK, OneStream, [Next]_vars
             PROVE  OneStream'
  OBVIOUS
<1>0. link \in [Connections -> Live \cup {"unused", "broken", "closing", "closed"}]
  BY DEF TypeOK, NetworkTypeOK
<1> USE DEF OneStream, Live
<1>1. ASSUME NEW s \in Sessions, NEW w \in Connections, OpenInterviewStream(s, w)
      PROVE  OneStream'
  <2>1. \A v \in Connections : Closed[v] \notin Live
    BY <1>0 DEF Closed
  <2>2. \A v \in Connections : v # w => link'[v] = Closed[v]
    BY <1>1 DEF OpenInterviewStream, Closed
  <2>3. socket' = w
    BY <1>1 DEF OpenInterviewStream
  <2>4. QED
    BY <2>1, <2>2, <2>3
<1>2. CASE EndInterview \/ RecorderFails
  <2>1. \A v \in Connections : Closed[v] \notin Live
    BY <1>0 DEF Closed
  <2>2. QED
    BY <1>2, <2>1 DEF EndInterview, RecorderFails, StopRecording
<1>3. ASSUME NEW w \in Connections,
             AcceptStream(w) \/ Break(w) \/ OnOpen(w) \/ OnError(w) \/ OnClose(w)
      PROVE  OneStream'
  <2>1. \A v \in Connections : link'[v] \in Live => link[v] \in Live
    BY <1>0, <1>3 DEF AcceptStream, Break, OnOpen, OnError, OnClose, Link
  <2>2. socket' = socket
    BY <1>3 DEF AcceptStream, Break, OnOpen, OnError, OnClose, socket_vars
  <2>3. QED
    BY <2>1, <2>2
<1>4. CASE UNCHANGED <<socket, link>>
  BY <1>4
<1>5. QED
  <2>1. CASE StartInterview \/ DeleteProject \/ UNCHANGED vars
    BY <1>4, <2>1 DEF StartInterview, DeleteProject, vars, socket_vars, link_vars
  <2>2. CASE \E s \in Sessions : CreateSession(s) \/ StartSession(s) \/ EndSession(s)
    BY <1>4, <2>2 DEF CreateSession, StartSession, EndSession, socket_vars, link_vars
  <2>3. CASE \/ \E w \in Connections : Receive(w)
             \/ \E f \in Frames :
                  CaptureFrame(f) \/ Presign(f) \/ Upload(f) \/ Send(f) \/ Forget(f)
    BY <1>4, <2>3 DEF Receive, CaptureFrame, Presign, Upload, Send, Forget, socket_vars, link_vars
  <2>4. QED
    BY <1>1, <1>2, <1>3, <2>1, <2>2, <2>3 DEF Next, PageStep, ApiStep, WorldStep

\* However starts, ends and close events overtake each other, the page keeps one stream.
THEOREM PageHasOneStream == Spec => []OneStream
<1>1. Init => TypeOK /\ OneStream
  BY TypeInitially DEF Init, OneStream, Live
<1>2. TypeOK /\ OneStream /\ [Next]_vars => TypeOK' /\ OneStream'
  BY TypeKept, StreamKept
<1>3. QED
  BY <1>1, <1>2, PTL DEF Spec

-----------------------------------------------------------------------------
(* Frames *)

LEMMA FramesInitially == Init => FramesInv
  BY NoneAssumption DEF Init, FramesInv, KeysInv, ObjectsInv, SentInv, LateInv

\* A status that says the session is over is never left.
LEMMA OthersKeepFrames ==
  ASSUME CaptureInv,
         UNCHANGED <<sequence_number, frame_vars, chunk, object, queue>>,
         \A s \in Sessions : session_status[s] \in {"ended", "hidden"} =>
                              session_status'[s] \in {"ended", "hidden"}
  PROVE  FramesInv'
<1> USE DEF CaptureInv, FramesInv, frame_vars
<1>1. KeysInv'
  BY DEF KeysInv
<1>2. ObjectsInv'
  BY DEF ObjectsInv
<1>3. SentInv'
  BY DEF SentInv
<1>4. LateInv'
  <2>1. \A f \in late : key[f][1] \in Sessions
    BY DEF LateInv, KeysInv, TypeOK, PageTypeOK, Chunks
  <2>2. QED
    BY <2>1 DEF LateInv
<1>5. QED
  BY <1>1, <1>2, <1>3, <1>4

LEMMA CaptureKeepsFrames ==
  ASSUME CaptureInv, NEW f \in Frames, CaptureFrame(f)
  PROVE  FramesInv'
<1> USE DEF CaptureInv, FramesInv, CaptureFrame
<1>1. /\ stage[f] = "unused"
      /\ stage' = [stage EXCEPT ![f] = "presigning"]
      /\ key' = [key EXCEPT ![f] = <<session_id, sequence_number>>]
      /\ stage \in [Frames -> Stages] /\ DOMAIN key = Frames
      /\ <<session_id, sequence_number>> \in Chunks
      /\ sequence_number \in Nat /\ sequence_number' = sequence_number + 1
  BY LimitAssumption DEF TypeOK, PageTypeOK, Stages, HasSession, Chunks, Numbers, NextNumber
<1>2. \A g \in Frames : g # f => stage'[g] = stage[g] /\ key'[g] = key[g]
  BY <1>1
<1>3. stage'[f] = "presigning" /\ key'[f] = <<session_id, sequence_number>>
  BY <1>1
<1>4. KeysInv'
  <2>1. \A g \in Frames : stage[g] # "unused" =>
           key[g] \in Chunks /\ key[g][2] \in Nat /\ key[g][2] < sequence_number
    BY LimitAssumption DEF KeysInv, Chunks, Numbers
  <2>2. \A g \in Frames : stage'[g] # "unused" =>
           key'[g] \in Chunks /\ key'[g][2] < sequence_number'
    BY <1>1, <1>2, <1>3, <2>1
  <2>3. \A g \in Frames : g # f /\ stage'[g] # "unused" => key'[g][2] # key'[f][2]
    BY <1>1, <1>2, <1>3, <2>1
  <2>4. \A g, h \in Frames : g # h /\ g # f /\ h # f /\ stage'[g] # "unused" /\ stage'[h] # "unused"
                            => key'[g][2] # key'[h][2]
    BY <1>2 DEF KeysInv
  <2>5. Chunks' = Chunks
    BY DEF Chunks, Numbers
  <2>6. QED
    BY <2>2, <2>3, <2>4, <2>5 DEF KeysInv
<1>5. ObjectsInv'
  <2>1. object' = object
    BY DEF store_vars
  <2>2. QED
    BY <1>2, <1>3, <2>1 DEF ObjectsInv
<1>6. SentInv'
  <2>1. queue' = queue /\ chunk' = chunk
    BY DEF link_vars, api_vars
  <2>2. \A w \in Connections : \A i \in 1..Len(queue[w]) : queue[w][i] \in Frames
    BY DEF TypeOK, NetworkTypeOK
  <2>3. \A c \in Chunks : chunk[c] # NoFrame => chunk[c] \in Frames
    BY DEF TypeOK
  <2>4. QED
    BY <1>1, <1>2, <2>1, <2>2, <2>3 DEF SentInv
<1>7. LateInv'
  <2>1. session_status' = session_status
    BY DEF api_vars
  <2>2. f \notin late
    BY <1>1 DEF LateInv
  <2>3. late \subseteq Frames
    BY DEF TypeOK, PageTypeOK
  <2>4. \A g \in late : stage'[g] = stage[g] /\ key'[g] = key[g]
    BY <1>2, <2>2, <2>3
  <2>5. \A g \in late' : g \in late \/ (g = f /\ session_status[session_id] \in {"ended", "hidden"})
    OBVIOUS
  <2>6. \A g \in late : stage'[g] \in {"presigning", "refused"}
                       /\ session_status[key'[g][1]] \in {"ended", "hidden"}
    BY <2>4 DEF LateInv
  <2>7. QED
    BY <1>3, <2>1, <2>5, <2>6 DEF LateInv
<1>8. QED
  BY <1>4, <1>5, <1>6, <1>7

LEMMA PresignKeepsFrames ==
  ASSUME CaptureInv, NEW f \in Frames, Presign(f)
  PROVE  FramesInv'
<1> USE DEF CaptureInv, FramesInv
<1>1. /\ stage[f] = "presigning"
      /\ key' = key /\ sequence_number' = sequence_number /\ late' = late
      /\ queue' = queue /\ chunk' = chunk /\ object' = object
      /\ session_status' = session_status
      /\ DOMAIN stage = Frames
      /\ stage' = [stage EXCEPT ![f] = IF MayPresign(key[f][1]) THEN "uploading" ELSE "refused"]
  BY DEF Presign, page_vars, link_vars, api_vars, TypeOK, PageTypeOK
<1>2. \A g \in Frames : g # f => stage'[g] = stage[g]
  BY <1>1
<1>3. stage'[f] = IF MayPresign(key[f][1]) THEN "uploading" ELSE "refused"
  BY <1>1
<1>4. KeysInv'
  <2>1. \A g \in Frames : stage'[g] # "unused" => stage[g] # "unused"
    BY <1>1, <1>2
  <2>2. Chunks' = Chunks
    BY DEF Chunks, Numbers
  <2>3. QED
    BY <1>1, <2>1, <2>2 DEF KeysInv
<1>5. ObjectsInv'
  BY <1>1, <1>2, <1>3 DEF ObjectsInv
<1>6. SentInv'
  <2>1. \A g \in Frames : stage[g] = "sent" => stage'[g] = "sent"
    BY <1>1, <1>2
  <2>2. \A w \in Connections : \A i \in 1..Len(queue[w]) : queue[w][i] \in Frames
    BY DEF TypeOK, NetworkTypeOK
  <2>3. \A c \in Chunks : chunk[c] # NoFrame => chunk[c] \in Frames
    BY DEF TypeOK
  <2>4. QED
    BY <1>1, <2>1, <2>2, <2>3 DEF SentInv
<1>7. LateInv'
  <2>1. f \in late => ~MayPresign(key[f][1])
    BY DEF LateInv, MayPresign
  <2>2. late \subseteq Frames
    BY DEF TypeOK, PageTypeOK
  <2>3. QED
    BY <1>1, <1>2, <1>3, <2>1, <2>2 DEF LateInv
<1>8. QED
  BY <1>4, <1>5, <1>6, <1>7

LEMMA UploadKeepsFrames ==
  ASSUME CaptureInv, NEW f \in Frames, Upload(f)
  PROVE  FramesInv'
<1> USE DEF CaptureInv, FramesInv
<1>1. /\ stage[f] = "uploading"
      /\ key' = key /\ sequence_number' = sequence_number /\ late' = late
      /\ queue' = queue /\ chunk' = chunk /\ session_status' = session_status
      /\ DOMAIN stage = Frames /\ DOMAIN object = Chunks
      /\ object' = [object EXCEPT ![key[f]] = f]
      /\ stage' = [stage EXCEPT ![f] = "uploaded"]
  BY DEF Upload, page_vars, link_vars, api_vars, TypeOK, PageTypeOK
<1>2. \A g \in Frames : g # f => stage'[g] = stage[g]
  BY <1>1
<1>3. KeysInv'
  <2>1. \A g \in Frames : stage'[g] # "unused" => stage[g] # "unused"
    BY <1>1, <1>2
  <2>2. Chunks' = Chunks
    BY DEF Chunks, Numbers
  <2>3. QED
    BY <1>1, <2>1, <2>2 DEF KeysInv
<1>4. ObjectsInv'
  <2>1. key[f] \in Chunks
    BY <1>1 DEF KeysInv
  <2>2. object'[key[f]] = f
    BY <1>1, <2>1
  <2>3. ASSUME NEW g \in Frames, g # f, stage[g] \in {"uploaded", "sent"}
        PROVE  object'[key[g]] = g
    <3>1. key[g] # key[f] /\ key[g] \in Chunks
      BY <1>1, <2>3 DEF KeysInv
    <3>2. object[key[g]] = g
      BY <2>3 DEF ObjectsInv
    <3>3. QED
      BY <1>1, <3>1, <3>2
  <2>4. QED
    BY <1>1, <1>2, <2>2, <2>3 DEF ObjectsInv
<1>5. SentInv'
  <2>1. \A g \in Frames : stage[g] = "sent" => stage'[g] = "sent"
    BY <1>1, <1>2
  <2>2. \A w \in Connections : \A i \in 1..Len(queue[w]) : queue[w][i] \in Frames
    BY DEF TypeOK, NetworkTypeOK
  <2>3. \A c \in Chunks : chunk[c] # NoFrame => chunk[c] \in Frames
    BY DEF TypeOK
  <2>4. QED
    BY <1>1, <2>1, <2>2, <2>3 DEF SentInv
<1>6. LateInv'
  <2>1. f \notin late
    BY <1>1 DEF LateInv
  <2>2. late \subseteq Frames
    BY DEF TypeOK, PageTypeOK
  <2>3. QED
    BY <1>1, <1>2, <2>1, <2>2 DEF LateInv
<1>7. QED
  BY <1>3, <1>4, <1>5, <1>6

LEMMA SendKeepsFrames ==
  ASSUME CaptureInv, NEW f \in Frames, Send(f)
  PROVE  FramesInv'
<1> USE DEF CaptureInv, FramesInv
<1>1. /\ stage[f] = "uploaded"
      /\ key' = key /\ sequence_number' = sequence_number /\ late' = late
      /\ chunk' = chunk /\ session_status' = session_status /\ object' = object
      /\ DOMAIN stage = Frames
      /\ queue' = [queue EXCEPT ![socket] = Append(@, f)]
      /\ stage' = [stage EXCEPT ![f] = "sent"]
      /\ queue \in [Connections -> Seq(Frames)]
      /\ socket \in Connections
  BY DEF Send, page_vars, api_vars, store_vars, TypeOK, PageTypeOK, NetworkTypeOK
<1>2. stage'[f] = "sent" /\ \A g \in Frames : g # f => stage'[g] = stage[g]
  BY <1>1
<1>3. KeysInv'
  <2>1. \A g \in Frames : stage'[g] # "unused" => stage[g] # "unused"
    BY <1>1, <1>2
  <2>2. Chunks' = Chunks
    BY DEF Chunks, Numbers
  <2>3. QED
    BY <1>1, <2>1, <2>2 DEF KeysInv
<1>4. ObjectsInv'
  BY <1>1, <1>2 DEF ObjectsInv
<1>5. SentInv'
  <2>1. \A g \in Frames : stage[g] = "sent" => stage'[g] = "sent"
    BY <1>1, <1>2
  <2>2. \A w \in Connections : \A i \in 1..Len(queue[w]) :
           queue[w][i] \in Frames /\ stage'[queue[w][i]] = "sent"
    BY <1>1, <2>1 DEF SentInv
  <2>3. ASSUME NEW w \in Connections, NEW i \in 1..Len(queue'[w])
        PROVE  stage'[queue'[w][i]] = "sent"
    <3>1. CASE w # socket
      BY <1>1, <2>2, <2>3, <3>1
    <3>2. CASE w = socket
      <4>1. queue'[w] = Append(queue[w], f) /\ queue[w] \in Seq(Frames)
        BY <1>1, <3>2
      <4>2. CASE i \in 1..Len(queue[w])
        BY <2>2, <4>1, <4>2
      <4>3. CASE i = Len(queue[w]) + 1
        BY <1>2, <4>1, <4>3
      <4>4. QED
        BY <2>3, <4>1, <4>2, <4>3
    <3>3. QED
      BY <3>1, <3>2
  <2>4. \A c \in Chunks : chunk[c] # NoFrame => chunk[c] \in Frames
    BY DEF TypeOK
  <2>5. \A c \in Chunks : chunk[c] # NoFrame => stage'[chunk[c]] = "sent" /\ key[chunk[c]] = c
    BY <2>1, <2>4 DEF SentInv
  <2>6. QED
    BY <1>1, <2>3, <2>5 DEF SentInv
<1>6. LateInv'
  <2>1. f \notin late
    BY <1>1 DEF LateInv
  <2>2. late \subseteq Frames
    BY DEF TypeOK, PageTypeOK
  <2>3. QED
    BY <1>1, <1>2, <2>1, <2>2 DEF LateInv
<1>7. QED
  BY <1>3, <1>4, <1>5, <1>6

LEMMA ReceiveKeepsFrames ==
  ASSUME CaptureInv, NEW w \in Connections, Receive(w)
  PROVE  FramesInv'
<1> DEFINE f == Head(queue[w])
           c == <<streamed[w], key[f][2]>>
<1> USE DEF CaptureInv, FramesInv
<1>1. /\ key' = key /\ sequence_number' = sequence_number /\ late' = late /\ stage' = stage
      /\ session_status' = session_status /\ object' = object
      /\ queue' = [queue EXCEPT ![w] = Tail(@)]
      /\ queue \in [Connections -> Seq(Frames)]
      /\ queue[w] # <<>>
      /\ chunk \in [Chunks -> Frames \cup {NoFrame}]
      /\ chunk' = chunk \/ (Expected(w, f) /\ chunk' = [chunk EXCEPT ![c] = f])
  BY DEF Receive, page_vars, frame_vars, store_vars, TypeOK, NetworkTypeOK
<1>2. f \in Frames /\ stage[f] = "sent"
  <2>1. 1 \in 1..Len(queue[w]) /\ f = queue[w][1]
    BY <1>1
  <2>2. QED
    BY <1>1, <2>1 DEF SentInv
<1>3. Expected(w, f) => c = key[f]
  BY <1>2 DEF KeysInv, Chunks, Expected
<1>4. KeysInv'
  BY <1>1 DEF KeysInv, Chunks, Numbers
<1>5. ObjectsInv'
  BY <1>1 DEF ObjectsInv
<1>6. SentInv'
  <2>1. ASSUME NEW v \in Connections, NEW i \in 1..Len(queue'[v])
        PROVE  stage[queue'[v][i]] = "sent"
    <3>1. CASE v # w
      BY <1>1, <2>1, <3>1 DEF SentInv
    <3>2. CASE v = w
      <4>1. queue'[v] = Tail(queue[w]) /\ queue[w] \in Seq(Frames)
        BY <1>1, <3>2
      <4>2. i + 1 \in 1..Len(queue[w]) /\ Tail(queue[w])[i] = queue[w][i + 1]
        <5> DEFINE q == queue[w]
        <5>1. q \in Seq(Frames) /\ q # <<>> /\ i \in 1..Len(Tail(q))
          BY <1>1, <2>1, <4>1
        <5> HIDE DEF q
        <5>2. i + 1 \in 1..Len(q) /\ Tail(q)[i] = q[i + 1]
          BY <5>1
        <5>3. QED
          BY <5>2 DEF q
      <4>3. QED
        BY <4>1, <4>2 DEF SentInv
    <3>3. QED
      BY <3>1, <3>2
  <2>2. \A d \in Chunks : chunk'[d] # NoFrame => stage[chunk'[d]] = "sent" /\ key[chunk'[d]] = d
    <3>1. CASE chunk' = chunk
      BY <3>1 DEF SentInv
    <3>2. CASE Expected(w, f) /\ chunk' = [chunk EXCEPT ![key[f]] = f]
      <4>1. \A d \in Chunks : chunk'[d] = IF d = key[f] THEN f ELSE chunk[d]
        BY <1>1, <3>2
      <4>2. QED
        BY <1>2, <4>1 DEF SentInv
    <3>3. QED
      BY <1>1, <1>3, <3>1, <3>2
  <2>3. QED
    BY <1>1, <2>1, <2>2 DEF SentInv, Chunks, Numbers
<1>7. LateInv'
  BY <1>1 DEF LateInv
<1>8. QED
  BY <1>4, <1>5, <1>6, <1>7

LEMMA FramesKept == CaptureInv /\ [Next]_vars => FramesInv'
<1> SUFFICES ASSUME CaptureInv, [Next]_vars
             PROVE  FramesInv'
  OBVIOUS
<1>1. CASE UNCHANGED vars
  BY <1>1, OthersKeepFrames
     DEF vars, page_vars, link_vars, frame_vars, api_vars, store_vars
<1>2. CASE StartInterview \/ EndInterview \/ RecorderFails
  BY <1>2, OthersKeepFrames
     DEF StartInterview, EndInterview, RecorderFails, page_vars, link_vars, frame_vars,
         api_vars, store_vars
<1>3. ASSUME NEW w \in Connections,
             \/ \E s \in Sessions : OpenInterviewStream(s, w)
             \/ AcceptStream(w) \/ Break(w) \/ OnOpen(w) \/ OnError(w) \/ OnClose(w)
      PROVE  FramesInv'
  <2>1. /\ UNCHANGED <<sequence_number, frame_vars, chunk, object, queue>>
        /\ session_status' = session_status
    BY <1>3 DEF OpenInterviewStream, AcceptStream, Break, OnOpen, OnError, OnClose, page_vars,
                api_vars, store_vars
  <2>2. QED
    BY <2>1, OthersKeepFrames
<1>4. CASE DeleteProject
  <2>1. UNCHANGED <<sequence_number, frame_vars, chunk, object, queue>>
    BY <1>4 DEF DeleteProject, page_vars, link_vars, store_vars
  <2>2. \A s \in Sessions : session_status'[s] = "hidden"
    BY <1>4 DEF DeleteProject
  <2>3. QED
    BY <2>1, <2>2, OthersKeepFrames
<1>5. ASSUME NEW s \in Sessions, CreateSession(s) \/ StartSession(s) \/ EndSession(s)
      PROVE  FramesInv'
  <2>1. UNCHANGED <<sequence_number, frame_vars, chunk, object, queue>>
    BY <1>5 DEF CreateSession, StartSession, EndSession, page_vars, link_vars, store_vars
  <2>2. \A r \in Sessions : session_status[r] \in {"ended", "hidden"} =>
                            session_status'[r] \in {"ended", "hidden"}
    BY <1>5 DEF CreateSession, StartSession, EndSession, Status, CaptureInv, TypeOK
  <2>3. QED
    BY <2>1, <2>2, OthersKeepFrames
<1>6. ASSUME NEW f \in Frames, Forget(f)
      PROVE  FramesInv'
  BY <1>6, OthersKeepFrames DEF Forget, page_vars, link_vars, frame_vars, api_vars
<1>7. QED
  BY <1>1, <1>2, <1>3, <1>4, <1>5, <1>6, CaptureKeepsFrames, PresignKeepsFrames,
     UploadKeepsFrames, SendKeepsFrames, ReceiveKeepsFrames
     DEF Next, PageStep, ApiStep, WorldStep

LEMMA CaptureInvHolds == Spec => []CaptureInv
<1>1. Init => CaptureInv
  BY TypeInitially, FramesInitially DEF CaptureInv
<1>2. CaptureInv /\ [Next]_vars => CaptureInv'
  BY TypeKept, FramesKept DEF CaptureInv
<1>3. QED
  BY <1>1, <1>2, PTL DEF Spec

\* Whatever overtakes what, a chunk record stands for the sound of the frame the page
\* took under its session and number.
THEOREM ChunksHaveTheirSound == Spec => []ChunksAreTheirFrames
<1>1. CaptureInv => ChunksAreTheirFrames
  BY DEF CaptureInv, FramesInv, SentInv, ObjectsInv, TypeOK, ChunksAreTheirFrames
<1>2. QED
  BY <1>1, CaptureInvHolds, PTL

\* No frame taken after the end of its session or the deletion of the project is ever
\* recorded: presign asks for the session's status each time.
THEOREM LateSoundIsLost == Spec => []LateFramesUnheard
<1>1. CaptureInv => LateFramesUnheard
  BY NoneAssumption
     DEF CaptureInv, FramesInv, SentInv, LateInv, TypeOK, PageTypeOK, LateFramesUnheard
<1>2. QED
  BY <1>1, CaptureInvHolds, PTL

(***************************************************************************)
(* The refinement of RecordedSpeech.                                       *)
(***************************************************************************)

\* A frame has a key exactly from the time it is taken, and an object of the storage
\* holds nothing but the sound of an uploaded frame with its key.
LedgerInv ==
  /\ \A f \in Frames : stage[f] = "unused" => key[f] = NoKey
  /\ \A c \in Chunks : object[c] # NoFrame =>
       stage[object[c]] \in {"uploaded", "sent"} /\ key[object[c]] = c

LEMMA KeyOfTaken ==
  ASSUME CaptureInv, LedgerInv, NEW f \in Frames
  PROVE  key[f] # NoKey <=> stage[f] # "unused"
  BY NoneAssumption DEF CaptureInv, FramesInv, KeysInv, LedgerInv, Chunks, NoKey

LEMMA LedgerInitially == Init => LedgerInv
  BY DEF Init, LedgerInv

\* Steps that take, upload and send no frame.
LEMMA OthersKeepLedger ==
  ASSUME LedgerInv, UNCHANGED <<frame_vars, object>>
  PROVE  LedgerInv'
  BY DEF LedgerInv, frame_vars, Chunks, Numbers, NoKey

LEMMA FrameStepsKeepLedger ==
  ASSUME CaptureInv, LedgerInv, NEW f \in Frames,
         CaptureFrame(f) \/ Presign(f) \/ Upload(f) \/ Send(f)
  PROVE  LedgerInv'
<1> USE DEF CaptureInv, LedgerInv
<1>1. /\ stage \in [Frames -> Stages] /\ DOMAIN key = Frames
      /\ object \in [Chunks -> Frames \cup {NoFrame}]
      /\ Chunks' = Chunks /\ NoKey' = NoKey
  BY DEF TypeOK, PageTypeOK, Stages, Chunks, Numbers, NoKey
<1>2. CASE CaptureFrame(f)
  <2>1. /\ stage[f] = "unused"
        /\ stage' = [stage EXCEPT ![f] = "presigning"]
        /\ key' = [key EXCEPT ![f] = <<session_id, sequence_number>>]
        /\ object' = object
    BY <1>2 DEF CaptureFrame, store_vars
  <2>2. \A g \in Frames : g # f => stage'[g] = stage[g] /\ key'[g] = key[g]
    BY <1>1, <2>1
  <2>3. stage'[f] # "unused"
    BY <1>1, <2>1
  <2>4. \A c \in Chunks : object[c] # f
    BY <2>1, <1>1, NoneAssumption
  <2>5. QED
    BY <1>1, <2>1, <2>2, <2>3, <2>4
<1>3. CASE Presign(f)
  <2>1. /\ stage[f] = "presigning" /\ key' = key /\ object' = object
        /\ \A g \in Frames : g # f => stage'[g] = stage[g]
        /\ stage'[f] # "unused"
    BY <1>1, <1>3 DEF Presign
  <2>2. QED
    BY <1>1, <2>1, NoneAssumption
<1>4. CASE Upload(f)
  <2>1. /\ stage[f] = "uploading" /\ key' = key
        /\ \A g \in Frames : g # f => stage'[g] = stage[g]
        /\ stage'[f] = "uploaded"
        /\ object' = [object EXCEPT ![key[f]] = f]
    BY <1>1, <1>4 DEF Upload
  <2>2. \A c \in Chunks : object'[c] = IF c = key[f] THEN f ELSE object[c]
    BY <1>1, <2>1
  <2>3. QED
    BY <1>1, <2>1, <2>2, NoneAssumption
<1>5. CASE Send(f)
  <2>1. /\ stage[f] = "uploaded" /\ key' = key /\ object' = object
        /\ \A g \in Frames : g # f => stage'[g] = stage[g]
        /\ stage'[f] = "sent"
    BY <1>1, <1>5 DEF Send, store_vars
  <2>2. QED
    BY <1>1, <2>1, NoneAssumption
<1>6. QED
  BY <1>2, <1>3, <1>4, <1>5

\* The steps that concern no frame leave key, object and stage alone.
LEMMA OtherSteps ==
  ASSUME [Next]_vars, ~\E f \in Frames : CaptureFrame(f) \/ Presign(f) \/ Upload(f) \/ Send(f)
  PROVE  UNCHANGED <<frame_vars, object>>
<1>1. CASE UNCHANGED vars
  BY <1>1 DEF vars, frame_vars, store_vars
<1>2. CASE StartInterview \/ EndInterview \/ RecorderFails \/ DeleteProject
  BY <1>2 DEF StartInterview, EndInterview, RecorderFails, DeleteProject, store_vars
<1>3. ASSUME NEW w \in Connections,
             \/ \E s \in Sessions : OpenInterviewStream(s, w)
             \/ AcceptStream(w) \/ Break(w) \/ OnOpen(w) \/ OnError(w) \/ OnClose(w)
             \/ Receive(w)
      PROVE  UNCHANGED <<frame_vars, object>>
  BY <1>3 DEF OpenInterviewStream, AcceptStream, Break, OnOpen, OnError, OnClose, Receive,
              store_vars
<1>4. ASSUME NEW s \in Sessions, CreateSession(s) \/ StartSession(s) \/ EndSession(s)
      PROVE  UNCHANGED <<frame_vars, object>>
  BY <1>4 DEF CreateSession, StartSession, EndSession, store_vars
<1>5. ASSUME NEW f \in Frames, Forget(f) PROVE UNCHANGED <<frame_vars, object>>
  BY <1>5 DEF Forget
<1>6. QED
  BY <1>1, <1>2, <1>3, <1>4, <1>5 DEF Next, PageStep, ApiStep, WorldStep

LEMMA LedgerKept == CaptureInv /\ LedgerInv /\ [Next]_vars => LedgerInv'
  BY FrameStepsKeepLedger, OthersKeepLedger, OtherSteps

LEMMA LedgerInvHolds == Spec => []LedgerInv
  BY LedgerInitially, LedgerKept, CaptureInvHolds, PTL DEF Spec

\* The sessions that are over, as RecordedSpeech sees them.
Over == {s \in Sessions : session_status[s] \in {"ended", "hidden"}}

speech_vars == <<key, Over, late, object, chunk>>

LEMMA SpeechInitially == Init => Speech!Init
  BY DEF Init, Speech!Init, Speech!Keys, Chunks

\* A frame is taken.
LEMMA CaptureTakes ==
  ASSUME CaptureInv, LedgerInv, NEW f \in Frames, CaptureFrame(f)
  PROVE  Speech!Next
<1> DEFINE c == <<session_id, sequence_number>>
<1>1. c \in Speech!Keys /\ c[1] = session_id /\ c[2] = sequence_number
  BY DEF CaptureInv, TypeOK, PageTypeOK, CaptureFrame, HasSession, Speech!Keys
<1>2. key[f] = NoKey
  BY KeyOfTaken DEF CaptureFrame
<1>3. \A g \in Frames : key[g] # NoKey /\ key[g][1] = c[1] => key[g][2] < c[2]
  BY <1>1, KeyOfTaken DEF CaptureInv, FramesInv, KeysInv
<1>4. c[1] \in Over <=> session_status[session_id] \in {"ended", "hidden"}
  BY <1>1 DEF Over, CaptureInv, TypeOK, PageTypeOK, CaptureFrame, HasSession
<1>5. /\ key' = [key EXCEPT ![f] = c]
      /\ late' = IF c[1] \in Over THEN late \cup {f} ELSE late
      /\ session_status' = session_status /\ object' = object /\ chunk' = chunk
  BY <1>1, <1>4 DEF CaptureFrame, api_vars, store_vars
<1>6. Speech!Take(f, c)
  BY <1>2, <1>3, <1>5 DEF Speech!Take, Over
<1>7. QED
  BY <1>1, <1>6 DEF Speech!Next

\* Its sound is kept: nothing else has its key, and the API gave the address while the
\* session was in progress.
LEMMA UploadKeeps ==
  ASSUME CaptureInv, LedgerInv, NEW f \in Frames, Upload(f)
  PROVE  Speech!Next
<1>1. /\ stage[f] = "uploading"
      /\ object' = [object EXCEPT ![key[f]] = f]
      /\ key' = key /\ late' = late /\ session_status' = session_status /\ chunk' = chunk
  BY DEF Upload, api_vars
<1>2. key[f] # NoKey /\ key[f] \in Chunks
  BY <1>1, KeyOfTaken DEF CaptureInv, FramesInv, KeysInv
<1>3. f \notin late
  BY <1>1 DEF CaptureInv, FramesInv, LateInv
<1>4. ASSUME object[key[f]] # NoFrame PROVE FALSE
  <2> DEFINE g == object[key[f]]
  <2>1. g \in Frames /\ stage[g] \in {"uploaded", "sent"} /\ key[g] = key[f]
    BY <1>2, <1>4 DEF LedgerInv, CaptureInv, TypeOK
  <2>2. g # f /\ stage[g] # "unused" /\ stage[f] # "unused"
    BY <1>1, <2>1
  <2>3. QED
    BY <2>1, <2>2 DEF CaptureInv, FramesInv, KeysInv
<1>5. Speech!Keep(f)
  BY <1>1, <1>2, <1>3, <1>4 DEF Speech!Keep, Over
<1>6. QED
  BY <1>5 DEF Speech!Next

\* A message makes a record, or none.
LEMMA ReceiveRecords ==
  ASSUME CaptureInv, LedgerInv, NEW w \in Connections, Receive(w)
  PROVE  Speech!Next \/ UNCHANGED speech_vars
<1> DEFINE f == Head(queue[w])
           c == <<streamed[w], key[f][2]>>
<1>1. /\ key' = key /\ late' = late /\ session_status' = session_status /\ object' = object
      /\ queue \in [Connections -> Seq(Frames)] /\ queue[w] # <<>>
      /\ \/ chunk' = chunk
         \/ Expected(w, f) /\ chunk[c] = NoFrame /\ chunk' = [chunk EXCEPT ![c] = f]
  BY DEF Receive, frame_vars, store_vars, CaptureInv, TypeOK, NetworkTypeOK
<1>2. f \in Frames /\ stage[f] = "sent"
  <2>1. 1 \in 1..Len(queue[w]) /\ f = queue[w][1]
    BY <1>1
  <2>2. QED
    BY <1>1, <2>1 DEF CaptureInv, FramesInv, SentInv
<1>3. CASE chunk' = chunk
  BY <1>1, <1>3 DEF speech_vars, Over
<1>4. CASE chunk' # chunk
  <2>1. key[f] # NoKey /\ key[f] \in Chunks /\ object[key[f]] = f
    BY <1>2, KeyOfTaken DEF CaptureInv, FramesInv, KeysInv, ObjectsInv
  <2>2. c = key[f]
    BY <1>1, <1>4, <2>1 DEF Chunks, Expected
  <2>3. Speech!Record(f)
    BY <1>1, <1>4, <2>1, <2>2 DEF Speech!Record, Over
  <2>4. QED
    BY <1>2, <2>3 DEF Speech!Next
<1>5. QED
  BY <1>3, <1>4

\* Sessions end, each once, or all at once with the project.
LEMMA SessionsEnd ==
  ASSUME CaptureInv, DeleteProject \/ \E s \in Sessions : CreateSession(s) \/ StartSession(s)
                                                         \/ EndSession(s)
  PROVE  Speech!Next
<1>1. UNCHANGED <<key, late, object, chunk>>
  BY DEF DeleteProject, CreateSession, StartSession, EndSession, frame_vars, store_vars
<1>2. \A s \in Sessions : session_status[s] \in {"ended", "hidden"} =>
                         session_status'[s] \in {"ended", "hidden"}
  BY DEF DeleteProject, CreateSession, StartSession, EndSession, Status, CaptureInv, TypeOK
<1>3. Over \subseteq Over' /\ Over' \subseteq Sessions
  BY <1>2 DEF Over
<1>4. Speech!End
  BY <1>1, <1>3 DEF Speech!End, Over
<1>5. QED
  BY <1>4 DEF Speech!Next

LEMMA SpeechStep ==
  ASSUME CaptureInv, LedgerInv, [Next]_vars
  PROVE  Speech!Next \/ UNCHANGED speech_vars
<1>1. CASE UNCHANGED vars
  BY <1>1 DEF vars, frame_vars, api_vars, store_vars, speech_vars, Over
<1>2. CASE StartInterview \/ EndInterview \/ RecorderFails
  BY <1>2 DEF StartInterview, EndInterview, RecorderFails, frame_vars, api_vars, store_vars,
              speech_vars, Over
<1>3. ASSUME NEW w \in Connections,
             \/ \E s \in Sessions : OpenInterviewStream(s, w)
             \/ AcceptStream(w) \/ Break(w) \/ OnOpen(w) \/ OnError(w) \/ OnClose(w)
      PROVE  UNCHANGED speech_vars
  BY <1>3 DEF OpenInterviewStream, AcceptStream, Break, OnOpen, OnError, OnClose,
              frame_vars, api_vars, store_vars, speech_vars, Over
<1>4. ASSUME NEW f \in Frames, Presign(f) \/ Send(f) \/ Forget(f)
      PROVE  UNCHANGED speech_vars
  BY <1>4 DEF Presign, Send, Forget, frame_vars, api_vars, store_vars, speech_vars, Over
<1>5. QED
  BY <1>1, <1>2, <1>3, <1>4, CaptureTakes, UploadKeeps, ReceiveRecords, SessionsEnd
     DEF Next, PageStep, ApiStep, WorldStep

\* Page, network and API implement RecordedSpeech: sound is kept and recorded once, under
\* the number its frame was given, and never of a session that was over.
THEOREM CaptureKeepsSpeech == Spec => SpeechKept
<1>1. CaptureInv /\ LedgerInv /\ [Next]_vars => [Speech!Next]_(Speech!vars)
  <2> SUFFICES ASSUME CaptureInv, LedgerInv, [Next]_vars,
                      ~(UNCHANGED speech_vars)
               PROVE  Speech!Next
    BY DEF Speech!vars, speech_vars, Over
  <2>1. QED
    BY SpeechStep
<1>2. QED
  BY <1>1, SpeechInitially, CaptureInvHolds, LedgerInvHolds, PTL DEF Spec, SpeechKept, Speech!Spec

(***************************************************************************)
(* The rate limit of presign.                                              *)
(***************************************************************************)

\* In no minute does the API answer more presign calls of a session than the limit of
\* ordinary paths, whatever the voice limit.
PresignsWithinOrdinaryLimit == \A s \in Sessions : Cardinality(Recent(s)) <= ApiLimit

\* Only taken frames are counted, and finitely many.
CountedInv ==
  /\ IsFiniteSet(counted)
  /\ \A f \in counted : stage[f] # "unused"
  /\ PresignsWithinOrdinaryLimit

LEMMA CountedInitially == Init => CountedInv
<1> SUFFICES ASSUME Init PROVE CountedInv
  OBVIOUS
<1>1. counted = {} /\ \A s \in Sessions : Recent(s) = {}
  BY DEF Init, Recent
<1>2. IsFiniteSet({}) /\ Cardinality({}) = 0
  BY FS_EmptySet
<1>3. QED
  BY <1>1, <1>2, LimitAssumption DEF CountedInv, PresignsWithinOrdinaryLimit

\* The calls counted of a session are finitely many.
LEMMA RecentFinite ==
  ASSUME CountedInv, NEW s
  PROVE  IsFiniteSet(Recent(s)) /\ Cardinality(Recent(s)) \in Nat
  BY FS_Subset, FS_CardinalityType DEF CountedInv, Recent

LEMMA PresignCounted ==
  ASSUME TypeOK, CountedInv, NEW f \in Frames, Presign(f)
  PROVE  CountedInv'
<1> DEFINE s == key[f][1]
<1>1. /\ ~Throttled(s) /\ counted' = counted \cup {f} /\ key' = key
      /\ \A g \in counted \cup {f} : stage'[g] # "unused"
  BY DEF Presign, TypeOK, PageTypeOK, CountedInv
<1>2. IsFiniteSet(counted')
  BY <1>1, FS_AddElement DEF CountedInv
<1>3. ASSUME NEW r \in Sessions PROVE Cardinality(Recent(r)') <= ApiLimit
  <2>1. CASE r # s
    <3>1. Recent(r)' = Recent(r)
      BY <1>1, <2>1 DEF Recent
    <3>2. QED
      BY <3>1 DEF CountedInv, PresignsWithinOrdinaryLimit
  <2>2. CASE r = s
    <3>1. Recent(r)' = Recent(s) \cup {f}
      BY <1>1, <2>2 DEF Recent
    <3>2. IsFiniteSet(Recent(s)) /\ Cardinality(Recent(s)) \in Nat
      BY RecentFinite
    <3>3. Cardinality(Recent(s) \cup {f}) \in {Cardinality(Recent(s)), Cardinality(Recent(s)) + 1}
      BY <3>2, FS_AddElement
    <3>4. Cardinality(Recent(s)) < ApiLimit
      BY <1>1, <3>2, LimitAssumption DEF Throttled, PathLimit
    <3>5. QED
      BY <3>1, <3>2, <3>3, <3>4, LimitAssumption
  <2>3. QED
    BY <2>1, <2>2
<1>4. QED
  BY <1>1, <1>2, <1>3 DEF CountedInv, PresignsWithinOrdinaryLimit

\* The other steps count no call: some forget one, one gives a key to a frame not counted.
LEMMA OthersCounted ==
  ASSUME TypeOK, CountedInv, counted' \subseteq counted,
         \A f \in counted : stage'[f] # "unused" /\ key'[f] = key[f]
  PROVE  CountedInv'
<1>1. IsFiniteSet(counted')
  BY FS_Subset DEF CountedInv
<1>2. ASSUME NEW s \in Sessions PROVE Cardinality(Recent(s)') <= ApiLimit
  <2>1. Recent(s)' \subseteq Recent(s)
    BY DEF Recent
  <2>2. Cardinality(Recent(s)') <= Cardinality(Recent(s)) /\ Cardinality(Recent(s)') \in Nat
    BY <2>1, RecentFinite, FS_Subset, FS_CardinalityType
  <2>3. QED
    BY <2>2, RecentFinite, LimitAssumption DEF CountedInv, PresignsWithinOrdinaryLimit
<1>3. QED
  BY <1>1, <1>2 DEF CountedInv, PresignsWithinOrdinaryLimit

LEMMA CountedKept == TypeOK /\ CountedInv /\ [Next]_vars => CountedInv'
<1> SUFFICES ASSUME TypeOK, CountedInv, [Next]_vars PROVE CountedInv'
  OBVIOUS
<1>1. ASSUME NEW f \in Frames, CaptureFrame(f) \/ Upload(f) \/ Send(f) \/ Forget(f)
      PROVE  CountedInv'
  <2>1. counted' \subseteq counted
    BY <1>1 DEF CaptureFrame, Upload, Send, Forget, store_vars
  <2>2. \A g \in counted : stage'[g] # "unused" /\ key'[g] = key[g]
    BY <1>1 DEF CaptureFrame, Upload, Send, Forget, frame_vars, CountedInv, TypeOK, PageTypeOK
  <2>3. QED
    BY <2>1, <2>2, OthersCounted
<1>2. CASE UNCHANGED <<frame_vars, store_vars>>
  BY <1>2, OthersCounted DEF frame_vars, store_vars, CountedInv
<1>3. CASE UNCHANGED vars
  BY <1>2, <1>3 DEF vars
<1>4. CASE StartInterview \/ EndInterview \/ RecorderFails \/ DeleteProject
  BY <1>2, <1>4 DEF StartInterview, EndInterview, RecorderFails, DeleteProject
<1>5. ASSUME NEW w \in Connections,
             \/ \E s \in Sessions : OpenInterviewStream(s, w)
             \/ AcceptStream(w) \/ Break(w) \/ OnOpen(w) \/ OnError(w) \/ OnClose(w)
             \/ Receive(w)
      PROVE  CountedInv'
  BY <1>2, <1>5 DEF OpenInterviewStream, AcceptStream, Break, OnOpen, OnError, OnClose, Receive
<1>6. ASSUME NEW s \in Sessions, CreateSession(s) \/ StartSession(s) \/ EndSession(s)
      PROVE  CountedInv'
  BY <1>2, <1>6 DEF CreateSession, StartSession, EndSession
<1>7. QED
  BY <1>1, <1>3, <1>4, <1>5, <1>6, PresignCounted DEF Next, PageStep, ApiStep, WorldStep

\* The page's frames pass the API at the rate of ordinary calls: however high the voice
\* limit is, it is never what turns a frame away at presign.
THEOREM OrdinaryLimitGoverns == Spec => []PresignsWithinOrdinaryLimit
<1>1. CountedInv => PresignsWithinOrdinaryLimit
  BY DEF CountedInv
<1>2. QED
  BY <1>1, CountedInitially, CountedKept, CaptureTypeCorrect, PTL DEF Spec
=============================================================================
