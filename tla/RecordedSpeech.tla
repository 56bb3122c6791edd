--------------------------- MODULE RecordedSpeech ---------------------------
(***************************************************************************)
(* What the platform promises about the sound of an interview.  Every      *)
(* frame gets a key of its own, a session's numbers grow in the order of   *)
(* speaking, and the sound is kept and recorded under that key alone.      *)
(* Neither sound nor record is ever replaced, and what is spoken when a    *)
(* session is over is not kept.  Frames may be lost at every stage.        *)
(***************************************************************************)
EXTENDS Naturals

CONSTANTS
  Frames, Sessions, Numbers,
  NoFrame,  \* nothing
  NoKey     \* no session and number

VARIABLES
  taken,   \* the session and number of each frame
  over,    \* sessions that ended or were erased
  unheard, \* frames taken for a session that was over
  sound,   \* the frame whose sound is kept under each session and number
  record   \* the frame recorded under each session and number

vars == <<taken, over, unheard, sound, record>>

Keys == Sessions \X Numbers

Init ==
  /\ taken = [f \in Frames |-> NoKey]
  /\ over = {} /\ unheard = {}
  /\ sound = [c \in Keys |-> NoFrame]
  /\ record = [c \in Keys |-> NoFrame]

Take(f, c) ==
  /\ taken[f] = NoKey
  /\ \A g \in Frames : taken[g] # NoKey /\ taken[g][1] = c[1] => taken[g][2] < c[2]
  /\ taken' = [taken EXCEPT ![f] = c]
  /\ unheard' = IF c[1] \in over THEN unheard \cup {f} ELSE unheard
  /\ UNCHANGED <<over, sound, record>>

\* Sessions end, for good.
End ==
  /\ over \subseteq over' /\ over' \subseteq Sessions
  /\ UNCHANGED <<taken, unheard, sound, record>>

Keep(f) ==
  /\ taken[f] # NoKey /\ f \notin unheard
  /\ sound[taken[f]] = NoFrame
  /\ sound' = [sound EXCEPT ![taken[f]] = f]
  /\ UNCHANGED <<taken, over, unheard, record>>

Record(f) ==
  /\ taken[f] # NoKey
  /\ sound[taken[f]] = f /\ record[taken[f]] = NoFrame
  /\ record' = [record EXCEPT ![taken[f]] = f]
  /\ UNCHANGED <<taken, over, unheard, sound>>

Next ==
  \/ End
  \/ \E f \in Frames, c \in Keys : Take(f, c)
  \/ \E f \in Frames : Keep(f) \/ Record(f)

Spec == Init /\ [][Next]_vars
=============================================================================
