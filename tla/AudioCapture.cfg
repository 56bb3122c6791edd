SPECIFICATION Spec
CONSTANTS
  Sessions = {s1, s2}
  Connections = {w1, w2}
  Frames = {f1, f2}
  NoSession = NoSession
  NoConnection = NoConnection
  NoFrame = NoFrame
  ApiLimit = 1
  VoiceLimit = 2
  LastNumber = 1
SYMMETRY Symmetry
INVARIANTS
  ChunksAreTheirFrames
  OneStream
  LateFramesUnheard
PROPERTIES
  SpeechKept
CHECK_DEADLOCK FALSE
