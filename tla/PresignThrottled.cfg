SPECIFICATION Spec
CONSTANTS
  Sessions = {s1}
  Connections = {w1}
  Frames = {f1}
  NoSession = NoSession
  NoConnection = NoConnection
  NoFrame = NoFrame
  ApiLimit = 1
  VoiceLimit = 2
  LastNumber = 0
INVARIANT VoiceLimitGoverns
CHECK_DEADLOCK FALSE
