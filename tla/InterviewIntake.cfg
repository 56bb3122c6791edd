\* One session fed by REST and one stream, three chunks where two fit in a minute, two
\* photos for one place; the purge is due within the clock.
SPECIFICATION Spec
CONSTANTS
  Photos = {p1, p2}
  Sessions = {s1}
  SequenceNumbers = {0, 1, 2}
  Streams = {w1}
  Consents = {k1}
  NoSession = NoSession
  MinPhotos = 1
  MaxPhotos = 1
  MaxChunks = 2
  Minute = 2
  Retention = 2
  LastTime = 3
SYMMETRY Symmetry
CHECK_DEADLOCK FALSE
INVARIANTS
  WithinVoiceLimit
  RecordingsWereAgreed
  PurgeTakesOlderRecords
  OnlyOpenStreamsOutliveDeletion
