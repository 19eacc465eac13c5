\* Two messages of any kinds over one connection; a send takes, and TCP
\* delivers, either a whole run of bytes or its first 16 bytes, and a run
\* of 4 bytes (a length prefix) may also be cut after 2.  The FAST
\* cipher works in chunks of 8 bytes, so each frame of 29 or 31 bytes
\* takes three key updates, as a 64 KiB FileData takes 63 with 1024.
CONSTANTS
  Messages <- MC_Messages
  CodecCases <- MC_CodecCases
  MaxMsgs <- MC_MaxMsgs
  Segment = 16
  ShortCut = 2
  Garbage <- MC_Garbage
  FastKey <- MC_FastKey
  ChunkSize = 8
SPECIFICATION Spec
\* The connection ends: the sender has closed and the receiver has seen it.
CHECK_DEADLOCK FALSE
INVARIANTS
  TypeOK
  ReceivedAreSent
  CodecRoundTrip
PROPERTIES
  SentEventuallyReceived
