\* Queue of two entries, four requests: evictions happen when the assistant
\* falls two requests behind.
CONSTANTS
  Frames <- MCFrames
  QueueLen = 2
  MaxPushes = 4
  Args = {"load", "force", "unload"}
  None = None
SPECIFICATION Spec
INVARIANT TypeOK
INVARIANT RequestsAccountedFor
PROPERTY EveryRequestHandled
