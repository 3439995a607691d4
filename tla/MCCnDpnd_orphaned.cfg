\* A supervisor restarts the daemon with the same command line whenever it
\* exits; failures are transient.  One frame kind and one request suffice.
CONSTANTS
  Frames <- MCFrames
  QueueLen = 2
  MaxPushes = 1
  Args = {"load"}
  None = None
SPECIFICATION SupervisedSpec
PROPERTY AttachedProgramServed
