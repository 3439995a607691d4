\* One request pushed and sent.
CONSTANTS
  Frames <- MCFrames
  QueueLen = 2
  MaxPushes = 1
  Args = {"load"}
  None = None
SPECIFICATION Spec
INVARIANT SendWithinBuffer
