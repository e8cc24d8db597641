\* sio.c:512: LF is mapped to CR LF.
SPECIFICATION Spec
CONSTANTS
  BufSize = 2
  MaxRun = 2
  Keys = {"a"}
  Text = {"a", "lf"}
  Lengths = {1}
  MaxWrite = 2
  MaxWaiting = 1
PROPERTIES LineFeedFollows
