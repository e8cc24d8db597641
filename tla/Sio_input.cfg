\* sio.c:166: a received character is stored if there is room.
SPECIFICATION Spec
CONSTANTS
  BufSize = 2
  MaxRun = 3
  Keys = {"a"}
  Text = {"a"}
  Lengths = {1}
  MaxWrite = 1
  MaxWaiting = 1
PROPERTIES StoredInBuffer
