SPECIFICATION FairSpec
CONSTANTS
  BufSize = 2
  MaxRun = 2
  Keys = {"a", "cr"}
  Text = {"a", "b"}
  Lengths = {1, 2, 3}
  MaxWrite = 4
  MaxWaiting = 2
INVARIANT DriverConsistent
PROPERTIES NoOverrun ImplementsLine
