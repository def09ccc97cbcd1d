SPECIFICATION FairSpec
CONSTANTS
  Progs = {"pipe", "ipc"}
  Lines <- LinesHere
INVARIANT NothingLost
PROPERTIES Connects BothEnd
\* Violated by the code, in the place of the properties, with Progs = {"ipc"}
\* and Lines <- OneLine:
\* INVARIANT AllShown
\* PROPERTY QueueRemoved
