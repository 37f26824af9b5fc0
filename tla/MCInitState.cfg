\* Two hooks of one session, one update, a lock that excludes, init_state
\* on a missing file.
SPECIFICATION StateSpec
CONSTANTS
  Procs = {p1, p2}
  Inodes = {i1, i2, i3}
  NoInode = NoInode
  NoProc = NoProc
  Modes <- StrictMode
  Count = Count
  Trace = Trace
  Text = Text
  Keys <- TwoKeys
  Words <- SomeWords
  Missing = Missing
  Ops <- SomeOps
  Absent = Absent
  Corrupt = Corrupt
  MaxOps = 1
PROPERTY InitKeepsContent
\* No hook has to run again once the bound is reached.
CHECK_DEADLOCK FALSE
