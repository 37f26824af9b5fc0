\* Two hooks of one session, three updates, every lock mode, with and without
\* init_state on a missing file and SessionEnd.
SPECIFICATION StateSpec
CONSTANTS
  Procs = {p1, p2}
  Inodes = {i1, i2, i3}
  NoInode = NoInode
  NoProc = NoProc
  Modes <- AllModes
  Count = Count
  Trace = Trace
  Text = Text
  Keys <- TwoKeys
  Words <- SomeWords
  Missing = Missing
  Ops <- SomeOps
  Absent = Absent
  Corrupt = Corrupt
  MaxOps = 3
INVARIANT StateTypeOK
PROPERTY AtomicUpdates
\* No hook has to run again once the bound is reached.
CHECK_DEADLOCK FALSE
