\* Three hooks, one lock path, every combination of the three modes.  Four
\* inodes: one per open descriptor and one for the path.
SPECIFICATION FairSpec
CONSTANTS
  Procs = {p1, p2, p3}
  Inodes = {i1, i2, i3, i4}
  NoInode = NoInode
  NoProc = NoProc
  Modes <- AllModes
INVARIANTS TypeOK NoStrandedLock MutualExclusion
PROPERTY NoEndlessWait
