SPECIFICATION Spec
CONSTANTS
  Proc = {p1, p2}
  Inode = {i1, i2, i3, i4, i5}
  Cmd = {"backup"}
  StopFile = {}
  NoInode = NoInode
  NoProc = NoProc
INVARIANT MutualExclusion
