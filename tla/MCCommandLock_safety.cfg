SPECIFICATION FairSpec
CONSTANTS
  Proc = {p1, p2}
  Inode = {i1, i2, i3, i4}
  Cmd = {"backup", "stanza", "delete"}
  StopFile = {"all"}
  NoInode = NoInode
  NoProc = NoProc
INVARIANTS TypeOK ExclusiveUnlessRaced LocksHaveLiveOwners StopBlocks
PROPERTY CommandsEnd
