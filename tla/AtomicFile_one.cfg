SPECIFICATION Spec
CONSTANTS
  Writers = {logger}
  Chunks = 3
  Inodes = {i1, i2, i3}
  NoInode = NoInode
  MaxDocuments = 3
INVARIANT VisibleIsDurable
PROPERTY OnlyNewer
