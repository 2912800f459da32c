SPECIFICATION Spec
CONSTANTS
  f1 = f1
  f2 = f2
  h1 = h1
  Commands = {c1, c2}
  Names = {h1, h2}
  Foreign = {f1, f2}
  MaxBegun = 3
  Inodes = {i1, i2, i3, i4}
  NoFile = NoFile
  Initial <- SomeFiles
CHECK_DEADLOCK FALSE
SYMMETRY Symmetry
INVARIANTS
  TypeOK
  AtomicWhenAlone
  TwoAtOnceKeepForeignLines
PROPERTIES
  SyncTakesEffect
