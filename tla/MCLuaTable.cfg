SPECIFICATION FairSpec
CONSTANTS
  IntKey = {1, 2}
  ObjKey = {s1, tm}
  TmName = {tm}
  Val = {v1}
  HashFns <- Hashes
  ArrayHints = {0, 2}
  ArrayLimit = 1
  MinHash = 2
  MaxHash = 4
  Nil = Nil
  Free = Free
INVARIANTS ProbesFindNodes NoShadowedNode RehashFits TmCacheSound NextKeyValid LengthIsBorder
PROPERTIES TraversalComplete MapSpec AssignmentEnds
