SPECIFICATION FairSpec
CONSTANTS
  Tables = {t1}
  Userdata = {}
  Closures = {c1}
  Reg = {r1, r2}
  StrKey = {gcname}
  KeyObj = {c1}
  GcName = gcname
  PrimKey = {}
  ArrKey = {a1}
  Modes <- StrongModes
  Options = {"collect", "step", "cycle", "error"}
  MaxLinks = 2
  Nil = Nil
  Unused = Unused
INVARIANTS HeapClosed BlackHoldsNoWhite
PROPERTY CollectionEnds
