SPECIFICATION Spec
CONSTANTS
  Tables = {t1, t2}
  Userdata = {}
  Closures = {c1}
  Reg = {r1, r2}
  StrKey = {gcname}
  KeyObj = {t1, t2}
  GcName = gcname
  PrimKey = {}
  ArrKey = {}
  Modes <- EphemeronModes
  Options = {"collect"}
  MaxLinks = 4
  Nil = Nil
  Unused = Unused
PROPERTIES FreesExactlyGarbage WeakKeysKept
CONSTRAINT FirstCycle
SYMMETRY Symmetry
