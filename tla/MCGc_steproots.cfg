SPECIFICATION Spec
CONSTANTS
  Tables = {t1}
  Userdata = {}
  Closures = {}
  Reg = {r1}
  StrKey = {gcname}
  KeyObj = {}
  GcName = gcname
  PrimKey = {}
  ArrKey = {}
  Modes <- StrongModes
  Options = {"step"}
  MaxLinks = 1
  Nil = Nil
  Unused = Unused
INVARIANT NoDangling
