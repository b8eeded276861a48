SPECIFICATION Spec
CONSTANTS
  Tables = {t1}
  Userdata = {u1}
  Closures = {c1}
  Reg = {r1, r2}
  StrKey = {gcname}
  KeyObj = {u1}
  GcName = gcname
  PrimKey = {}
  ArrKey = {}
  Modes <- WeakValueModes
  Options = {"collect"}
  MaxLinks = 4
  Nil = Nil
  Unused = Unused
INVARIANTS TypeOK NoDangling FinalizesOnlyUnreachable
PROPERTIES FinalizeOnce FinalizedBeforeFree FreesExactlyGarbage WeakValuesDropped
SYMMETRY Symmetry
