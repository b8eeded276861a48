SPECIFICATION Spec
CONSTANTS
  Main = Main
  Co = {co1}
  Features = {"sort", "wrap", "dofile"}
  MaxCcalls = 200
  ExtraCcalls = 25
  MaxFrames <- Deep
  MaxCount = 200
INVARIANTS NnyBalanced DepthCounted NoLostResult
PROPERTIES CompletesOnlyWhenDone FirstErrorStops
