SPECIFICATION Spec
CONSTANTS
  Main = Main
  Co = {co1, co2}
  Features = {"xpcall", "sort"}
  MaxCcalls = 7
  ExtraCcalls = 2
  MaxFrames <- Chained
  MaxCount = 7
SYMMETRY Symmetry
INVARIANT StatusMatchesChain
