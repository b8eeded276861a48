------------------------------ MODULE Frontend ------------------------------
(***************************************************************************)
(* State::load_string: parse, analyse, lower.                              *)
(***************************************************************************)
EXTENDS Parser, Sema, Lowering

Failed == Finished([NewFunc(0, TRUE) EXCEPT !.failed = TRUE])

load_string(toks) ==
  LET chunk == parse_chunk(toks)
  IN IF chunk.ok /\ sema_analyze(chunk.body) THEN LowerChunk(chunk.body) ELSE Failed
=============================================================================
