-------------------------------- MODULE MCGc --------------------------------
(* Small instances of Gc for TLC. *)
EXTENDS Gc, TLC

StrongModes    == {{}}
WeakValueModes == {{}, {"v"}, {"k", "v"}}
EphemeronModes == {{}, {"k"}}

\* bound: one collection, up to the end of its sweep loop
FirstCycle == white = "white0"

Symmetry == Permutations(Tables) \cup Permutations(Reg)
=============================================================================
