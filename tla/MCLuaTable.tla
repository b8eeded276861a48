----------------------------- MODULE MCLuaTable -----------------------------
(* Small instances of LuaTable for TLC. *)
EXTENDS LuaTable

\* every way in which the keys of the hash part can collide, follow each other in
\* a probe chain and wrap around a part of 2 or 4 slots (key 1 is never in it)
Hashes == {h \in [Key -> {0, 1, 3}] : h[1] = 0}
=============================================================================
