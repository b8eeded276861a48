------------------------------- MODULE LuaMap -------------------------------
(***************************************************************************)
(* What a Lua table promises: a partial map from keys to values. A step    *)
(* changes the value of one key (an assignment, or the collector dropping  *)
(* an entry of a weak table). An assignment may also take several steps;   *)
(* the map then stays as it is until the last of them.                     *)
(***************************************************************************)
EXTENDS Sequences

CONSTANTS Key, Val, Nil

VARIABLES
    map,
    busy    \* the assignment under way, <<key, value>>, or <<>>

Init == map = [k \in Key |-> Nil] /\ busy = <<>>

Put(k) ==
    /\ busy = <<>>
    /\ map'[k] \in Val \cup {Nil}
    /\ map' = [map EXCEPT ![k] = map'[k]]
    /\ UNCHANGED busy

BeginPut ==
    /\ busy = <<>> /\ busy' \in Key \X Val
    /\ map[busy'[1]] = Nil
    /\ UNCHANGED map

EndPut ==
    /\ busy # <<>>
    /\ map' = [map EXCEPT ![busy[1]] = busy[2]]
    /\ busy' = <<>>

Next ==
    \/ \E k \in {j \in Key : map'[j] # map[j]} : Put(k)
    \/ BeginPut
    \/ EndPut

Spec == Init /\ [][Next]_<<map, busy>>
=============================================================================
