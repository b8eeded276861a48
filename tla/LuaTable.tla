------------------------------ MODULE LuaTable ------------------------------
(***************************************************************************)
(* One Lua table: array part, open-addressing hash part with tombstones,   *)
(* rehash, the cache of absent metamethods, `next` and `#`.                *)
(* From src/src/runtime/table.cpp, vm/meta.cpp (get_tm, table_length) and  *)
(* lib/lbaselib.cpp (base_next).                                           *)
(*                                                                         *)
(* Keys are normalised (key_as_integer): an integer is itself, any other   *)
(* key a member of ObjKey. The numbers 64 (largest index the array part    *)
(* grows to) and 8 (smallest hash part) are the parameters ArrayLimit and  *)
(* MinHash. Where a key hashes to is a parameter too: `home` is any of     *)
(* HashFns, chosen once.                                                   *)
(***************************************************************************)
EXTENDS Integers, Sequences, FiniteSets, FiniteSetsExt

CONSTANTS
    IntKey,      \* the integer keys in use
    ObjKey,      \* the other keys in use
    TmName,      \* those of ObjKey that are metamethod names ("__index", ...)
    Val,
    HashFns,     \* functions from keys to numbers
    ArrayHints,  \* array sizes table_new is called with
    ArrayLimit, MinHash,
    MaxHash,     \* bound: size of the hash part
    Nil, Free    \* Free as a key: the slot is not `used`

Key == IntKey \cup ObjKey

ASSUME TableAssumption ==
    /\ IntKey \subseteq Int /\ IsFiniteSet(IntKey) /\ IntKey \cap ObjKey = {} /\ TmName \subseteq ObjKey
    /\ Nil \notin Key \cup Val /\ Free \notin Key \cup Val /\ Nil # Free
    /\ HashFns \subseteq [Key -> Nat]
    /\ ArrayHints \subseteq Nat
    /\ ArrayLimit \in Nat /\ MinHash \in Nat \ {0} /\ MaxHash \in Nat

VARIABLES
    home,     \* hash_key
    array,    \* Table::array
    hash,     \* Table::hash, a sequence of nodes [key, value]
    old,      \* rehash()'s old_hash, from the node it looks at next
    pending,  \* the assignment that waits for rehash(): <<key, value>> or <<>>
    noTm,     \* opt_flags: metamethod names cached as absent
    cursor,   \* last key `next` returned, Nil at the start, Free: no traversal
    visited,  \* keys the traversal has returned
    expected  \* keys it has to return: present since its start

table == <<array, hash, old, pending>>
trav  == <<cursor, visited, expected>>
vars  == <<home, table, noTm, trav>>

Node(k, v) == [key |-> k, value |-> v]
FreeNodes(n) == [i \in 1..n |-> Node(Free, Nil)]

\* the sizes table_new gives the hash part: MinHash, or with a hash_hint any power of 2
NewSizes == {MinHash} \cup {n \in 1..MaxHash : \E e \in 0..n : n = 2^e}

Init ==
    /\ home \in HashFns
    /\ \E n \in ArrayHints : array = [i \in 1..n |-> Nil]
    /\ \E n \in NewSizes : hash = FreeNodes(n)
    /\ old = <<>> /\ pending = <<>>
    /\ noTm = {}
    /\ cursor = Free /\ visited = {} /\ expected = {}

-----------------------------------------------------------------------------
(* Probing *)

InArray(k) == k \in IntKey /\ k >= 1 /\ k <= Len(array)

\* the slot of the i-th probe for k
Probe(h, k, i) == ((home[k] + i) % Len(h)) + 1

\* the probe at which a search for k stops: the first one that meets an unused
\* slot or a node with key k; Len(h) if there is none
StopAt(h, k) ==
    Min({Len(h)} \cup {i \in 0..(Len(h) - 1) : h[Probe(h, k, i)].key \in {Free, k}})

SlotOf(h, k) == Probe(h, k, StopAt(h, k))
Found(h, k) == StopAt(h, k) < Len(h) /\ h[SlotOf(h, k)].key = k

\* Table::get
Get(k) ==
    IF InArray(k) THEN array[k]
    ELSE IF Found(hash, k) THEN hash[SlotOf(hash, k)].value ELSE Nil

\* the slots before the stop whose node has no value: deleted, to be reused
Tombs(h, k) == {i \in 0..(StopAt(h, k) - 1) : h[Probe(h, k, i)].value = Nil}

\* where Table::set puts a key that is not there; 0 when the part is full
Target(h, k) ==
    LET tombs == Tombs(h, k) IN
    IF tombs # {} THEN Probe(h, k, Min(tombs))
    ELSE IF StopAt(h, k) < Len(h) THEN SlotOf(h, k) ELSE 0

-----------------------------------------------------------------------------
(* Assignment *)

\* the sizes rehash(array.size(), 2 * hash.size()) could give the hash part: it
\* takes the smallest
Items ==
    Cardinality({i \in DOMAIN array : array[i] # Nil})
    + Cardinality({i \in DOMAIN hash : hash[i].value # Nil})
HashSizes == {n \in MinHash..MaxHash : \E e \in 0..n : n = MinHash * 2^e}
\* mutant: room for the items there are, not for the one that is coming
RoomyTight == {n \in HashSizes : n >= Items}
Roomy == {n \in HashSizes : n >= 2 * Len(hash) /\ n >= Items + 1}

\* mutants of Assigned: the array part grows by one key whatever the limit; a nil
\* value erases the node's key
AssignedGrows(k, v) ==
    IF k \in IntKey /\ k >= 1 /\ k <= Len(array) + 1
    THEN /\ array' = [i \in 1..(IF k > Len(array) THEN k ELSE Len(array)) |->
                         IF i = k THEN v ELSE array[i]]
         /\ UNCHANGED hash
    ELSE /\ UNCHANGED array
         /\ IF Found(hash, k)
            THEN hash' = [hash EXCEPT ![SlotOf(hash, k)].value = v]
            ELSE IF v = Nil \/ Target(hash, k) = 0 THEN UNCHANGED hash
            ELSE hash' = [hash EXCEPT ![Target(hash, k)] = Node(k, v)]
AssignedErases(k, v) ==
    IF InArray(k)
    THEN /\ array' = [array EXCEPT ![k] = v] /\ UNCHANGED hash
    ELSE /\ UNCHANGED array
         /\ IF Found(hash, k)
            THEN hash' = [hash EXCEPT ![SlotOf(hash, k)] =
                             IF v = Nil THEN Node(Nil, Nil) ELSE Node(k, v)]
            ELSE IF v = Nil THEN UNCHANGED hash
            ELSE hash' = [hash EXCEPT ![Target(hash, k)] = Node(k, v)]

\* the parts that set(k, v) assigns when it needs no rehash
Assigned(k, v) ==
    IF InArray(k)
    THEN /\ array' = [array EXCEPT ![k] = v] /\ UNCHANGED hash
    ELSE IF k \in IntKey /\ k >= 1 /\ k <= ArrayLimit     \* set_int grows the array
    THEN /\ array' = [i \in 1..k |-> IF i = k THEN v
                                     ELSE IF i <= Len(array) THEN array[i] ELSE Nil]
         /\ UNCHANGED hash
    ELSE /\ UNCHANGED array
         /\ IF Found(hash, k)
            THEN hash' = [hash EXCEPT ![SlotOf(hash, k)].value = v]
            ELSE IF v = Nil THEN UNCHANGED hash
            ELSE hash' = [hash EXCEPT ![Target(hash, k)] = Node(k, v)]

NeedsRehash(k, v) ==
    /\ v # Nil /\ ~InArray(k) /\ ~(k \in IntKey /\ k >= 1 /\ k <= ArrayLimit)
    /\ ~Found(hash, k) /\ Target(hash, k) = 0

\* assigning to an absent field during a traversal ends it (undefined in Lua)
Traversed(k, v) ==
    IF v = Nil
    THEN expected' = expected \ {k} /\ UNCHANGED <<cursor, visited>>
    ELSE IF Get(k) = Nil
    THEN cursor' = Free /\ visited' = {} /\ expected' = {}
    ELSE UNCHANGED trav

\* mutant: the cache of absent metamethods survives an assignment
SetKeepsCache(k, v) ==
    /\ pending = <<>> /\ ~NeedsRehash(k, v)
    /\ Assigned(k, v)
    /\ Traversed(k, v)
    /\ UNCHANGED <<home, old, pending, noTm>>

Set(k, v) ==
    /\ pending = <<>> /\ ~NeedsRehash(k, v)
    /\ Assigned(k, v)
    /\ noTm' = IF k \in TmName THEN {} ELSE noTm
    /\ Traversed(k, v)
    /\ UNCHANGED <<home, old, pending>>

\* set finds neither a free nor a deleted slot: rehash, then set again
BeginRehash(k, v) ==
    /\ pending = <<>> /\ NeedsRehash(k, v) /\ Roomy # {}
    /\ pending' = <<k, v>>
    /\ old' = hash
    /\ hash' = FreeNodes(Min(Roomy))
    /\ noTm' = IF k \in TmName THEN {} ELSE noTm
    /\ Traversed(k, v)
    /\ UNCHANGED <<home, array>>

\* mutants of RehashOne: a node goes to its first slot, free or not; the loop does
\* not advance
RehashOneHome ==
    /\ old # <<>>
    /\ hash' = IF Head(old).value = Nil THEN hash
               ELSE [hash EXCEPT ![Probe(hash, Head(old).key, 0)] = Head(old)]
    /\ old' = Tail(old)
    /\ UNCHANGED <<home, array, pending, noTm, trav>>
RehashOneStuck ==
    /\ old # <<>>
    /\ hash' = IF Head(old).value = Nil THEN hash
               ELSE [hash EXCEPT ![SlotOf(hash, Head(old).key)] = Head(old)]
    /\ UNCHANGED <<home, array, old, pending, noTm, trav>>

\* one turn of rehash()'s loop over old_hash: a node with a value goes through
\* raw_insert; with no slot the code panics "rehash: hash full". The array part is
\* assigned to itself.
RehashOne ==
    /\ old # <<>>
    /\ LET n == Head(old) IN
       IF n.value = Nil THEN UNCHANGED <<array, hash>>
       ELSE IF InArray(n.key)
       THEN array' = [array EXCEPT ![n.key] = n.value] /\ UNCHANGED hash
       ELSE /\ StopAt(hash, n.key) < Len(hash)
            /\ hash' = [hash EXCEPT ![SlotOf(hash, n.key)] = n]
            /\ UNCHANGED array
    /\ old' = Tail(old)
    /\ UNCHANGED <<home, pending, noTm, trav>>

EndRehash ==
    /\ pending # <<>> /\ old = <<>>
    /\ ~NeedsRehash(pending[1], pending[2])
    /\ Assigned(pending[1], pending[2])
    /\ pending' = <<>>
    /\ UNCHANGED <<home, old, noTm, trav>>

-----------------------------------------------------------------------------
(* The collector clears weak entries; metamethod lookup; next; length *)

\* mutant: the slot of a dead key becomes unused
ClearWeakKeyFrees(k) ==
    /\ pending = <<>> /\ k \in ObjKey \ TmName /\ k # cursor /\ Found(hash, k)
    /\ hash' = [hash EXCEPT ![SlotOf(hash, k)] = Node(Free, Nil)]
    /\ expected' = expected \ {k}
    /\ UNCHANGED <<home, array, old, pending, noTm, cursor, visited>>

\* clear_weak_entries: a dead key becomes nil and its slot stays used; the key
\* `next` was called with is on the stack and cannot be dead
ClearWeakKey(k) ==
    /\ pending = <<>> /\ k \in ObjKey \ TmName /\ k # cursor /\ Found(hash, k)
    /\ hash' = [hash EXCEPT ![SlotOf(hash, k)] = Node(Nil, Nil)]
    /\ expected' = expected \ {k}
    /\ UNCHANGED <<home, array, old, pending, noTm, cursor, visited>>

ClearWeakValue(k) ==
    /\ pending = <<>> /\ Get(k) # Nil
    /\ IF InArray(k) THEN array' = [array EXCEPT ![k] = Nil] /\ UNCHANGED hash
       ELSE hash' = [hash EXCEPT ![SlotOf(hash, k)].value = Nil] /\ UNCHANGED array
    /\ expected' = expected \ {k}
    /\ UNCHANGED <<home, old, pending, noTm, cursor, visited>>

\* get_tm: an absent metamethod is remembered
GetTm(e) ==
    /\ pending = <<>> /\ e \notin noTm /\ Get(e) = Nil
    /\ noTm' = noTm \cup {e}
    /\ UNCHANGED <<home, table, trav>>

BeginTraversal ==
    /\ pending = <<>> /\ cursor = Free
    /\ cursor' = Nil /\ visited' = {}
    /\ expected' = {k \in Key : Get(k) # Nil}
    /\ UNCHANGED <<home, table, noTm>>

\* base_next: positions 1..Len(array) are the array, the rest the hash part
Size == Len(array) + Len(hash)
KeyAt(p) == IF p <= Len(array) THEN p ELSE hash[p - Len(array)].key
ValueAt(p) == IF p <= Len(array) THEN array[p] ELSE hash[p - Len(array)].value
Surfaces(p) ==
    ValueAt(p) # Nil /\ (p > Len(array) => KeyAt(p) # Free /\ ~InArray(KeyAt(p)))

\* the positions that hold the cursor; none: "invalid key to 'next'"
CursorAt ==
    IF cursor = Nil THEN {0}
    ELSE IF InArray(cursor) THEN {cursor}
    ELSE {p \in (Len(array) + 1)..Size : KeyAt(p) = cursor}

\* mutant: the slot after the cursor is skipped
NextPositionsSkip == {p \in (Min(CursorAt) + 2)..Size : Surfaces(p)}
NextPositions == {p \in (Min(CursorAt) + 1)..Size : Surfaces(p)}

NextStep ==
    /\ pending = <<>> /\ cursor # Free /\ CursorAt # {}
    /\ IF NextPositions = {}
       THEN cursor' = Free /\ visited' = {} /\ expected' = {}
       ELSE /\ cursor' = KeyAt(Min(NextPositions))
            /\ visited' = visited \cup {cursor'}
            /\ UNCHANGED expected
    /\ UNCHANGED <<home, table, noTm>>

\* table_length: down the array part, or up from its end through the hash part
LastInArray == Max({0} \cup {i \in DOMAIN array : array[i] # Nil})
LengthOfArray == LastInArray     \* mutant: the hash part is not looked at
Length ==
    IF LastInArray < Len(array) THEN LastInArray
    ELSE Min({n \in Len(array)..(Len(array) + Cardinality(IntKey)) :
                 n + 1 \notin IntKey \/ Get(n + 1) = Nil})

Next ==
    \/ \E k \in Key, v \in Val \cup {Nil} : Set(k, v) \/ BeginRehash(k, v)
    \/ RehashOne \/ EndRehash
    \/ \E k \in Key : ClearWeakKey(k) \/ ClearWeakValue(k)
    \/ \E e \in TmName : GetTm(e)
    \/ BeginTraversal \/ NextStep

Spec == Init /\ [][Next]_vars

FairSpec == Spec /\ WF_vars(RehashOne) /\ WF_vars(EndRehash)

-----------------------------------------------------------------------------
(* Properties *)

NodeSet == [key : Key \cup {Nil, Free}, value : Val \cup {Nil}]

\* every variable has its type
TypeOK ==
    /\ home \in HashFns
    /\ array \in Seq(Val \cup {Nil})
    /\ hash \in Seq(NodeSet) /\ Len(hash) >= 1
    /\ old \in Seq(NodeSet)
    /\ pending \in {<<>>} \cup (Key \X Val)
    /\ noTm \subseteq TmName
    /\ cursor \in Key \cup {Nil, Free} /\ visited \subseteq Key /\ expected \subseteq Key

\* every node is the one a search for its key finds: no key occurs twice, and no
\* insertion, deletion, reuse or rehash breaks a probe chain
ProbesFindNodes ==
    \A i \in DOMAIN hash : hash[i].key \in Key => StopAt(hash, hash[i].key) < Len(hash)
                                                /\ SlotOf(hash, hash[i].key) = i

\* no integer key is in both parts, so growing the array part hides no node
NoShadowedNode ==
    \A i \in DOMAIN hash : hash[i].key \in IntKey =>
        ~InArray(hash[i].key) /\ ~(hash[i].key \in 1..ArrayLimit)

\* rehash never panics "rehash: hash full", and the assignment that started it
\* finds a slot, so the recursive call of set does not rehash again
RehashFits ==
    /\ old # <<>> /\ Head(old).value # Nil => StopAt(hash, Head(old).key) < Len(hash)
    /\ pending # <<>> /\ old = <<>> => ~NeedsRehash(pending[1], pending[2])

\* a metamethod cached as absent is absent
TmCacheSound == \A e \in noTm : Get(e) = Nil

\* `next` finds the key it is called with, while fields are only updated, erased
\* or cleared by the collector
NextKeyValid == pending = <<>> /\ cursor # Free => CursorAt # {}

\* a traversal returns no key twice and misses none that stays in the table
TraversalComplete ==
    [][/\ cursor' # cursor /\ cursor' \in Key => cursor' \notin visited
       /\ cursor # Free /\ cursor' = Free /\ UNCHANGED table
             => expected \subseteq visited]_vars

\* `#t` is a border of the sequence part
LengthIsBorder ==
    pending = <<>> =>
        /\ Length \in IntKey /\ Length >= 1 => Get(Length) # Nil
        /\ Length + 1 \in IntKey => Get(Length + 1) = Nil

\* the map a table stands for; a node rehash has not inserted yet still counts
Contents ==
    [k \in Key |->
        IF InArray(k) THEN array[k]
        ELSE LET nodes == hash \o old
                 at == {i \in DOMAIN nodes : nodes[i].key = k}
             IN  IF at = {} THEN Nil ELSE nodes[CHOOSE i \in at : TRUE].value]

Map == INSTANCE LuaMap WITH map <- Contents, busy <- pending

\* the table implements the abstract map: each step changes at most one key, and
\* while an assignment rehashes nothing is lost and nothing changes but its key
MapSpec == Map!Spec

\* an assignment that has to rehash completes
AssignmentEnds == pending # <<>> ~> pending = <<>>
=============================================================================
