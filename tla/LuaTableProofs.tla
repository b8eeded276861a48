--------------------------- MODULE LuaTableProofs ---------------------------
(***************************************************************************)
(* Proofs about the table of module LuaTable, for every set of keys, hash  *)
(* function and size.                                                      *)
(***************************************************************************)
EXTENDS LuaTable, ProofFacts

Hashes == {h \in Seq(NodeSet) : Len(h) >= 1}

-----------------------------------------------------------------------------
(* Probing *)

\* A probe is a slot of the hash part, different probes of a search are different
\* slots, and a search reaches every slot.
LEMMA ProbeFacts ==
    ASSUME NEW h \in Hashes, NEW k \in Key, home \in HashFns
    PROVE  /\ Len(h) \in Nat \ {0} /\ DOMAIN h = 1..Len(h)
           /\ \A i \in Nat : Probe(h, k, i) \in 1..Len(h)
           /\ \A i, j \in 0..(Len(h) - 1) : Probe(h, k, i) = Probe(h, k, j) => i = j
           /\ \A s \in 1..Len(h) : \E i \in 0..(Len(h) - 1) : Probe(h, k, i) = s
<1> DEFINE n == Len(h)  a == home[k]
<1>1. n \in Nat \ {0} /\ DOMAIN h = 1..n /\ a \in Nat
  BY TableAssumption DEF Hashes
<1> HIDE DEF n, a
<1>2. \A i \in Nat : (a + i) % n \in 0..(n - 1)
  BY <1>1
<1>3. ASSUME NEW i \in 0..(n - 1), NEW j \in 0..(n - 1),
             ((a + i) % n) + 1 = ((a + j) % n) + 1
      PROVE  i = j
  <2>1. (a + i) % n = (a + j) % n
    BY <1>1, <1>2, <1>3
  <2> QED BY <1>1, <2>1, ModInjective
<1>4. ASSUME NEW s \in 1..n
      PROVE  \E i \in 0..(n - 1) : ((a + i) % n) + 1 = s
  <2>1. s - 1 \in 0..(n - 1)
    BY <1>1
  <2>2. PICK i \in 0..(n - 1) : (a + i) % n = s - 1
    BY <1>1, <2>1, ModOnto
  <2> QED BY <2>2
<1>5. \A i \in Nat : Probe(h, k, i) = ((a + i) % n) + 1
  BY DEF Probe, n, a
<1>6. ASSUME NEW i \in Nat PROVE Probe(h, k, i) \in 1..n
  <2> DEFINE r == (a + i) % n
  <2>1. r \in 0..(n - 1) /\ Probe(h, k, i) = r + 1
    BY <1>2, <1>5
  <2> HIDE DEF r
  <2> QED BY <1>1, <2>1
<1>7. ASSUME NEW i \in 0..(n - 1), NEW j \in 0..(n - 1), Probe(h, k, i) = Probe(h, k, j)
      PROVE  i = j
  <2>1. i \in Nat /\ j \in Nat
    BY <1>1
  <2> QED BY <1>3, <1>5, <1>7, <2>1
<1>8. ASSUME NEW s \in 1..n PROVE \E i \in 0..(n - 1) : Probe(h, k, i) = s
  <2>1. PICK i \in 0..(n - 1) : ((a + i) % n) + 1 = s
    BY <1>4
  <2>2. i \in Nat
    BY <1>1
  <2> QED BY <1>5, <2>1, <2>2
<1> QED BY <1>1, <1>6, <1>7, <1>8 DEF n

Stopper(h, k, i) == h[Probe(h, k, i)].key \in {Free, k}

\* A search stops at the first probe that meets an unused slot or its key.
LEMMA StopAtFacts ==
    ASSUME NEW h \in Hashes, NEW k \in Key, home \in HashFns
    PROVE  /\ StopAt(h, k) \in 0..Len(h)
           /\ \A i \in 0..(StopAt(h, k) - 1) : ~Stopper(h, k, i)
           /\ StopAt(h, k) < Len(h) => Stopper(h, k, StopAt(h, k))
           /\ SlotOf(h, k) \in 1..Len(h)
<1> DEFINE S == {i \in 0..(Len(h) - 1) : Stopper(h, k, i)}
           T == {Len(h)} \cup S
<1>1. Len(h) \in Nat \ {0}
  BY ProbeFacts
<1>2. T \subseteq Nat /\ T # {}
  BY <1>1
<1>3. StopAt(h, k) = Min(T)
  BY DEF StopAt, Stopper
<1>4. Min(T) \in T /\ \A y \in T : Min(T) <= y
  BY <1>2, MinNat, Zenon
<1> DEFINE m == Min(T)
<1> HIDE DEF m
<1>5. m \in T /\ \A y \in T : m <= y
  BY <1>4 DEF m
<1>6. m \in 0..Len(h)
  BY <1>1, <1>5
<1>7. \A i \in 0..(m - 1) : ~Stopper(h, k, i)
  BY <1>1, <1>5, <1>6
<1>8. m < Len(h) => Stopper(h, k, m)
  BY <1>1, <1>5
<1>9. SlotOf(h, k) \in 1..Len(h)
  BY <1>3, <1>6, ProbeFacts DEF SlotOf, m
<1> QED BY <1>3, <1>6, <1>7, <1>8, <1>9 DEF m

\* That determines where it stops.
LEMMA StopAtIs ==
    ASSUME NEW h \in Hashes, NEW k \in Key, home \in HashFns,
           NEW i \in 0..(Len(h) - 1), Stopper(h, k, i),
           \A j \in 0..(i - 1) : ~Stopper(h, k, j)
    PROVE  StopAt(h, k) = i
<1>1. Len(h) \in Nat \ {0}
  BY ProbeFacts
<1> DEFINE m == StopAt(h, k)
<1>2. /\ m \in 0..Len(h)
      /\ \A j \in 0..(m - 1) : ~Stopper(h, k, j)
      /\ m < Len(h) => Stopper(h, k, m)
  BY StopAtFacts
<1> HIDE DEF m
<1>3. ~(i < m)
  BY <1>1, <1>2
<1>4. ~(m < i)
  BY <1>1, <1>2
<1> QED BY <1>1, <1>2, <1>3, <1>4 DEF m

\* A hash part in which every node is where a search for its key stops
Chained(h) ==
    \A i \in DOMAIN h : h[i].key \in Key => StopAt(h, h[i].key) < Len(h)
                                          /\ SlotOf(h, h[i].key) = i

\* A step that leaves the part and the hash function alone keeps that.
LEMMA ChainedKept == ASSUME Chained(hash), UNCHANGED home, UNCHANGED hash PROVE Chained(hash)'
<1>1. ASSUME NEW k, NEW i PROVE Probe(hash, k, i)' = Probe(hash, k, i)
  BY DEF Probe
<1>2. ASSUME NEW k PROVE StopAt(hash, k)' = StopAt(hash, k)
  <2>1. {i \in 0..(Len(hash) - 1) : hash[Probe(hash, k, i)].key \in {Free, k}}'
        = {i \in 0..(Len(hash) - 1) : hash[Probe(hash, k, i)].key \in {Free, k}}
    BY <1>1
  <2> QED BY <2>1, Zenon DEF StopAt
<1>3. ASSUME NEW k PROVE SlotOf(hash, k)' = SlotOf(hash, k)
  BY <1>1, <1>2 DEF SlotOf
<1> QED BY <1>2, <1>3 DEF Chained

\* In such a part a key is found exactly if some node has it, and one node has it.
LEMMA ChainedFinds ==
    ASSUME NEW h \in Hashes, NEW k \in Key, home \in HashFns, Chained(h)
    PROVE  /\ \A i \in DOMAIN h : h[i].key = k => Found(h, k) /\ SlotOf(h, k) = i
           /\ Found(h, k) => SlotOf(h, k) \in DOMAIN h /\ h[SlotOf(h, k)].key = k
<1>1. SlotOf(h, k) \in DOMAIN h
  BY StopAtFacts, ProbeFacts
<1> QED BY <1>1 DEF Chained, Found

\* Slot t gets node n. Chains survive if n is not an unused slot, and if its key is
\* not in another slot and a search for it comes to t before it stops.
LEMMA ChainedReplace ==
    ASSUME NEW h \in Hashes, home \in HashFns, Chained(h),
           NEW t \in DOMAIN h, NEW n \in NodeSet, n.key # Free,
           n.key \in Key =>
               /\ \A j \in DOMAIN h : h[j].key = n.key => j = t
               /\ \E m \in 0..(Len(h) - 1) :
                     /\ t = Probe(h, n.key, m)
                     /\ \A i \in 0..(m - 1) : ~Stopper(h, n.key, i)
    PROVE  /\ [h EXCEPT ![t] = n] \in Hashes
           /\ Len([h EXCEPT ![t] = n]) = Len(h)
           /\ \A j \in DOMAIN h : [h EXCEPT ![t] = n][j] = IF j = t THEN n ELSE h[j]
           /\ Chained([h EXCEPT ![t] = n])
<1> DEFINE g == [h EXCEPT ![t] = n]
<1>0. Free \notin Key
  BY TableAssumption
<1>1. h \in Seq(NodeSet) /\ Len(h) \in Nat \ {0} /\ DOMAIN h = 1..Len(h)
  BY DEF Hashes
<1>2. /\ g \in Seq(NodeSet) /\ Len(g) = Len(h)
      /\ \A j \in 1..Len(h) : g[j] = IF j = t THEN n ELSE h[j]
  BY <1>1, ExceptSeq
<1> HIDE DEF g
<1>3. g \in Hashes /\ DOMAIN g = DOMAIN h
  BY <1>1, <1>2 DEF Hashes
<1>4. \A k \in Key, i \in Nat : Probe(g, k, i) = Probe(h, k, i) /\ Probe(h, k, i) \in DOMAIN h
  BY <1>1, <1>2, ProbeFacts DEF Probe
<1>5. ASSUME NEW j \in DOMAIN g, g[j].key \in Key
      PROVE  StopAt(g, g[j].key) < Len(g) /\ SlotOf(g, g[j].key) = j
  <2> DEFINE k == g[j].key
  <2> SUFFICES \E m \in 0..(Len(g) - 1) : /\ j = Probe(g, k, m)
                                           /\ \A i \in 0..(m - 1) : ~Stopper(g, k, i)
    <3>1. PICK m \in 0..(Len(g) - 1) : /\ j = Probe(g, k, m)
                                       /\ \A i \in 0..(m - 1) : ~Stopper(g, k, i)
      OBVIOUS
    <3>2. Stopper(g, k, m)
      BY <3>1 DEF Stopper
    <3>3. StopAt(g, k) = m
      BY <1>3, <1>5, <3>1, <3>2, StopAtIs
    <3> QED BY <1>1, <1>2, <3>1, <3>3 DEF SlotOf
  <2>1. CASE j = t
    <3>1. k = n.key
      BY <1>1, <1>2, <1>3, <2>1
    <3>2. PICK m \in 0..(Len(h) - 1) : /\ t = Probe(h, k, m)
                                       /\ \A i \in 0..(m - 1) : ~Stopper(h, k, i)
      BY <1>5, <3>1
    <3>3. ASSUME NEW i \in 0..(m - 1) PROVE ~Stopper(g, k, i)
      <4>1. i \in 0..(Len(h) - 1) /\ i # m /\ i \in Nat
        BY <1>1
      <4>2. Probe(h, k, i) # t
        BY <1>1, <1>5, <3>2, <4>1, ProbeFacts
      <4>3. ~Stopper(h, k, i)
        BY <3>2
      <4> QED BY <1>1, <1>2, <1>4, <1>5, <4>1, <4>2, <4>3 DEF Stopper
    <3>4. m \in Nat /\ j = Probe(g, k, m)
      BY <1>1, <1>4, <1>5, <2>1, <3>2
    <3> QED BY <1>2, <3>2, <3>3, <3>4
  <2>2. CASE j # t
    <3>1. k = h[j].key /\ j \in DOMAIN h
      BY <1>1, <1>2, <1>3, <2>2
    <3>2. k # n.key /\ k # Free
      BY <1>0, <1>5, <2>2, <3>1
    <3> DEFINE m == StopAt(h, k)
    <3>3. m \in 0..(Len(h) - 1) /\ Probe(h, k, m) = j
      BY <1>1, <1>5, <3>1, StopAtFacts DEF Chained, SlotOf
    <3>4. \A i \in 0..(m - 1) : ~Stopper(h, k, i)
      BY <1>5, StopAtFacts
    <3> HIDE DEF m
    <3>5. ASSUME NEW i \in 0..(m - 1) PROVE ~Stopper(g, k, i)
      <4>1. i \in Nat
        BY <3>3
      <4> QED BY <1>1, <1>2, <1>4, <1>5, <3>2, <3>4, <4>1 DEF Stopper
    <3> QED BY <1>1, <1>2, <1>4, <1>5, <3>3, <3>5
  <2> QED BY <2>1, <2>2
<1>6. Chained(g)
  BY <1>5 DEF Chained
<1> QED BY <1>1, <1>2, <1>3, <1>6 DEF g

\* Nodes without a key have no value.
Shaped(h) == \A i \in DOMAIN h : h[i].key \notin Key => h[i].value = Nil

\* A key that is not found goes to a slot without a value that a search for it
\* comes to before it stops.
LEMMA TargetFacts ==
    ASSUME NEW h \in Hashes, NEW k \in Key, home \in HashFns, Shaped(h),
           ~Found(h, k), Target(h, k) # 0
    PROVE  /\ Target(h, k) \in DOMAIN h
           /\ h[Target(h, k)].value = Nil
           /\ \E m \in 0..(Len(h) - 1) :
                 /\ Target(h, k) = Probe(h, k, m)
                 /\ \A i \in 0..(m - 1) : ~Stopper(h, k, i)
<1> DEFINE e == StopAt(h, k)
           tombs == Tombs(h, k)
<1>1. /\ Len(h) \in Nat \ {0} /\ DOMAIN h = 1..Len(h)
      /\ \A i \in Nat : Probe(h, k, i) \in DOMAIN h
  BY ProbeFacts
<1>2. /\ e \in 0..Len(h)
      /\ \A i \in 0..(e - 1) : ~Stopper(h, k, i)
      /\ e < Len(h) => Stopper(h, k, e)
  BY StopAtFacts
<1>3. Free \notin Key
  BY TableAssumption
<1>4. CASE tombs # {}
  <2>0. tombs \subseteq 0..(e - 1)
    BY Zenon DEF Tombs
  <2>1. tombs \subseteq 0..(e - 1) /\ tombs \subseteq Nat
    <3>1. e \in Nat
      BY <1>1, <1>2
    <3> HIDE DEF e, tombs
    <3> QED BY <2>0, <3>1
  <2>2. PICK m \in tombs : m = Min(tombs)
    BY <1>4, <2>1, MinNat
  <2>3. m \in 0..(Len(h) - 1) /\ m \in Nat /\ m < e
    <3>1. m \in 0..(e - 1)
      BY <2>1, <2>2
    <3> HIDE DEF e, tombs
    <3> QED BY <1>1, <1>2, <3>1
  <2>4. Target(h, k) = Probe(h, k, m)
    BY <1>4, <2>2 DEF Target
  <2>5. h[Probe(h, k, m)].value = Nil
    BY <2>2 DEF Tombs
  <2>6. \A i \in 0..(m - 1) : ~Stopper(h, k, i)
    BY <1>2, <2>3
  <2> QED BY <1>1, <2>3, <2>4, <2>5, <2>6
<1>5. CASE tombs = {}
  <2>1. e < Len(h) /\ Target(h, k) = SlotOf(h, k)
    BY <1>5 DEF Target
  <2>2. Target(h, k) = Probe(h, k, e)
    BY <2>1 DEF SlotOf
  <2>3. h[Probe(h, k, e)].key = Free
    BY <1>2, <2>1 DEF Stopper, Found, SlotOf
  <2>4. e \in 0..(Len(h) - 1) /\ e \in Nat
    BY <1>1, <1>2, <2>1
  <2>5. h[Probe(h, k, e)].value = Nil
    BY <1>1, <1>3, <2>3, <2>4 DEF Shaped
  <2> QED BY <1>1, <1>2, <2>2, <2>4, <2>5
<1> QED BY <1>4, <1>5

\* With an unused slot every search stops, and every key finds a place.
LEMMA UnusedSlotStops ==
    ASSUME NEW h \in Hashes, NEW k \in Key, home \in HashFns,
           NEW s \in DOMAIN h, h[s].key = Free
    PROVE  StopAt(h, k) < Len(h) /\ Target(h, k) # 0
<1>1. /\ Len(h) \in Nat \ {0} /\ DOMAIN h = 1..Len(h)
      /\ \A i \in Nat : Probe(h, k, i) \in DOMAIN h
      /\ \E i \in 0..(Len(h) - 1) : Probe(h, k, i) = s
  BY ProbeFacts
<1>2. PICK i \in 0..(Len(h) - 1) : Probe(h, k, i) = s
  BY <1>1
<1>3. Stopper(h, k, i)
  BY <1>2 DEF Stopper
<1> DEFINE e == StopAt(h, k)
<1>4. e \in 0..Len(h) /\ \A j \in 0..(e - 1) : ~Stopper(h, k, j)
  BY StopAtFacts
<1>5. e <= i
  BY <1>1, <1>3, <1>4
<1>6. e < Len(h)
  BY <1>1, <1>4, <1>5
<1>7. SlotOf(h, k) \in DOMAIN h
  BY <1>1, <1>4 DEF SlotOf
<1>8. ASSUME Tombs(h, k) # {} PROVE Probe(h, k, Min(Tombs(h, k))) \in DOMAIN h
  <2>1. Tombs(h, k) \subseteq Nat
    BY <1>1, <1>4 DEF Tombs
  <2>2. Min(Tombs(h, k)) \in Nat
    BY <1>8, <2>1, MinNat
  <2> QED BY <1>1, <2>2
<1>9. Target(h, k) \in DOMAIN h
  BY <1>6, <1>7, <1>8 DEF Target
<1> QED BY <1>1, <1>6, <1>9

-----------------------------------------------------------------------------
(* Contents *)

\* what the nodes of s say of k
Look(s, k) ==
    LET at == {i \in DOMAIN s : s[i].key = k}
    IN  IF at = {} THEN Nil ELSE s[CHOOSE i \in at : TRUE].value

\* No key is in two nodes of h and o.
Apart(h, o) ==
    /\ \A i, j \in DOMAIN h : h[i].key = h[j].key /\ h[i].key \in Key => i = j
    /\ \A i, j \in DOMAIN o : o[i].key = o[j].key /\ o[i].key \in Key => i = j
    /\ \A i \in DOMAIN h, j \in DOMAIN o : h[i].key = o[j].key => h[i].key \notin Key

\* Then the nodes of both say of a key what its node says.
LEMMA LookFacts ==
    ASSUME NEW h \in Seq(NodeSet), NEW o \in Seq(NodeSet), Apart(h, o), NEW k \in Key
    PROVE  /\ \A i \in DOMAIN h : h[i].key = k => Look(h \o o, k) = h[i].value
           /\ \A i \in DOMAIN o : o[i].key = k => Look(h \o o, k) = o[i].value
           /\ \/ \E i \in DOMAIN h : h[i].key = k
              \/ \E i \in DOMAIN o : o[i].key = k
              \/ Look(h \o o, k) = Nil
<1> DEFINE s == h \o o
           at == {i \in DOMAIN s : s[i].key = k}
<1>1. /\ Len(h) \in Nat /\ Len(o) \in Nat /\ DOMAIN h = 1..Len(h) /\ DOMAIN o = 1..Len(o)
      /\ s \in Seq(NodeSet) /\ Len(s) = Len(h) + Len(o)
      /\ \A i \in 1..(Len(h) + Len(o)) : s[i] = IF i <= Len(h) THEN h[i] ELSE o[i - Len(h)]
  BY ConcatProperties, LenProperties
<1>2. DOMAIN s = 1..(Len(h) + Len(o))
  BY <1>1, LenProperties
<1>3. \A i \in DOMAIN h : i \in DOMAIN s /\ s[i] = h[i]
  BY <1>1, <1>2
<1>4. \A i \in DOMAIN o : Len(h) + i \in DOMAIN s /\ s[Len(h) + i] = o[i]
  BY <1>1, <1>2
<1>5. \A i \in DOMAIN s : i \in DOMAIN h \/ i - Len(h) \in DOMAIN o
  BY <1>1, <1>2
<1> HIDE DEF s
<1>6. \A i \in at : \A j \in at : i = j
  <2> SUFFICES ASSUME NEW i \in DOMAIN s, NEW j \in DOMAIN s, s[i].key = k, s[j].key = k
               PROVE  i = j
    OBVIOUS
  <2>1. CASE i \in DOMAIN h /\ j \in DOMAIN h
    BY <1>3, <2>1 DEF Apart
  <2>2. CASE i \in DOMAIN h /\ j - Len(h) \in DOMAIN o
    <3>1. s[i] = h[i] /\ s[j] = o[j - Len(h)]
      BY <1>1, <1>2, <1>3, <1>4, <2>2
    <3> QED BY <2>2, <3>1 DEF Apart
  <2>3. CASE i - Len(h) \in DOMAIN o /\ j \in DOMAIN h
    <3>1. s[j] = h[j] /\ s[i] = o[i - Len(h)]
      BY <1>1, <1>2, <1>3, <1>4, <2>3
    <3> QED BY <2>3, <3>1 DEF Apart
  <2>4. CASE i - Len(h) \in DOMAIN o /\ j - Len(h) \in DOMAIN o
    <3>1. s[i] = o[i - Len(h)] /\ s[j] = o[j - Len(h)]
      BY <1>1, <1>2, <1>4, <2>4
    <3>2. i - Len(h) = j - Len(h)
      BY <2>4, <3>1 DEF Apart
    <3> QED BY <1>1, <1>2, <3>2
  <2> QED BY <1>5, <2>1, <2>2, <2>3, <2>4
<1>7. Look(s, k) = IF at = {} THEN Nil ELSE s[CHOOSE i \in at : TRUE].value
  BY DEF Look
<1>8. \A i \in at : Look(s, k) = s[i].value
  BY <1>6, <1>7
<1>9. \A i \in DOMAIN h : h[i].key = k => Look(s, k) = h[i].value
  BY <1>3, <1>8
<1>10. \A i \in DOMAIN o : o[i].key = k => Look(s, k) = o[i].value
  BY <1>4, <1>8
<1>11. \/ \E i \in DOMAIN h : h[i].key = k
       \/ \E i \in DOMAIN o : o[i].key = k
       \/ Look(s, k) = Nil
  <2>1. CASE at = {}
    BY <1>7, <2>1
  <2>2. CASE at # {}
    <3>1. PICK i \in DOMAIN s : s[i].key = k
      BY <2>2
    <3> QED BY <1>1, <1>2, <1>3, <1>4, <1>5, <3>1
  <2> QED BY <2>1, <2>2
<1> QED BY <1>9, <1>10, <1>11 DEF s

-----------------------------------------------------------------------------
(* The inductive invariant *)

Unshadowed(s) ==
    \A i \in DOMAIN s : s[i].key \in IntKey =>
        ~InArray(s[i].key) /\ ~(s[i].key \in 1..ArrayLimit)

Used(h) == {i \in DOMAIN h : h[i].key # Free}
Live(h) == {i \in DOMAIN h : h[i].value # Nil}
Absent(s, k) == \A i \in DOMAIN s : s[i].key # k

\* While an assignment waits for a rehash its key is in no node, belongs to the
\* hash part, and there is room for it and for the nodes that are still to come.
Rehashing ==
    pending # <<>> =>
        /\ cursor = Free
        /\ Absent(hash, pending[1]) /\ Absent(old, pending[1])
        /\ pending[1] \in IntKey => ~InArray(pending[1]) /\ ~(pending[1] \in 1..ArrayLimit)
        /\ Cardinality(Used(hash)) + Cardinality(Live(old)) + 1 <= Len(hash)

\* the conjuncts of the invariant about the two parts themselves
PartsInv ==
    /\ array \in Seq(Val \cup {Nil})
    /\ \A i \in DOMAIN array : array[i] # Nil => i \in IntKey
    /\ hash \in Hashes
    /\ Shaped(hash) /\ Chained(hash) /\ Unshadowed(hash)

TableInv ==
    /\ TypeOK
    /\ PartsInv
    /\ Shaped(old) /\ Unshadowed(old)
    /\ Apart(hash, old)
    /\ old # <<>> => pending # <<>>
    /\ Rehashing

Value == Val \cup {Nil}
ForArray(k) == k \in IntKey /\ (InArray(k) \/ k \in 1..ArrayLimit)

\* t is a slot where a node with key k may be written
Place(t, k) ==
    /\ t \in DOMAIN hash
    /\ \A j \in DOMAIN hash : hash[j].key = k => j = t
    /\ \E m \in 0..(Len(hash) - 1) :
          /\ t = Probe(hash, k, m)
          /\ \A i \in 0..(m - 1) : ~Stopper(hash, k, i)

\* The slot of a key that is found is such a place, and assigning to its value
\* writes a node.
LEMMA FoundPlace ==
    ASSUME PartsInv, home \in HashFns, NEW k \in Key, Found(hash, k), NEW v
    PROVE  /\ Place(SlotOf(hash, k), k)
           /\ hash[SlotOf(hash, k)].key = k
           /\ [hash EXCEPT ![SlotOf(hash, k)].value = v] = [hash EXCEPT ![SlotOf(hash, k)] = Node(k, v)]
<1> DEFINE t == SlotOf(hash, k)
<1>1. /\ t \in DOMAIN hash /\ hash[t].key = k
      /\ \A j \in DOMAIN hash : hash[j].key = k => j = t
  BY ChainedFinds DEF PartsInv
<1>2. StopAt(hash, k) \in 0..(Len(hash) - 1)
  BY StopAtFacts DEF PartsInv, Found, Hashes
<1>3. Place(t, k)
  BY <1>1, <1>2, StopAtFacts DEF Place, PartsInv, SlotOf
<1>4. hash[t] \in NodeSet
  BY <1>1 DEF PartsInv, Hashes
<1>5. [hash[t] EXCEPT !.value = v] = Node(k, v)
  BY <1>1, <1>4 DEF Node, NodeSet
<1>6. [hash EXCEPT ![t].value = v] = [hash EXCEPT ![t] = [hash[t] EXCEPT !.value = v]]
  OBVIOUS
<1> QED BY <1>1, <1>3, <1>5, <1>6

\* Writing a node there keeps the parts in order.
LEMMA ReplaceKeeps ==
    ASSUME PartsInv, home \in HashFns, UNCHANGED <<home, array>>,
           NEW t \in DOMAIN hash, NEW n \in NodeSet, n.key # Free,
           n.key \in Key => Place(t, n.key) /\ ~ForArray(n.key),
           n.key \notin Key => n.value = Nil,
           hash' = [hash EXCEPT ![t] = n]
    PROVE  /\ PartsInv'
           /\ Len(hash') = Len(hash) /\ DOMAIN hash' = DOMAIN hash
           /\ \A j \in DOMAIN hash : hash'[j] = IF j = t THEN n ELSE hash[j]
<1>1. /\ hash' \in Hashes /\ Len(hash') = Len(hash)
      /\ \A j \in DOMAIN hash : hash'[j] = IF j = t THEN n ELSE hash[j]
      /\ Chained([hash EXCEPT ![t] = n])
  BY ChainedReplace DEF PartsInv, Place
<1>2. Chained(hash)'
  BY <1>1 DEF Chained, StopAt, SlotOf, Probe
<1>3. DOMAIN hash' = DOMAIN hash
  BY <1>1 DEF PartsInv, Hashes
<1>4. Shaped(hash)'
  BY <1>1, <1>3 DEF Shaped, PartsInv
<1>5. Unshadowed(hash)'
  BY <1>1, <1>3 DEF Unshadowed, PartsInv, InArray, ForArray, Key
<1>6. (hash \in Hashes)'
  BY <1>1 DEF Hashes, NodeSet, Key
<1> QED BY <1>1, <1>2, <1>3, <1>4, <1>5, <1>6 DEF PartsInv

\* What an assignment that needs no rehash does: to the array part ...
ToArray(k, v) ==
    /\ ForArray(k)
    /\ Len(array') = IF k <= Len(array) THEN Len(array) ELSE k
    /\ \A i \in 1..Len(array') :
          array'[i] = IF i = k THEN v ELSE IF i <= Len(array) THEN array[i] ELSE Nil
    /\ UNCHANGED hash

\* ... to a node of the hash part ...
ToNode(k, v) ==
    /\ ~ForArray(k)
    /\ Len(hash') = Len(hash) /\ DOMAIN hash' = DOMAIN hash
    /\ \E t \in DOMAIN hash :
          /\ \A j \in DOMAIN hash : hash'[j] = IF j = t THEN Node(k, v) ELSE hash[j]
          /\ hash[t].key = k \/ (Absent(hash, k) /\ hash[t].value = Nil /\ v # Nil)
    /\ UNCHANGED array

\* ... or nothing.
ToNothing(k, v) == ~ForArray(k) /\ v = Nil /\ Absent(hash, k) /\ UNCHANGED <<array, hash>>

\* It does one of these, and keeps the parts in order.
LEMMA AssignedKeeps ==
    ASSUME PartsInv, home \in HashFns, UNCHANGED home,
           NEW k \in Key, NEW v \in Value, ~NeedsRehash(k, v), Assigned(k, v)
    PROVE  PartsInv' /\ (ToArray(k, v) \/ ToNode(k, v) \/ ToNothing(k, v))
<1>0. /\ array \in Seq(Value) /\ Len(array) \in Nat /\ DOMAIN array = 1..Len(array)
      /\ ArrayLimit \in Nat /\ IntKey \subseteq Int /\ Nil \notin Key /\ Free \notin Key /\ Nil # Free
  BY TableAssumption DEF PartsInv, Value
<1>1. CASE ForArray(k)
  <2>1. ToArray(k, v) /\ array' \in Seq(Value)
    <3>1. CASE InArray(k)
      <4>1. array' = [array EXCEPT ![k] = v] /\ UNCHANGED hash /\ k \in 1..Len(array)
        BY <1>0, <3>1 DEF Assigned, InArray
      <4>2. /\ array' \in Seq(Value) /\ Len(array') = Len(array)
            /\ \A i \in 1..Len(array) : array'[i] = IF i = k THEN v ELSE array[i]
        BY <1>0, <4>1, ExceptSeq
      <4> QED BY <1>0, <1>1, <4>1, <4>2 DEF ToArray
    <3>2. CASE ~InArray(k)
      <4>1. k \in IntKey /\ k \in Nat /\ k >= 1 /\ k <= ArrayLimit /\ k > Len(array)
        BY <1>0, <1>1, <3>2 DEF ForArray, InArray
      <4>2. /\ array' = [i \in 1..k |-> IF i = k THEN v ELSE IF i <= Len(array) THEN array[i] ELSE Nil]
            /\ UNCHANGED hash
        BY <3>2, <4>1 DEF Assigned
      <4>3. \A i \in 1..k : array'[i] \in Value
        BY <1>0, <4>1, <4>2, ElementOfSeq DEF Value
      <4>4. array' \in Seq(Value) /\ Len(array') = k
        BY <4>1, <4>2, <4>3
      <4>5. \A i \in 1..k : array'[i] = IF i = k THEN v ELSE IF i <= Len(array) THEN array[i] ELSE Nil
        BY <4>2
      <4>6. Len(array') = IF k <= Len(array) THEN Len(array) ELSE k
        <5>1. ~(k <= Len(array))
          <6>1. Len(array) \in Nat /\ k \in Nat /\ k > Len(array)
            BY <1>0, <4>1
          <6> QED BY <6>1
        <5> QED BY <4>4, <5>1
      <4> QED BY <1>1, <4>2, <4>4, <4>5, <4>6 DEF ToArray
    <3> QED BY <3>1, <3>2
  <2>2. DOMAIN array' = 1..Len(array') /\ Len(array') \in Nat
    BY <2>1
  <2>3. \A i \in DOMAIN array' : array'[i] # Nil => i \in IntKey
    BY <1>0, <2>1, <2>2 DEF ToArray, ForArray, PartsInv
  <2>4. Chained(hash)'
    BY <2>1, ChainedKept DEF ToArray, PartsInv
  <2>5. Len(array') = Len(array) \/ (Len(array') \in 1..ArrayLimit)
    BY <1>0, <2>1 DEF ToArray, ForArray, InArray
  <2>6. Unshadowed(hash)'
    <3> SUFFICES ASSUME NEW i \in DOMAIN hash, hash[i].key \in IntKey
                 PROVE  ~InArray(hash[i].key)' /\ ~(hash[i].key \in 1..ArrayLimit)
      BY <2>1 DEF ToArray, Unshadowed, InArray
    <3>1. PICK j \in Int : j = hash[i].key
      BY <1>0
    <3>2. ~(j >= 1 /\ j <= Len(array)) /\ ~(j \in 1..ArrayLimit)
      BY <3>1 DEF PartsInv, Unshadowed, InArray
    <3>3. ~(j >= 1 /\ j <= Len(array'))
      BY <1>0, <2>5, <3>2
    <3> QED BY <2>1, <3>1, <3>2, <3>3 DEF InArray, ToArray
  <2>7. Shaped(hash)' /\ (hash \in Hashes)'
    BY <2>1 DEF ToArray, PartsInv, Shaped, Hashes, NodeSet, Key
  <2> QED BY <2>1, <2>3, <2>4, <2>6, <2>7 DEF PartsInv, Value
<1>2. CASE ~ForArray(k)
  <2>1. ~InArray(k) /\ ~(k \in IntKey /\ k >= 1 /\ k <= ArrayLimit)
    <3>1. CASE k \in IntKey
      <4>1. k \in Int
        BY <1>0, <3>1
      <4> QED BY <1>0, <1>2, <3>1, <4>1 DEF ForArray
    <3>2. CASE k \notin IntKey
      BY <3>2 DEF InArray
    <3> QED BY <3>1, <3>2
  <2>2. UNCHANGED array
    BY <2>1 DEF Assigned
  <2>3. ASSUME NEW t, Place(t, k), hash' = [hash EXCEPT ![t] = Node(k, v)],
               hash[t].key = k \/ (Absent(hash, k) /\ hash[t].value = Nil /\ v # Nil)
        PROVE  PartsInv' /\ ToNode(k, v)
    <3>1. /\ t \in DOMAIN hash /\ Node(k, v) \in NodeSet /\ Node(k, v).key = k /\ k # Free
      BY <1>0, <2>3 DEF Place, Node, NodeSet, Value
    <3>2. /\ PartsInv'
          /\ Len(hash') = Len(hash) /\ DOMAIN hash' = DOMAIN hash
          /\ \A j \in DOMAIN hash : hash'[j] = IF j = t THEN Node(k, v) ELSE hash[j]
      BY <1>2, <2>2, <2>3, <3>1, ReplaceKeeps
    <3> QED BY <1>2, <2>2, <2>3, <3>1, <3>2 DEF ToNode
  <2>4. CASE Found(hash, k)
    <3>1. hash' = [hash EXCEPT ![SlotOf(hash, k)].value = v]
      BY <2>1, <2>4 DEF Assigned
    <3> QED BY <2>3, <2>4, <3>1, FoundPlace
  <2>5. CASE ~Found(hash, k)
    <3>1. Absent(hash, k)
      BY <2>5, ChainedFinds DEF PartsInv, Absent
    <3>2. CASE v = Nil
      <4>1. UNCHANGED hash
        BY <2>1, <2>5, <3>2 DEF Assigned
      <4>2. Chained(hash)'
        BY <1>1, <4>1, ChainedKept DEF PartsInv
      <4>3. PartsInv'
        BY <2>2, <4>1, <4>2 DEF PartsInv, Shaped, Unshadowed, InArray, Hashes, NodeSet, Key
      <4> QED BY <1>2, <2>2, <3>1, <3>2, <4>1, <4>3 DEF ToNothing
    <3>3. CASE v # Nil
      <4> DEFINE t == Target(hash, k)
      <4>1. hash' = [hash EXCEPT ![t] = Node(k, v)]
        BY <2>1, <2>5, <3>3 DEF Assigned
      <4>2. t # 0
        BY <2>1, <2>5, <3>3 DEF NeedsRehash
      <4>3. /\ t \in DOMAIN hash /\ hash[t].value = Nil
            /\ \E m \in 0..(Len(hash) - 1) :
                 /\ t = Probe(hash, k, m)
                 /\ \A i \in 0..(m - 1) : ~Stopper(hash, k, i)
        BY <2>5, <4>2, TargetFacts DEF PartsInv
      <4> HIDE DEF t
      <4>4. Place(t, k)
        BY <3>1, <4>3 DEF Place, Absent
      <4> QED BY <2>3, <3>1, <3>3, <4>1, <4>3, <4>4
    <3> QED BY <3>2, <3>3
  <2> QED BY <2>4, <2>5
<1> QED BY <1>1, <1>2
\* Outside a rehash the invariant is about the two parts only.
LEMMA Settled ==
    TypeOK /\ PartsInv /\ pending = <<>> /\ old = <<>> => TableInv
<1> SUFFICES ASSUME TypeOK, PartsInv, pending = <<>>, old = <<>> PROVE TableInv
  OBVIOUS
<1>1. DOMAIN old = {}
  OBVIOUS
<1>2. Apart(hash, old)
  <2>1. ASSUME NEW i \in DOMAIN hash, NEW j \in DOMAIN hash,
               hash[i].key = hash[j].key, hash[i].key \in Key
        PROVE  i = j
    BY <2>1, ChainedFinds DEF PartsInv, TypeOK
  <2> QED BY <1>1, <2>1 DEF Apart
<1>3. Shaped(old) /\ Unshadowed(old)
  BY <1>1 DEF Shaped, Unshadowed
<1> QED BY <1>2, <1>3 DEF TableInv, Rehashing

\* A traversal is of keys.
LEMMA TraversedType ==
    ASSUME TypeOK, NEW k, NEW v, Traversed(k, v)
    PROVE  /\ cursor' \in Key \cup {Nil, Free} /\ visited' \subseteq Key /\ expected' \subseteq Key
           /\ v # Nil /\ Get(k) = Nil => cursor' = Free
  BY DEF TypeOK, Traversed, trav

\* An assignment that needs no rehash keeps the invariant.
LEMMA AssignedInv ==
    ASSUME TableInv, old = <<>>, UNCHANGED <<home, old>>, pending' = <<>>,
           NEW k \in Key, NEW v \in Value, ~NeedsRehash(k, v), Assigned(k, v),
           noTm' \subseteq TmName,
           cursor' \in Key \cup {Nil, Free}, visited' \subseteq Key, expected' \subseteq Key
    PROVE  TableInv' /\ (ToArray(k, v) \/ ToNode(k, v) \/ ToNothing(k, v))
<1>1. PartsInv' /\ (ToArray(k, v) \/ ToNode(k, v) \/ ToNothing(k, v))
  BY AssignedKeeps DEF TableInv, TypeOK
<1>2. TypeOK'
  BY <1>1 DEF TypeOK, TableInv, PartsInv, Hashes
<1>3. (TypeOK /\ PartsInv /\ pending = <<>> /\ old = <<>> => TableInv)'
  BY Settled, PTL
<1> QED BY <1>1, <1>2, <1>3

\* A weak value is cleared as by the assignment of nil.
LEMMA ClearedIsAssigned ==
    ASSUME TableInv, NEW k \in Key, ClearWeakValue(k)
    PROVE  Assigned(k, Nil) /\ ~NeedsRehash(k, Nil)
<1>1. CASE InArray(k)
  BY <1>1 DEF ClearWeakValue, Assigned, NeedsRehash
<1>2. CASE ~InArray(k)
  <2>1. Found(hash, k)
    BY <1>2 DEF ClearWeakValue, Get
  <2>2. SlotOf(hash, k) \in DOMAIN hash /\ hash[SlotOf(hash, k)].key = k
    BY <2>1, ChainedFinds DEF TableInv, PartsInv, TypeOK
  <2>3. k \in IntKey => ~(k \in 1..ArrayLimit)
    BY <2>2 DEF TableInv, PartsInv, Unshadowed
  <2>4. ~(k \in IntKey /\ k >= 1 /\ k <= ArrayLimit)
    <3> SUFFICES ASSUME k \in IntKey PROVE ~(k >= 1 /\ k <= ArrayLimit)
      OBVIOUS
    <3>1. k \in Int /\ ArrayLimit \in Nat
      BY TableAssumption
    <3> QED BY <2>3, <3>1
  <2> QED BY <1>2, <2>1, <2>4 DEF ClearWeakValue, Assigned, NeedsRehash
<1> QED BY <1>1, <1>2

-----------------------------------------------------------------------------
(* Rehash *)

\* The next node of old_hash leaves: one live node fewer, if it was live.
LEMMA LiveTail ==
    ASSUME NEW o \in Seq(NodeSet), o # <<>>
    PROVE  /\ Cardinality(Live(o)) \in Nat /\ Cardinality(Live(Tail(o))) \in Nat
           /\ Head(o).value # Nil => Cardinality(Live(o)) = Cardinality(Live(Tail(o))) + 1
           /\ Head(o).value = Nil => Cardinality(Live(o)) = Cardinality(Live(Tail(o)))
<1>1. /\ Head(o) = o[1] /\ Tail(o) \in Seq(NodeSet) /\ Len(o) \in Nat \ {0}
      /\ Len(Tail(o)) = Len(o) - 1 /\ DOMAIN o = 1..Len(o)
      /\ \A i \in 1..(Len(o) - 1) : Tail(o)[i] = o[i + 1]
  BY HeadTailProperties, EmptySeq
<1>2. DOMAIN Tail(o) = 1..(Len(o) - 1)
  BY <1>1, LenProperties
<1> DEFINE L == Live(o)  T == Live(Tail(o))  S == L \ {1}
           f == [i \in T |-> i + 1]
<1>3. L \subseteq 1..Len(o) /\ T \subseteq 1..(Len(o) - 1) /\ Len(o) - 1 \in Nat
  BY <1>1, <1>2 DEF Live
<1>4. /\ IsFiniteSet(L) /\ Cardinality(L) \in Nat
      /\ IsFiniteSet(T) /\ Cardinality(T) \in Nat
  BY <1>1, <1>3, FiniteInterval
<1>5. \A i \in T : i + 1 \in S
  BY <1>1, <1>2 DEF Live
<1>6. \A i \in S : i - 1 \in T
  BY <1>1, <1>2 DEF Live
<1> HIDE DEF L, T
<1>7. f \in Bijection(T, S)
  <2>1. f \in [T -> S]
    BY <1>5
  <2>2. \A i, j \in T : f[i] = f[j] => i = j
    BY <1>3
  <2>3. \A s \in S : \E i \in T : f[i] = s
    <3> TAKE s \in S
    <3>1. s - 1 \in T /\ f[s - 1] = s
      BY <1>3, <1>6
    <3> QED BY <3>1
  <2> QED BY <2>1, <2>2, <2>3 DEF Bijection, Injection, Surjection, IsInjective
<1>8. ExistsBijection(T, S)
  BY <1>7 DEF ExistsBijection
<1>9. IsFiniteSet(S) /\ Cardinality(S) = Cardinality(T)
  BY <1>4, <1>8, FS_Bijection
<1>10. CASE Head(o).value # Nil
  <2>1. 1 \in L
    BY <1>1, <1>10 DEF L, Live
  <2>2. Cardinality(S) = Cardinality(L) - 1
    BY <1>4, <2>1, FS_RemoveElement
  <2> QED BY <1>4, <1>9, <1>10, <2>2 DEF L, T
<1>11. CASE Head(o).value = Nil
  <2>1. 1 \notin L
    BY <1>1, <1>11 DEF L, Live
  <2>2. S = L
    BY <2>1
  <2> QED BY <1>4, <1>9, <1>11, <2>2 DEF L, T
<1> QED BY <1>10, <1>11

\* A part with fewer used slots than slots has an unused one.
LEMMA RoomLeft ==
    ASSUME NEW h \in Hashes, Cardinality(Used(h)) < Len(h)
    PROVE  \E s \in DOMAIN h : h[s].key = Free
<1>1. Len(h) \in Nat /\ DOMAIN h = 1..Len(h)
  BY DEF Hashes
<1>2. Cardinality(1..Len(h)) = Len(h)
  <2>1. PICK n \in Nat : n = Len(h)
    BY <1>1
  <2>2. Cardinality(1..n) = n
    BY FS_Interval
  <2> QED BY <2>1, <2>2
<1>3. Used(h) # DOMAIN h
  BY <1>1, <1>2
<1> QED BY <1>3 DEF Used
\* The smallest of the sizes rehash may choose is one of them, and large enough.
LEMMA RoomyFacts ==
    ASSUME TableInv, Roomy # {}
    PROVE  /\ Min(Roomy) \in Nat /\ Min(Roomy) >= 1
           /\ Cardinality(Live(hash)) \in Nat /\ Cardinality(Live(hash)) + 1 <= Min(Roomy)
<1>1. Roomy \subseteq Nat
  BY TableAssumption DEF Roomy, HashSizes
<1>2. Min(Roomy) \in Roomy
  BY <1>1, MinNat
<1> DEFINE A == {i \in DOMAIN array : array[i] # Nil}  m == Min(Roomy)
<1>3. /\ Len(array) \in Nat /\ DOMAIN array = 1..Len(array)
      /\ Len(hash) \in Nat /\ Len(hash) >= 1 /\ DOMAIN hash = 1..Len(hash)
  BY DEF TableInv, TypeOK
<1>4. A \subseteq 1..Len(array) /\ Live(hash) \subseteq 1..Len(hash)
  BY <1>3 DEF Live
<1>5. Cardinality(A) \in Nat /\ Cardinality(Live(hash)) \in Nat
  BY <1>3, <1>4, FiniteInterval
<1>6. Items = Cardinality(A) + Cardinality(Live(hash))
  BY DEF Items, Live
<1>7. m \in Nat /\ m >= 2 * Len(hash) /\ m >= Items + 1
  BY <1>1, <1>2 DEF Roomy
<1> HIDE DEF A, m
<1>8. m >= 1 /\ Cardinality(Live(hash)) + 1 <= m
  BY <1>3, <1>5, <1>6, <1>7
<1> QED BY <1>5, <1>7, <1>8 DEF m

\* The first step of a rehash keeps the invariant.
LEMMA BeginRehashInv ==
    ASSUME TableInv, NEW k \in Key, NEW v \in Value, BeginRehash(k, v)
    PROVE  TableInv'
<1> DEFINE N == Min(Roomy)
<1>0. Free \notin Key /\ Nil # Free /\ IntKey \subseteq Int /\ ArrayLimit \in Nat
  BY TableAssumption
<1>1. /\ N \in Nat /\ N >= 1
      /\ Cardinality(Live(hash)) \in Nat /\ Cardinality(Live(hash)) + 1 <= N
  BY RoomyFacts DEF BeginRehash
<1> HIDE DEF N
<1>2. /\ hash' \in Seq(NodeSet) /\ Len(hash') = N /\ DOMAIN hash' = 1..N
      /\ \A i \in DOMAIN hash' : hash'[i].key = Free /\ hash'[i].value = Nil
  <2>1. hash' = [i \in 1..N |-> Node(Free, Nil)]
    BY DEF BeginRehash, FreeNodes, N
  <2>2. Node(Free, Nil) \in NodeSet /\ Node(Free, Nil).key = Free /\ Node(Free, Nil).value = Nil
    BY DEF Node, NodeSet
  <2> HIDE DEF NodeSet
  <2> QED BY <1>1, <2>1, <2>2
<1>3. /\ old' = hash /\ pending' = <<k, v>> /\ v # Nil /\ UNCHANGED <<home, array>>
      /\ pending = <<>> /\ old = <<>>
      /\ ~InArray(k) /\ ~(k \in IntKey /\ k >= 1 /\ k <= ArrayLimit) /\ ~Found(hash, k)
  BY DEF BeginRehash, NeedsRehash, TableInv
<1>4. Get(k) = Nil
  BY <1>3 DEF Get
<1>5. /\ cursor' = Free /\ visited' \subseteq Key /\ expected' \subseteq Key
  BY <1>3, <1>4, TraversedType DEF TableInv, BeginRehash
<1>6. hash' \in Hashes /\ hash \in Hashes /\ hash \in Seq(NodeSet) /\ home \in HashFns
  BY <1>1, <1>2 DEF Hashes, TableInv, TypeOK
<1>7. noTm' \subseteq TmName
  BY DEF BeginRehash, TableInv, TypeOK
<1>8. pending' \in Key \X Val
  BY <1>3 DEF Value
<1>9. TypeOK'
  BY <1>1, <1>2, <1>3, <1>5, <1>6, <1>7, <1>8 DEF TypeOK, TableInv
<1>10. PartsInv'
  <2>1. Shaped(hash)' /\ Chained(hash)' /\ Unshadowed(hash)'
    BY <1>0, <1>2 DEF Shaped, Chained, Unshadowed, Key
  <2> QED BY <1>3, <1>6, <2>1 DEF PartsInv, TableInv, Hashes
<1>11. Shaped(old)' /\ Unshadowed(old)'
  BY <1>3 DEF TableInv, PartsInv, Shaped, Unshadowed, InArray
<1>12. Apart(hash, old)'
  <2>1. ASSUME NEW i \in DOMAIN hash, NEW j \in DOMAIN hash,
               hash[i].key = hash[j].key, hash[i].key \in Key
        PROVE  i = j
    BY <1>6, <2>1, ChainedFinds DEF PartsInv, TableInv
  <2> QED BY <1>0, <1>2, <1>3, <2>1 DEF Apart
<1>13. Absent(hash, k)
  BY <1>3, <1>6, ChainedFinds DEF PartsInv, TableInv, Absent
<1>14. k \in IntKey => ~InArray(k) /\ ~(k \in 1..ArrayLimit)
  BY <1>0, <1>3
<1>15. Cardinality(Used(hash)') = 0
  <2>1. Used(hash)' = {}
    BY <1>2 DEF Used
  <2> QED BY <2>1, FS_EmptySet
<1>16. Cardinality(Used(hash)') + Cardinality(Live(old)') + 1 <= Len(hash')
  BY <1>1, <1>2, <1>3, <1>15 DEF Live
<1>17. Absent(hash', k) /\ Absent(old', k) /\ pending'[1] = k
  BY <1>0, <1>2, <1>3, <1>13 DEF Absent
<1>18. Rehashing'
  BY <1>3, <1>5, <1>14, <1>16, <1>17 DEF Rehashing, Absent, InArray
<1> QED BY <1>3, <1>9, <1>10, <1>11, <1>12, <1>18 DEF TableInv
\* A node that is still to be inserted finds an unused slot.
LEMMA OldNodeFits ==
    ASSUME TableInv, old # <<>>, Head(old).value # Nil
    PROVE  /\ Head(old) \in NodeSet /\ Head(old).key \in Key
           /\ ~ForArray(Head(old).key) /\ Absent(hash, Head(old).key)
           /\ StopAt(hash, Head(old).key) < Len(hash)
           /\ Place(SlotOf(hash, Head(old).key), Head(old).key)
           /\ hash[SlotOf(hash, Head(old).key)].key = Free
<1> DEFINE n == Head(old)  k == n.key
<1>0. Free \notin Key
  BY TableAssumption
<1>1. /\ old \in Seq(NodeSet) /\ n = old[1] /\ 1 \in DOMAIN old /\ n \in NodeSet
      /\ hash \in Hashes /\ home \in HashFns
  BY DEF TableInv, TypeOK, Hashes
<1>2. k \in Key
  BY <1>1 DEF TableInv, Shaped
<1>3. ~ForArray(k)
  BY <1>1 DEF TableInv, Unshadowed, ForArray
<1>4. Absent(hash, k)
  BY <1>1, <1>2 DEF TableInv, Apart, Absent
<1>5. Cardinality(Used(hash)) < Len(hash)
  <2>1. Cardinality(Used(hash)) + Cardinality(Live(old)) + 1 <= Len(hash)
    BY DEF TableInv, Rehashing
  <2>2. Cardinality(Live(old)) \in Nat
    BY <1>1, LiveTail
  <2>3. Len(hash) \in Nat /\ Used(hash) \subseteq 1..Len(hash)
    BY <1>1 DEF Hashes, Used
  <2>4. Cardinality(Used(hash)) \in Nat
    BY <2>3, FiniteInterval
  <2> QED BY <2>1, <2>2, <2>3, <2>4
<1>6. StopAt(hash, k) < Len(hash)
  <2>1. PICK s \in DOMAIN hash : hash[s].key = Free
    BY <1>1, <1>5, RoomLeft
  <2> QED BY <1>1, <1>2, <2>1, UnusedSlotStops
<1> HIDE DEF k
<1>7. /\ StopAt(hash, k) \in 0..(Len(hash) - 1) /\ SlotOf(hash, k) \in DOMAIN hash
      /\ Stopper(hash, k, StopAt(hash, k))
      /\ \A i \in 0..(StopAt(hash, k) - 1) : ~Stopper(hash, k, i)
  BY <1>1, <1>2, <1>6, StopAtFacts DEF Hashes
<1>8. Place(SlotOf(hash, k), k)
  BY <1>4, <1>7 DEF Place, Absent, SlotOf
<1>9. hash[SlotOf(hash, k)].key = Free
  BY <1>4, <1>7 DEF Stopper, SlotOf, Absent
<1> QED BY <1>1, <1>2, <1>3, <1>4, <1>6, <1>8, <1>9 DEF k

\* One turn of the rehash loop keeps the invariant.
LEMMA RehashOneInv ==
    ASSUME TableInv, RehashOne
    PROVE  TableInv'
<1> DEFINE n == Head(old)
<1>0. Free \notin Key /\ Nil # Free /\ IntKey \subseteq Int /\ ArrayLimit \in Nat
  BY TableAssumption
<1>1. /\ old # <<>> /\ old' = Tail(old) /\ pending # <<>>
      /\ UNCHANGED <<home, pending, noTm, cursor, visited, expected>>
  BY DEF RehashOne, TableInv, trav
<1>2. /\ old \in Seq(NodeSet) /\ old' \in Seq(NodeSet) /\ n = old[1] /\ 1 \in DOMAIN old
      /\ \A j \in DOMAIN old' : j \in Nat /\ j + 1 \in DOMAIN old /\ j + 1 # 1 /\ old'[j] = old[j + 1]
  BY <1>1, HeadTailProperties DEF TableInv, TypeOK
<1>3. UNCHANGED array
  BY OldNodeFits DEF RehashOne, ForArray, InArray
<1>4. Shaped(old)'
  BY <1>2 DEF Shaped, TableInv
<1>5. Unshadowed(old)'
  BY <1>2, <1>3 DEF Unshadowed, TableInv, InArray
<1>6. /\ Cardinality(Live(old)) \in Nat /\ Cardinality(Live(old)') \in Nat
      /\ n.value # Nil => Cardinality(Live(old)) = Cardinality(Live(old)') + 1
      /\ n.value = Nil => Cardinality(Live(old)) = Cardinality(Live(old)')
  <2>1. Live(old)' = Live(Tail(old))
    BY <1>1 DEF Live
  <2> QED BY <1>1, <1>2, <2>1, LiveTail
<1>7. hash \in Hashes /\ home \in HashFns /\ Len(hash) \in Nat
  BY DEF TableInv, TypeOK, Hashes
<1>8. Cardinality(Used(hash)) \in Nat /\ IsFiniteSet(Used(hash))
  <2>1. Used(hash) \subseteq 1..Len(hash)
    BY <1>7 DEF Hashes, Used
  <2> QED BY <1>7, <2>1, FiniteInterval
<1>9. /\ Cardinality(Used(hash)) + Cardinality(Live(old)) + 1 <= Len(hash)
      /\ cursor = Free /\ Absent(hash, pending[1]) /\ Absent(old, pending[1])
      /\ pending[1] \in IntKey => ~InArray(pending[1]) /\ ~(pending[1] \in 1..ArrayLimit)
  BY <1>1 DEF TableInv, Rehashing
<1>10. \A i, j \in DOMAIN old' : old'[i].key = old'[j].key /\ old'[i].key \in Key => i = j
  <2> SUFFICES ASSUME NEW i \in DOMAIN old', NEW j \in DOMAIN old',
                      old'[i].key = old'[j].key, old'[i].key \in Key
               PROVE  i = j
    OBVIOUS
  <2>1. i + 1 = j + 1
    BY <1>2 DEF TableInv, Apart
  <2> QED BY <1>2, <2>1
<1>11. Absent(old, pending[1])'
  BY <1>1, <1>2, <1>9 DEF Absent
<1>12. CASE n.value = Nil
  <2>1. UNCHANGED hash
    BY <1>12 DEF RehashOne
  <2>2. PartsInv'
    <3>1. Chained(hash)'
      BY <1>1, <2>1, ChainedKept DEF TableInv, PartsInv, RehashOne
    <3> QED BY <1>3, <2>1, <3>1 DEF TableInv, PartsInv, Shaped, Unshadowed, InArray, Hashes, NodeSet, Key
  <2>3. Apart(hash, old)'
    BY <1>2, <1>10, <2>1 DEF TableInv, Apart
  <2>4. Rehashing'
    BY <1>1, <1>3, <1>6, <1>9, <1>11, <1>12, <2>1 DEF Rehashing, Used, Absent, InArray
  <2>5. TypeOK'
    BY <1>1, <1>2, <1>3, <2>1 DEF TableInv, TypeOK
  <2> QED BY <1>1, <1>4, <1>5, <2>2, <2>3, <2>4, <2>5 DEF TableInv
<1>13. CASE n.value # Nil
  <2> DEFINE k == n.key  t == SlotOf(hash, k)
  <2>1. /\ n \in NodeSet /\ k \in Key /\ ~ForArray(k) /\ Absent(hash, k)
        /\ Place(t, k) /\ hash[t].key = Free
    BY <1>1, <1>13, OldNodeFits
  <2>2. hash' = [hash EXCEPT ![t] = n]
    BY <1>13, <2>1 DEF RehashOne, ForArray, InArray
  <2> HIDE DEF t
  <2>3. /\ PartsInv' /\ t \in DOMAIN hash
        /\ Len(hash') = Len(hash) /\ DOMAIN hash' = DOMAIN hash
        /\ \A j \in DOMAIN hash : hash'[j] = IF j = t THEN n ELSE hash[j]
    <3>1. t \in DOMAIN hash /\ n.key # Free
      BY <1>0, <2>1 DEF Place
    <3> QED BY <1>0, <1>1, <1>3, <1>7, <2>1, <2>2, <3>1, ReplaceKeeps DEF TableInv
  <2>4. Apart(hash, old)'
    <3>1. \A i, j \in DOMAIN hash' : hash'[i].key = hash'[j].key /\ hash'[i].key \in Key => i = j
      BY <2>1, <2>3 DEF TableInv, Apart, Absent
    <3>2. \A i \in DOMAIN hash', j \in DOMAIN old' : hash'[i].key = old'[j].key => hash'[i].key \notin Key
      BY <1>2, <2>1, <2>3 DEF TableInv, Apart
    <3> QED BY <1>10, <3>1, <3>2 DEF Apart
  <2>5. Cardinality(Used(hash)') = Cardinality(Used(hash)) + 1
    <3>1. Used(hash)' = Used(hash) \cup {t} /\ t \notin Used(hash)
      BY <1>0, <2>1, <2>3 DEF Used
    <3> QED BY <1>8, <3>1, FS_AddElement
  <2>6. Absent(hash, pending[1])'
    BY <1>1, <1>2, <1>9, <2>3 DEF Absent
  <2>7. Cardinality(Used(hash)') + Cardinality(Live(old)') + 1 <= Len(hash')
    BY <1>6, <1>7, <1>8, <1>9, <1>13, <2>3, <2>5
  <2>8. Rehashing'
    BY <1>1, <1>3, <1>9, <1>11, <2>6, <2>7 DEF Rehashing, InArray
  <2>9. TypeOK'
    BY <1>1, <1>2, <1>3, <2>3 DEF TableInv, TypeOK, PartsInv, Hashes
  <2> QED BY <1>1, <1>4, <1>5, <2>3, <2>4, <2>8, <2>9 DEF TableInv
<1> QED BY <1>12, <1>13
-----------------------------------------------------------------------------
(* The invariant holds *)

\* The positions of a traversal are numbers, and what surfaces at one is a key.
LEMMA PositionFacts ==
    ASSUME TableInv
    PROVE  /\ Len(array) \in Nat /\ Len(hash) \in Nat /\ Size = Len(array) + Len(hash)
           /\ DOMAIN array = 1..Len(array) /\ DOMAIN hash = 1..Len(hash)
           /\ CursorAt \subseteq 0..Size
           /\ \A p \in 1..Size : Surfaces(p) => KeyAt(p) \in Key
           /\ CursorAt # {} => Min(CursorAt) \in CursorAt /\ NextPositions \subseteq 1..Size
           /\ CursorAt # {} /\ NextPositions # {} =>
                 /\ Min(NextPositions) \in NextPositions
                 /\ \A p \in NextPositions : Min(NextPositions) <= p
<1>1. /\ Len(array) \in Nat /\ Len(hash) \in Nat /\ Size = Len(array) + Len(hash)
      /\ DOMAIN array = 1..Len(array) /\ DOMAIN hash = 1..Len(hash)
  BY DEF TableInv, TypeOK, Size
<1>2. CursorAt \subseteq 0..Size
  <2>1. InArray(cursor) => cursor \in 0..Size
    <3> SUFFICES ASSUME InArray(cursor) PROVE cursor \in 0..Size
      OBVIOUS
    <3>1. cursor \in Int /\ cursor >= 1 /\ cursor <= Len(array)
      BY TableAssumption DEF InArray
    <3> QED BY <1>1, <3>1
  <2>2. {p \in (Len(array) + 1)..Size : KeyAt(p) = cursor} \subseteq 0..Size
    BY <1>1
  <2>3. 0 \in 0..Size
    BY <1>1
  <2> QED BY <2>1, <2>2, <2>3 DEF CursorAt
<1>3. ASSUME NEW p \in 1..Size, Surfaces(p) PROVE KeyAt(p) \in Key
  <2>1. CASE p <= Len(array)
    <3>1. p \in DOMAIN array /\ array[p] # Nil
      BY <1>1, <1>3, <2>1 DEF Surfaces, ValueAt
    <3> QED BY <2>1, <3>1 DEF KeyAt, TableInv, PartsInv, Key
  <2>2. CASE ~(p <= Len(array))
    <3>1. p - Len(array) \in DOMAIN hash /\ hash[p - Len(array)].value # Nil
      BY <1>1, <1>3, <2>2 DEF Surfaces, ValueAt
    <3> QED BY <2>2, <3>1 DEF KeyAt, TableInv, PartsInv, Shaped
  <2> QED BY <2>1, <2>2
<1>4. ASSUME CursorAt # {} PROVE Min(CursorAt) \in CursorAt /\ NextPositions \subseteq 1..Size
  <2>1. CursorAt \subseteq Nat
    BY <1>1, <1>2
  <2>2. Min(CursorAt) \in CursorAt /\ Min(CursorAt) \in Nat
    BY <1>4, <2>1, MinNat
  <2> QED BY <1>1, <2>2 DEF NextPositions
<1>5. ASSUME CursorAt # {}, NextPositions # {}
      PROVE  /\ Min(NextPositions) \in NextPositions
             /\ \A p \in NextPositions : Min(NextPositions) <= p
  <2>1. NextPositions \subseteq Nat
    BY <1>1, <1>4, <1>5
  <2> QED BY <1>5, <2>1, MinNat
<1> QED BY <1>1, <1>2, <1>3, <1>4, <1>5

\* The first state satisfies the invariant.
LEMMA InitInv == Init => TableInv
<1> SUFFICES ASSUME Init PROVE TableInv
  OBVIOUS
<1>0. Free \notin Key /\ Nil # Free /\ MinHash \in Nat \ {0} /\ ArrayHints \subseteq Nat
  BY TableAssumption
<1>s. PICK size \in Nat \ {0} : hash = FreeNodes(size)
  BY <1>0, TableAssumption DEF Init, NewSizes
<1>1. PICK n \in Nat : array = [i \in 1..n |-> Nil]
  BY <1>0 DEF Init
<1>2. array \in Seq(Value) /\ \A i \in DOMAIN array : array[i] = Nil
  BY <1>1 DEF Value
<1>3. /\ hash \in Seq(NodeSet) /\ Len(hash) = size /\ DOMAIN hash = 1..size
      /\ \A i \in DOMAIN hash : hash[i].key = Free /\ hash[i].value = Nil
  <2>1. hash = [i \in 1..size |-> Node(Free, Nil)]
    BY <1>s DEF FreeNodes
  <2>2. Node(Free, Nil) \in NodeSet /\ Node(Free, Nil).key = Free /\ Node(Free, Nil).value = Nil
    BY DEF Node, NodeSet
  <2> HIDE DEF NodeSet
  <2> QED BY <1>s, <2>1, <2>2
<1>4. hash \in Hashes
  BY <1>s, <1>3 DEF Hashes
<1>5. PartsInv
  BY <1>0, <1>s, <1>2, <1>3, <1>4 DEF PartsInv, Shaped, Chained, Unshadowed, Key, Value
<1>6. TypeOK
  BY <1>2, <1>4 DEF TypeOK, Init, Value, Hashes
<1> QED BY <1>5, <1>6, Settled DEF Init

\* Every step keeps it.
LEMMA StepInv == TableInv /\ [Next]_vars => TableInv'
<1> SUFFICES ASSUME TableInv, [Next]_vars PROVE TableInv'
  OBVIOUS
<1>a. (TypeOK /\ PartsInv /\ pending = <<>> /\ old = <<>> => TableInv)'
  BY Settled, PTL
<1>0. /\ (TypeOK /\ PartsInv /\ pending = <<>> /\ old = <<>> => TableInv)'
      /\ Free \notin Key /\ Nil \notin Key /\ Nil # Free /\ TmName \subseteq Key /\ TypeOK /\ PartsInv
      /\ pending = <<>> => old = <<>>
  BY <1>a, TableAssumption DEF TableInv, Key
<1>1. ASSUME UNCHANGED <<home, table>>, noTm' \subseteq TmName, pending = <<>>,
             cursor' \in Key \cup {Nil, Free}, visited' \subseteq Key, expected' \subseteq Key
      PROVE  TableInv'
  <2>1. UNCHANGED <<array, hash, old, pending>>
    BY <1>1 DEF table
  <2>2. Chained(hash)'
    <3>1. Chained(hash) /\ UNCHANGED <<home, hash>>
      BY <1>0, <1>1, <2>1 DEF PartsInv
    <3> QED BY <3>1, ChainedKept
  <2>3. PartsInv'
    BY <1>0, <2>1, <2>2 DEF PartsInv, Shaped, Unshadowed, InArray, Hashes, NodeSet, Key
  <2>4. TypeOK'
    BY <1>0, <1>1, <2>1 DEF TypeOK
  <2> QED BY <1>0, <1>1, <2>1, <2>3, <2>4
<1>2. ASSUME NEW k \in Key, NEW v \in Val \cup {Nil}, Set(k, v) PROVE TableInv'
  <2>1. noTm' \subseteq TmName
    BY <1>0, <1>2 DEF Set, TypeOK
  <2> QED BY <1>0, <1>2, <2>1, AssignedInv, TraversedType DEF Set, Value
<1>3. ASSUME NEW k \in Key, NEW v \in Val \cup {Nil}, BeginRehash(k, v) PROVE TableInv'
  BY <1>3, BeginRehashInv DEF Value
<1>4. CASE RehashOne
  BY <1>4, RehashOneInv
<1>5. CASE EndRehash
  <2>1. pending[1] \in Key /\ pending[2] \in Value
    BY <1>0, <1>5 DEF EndRehash, TypeOK, Value
  <2> QED BY <1>0, <1>5, <2>1, AssignedInv DEF EndRehash, TypeOK, trav
<1>6. ASSUME NEW k \in Key, ClearWeakKey(k) PROVE TableInv'
  <2> DEFINE n == Node(Nil, Nil)  t == SlotOf(hash, k)
  <2>1. n \in NodeSet /\ n.key = Nil /\ n.value = Nil
    BY DEF Node, NodeSet
  <2>2. t \in DOMAIN hash
    BY <1>0, <1>6, FoundPlace DEF ClearWeakKey, Place, TypeOK
  <2>3. hash' = [hash EXCEPT ![t] = n]
    BY <1>6 DEF ClearWeakKey
  <2>4. PartsInv'
    <3> HIDE DEF n, t
    <3> QED BY <1>0, <1>6, <2>1, <2>2, <2>3, ReplaceKeeps DEF ClearWeakKey, TypeOK
  <2>5. TypeOK'
    BY <1>0, <1>6, <2>4 DEF ClearWeakKey, TypeOK, PartsInv, Hashes
  <2> QED BY <1>0, <1>6, <2>4, <2>5 DEF ClearWeakKey
<1>7. ASSUME NEW k \in Key, ClearWeakValue(k) PROVE TableInv'
  <2>1. Assigned(k, Nil) /\ ~NeedsRehash(k, Nil)
    BY <1>7, ClearedIsAssigned
  <2>2. /\ UNCHANGED <<home, old, pending, noTm, cursor, visited>> /\ expected' \subseteq Key
        /\ pending = <<>> /\ old = <<>> /\ Nil \in Value
    BY <1>0, <1>7 DEF ClearWeakValue, TypeOK, Value
  <2> QED BY <1>0, <2>1, <2>2, AssignedInv DEF TypeOK
<1>8. ASSUME NEW e \in TmName, GetTm(e) PROVE TableInv'
  BY <1>0, <1>1, <1>8 DEF GetTm, TypeOK, trav
<1>9. CASE BeginTraversal
  BY <1>0, <1>1, <1>9 DEF BeginTraversal, TypeOK
<1>10. CASE NextStep
  <2>1. NextPositions # {} => KeyAt(Min(NextPositions)) \in Key
    BY <1>10, PositionFacts DEF NextStep, NextPositions
  <2> QED BY <1>0, <1>1, <1>10, <2>1 DEF NextStep, TypeOK
<1>11. CASE UNCHANGED vars
  <2>1. UNCHANGED <<home, array, hash, old, pending, noTm, cursor, visited, expected>>
    BY <1>11 DEF vars, table, trav
  <2>2. Chained(hash)'
    BY <1>0, <2>1, ChainedKept DEF PartsInv
  <2>3. PartsInv'
    BY <1>0, <2>1, <2>2 DEF PartsInv, Shaped, Unshadowed, InArray, Hashes, NodeSet, Key
  <2>4. TypeOK'
    BY <1>0, <2>1 DEF TypeOK
  <2>5. Rehashing'
    BY <2>1 DEF TableInv, Rehashing, Absent, InArray, Used, Live
  <2>6. Apart(hash, old)' /\ Shaped(old)' /\ Unshadowed(old)'
    BY <2>1 DEF TableInv, Apart, Shaped, Unshadowed, InArray
  <2> QED BY <2>1, <2>3, <2>4, <2>5, <2>6 DEF TableInv
<1> QED BY <1>2, <1>3, <1>4, <1>5, <1>6, <1>7, <1>8, <1>9, <1>10, <1>11 DEF Next

\* The invariant holds in every reachable state.
LEMMA Invariance == Spec => []TableInv
  BY InitInv, StepInv, PTL DEF Spec

\* Every variable keeps its type: the parts are sequences of values and of nodes,
\* and the hash part is never empty.
THEOREM TypeCorrect == Spec => []TypeOK
<1>1. TableInv => TypeOK
  BY DEF TableInv
<1> QED BY <1>1, Invariance, PTL

\* Whatever is assigned, deleted, cleared by the collector or moved by a rehash, a
\* search for the key of a node ends at this node.
THEOREM ProbesSound == Spec => []ProbesFindNodes
<1>1. TableInv => ProbesFindNodes
  BY DEF TableInv, PartsInv, Chained, ProbesFindNodes
<1> QED BY <1>1, Invariance, PTL

\* No node of the hash part has a key of the array part, nor one that set_int would
\* grow the array part for.
THEOREM PartsDisjoint == Spec => []NoShadowedNode
<1>1. TableInv => NoShadowedNode
  BY DEF TableInv, PartsInv, Unshadowed, NoShadowedNode
<1> QED BY <1>1, Invariance, PTL

\* A rehash has a slot for every node it inserts, and one for the assignment that
\* started it: no "rehash: hash full", no second rehash.
THEOREM RehashHasRoom == Spec => []RehashFits
<1>1. ASSUME TableInv, pending # <<>>, old = <<>> PROVE ~NeedsRehash(pending[1], pending[2])
  <2>1. pending[1] \in Key /\ hash \in Hashes /\ home \in HashFns
    BY <1>1 DEF TableInv, TypeOK, Hashes
  <2>2. Live(old) = {}
    BY <1>1 DEF Live
  <2>3. Len(hash) \in Nat /\ Used(hash) \subseteq 1..Len(hash)
    BY <2>1 DEF Hashes, Used
  <2>4. Cardinality(Used(hash)) \in Nat /\ Cardinality(Live(old)) = 0
    BY <2>2, <2>3, FiniteInterval, FS_EmptySet
  <2>5. Cardinality(Used(hash)) < Len(hash)
    BY <1>1, <2>3, <2>4 DEF TableInv, Rehashing
  <2>6. PICK s \in DOMAIN hash : hash[s].key = Free
    BY <2>1, <2>5, RoomLeft
  <2> QED BY <2>1, <2>6, UnusedSlotStops DEF NeedsRehash
<1>2. TableInv => RehashFits
  BY <1>1, OldNodeFits DEF RehashFits
<1> QED BY <1>2, Invariance, PTL
-----------------------------------------------------------------------------
(* The table implements the map *)

\* The map has for a key the value of its array slot or of its node.
LEMMA ContentsFacts ==
    TableInv =>
        /\ DOMAIN Contents = Key
        /\ \A k \in Key :
              /\ Contents[k] \in Value
              /\ InArray(k) => Contents[k] = array[k]
              /\ ~InArray(k) =>
                    /\ \A i \in DOMAIN hash : hash[i].key = k => Contents[k] = hash[i].value
                    /\ \A i \in DOMAIN old : old[i].key = k => Contents[k] = old[i].value
                    /\ Absent(hash, k) /\ Absent(old, k) => Contents[k] = Nil
<1> SUFFICES ASSUME TableInv PROVE
        /\ DOMAIN Contents = Key
        /\ \A k \in Key :
              /\ Contents[k] \in Value
              /\ InArray(k) => Contents[k] = array[k]
              /\ ~InArray(k) =>
                    /\ \A i \in DOMAIN hash : hash[i].key = k => Contents[k] = hash[i].value
                    /\ \A i \in DOMAIN old : old[i].key = k => Contents[k] = old[i].value
                    /\ Absent(hash, k) /\ Absent(old, k) => Contents[k] = Nil
  OBVIOUS
<1>1. Contents = [k \in Key |-> IF InArray(k) THEN array[k] ELSE Look(hash \o old, k)]
  BY DEF Contents, Look
<1>2. /\ hash \in Seq(NodeSet) /\ old \in Seq(NodeSet) /\ array \in Seq(Value) /\ Apart(hash, old)
      /\ IntKey \subseteq Int
  BY TableAssumption DEF TableInv, TypeOK, Value
<1>3. ASSUME NEW k \in Key
      PROVE  /\ Contents[k] \in Value
             /\ InArray(k) => Contents[k] = array[k]
             /\ ~InArray(k) =>
                   /\ \A i \in DOMAIN hash : hash[i].key = k => Contents[k] = hash[i].value
                   /\ \A i \in DOMAIN old : old[i].key = k => Contents[k] = old[i].value
                   /\ Absent(hash, k) /\ Absent(old, k) => Contents[k] = Nil
  <2>1. CASE InArray(k)
    <3>1. Contents[k] = array[k]
      BY <1>1, <2>1
    <3>2. k \in 1..Len(array)
      BY <1>2, <2>1 DEF InArray
    <3>3. array[k] \in Value
      BY <1>2, <3>2, ElementOfSeq
    <3> QED BY <2>1, <3>1, <3>3
  <2>2. CASE ~InArray(k)
    <3>1. Contents[k] = Look(hash \o old, k)
      BY <1>1, <2>2
    <3>2. /\ \A i \in DOMAIN hash : hash[i].key = k => Contents[k] = hash[i].value
          /\ \A i \in DOMAIN old : old[i].key = k => Contents[k] = old[i].value
          /\ \/ \E i \in DOMAIN hash : hash[i].key = k
             \/ \E i \in DOMAIN old : old[i].key = k
             \/ Contents[k] = Nil
      BY <1>2, <3>1, LookFacts
    <3>3. /\ \A i \in DOMAIN hash : hash[i] \in NodeSet
          /\ \A i \in DOMAIN old : old[i] \in NodeSet
      BY <1>2
    <3>4. Contents[k] \in Value
      BY <3>2, <3>3 DEF NodeSet, Value
    <3> QED BY <2>2, <3>2, <3>4 DEF Absent
  <2> QED BY <2>1, <2>2
<1> QED BY <1>1, <1>3

\* The same of the next state.
LEMMA ContentsFactsNext ==
    ASSUME TableInv'
    PROVE  /\ DOMAIN Contents' = Key
           /\ \A k \in Key :
                 /\ Contents'[k] \in Value
                 /\ InArray(k)' => Contents'[k] = array'[k]
                 /\ ~InArray(k)' =>
                       /\ \A i \in DOMAIN hash' : hash'[i].key = k => Contents'[k] = hash'[i].value
                       /\ \A i \in DOMAIN old' : old'[i].key = k => Contents'[k] = old'[i].value
                       /\ Absent(hash', k) /\ Absent(old', k) => Contents'[k] = Nil
<1>1. (TableInv =>
        /\ DOMAIN Contents = Key
        /\ \A k \in Key :
              /\ Contents[k] \in Value
              /\ InArray(k) => Contents[k] = array[k]
              /\ ~InArray(k) =>
                    /\ \A i \in DOMAIN hash : hash[i].key = k => Contents[k] = hash[i].value
                    /\ \A i \in DOMAIN old : old[i].key = k => Contents[k] = old[i].value
                    /\ Absent(hash, k) /\ Absent(old, k) => Contents[k] = Nil)'
  BY ContentsFacts, PTL
<1> QED BY <1>1 DEF Absent, Value, Key

\* get returns what the map has; during a rehash it may not see it, but returns
\* nothing else.
LEMMA GetContents ==
    ASSUME TableInv, NEW k \in Key
    PROVE  /\ Get(k) = Contents[k] \/ Get(k) = Nil
           /\ old = <<>> => Get(k) = Contents[k]
<1>0. hash \in Hashes /\ home \in HashFns /\ Chained(hash)
  BY DEF TableInv, TypeOK, Hashes, PartsInv
<1>1. CASE InArray(k)
  BY <1>1, ContentsFacts DEF Get
<1>2. CASE ~InArray(k) /\ Found(hash, k)
  <2>1. SlotOf(hash, k) \in DOMAIN hash /\ hash[SlotOf(hash, k)].key = k
    BY <1>0, <1>2, ChainedFinds
  <2> QED BY <1>2, <2>1, ContentsFacts DEF Get
<1>3. CASE ~InArray(k) /\ ~Found(hash, k)
  <2>1. Absent(hash, k)
    BY <1>0, <1>3, ChainedFinds DEF Absent
  <2>2. old = <<>> => Absent(old, k)
    BY DEF Absent
  <2> QED BY <1>3, <2>1, <2>2, ContentsFacts DEF Get
<1> QED BY <1>1, <1>2, <1>3

\* Writing one node, outside a rehash, changes the map at its key and at the key
\* that was there.
LEMMA NodeContents ==
    ASSUME TableInv, TableInv', old = <<>>, UNCHANGED <<array, old>>,
           NEW t \in DOMAIN hash, NEW n, DOMAIN hash' = DOMAIN hash,
           \A i \in DOMAIN hash : hash'[i] = IF i = t THEN n ELSE hash[i],
           NEW j \in Key, ~InArray(j)
    PROVE  /\ n.key = j => Contents'[j] = n.value
           /\ n.key # j /\ hash[t].key = j => Contents'[j] = Nil
           /\ n.key # j /\ hash[t].key # j => Contents'[j] = Contents[j]
<1>0. DOMAIN old = {} /\ DOMAIN old' = {} /\ ~InArray(j)'
  BY DEF InArray
<1>1. /\ \A i \in DOMAIN hash : hash[i].key = j => Contents[j] = hash[i].value
      /\ Absent(hash, j) /\ Absent(old, j) => Contents[j] = Nil
  BY ContentsFacts
<1>2. /\ \A i \in DOMAIN hash' : hash'[i].key = j => Contents'[j] = hash'[i].value
      /\ Absent(hash', j) /\ Absent(old', j) => Contents'[j] = Nil
  BY <1>0, ContentsFactsNext
<1>3. n.key = j => Contents'[j] = n.value
  BY <1>2
<1>4. ASSUME n.key # j, hash[t].key = j PROVE Contents'[j] = Nil
  <2>1. Absent(hash', j)
    BY <1>4 DEF TableInv, Apart, Absent
  <2> QED BY <1>0, <1>2, <2>1 DEF Absent
<1>5. ASSUME n.key # j, hash[t].key # j PROVE Contents'[j] = Contents[j]
  <2>1. CASE \E i \in DOMAIN hash : hash[i].key = j
    BY <1>1, <1>2, <1>5, <2>1
  <2>2. CASE Absent(hash, j)
    <3>1. Absent(hash', j)
      BY <1>5, <2>2 DEF Absent
    <3> QED BY <1>0, <1>1, <1>2, <2>2, <3>1 DEF Absent
  <2> QED BY <2>1, <2>2 DEF Absent
<1> QED BY <1>3, <1>4, <1>5

\* An assignment that needs no rehash changes the map at its key.
LEMMA AssignedContents ==
    ASSUME TableInv, TableInv', old = <<>>, UNCHANGED old, NEW k \in Key, NEW v \in Value,
           ToArray(k, v) \/ ToNode(k, v) \/ ToNothing(k, v)
    PROVE  \A j \in Key : Contents'[j] = IF j = k THEN v ELSE Contents[j]
<1> SUFFICES ASSUME NEW j \in Key PROVE Contents'[j] = IF j = k THEN v ELSE Contents[j]
  OBVIOUS
<1>0. /\ DOMAIN old = {} /\ DOMAIN old' = {} /\ IntKey \subseteq Int /\ ArrayLimit \in Nat
      /\ Len(array) \in Nat /\ Len(array') \in Nat /\ Nil \notin Key /\ Free \notin Key
  BY TableAssumption DEF TableInv, TypeOK
<1>1. CASE ToArray(k, v)
  <2>1. /\ k \in Int /\ k >= 1 /\ InArray(k)' /\ UNCHANGED hash
        /\ Len(array) <= Len(array') /\ \A i \in Int : i > Len(array) /\ i <= Len(array') => i \in 1..ArrayLimit
    BY <1>0, <1>1 DEF ToArray, ForArray, InArray
  <2>2. \A i \in 1..Len(array') : array'[i] = IF i = k THEN v ELSE IF i <= Len(array) THEN array[i] ELSE Nil
    BY <1>1 DEF ToArray
  <2>3. CASE InArray(j)'
    <3>1. j \in 1..Len(array') /\ j \in IntKey /\ j \in Int /\ Contents'[j] = array'[j]
      BY <1>0, <2>3, ContentsFactsNext DEF InArray
    <3>2. CASE j <= Len(array)
      <4>1. InArray(j)
        BY <1>0, <3>1, <3>2 DEF InArray
      <4> QED BY <2>2, <3>1, <3>2, <4>1, ContentsFacts
    <3>3. CASE ~(j <= Len(array))
      <4>1. ~InArray(j) /\ j \in 1..ArrayLimit
        BY <1>0, <2>1, <3>1, <3>3 DEF InArray
      <4>2. Absent(hash, j)
        BY <3>1, <4>1 DEF TableInv, PartsInv, Unshadowed, Absent
      <4>3. Contents[j] = Nil
        BY <1>0, <4>1, <4>2, ContentsFacts DEF Absent
      <4> QED BY <2>2, <3>1, <3>3, <4>3
    <3> QED BY <3>2, <3>3
  <2>4. CASE ~InArray(j)'
    <3>1. ~InArray(j) /\ j # k
      <4>1. CASE j \in IntKey
        <5>1. j \in Int
          BY <1>0, <4>1
        <5> QED BY <1>0, <2>1, <2>4, <4>1, <5>1 DEF InArray
      <4>2. CASE j \notin IntKey
        BY <2>1, <2>4, <4>2 DEF InArray
      <4> QED BY <4>1, <4>2
    <3>2. CASE \E i \in DOMAIN hash : hash[i].key = j
      BY <2>1, <2>4, <3>1, <3>2, ContentsFacts, ContentsFactsNext
    <3>3. CASE Absent(hash, j)
      <4>1. Absent(hash', j) /\ Absent(old, j) /\ Absent(old', j)
        BY <1>0, <2>1, <3>3 DEF Absent
      <4> QED BY <2>4, <3>1, <3>3, <4>1, ContentsFacts, ContentsFactsNext
    <3> QED BY <3>2, <3>3 DEF Absent
  <2> QED BY <2>3, <2>4
<1>2. CASE ToNode(k, v)
  <2> DEFINE n == Node(k, v)
  <2>1. PICK t \in DOMAIN hash :
           /\ \A i \in DOMAIN hash : hash'[i] = IF i = t THEN n ELSE hash[i]
           /\ hash[t].key = k \/ (Absent(hash, k) /\ hash[t].value = Nil)
    BY <1>2 DEF ToNode
  <2>2. n.key = k /\ n.value = v
    BY DEF Node
  <2>3. DOMAIN hash' = DOMAIN hash /\ UNCHANGED array /\ ~InArray(k)
    BY <1>2 DEF ToNode, ForArray, InArray
  <2> HIDE DEF n
  <2>4. CASE InArray(j)
    <3>1. InArray(j)' /\ j # k
      BY <2>3, <2>4 DEF InArray
    <3> QED BY <2>3, <2>4, <3>1, ContentsFacts, ContentsFactsNext
  <2>5. CASE ~InArray(j)
    <3>1. /\ n.key = j => Contents'[j] = n.value
          /\ n.key # j /\ hash[t].key = j => Contents'[j] = Nil
          /\ n.key # j /\ hash[t].key # j => Contents'[j] = Contents[j]
      BY <2>1, <2>3, <2>5, NodeContents
    <3>2. hash[t].key = j => Contents[j] = hash[t].value
      BY <2>5, ContentsFacts
    <3> QED BY <2>1, <2>2, <3>1, <3>2
  <2> QED BY <2>4, <2>5
<1>3. CASE ToNothing(k, v)
  <2>1. UNCHANGED <<array, hash, old>> /\ v = Nil /\ Absent(hash, k) /\ ~InArray(k)
    BY <1>3 DEF ToNothing, ForArray, InArray
  <2>2. Contents' = Contents
    BY <2>1 DEF Contents, InArray
  <2>3. Contents[k] = Nil
    BY <1>0, <2>1, ContentsFacts DEF Absent
  <2> QED BY <2>1, <2>2, <2>3
<1> QED BY <1>1, <1>2, <1>3
\* Moving to the new hash part changes nothing: neither its first step ...
LEMMA BeginRehashContents ==
    ASSUME TableInv, TableInv', NEW k \in Key, NEW v \in Value, BeginRehash(k, v)
    PROVE  Contents[k] = Nil /\ \A j \in Key : Contents'[j] = Contents[j]
<1>0. /\ old = <<>> /\ UNCHANGED array /\ old' = hash /\ DOMAIN old = {}
      /\ ~InArray(k) /\ ~Found(hash, k)
  BY DEF BeginRehash, NeedsRehash, TableInv
<1>1. \A i \in DOMAIN hash' : hash'[i].key = Free
  BY DEF BeginRehash, FreeNodes, Node
<1>2. Free \notin Key
  BY TableAssumption
<1>3. Contents[k] = Nil
  <2>1. Absent(hash, k)
    BY <1>0, ChainedFinds DEF Absent, TableInv, TypeOK, PartsInv
  <2> QED BY <1>0, <2>1, ContentsFacts DEF Absent
<1>4. ASSUME NEW j \in Key PROVE Contents'[j] = Contents[j]
  <2>1. CASE InArray(j)
    <3>1. InArray(j)'
      BY <1>0, <2>1 DEF InArray
    <3> QED BY <1>0, <2>1, <3>1, ContentsFacts, ContentsFactsNext
  <2>2. CASE ~InArray(j)
    <3>1. ~InArray(j)'
      BY <1>0, <2>2 DEF InArray
    <3>2. CASE \E i \in DOMAIN hash : hash[i].key = j
      BY <1>0, <2>2, <3>1, <3>2, ContentsFacts, ContentsFactsNext
    <3>3. CASE Absent(hash, j)
      <4>1. Absent(old, j) /\ Absent(hash', j) /\ Absent(old', j)
        BY <1>0, <1>1, <1>2, <3>3 DEF Absent
      <4> QED BY <2>2, <3>1, <3>3, <4>1, ContentsFacts, ContentsFactsNext
    <3> QED BY <3>2, <3>3 DEF Absent
  <2> QED BY <2>1, <2>2
<1> QED BY <1>3, <1>4

\* ... nor a turn of the loop.
LEMMA RehashOneContents ==
    ASSUME TableInv, TableInv', RehashOne
    PROVE  \A j \in Key : Contents'[j] = Contents[j]
<1> DEFINE n == Head(old)
<1>0. Free \notin Key
  BY TableAssumption
<1>1. /\ old # <<>> /\ old \in Seq(NodeSet) /\ n = old[1] /\ 1 \in DOMAIN old
      /\ \A i \in DOMAIN old' : i + 1 \in DOMAIN old /\ i + 1 # 1 /\ old'[i] = old[i + 1]
      /\ \A i \in DOMAIN old : i # 1 => i - 1 \in DOMAIN old' /\ old'[i - 1] = old[i]
  <2>1. old # <<>> /\ old \in Seq(NodeSet) /\ old' = Tail(old)
    BY DEF TableInv, TypeOK, RehashOne
  <2> QED BY <2>1, HeadTailProperties
<1>2. UNCHANGED array
  BY OldNodeFits DEF RehashOne, ForArray, InArray
<1>3. /\ \A i \in DOMAIN hash : i \in DOMAIN hash' /\ (hash[i].key # Free => hash'[i] = hash[i])
      /\ \A i \in DOMAIN hash' : i \in DOMAIN hash /\ (hash'[i] = hash[i] \/ hash'[i] = n)
      /\ n.value # Nil => \E i \in DOMAIN hash' : hash'[i] = n
      /\ n.value = Nil => UNCHANGED hash
  <2>1. CASE n.value = Nil
    BY <2>1 DEF RehashOne
  <2>2. CASE n.value # Nil
    <3> DEFINE t == SlotOf(hash, n.key)
    <3>1. hash' = [hash EXCEPT ![t] = n] /\ t \in DOMAIN hash /\ hash[t].key = Free
      BY <1>1, <2>2, OldNodeFits DEF RehashOne, ForArray, InArray, Place
    <3> HIDE DEF t
    <3> QED BY <2>2, <3>1
  <2> QED BY <2>1, <2>2
<1> HIDE DEF n
<1> SUFFICES ASSUME NEW j \in Key PROVE Contents'[j] = Contents[j]
  OBVIOUS
<1>4. CASE InArray(j)
  <2>1. InArray(j)'
    BY <1>2, <1>4 DEF InArray
  <2> QED BY <1>2, <1>4, <2>1, ContentsFacts, ContentsFactsNext
<1>5. CASE ~InArray(j)
  <2>0. ~InArray(j)'
    BY <1>2, <1>5 DEF InArray
  <2>1. /\ \A i \in DOMAIN hash : hash[i].key = j => Contents[j] = hash[i].value
        /\ \A i \in DOMAIN old : old[i].key = j => Contents[j] = old[i].value
        /\ Absent(hash, j) /\ Absent(old, j) => Contents[j] = Nil
    BY <1>5, ContentsFacts
  <2>2. /\ \A i \in DOMAIN hash' : hash'[i].key = j => Contents'[j] = hash'[i].value
        /\ \A i \in DOMAIN old' : old'[i].key = j => Contents'[j] = old'[i].value
        /\ Absent(hash', j) /\ Absent(old', j) => Contents'[j] = Nil
    BY <2>0, ContentsFactsNext
  <2>3. CASE \E i \in DOMAIN hash : hash[i].key = j
    BY <1>0, <1>3, <2>1, <2>2, <2>3
  <2>4. CASE \E i \in DOMAIN old : i # 1 /\ old[i].key = j
    BY <1>1, <2>1, <2>2, <2>4
  <2>5. CASE n.key = j
    <3>1. Contents[j] = n.value
      BY <1>1, <2>1, <2>5
    <3>2. CASE n.value # Nil
      BY <1>3, <2>2, <2>5, <3>1, <3>2
    <3>3. CASE n.value = Nil
      <4>1. Absent(hash', j) /\ Absent(old', j)
        BY <1>1, <1>3, <2>5, <3>3 DEF Absent, TableInv, Apart
      <4> QED BY <2>2, <3>1, <3>3, <4>1
    <3> QED BY <3>2, <3>3
  <2>6. CASE Absent(hash, j) /\ Absent(old, j)
    <3>1. Absent(hash', j) /\ Absent(old', j)
      BY <1>1, <1>3, <2>6 DEF Absent
    <3> QED BY <2>1, <2>2, <2>6, <3>1
  <2> QED BY <1>1, <2>3, <2>4, <2>5, <2>6 DEF Absent
<1> QED BY <1>4, <1>5

\* An assignment without a rehash changes the map at its key ...
LEMMA SetContents ==
    ASSUME TableInv, TableInv', NEW k \in Key, NEW v \in Value, Set(k, v)
    PROVE  \A j \in Key : Contents'[j] = IF j = k THEN v ELSE Contents[j]
<1>1. TypeOK /\ PartsInv /\ old = <<>> /\ UNCHANGED <<home, old>>
  BY DEF TableInv, Set
<1>2. ToArray(k, v) \/ ToNode(k, v) \/ ToNothing(k, v)
  BY <1>1, AssignedKeeps DEF Set, TypeOK
<1> QED BY <1>1, <1>2, AssignedContents

\* ... and so does the last step of one that rehashes ...
LEMMA EndRehashContents ==
    ASSUME TableInv, TableInv', EndRehash
    PROVE  \A j \in Key : Contents'[j] = IF j = pending[1] THEN pending[2] ELSE Contents[j]
<1>1. /\ TypeOK /\ PartsInv /\ old = <<>> /\ UNCHANGED <<home, old>>
      /\ pending[1] \in Key /\ pending[2] \in Value
  BY DEF TableInv, EndRehash, TypeOK, Value
<1>2. \/ ToArray(pending[1], pending[2]) \/ ToNode(pending[1], pending[2])
      \/ ToNothing(pending[1], pending[2])
  BY <1>1, AssignedKeeps DEF EndRehash, TypeOK
<1> QED BY <1>1, <1>2, AssignedContents

\* ... and the collector.
LEMMA ClearContents ==
    ASSUME TableInv, TableInv', NEW k \in Key, ClearWeakKey(k) \/ ClearWeakValue(k)
    PROVE  \A j \in Key : Contents'[j] = IF j = k THEN Nil ELSE Contents[j]
<1>0. TypeOK /\ PartsInv /\ (pending = <<>> => old = <<>>) /\ Nil \notin Key
  BY TableAssumption DEF TableInv, Key
<1>1. CASE ClearWeakKey(k)
  <2> DEFINE n == Node(Nil, Nil)  t == SlotOf(hash, k)
  <2>1. old = <<>> /\ UNCHANGED <<array, old>>
    BY <1>0, <1>1 DEF ClearWeakKey
  <2>2. hash' = [hash EXCEPT ![t] = n] /\ n.key = Nil /\ t \in DOMAIN hash /\ hash[t].key = k
    BY <1>0, <1>1, FoundPlace DEF ClearWeakKey, Place, TypeOK, Node
  <2> HIDE DEF n, t
  <2>3. DOMAIN hash' = DOMAIN hash /\ \A i \in DOMAIN hash : hash'[i] = IF i = t THEN n ELSE hash[i]
    BY <2>2
  <2> SUFFICES ASSUME NEW j \in Key PROVE Contents'[j] = IF j = k THEN Nil ELSE Contents[j]
    OBVIOUS
  <2>4. CASE InArray(j)
    <3>1. InArray(j)' /\ j # k
      <4>1. InArray(j)'
        BY <2>1, <2>4 DEF InArray
      <4>2. k \in ObjKey /\ ObjKey \cap IntKey = {}
        BY <1>1, TableAssumption DEF ClearWeakKey
      <4> QED BY <2>4, <4>1, <4>2 DEF InArray
    <3> QED BY <2>1, <2>4, <3>1, ContentsFacts, ContentsFactsNext
  <2>5. CASE ~InArray(j)
    <3>1. n.key # j
      BY <1>0, <2>2
    <3> QED BY <2>1, <2>2, <2>3, <2>5, <3>1, NodeContents
  <2> QED BY <2>4, <2>5
<1>2. CASE ClearWeakValue(k)
  <2>1. old = <<>> /\ UNCHANGED <<home, old>> /\ Nil \in Value
    BY <1>0, <1>2 DEF ClearWeakValue, Value
  <2>2. ToArray(k, Nil) \/ ToNode(k, Nil) \/ ToNothing(k, Nil)
    BY <1>0, <1>2, <2>1, ClearedIsAssigned, AssignedKeeps DEF TypeOK
  <2> QED BY <2>1, <2>2, AssignedContents
<1> QED BY <1>1, <1>2

\* All kinds of step together.
LEMMA StepContents ==
    ASSUME TableInv, TableInv', Next
    PROVE  \/ /\ pending = <<>> /\ pending' = <<>>
              /\ \E k \in Key : \A j \in Key : j # k => Contents'[j] = Contents[j]
           \/ /\ pending = <<>>
              /\ \E k \in Key, v \in Val : pending' = <<k, v>> /\ Contents[k] = Nil
              /\ \A j \in Key : Contents'[j] = Contents[j]
           \/ /\ pending # <<>> /\ pending' = <<>>
              /\ \A j \in Key : Contents'[j] = IF j = pending[1] THEN pending[2] ELSE Contents[j]
           \/ UNCHANGED pending /\ \A j \in Key : Contents'[j] = Contents[j]
<1>1. ASSUME NEW k \in Key, NEW v \in Val \cup {Nil}, Set(k, v)
      PROVE  /\ pending = <<>> /\ pending' = <<>>
             /\ \A j \in Key : j # k => Contents'[j] = Contents[j]
  BY <1>1, SetContents DEF Set, Value
<1>2. ASSUME NEW k \in Key, NEW v \in Val \cup {Nil}, BeginRehash(k, v)
      PROVE  /\ pending = <<>> /\ v \in Val /\ pending' = <<k, v>> /\ Contents[k] = Nil
             /\ \A j \in Key : Contents'[j] = Contents[j]
  BY <1>2, BeginRehashContents DEF BeginRehash, NeedsRehash, Value
<1>3. CASE RehashOne
  BY <1>3, RehashOneContents DEF RehashOne
<1>4. CASE EndRehash
  BY <1>4, EndRehashContents DEF EndRehash
<1>5. ASSUME NEW k \in Key, ClearWeakKey(k) \/ ClearWeakValue(k)
      PROVE  /\ pending = <<>> /\ pending' = <<>>
             /\ \A j \in Key : j # k => Contents'[j] = Contents[j]
  BY <1>5, ClearContents DEF ClearWeakKey, ClearWeakValue
<1>6. CASE UNCHANGED table
  <2>1. UNCHANGED <<array, hash, old, pending>>
    BY <1>6 DEF table
  <2>2. Contents' = Contents
    BY <2>1 DEF Contents, InArray
  <2> QED BY <2>1, <2>2
<1>7. (\E e \in TmName : GetTm(e)) \/ BeginTraversal \/ NextStep => UNCHANGED table
  BY DEF GetTm, BeginTraversal, NextStep
<1> QED BY <1>1, <1>2, <1>3, <1>4, <1>5, <1>6, <1>7 DEF Next

\* The table implements the abstract map: every step is an assignment to one key,
\* one of the two ends of an assignment that rehashes, or leaves the map alone.
THEOREM ImplementsMap == Spec => MapSpec
<1>1. Init => Map!Init
  <2> SUFFICES ASSUME Init PROVE Map!Init
    OBVIOUS
  <2>1. TableInv
    BY InitInv
  <2>2. Free \notin Key /\ pending = <<>> /\ old = <<>>
    BY TableAssumption DEF Init
  <2>3. ASSUME NEW k \in Key PROVE Contents[k] = Nil
    <3>1. InArray(k) => array[k] = Nil
      <4> SUFFICES ASSUME InArray(k) PROVE array[k] = Nil
        OBVIOUS
      <4>1. PICK m \in Nat : array = [i \in 1..m |-> Nil]
        BY TableAssumption DEF Init
      <4>2. k \in 1..Len(array) /\ Len(array) = m
        BY <4>1, TableAssumption DEF InArray
      <4> QED BY <4>1, <4>2
    <3>2. Absent(hash, k) /\ Absent(old, k)
      BY <2>2 DEF Init, FreeNodes, Node, Absent
    <3> QED BY <2>1, <3>1, <3>2, ContentsFacts
  <2>4. Contents = [k \in Key |-> Nil]
    BY <2>3 DEF Contents
  <2> QED BY <2>2, <2>4 DEF Map!Init
<1>2. TableInv /\ TableInv' /\ [Next]_vars => [Map!Next]_<<Contents, pending>>
  <2> SUFFICES ASSUME TableInv, TableInv', [Next]_vars PROVE [Map!Next]_<<Contents, pending>>
    OBVIOUS
  <2>0. /\ \A j \in Key : Contents'[j] \in Val \cup {Nil}
        /\ Contents = [j \in Key |-> Contents[j]] /\ Contents' = [j \in Key |-> Contents'[j]]
    <3>1. \A j \in Key : Contents'[j] \in Val \cup {Nil}
      BY ContentsFactsNext DEF Value
    <3>2. Contents = [j \in Key |-> Contents[j]]
      <4>1. Contents = [k \in Key |-> IF InArray(k) THEN array[k] ELSE Look(hash \o old, k)]
        BY DEF Contents, Look
      <4> QED BY <4>1
    <3>3. Contents' = [j \in Key |-> Contents'[j]]
      <4>1. Contents' = [k \in Key |-> IF InArray(k)' THEN array'[k] ELSE Look(hash' \o old', k)]
        BY DEF Contents, Look, Key
      <4> QED BY <4>1
    <3> QED BY <3>1, <3>2, <3>3
  <2>1. ASSUME \A j \in Key : Contents'[j] = Contents[j] PROVE UNCHANGED Contents
    BY <2>0, <2>1
  <2>2. ASSUME pending = <<>>, pending' = <<>>, NEW k \in Key,
               \A j \in Key : j # k => Contents'[j] = Contents[j]
        PROVE  [Map!Next]_<<Contents, pending>>
    <3>1. CASE Contents'[k] = Contents[k]
      BY <2>1, <2>2, <3>1
    <3>2. CASE Contents'[k] # Contents[k]
      <4>1. Contents' = [Contents EXCEPT ![k] = Contents'[k]]
        BY <2>0, <2>2
      <4>2. Map!Put(k)
        BY <2>0, <2>2, <4>1 DEF Map!Put
      <4> QED BY <3>2, <4>2 DEF Map!Next
    <3> QED BY <3>1, <3>2
  <2>3. ASSUME NEW k \in Key, NEW v \in Val, pending = <<>>, pending' = <<k, v>>, Contents[k] = Nil,
               \A j \in Key : Contents'[j] = Contents[j]
        PROVE  Map!Next
    BY <2>1, <2>3 DEF Map!Next, Map!BeginPut
  <2>4. ASSUME pending # <<>>, pending' = <<>>,
               \A j \in Key : Contents'[j] = IF j = pending[1] THEN pending[2] ELSE Contents[j]
        PROVE  Map!Next
    <3>1. Contents' = [Contents EXCEPT ![pending[1]] = pending[2]]
      BY <2>0, <2>4
    <3> QED BY <2>4, <3>1 DEF Map!Next, Map!EndPut
  <2>5. CASE Next
    BY <2>1, <2>2, <2>3, <2>4, <2>5, StepContents
  <2>6. CASE UNCHANGED vars
    <3>1. UNCHANGED <<array, hash, old, pending>>
      BY <2>6 DEF vars, table
    <3> QED BY <3>1 DEF Contents, InArray
  <2> QED BY <2>5, <2>6
<1> QED BY <1>1, <1>2, Invariance, PTL DEF Spec, MapSpec, Map!Spec
-----------------------------------------------------------------------------
(* The cache of absent metamethods *)

TmInv ==
    /\ \A e \in noTm : Contents[e] = Nil
    /\ pending # <<>> /\ pending[1] \in TmName => noTm = {}

\* A metamethod that get_tm remembers as absent is absent: every assignment to a
\* metamethod name forgets, when it starts, what was remembered.
THEOREM TmCacheCorrect == Spec => []TmCacheSound
<1>0. TmName \subseteq Key
  BY TableAssumption DEF Key
<1>1. Init => TmInv
  BY DEF Init, TmInv
<1>2. TableInv /\ TableInv' /\ TmInv /\ [Next]_vars => TmInv'
  <2> SUFFICES ASSUME TableInv, TableInv', TmInv, [Next]_vars PROVE TmInv'
    OBVIOUS
  <2>0. noTm \subseteq TmName /\ \A e \in noTm : e \in Key /\ Contents[e] = Nil
    BY <1>0 DEF TmInv, TableInv, TypeOK
  <2>1. ASSUME NEW k \in Key, NEW v \in Val \cup {Nil}, Set(k, v) PROVE TmInv'
    <3>1. /\ pending' = <<>> /\ noTm' \subseteq noTm /\ (k \in TmName => noTm' = {})
          /\ \A j \in Key : j # k => Contents'[j] = Contents[j]
      BY <2>1, SetContents DEF Set, Value
    <3> QED BY <2>0, <3>1 DEF TmInv
  <2>2. ASSUME NEW k \in Key, NEW v \in Val \cup {Nil}, BeginRehash(k, v) PROVE TmInv'
    <3>1. /\ pending' = <<k, v>> /\ noTm' \subseteq noTm /\ (k \in TmName => noTm' = {})
          /\ \A j \in Key : Contents'[j] = Contents[j]
      BY <2>2, BeginRehashContents DEF BeginRehash, Value
    <3> QED BY <2>0, <3>1 DEF TmInv
  <2>3. CASE RehashOne
    <3>1. UNCHANGED <<pending, noTm>> /\ \A j \in Key : Contents'[j] = Contents[j]
      BY <2>3, RehashOneContents DEF RehashOne
    <3> QED BY <2>0, <3>1 DEF TmInv
  <2>4. CASE EndRehash
    <3>1. /\ pending # <<>> /\ pending' = <<>> /\ UNCHANGED noTm
          /\ \A j \in Key : j # pending[1] => Contents'[j] = Contents[j]
      BY <2>4, EndRehashContents DEF EndRehash
    <3> QED BY <2>0, <3>1 DEF TmInv
  <2>5. ASSUME NEW k \in Key, ClearWeakKey(k) \/ ClearWeakValue(k) PROVE TmInv'
    <3>1. /\ UNCHANGED <<pending, noTm>>
          /\ \A j \in Key : Contents'[j] = IF j = k THEN Nil ELSE Contents[j]
      BY <2>5, ClearContents DEF ClearWeakKey, ClearWeakValue
    <3> QED BY <2>0, <3>1 DEF TmInv
  <2>6. ASSUME UNCHANGED table PROVE Contents' = Contents /\ UNCHANGED pending
    <3>1. UNCHANGED <<array, hash, old, pending>>
      BY <2>6 DEF table
    <3> QED BY <3>1 DEF Contents, InArray
  <2>7. ASSUME NEW e \in TmName, GetTm(e) PROVE TmInv'
    <3>1. pending = <<>> /\ Contents[e] = Nil
      BY <1>0, <2>7, GetContents DEF GetTm, TableInv
    <3> QED BY <2>0, <2>6, <2>7, <3>1 DEF TmInv, GetTm
  <2>8. CASE BeginTraversal \/ NextStep \/ UNCHANGED vars
    <3>1. UNCHANGED table /\ UNCHANGED noTm
      BY <2>8 DEF BeginTraversal, NextStep, vars
    <3> QED BY <2>0, <2>6, <3>1 DEF TmInv
  <2> QED BY <2>1, <2>2, <2>3, <2>4, <2>5, <2>7, <2>8 DEF Next
<1>3. TableInv /\ TmInv => TmCacheSound
  BY <1>0, GetContents DEF TmInv, TmCacheSound, TableInv, TypeOK
<1> QED BY <1>1, <1>2, <1>3, Invariance, PTL DEF Spec

-----------------------------------------------------------------------------
(* Length *)

\* `#t` is a border: down the array part to the last value, or up through the hash
\* part, where the keys in use end at some number.
LEMMA LengthBorder ==
    ASSUME TableInv
    PROVE  /\ Length \in IntKey /\ Length >= 1 => Get(Length) # Nil
           /\ Length + 1 \in IntKey => Get(Length + 1) = Nil
<1> DEFINE n == Len(array)
           F == {i \in DOMAIN array : array[i] # Nil}
           L == LastInArray
<1>0. n \in Nat /\ DOMAIN array = 1..n /\ IntKey \subseteq Int /\ IsFiniteSet(IntKey)
  BY TableAssumption DEF TableInv, TypeOK
<1>1. L \in {0} \cup F /\ \A y \in {0} \cup F : y <= L
  <2>1. {0} \cup F \subseteq Int /\ \A y \in {0} \cup F : y <= n
    BY <1>0
  <2> DEFINE G == {0} \cup F
  <2>2. L = Max(G) /\ G # {} /\ G \subseteq Int /\ \A y \in G : y <= n
    BY <2>1 DEF LastInArray
  <2> HIDE DEF G, n
  <2>3. Max(G) \in G /\ \A y \in G : y <= Max(G)
    <3>1. n \in Int
      BY <1>0
    <3> QED BY <2>2, <3>1, MaxBounded, Zenon
  <2> QED BY <2>2, <2>3 DEF G
<1>2. L \in 0..n /\ (L >= 1 => array[L] # Nil) /\ \A i \in 1..n : i > L => array[i] = Nil
  BY <1>0, <1>1
<1> HIDE DEF L
<1>3. \A i \in IntKey : i >= 1 /\ i <= n => Get(i) = array[i]
  BY DEF Get, InArray
<1>4. CASE L < n
  <2>1. Length = L
    BY <1>4 DEF Length, L
  <2>2. L + 1 \in 1..n /\ L + 1 > L
    BY <1>0, <1>2, <1>4
  <2> QED BY <1>0, <1>2, <1>3, <2>1, <2>2
<1>5. CASE ~(L < n)
  <2> DEFINE c == Cardinality(IntKey)
             S == {i \in n..(n + c) : i + 1 \notin IntKey \/ Get(i + 1) = Nil}
  <2>0. L = n /\ c \in Nat
    <3>1. c \in Nat
      BY <1>0, FS_CardinalityType
    <3> HIDE DEF n
    <3>2. L = n
      BY <1>0, <1>2, <1>5
    <3> QED BY <3>1, <3>2
  <2>1. Length = Min(S)
    BY <1>5 DEF Length, L
  <2>2. S # {}
    <3> SUFFICES ASSUME S = {} PROVE FALSE
      OBVIOUS
    <3>1. \A i \in n..(n + c) : i + 1 \in IntKey
      OBVIOUS
    <3>2. (n + 1)..(n + c + 1) \subseteq IntKey
      <4> SUFFICES ASSUME NEW j \in (n + 1)..(n + c + 1) PROVE j \in IntKey
        OBVIOUS
      <4> HIDE DEF c
      <4>1. j - 1 \in n..(n + c) /\ (j - 1) + 1 = j
        BY <1>0, <2>0
      <4> QED BY <3>1, <4>1 DEF c
    <3> HIDE DEF c, n
    <3>3. Cardinality((n + 1)..(n + c + 1)) = c + 1
      <4>1. n + 1 \in Int /\ n + c + 1 \in Int /\ ~(n + 1 > n + c + 1) /\ (n + c + 1) - (n + 1) + 1 = c + 1
        BY <1>0, <2>0
      <4> QED BY <4>1, FS_Interval
    <3>4. Cardinality((n + 1)..(n + c + 1)) <= c
      BY <1>0, <3>2, FS_Subset DEF c
    <3> QED BY <2>0, <3>3, <3>4
  <2>3. S \subseteq Nat
    <3> HIDE DEF c
    <3> QED BY <1>0, <2>0
  <2>4. Length \in S /\ \A y \in S : Length <= y
    <3> HIDE DEF S
    <3> QED BY <2>1, <2>2, <2>3, MinNat
  <2> DEFINE m == Length
  <2>5. m \in n..(n + c) /\ (m + 1 \in IntKey => Get(m + 1) = Nil)
    BY <2>4
  <2>6. ASSUME m \in IntKey, m >= 1 PROVE Get(m) # Nil
    <3>1. CASE m = n
      BY <1>0, <1>2, <1>3, <2>0, <2>6, <3>1
    <3>2. CASE m # n
      <4> HIDE DEF m, c, n
      <4>1. m - 1 \in n..(n + c) /\ (m - 1) + 1 = m /\ ~(m <= m - 1)
        BY <1>0, <2>0, <2>5, <3>2
      <4>2. m - 1 \notin S
        BY <2>4, <4>1 DEF m
      <4> QED BY <2>6, <4>1, <4>2 DEF c, n
    <3> QED BY <3>1, <3>2
  <2> QED BY <2>5, <2>6
<1> QED BY <1>4, <1>5

\* The length operator (table_length) returns a border of the table, whatever
\* assignments, deletions and collections have left in its two parts.
THEOREM LengthCorrect == Spec => []LengthIsBorder
<1>1. TableInv => LengthIsBorder
  BY LengthBorder DEF LengthIsBorder
<1> QED BY <1>1, Invariance, PTL

-----------------------------------------------------------------------------
(* Traversal *)

Located(k) == InArray(k) \/ ~Absent(hash, k)
Position(k) == IF InArray(k) THEN k ELSE Len(array) + SlotOf(hash, k)
CursorPos == IF cursor = Nil THEN 0 ELSE Position(cursor)

\* While a traversal is under way its cursor is in the table, what it has returned
\* lies at or before the cursor, and what it has to return is there and has been
\* returned if it lies at or before the cursor.
TravInv ==
    cursor # Free =>
        /\ pending = <<>>
        /\ cursor = Nil => visited = {}
        /\ cursor # Nil => Located(cursor)
        /\ \A k \in visited :
              (ForArray(k) => InArray(k)) /\ (Located(k) => Position(k) <= CursorPos)
        /\ \A k \in expected :
              Contents[k] # Nil /\ (Position(k) <= CursorPos => k \in visited)

\* The position of a key is its index in the array part, or that of its node.
LEMMA PositionIs ==
    TableInv => \A k \in Key :
        /\ InArray(k) => Position(k) = k /\ k \in 1..Len(array)
        /\ ~InArray(k) => \A i \in DOMAIN hash : hash[i].key = k => Position(k) = Len(array) + i
<1> SUFFICES ASSUME TableInv, NEW k \in Key
             PROVE  /\ InArray(k) => Position(k) = k /\ k \in 1..Len(array)
                    /\ ~InArray(k) => \A i \in DOMAIN hash : hash[i].key = k => Position(k) = Len(array) + i
  OBVIOUS
<1>1. InArray(k) => Position(k) = k
  BY DEF Position
<1>2. InArray(k) => k \in 1..Len(array)
  <2> SUFFICES ASSUME InArray(k) PROVE k \in 1..Len(array)
    OBVIOUS
  <2>1. k \in Int /\ k >= 1 /\ k <= Len(array) /\ Len(array) \in Nat
    BY TableAssumption DEF InArray, TableInv, TypeOK
  <2> QED BY <2>1
<1>3. ASSUME ~InArray(k), NEW i \in DOMAIN hash, hash[i].key = k PROVE Position(k) = Len(array) + i
  <2>1. SlotOf(hash, k) = i
    BY <1>3, ChainedFinds DEF TableInv, TypeOK, PartsInv
  <2> QED BY <1>3, <2>1 DEF Position
<1> QED BY <1>1, <1>2, <1>3

\* A key with a value is in the table.
LEMMA ValueLocated ==
    TableInv /\ old = <<>> => \A j \in Key : Contents[j] # Nil => Located(j)
<1> SUFFICES ASSUME TableInv, old = <<>>, NEW k \in Key, Contents[k] # Nil PROVE Located(k)
  OBVIOUS
<1>1. Absent(old, k)
  BY DEF Absent
<1> QED BY <1>1, ContentsFacts DEF Located

\* A step that leaves the traversal alone, erases nodes' keys at most away from the
\* cursor and grows the array part at most to ArrayLimit keeps the order of keys.
LEMMA OrderKept ==
    ASSUME TableInv, TableInv', cursor # Free, UNCHANGED cursor,
           cursor # Nil => Located(cursor),
           Len(array) <= Len(array'),
           \A i \in Int : i > Len(array) /\ i <= Len(array') => i \in 1..ArrayLimit,
           DOMAIN hash' = DOMAIN hash,
           \A i \in DOMAIN hash :
               hash'[i].key = hash[i].key \/ (hash'[i].key \notin Key /\ hash[i].key # cursor)
    PROVE  /\ cursor # Nil => Located(cursor)'
           /\ \A k \in Key : InArray(k) => InArray(k)'
           /\ \A k \in Key : InArray(k)' /\ ~InArray(k) => ForArray(k) /\ Absent(hash, k)
           /\ \A k \in Key : Located(k) /\ Located(k)' /\ (InArray(k)' => InArray(k)) =>
                 (Position(k)' <= CursorPos' <=> Position(k) <= CursorPos)
<1>0. /\ Len(array) \in Nat /\ Len(array') \in Nat /\ IntKey \subseteq Int /\ ArrayLimit \in Nat
      /\ DOMAIN hash = 1..Len(hash) /\ Len(hash) \in Nat
  BY TableAssumption DEF TableInv, TypeOK
<1>1. ASSUME NEW k \in Key, InArray(k) PROVE InArray(k)'
  <2>1. k \in IntKey /\ k \in Int /\ k >= 1 /\ k <= Len(array)
    BY <1>0, <1>1 DEF InArray
  <2> QED BY <1>0, <2>1 DEF InArray
<1>2. ASSUME NEW k \in Key, InArray(k)', ~InArray(k) PROVE ForArray(k) /\ Absent(hash, k)
  <2>1. k \in IntKey /\ k \in Int /\ k >= 1 /\ k <= Len(array')
    BY <1>0, <1>2 DEF InArray
  <2>2. k > Len(array)
    BY <1>0, <1>2, <2>1 DEF InArray
  <2>3. k \in 1..ArrayLimit
    BY <2>1, <2>2
  <2> QED BY <2>1, <2>3 DEF ForArray, Absent, TableInv, PartsInv, Unshadowed
<1>3. cursor # Nil => cursor \in Key
  BY DEF TableInv, TypeOK
<1>4. ASSUME NEW i \in DOMAIN hash, hash[i].key = cursor, cursor # Nil PROVE hash'[i].key = cursor
  BY <1>4
<1>5. ASSUME NEW i \in DOMAIN hash', hash'[i].key \in Key PROVE hash[i].key = hash'[i].key
  BY <1>5
<1>6. ASSUME cursor # Nil PROVE Located(cursor)'
  <2>1. CASE InArray(cursor)
    <3>1. InArray(cursor)'
      BY <1>1, <1>3, <1>6, <2>1 DEF InArray
    <3> QED BY <3>1 DEF Located
  <2>2. CASE ~Absent(hash, cursor)
    <3>1. PICK i \in DOMAIN hash : hash[i].key = cursor
      BY <2>2 DEF Absent
    <3>2. hash'[i].key = cursor' /\ i \in DOMAIN hash'
      BY <1>4, <1>6, <3>1
    <3> QED BY <3>2 DEF Located, Absent
  <2> QED BY <1>6, <2>1, <2>2 DEF Located
<1>a. (TableInv => \A k \in Key :
        /\ InArray(k) => Position(k) = k /\ k \in 1..Len(array)
        /\ ~InArray(k) => \A i \in DOMAIN hash : hash[i].key = k => Position(k) = Len(array) + i)'
  BY PositionIs, PTL
<1>7. \A k \in Key :
        /\ InArray(k) => Position(k) = k /\ k \in 1..Len(array)
        /\ ~InArray(k) => \A i \in DOMAIN hash : hash[i].key = k => Position(k) = Len(array) + i
  BY PositionIs
<1>8. \A k \in Key :
        /\ InArray(k)' => Position(k)' = k /\ k \in 1..Len(array')
        /\ ~InArray(k)' => \A i \in DOMAIN hash' : hash'[i].key = k => Position(k)' = Len(array') + i
  BY <1>a DEF Key
<1>9. ASSUME NEW k \in Key, Located(k), Located(k)', InArray(k)' => InArray(k)
      PROVE  \/ k \in 1..Len(array) /\ Position(k) = k /\ Position(k)' = k
             \/ \E i \in 1..Len(hash) : Position(k) = Len(array) + i /\ Position(k)' = Len(array') + i
  <2>1. CASE InArray(k)
    BY <1>1, <1>7, <1>8, <2>1
  <2>2. CASE ~InArray(k)
    <3>1. PICK i \in DOMAIN hash' : hash'[i].key = k
      BY <1>9, <2>2 DEF Located, Absent
    <3>2. hash[i].key = k
      BY <1>5, <3>1
    <3> QED BY <1>0, <1>7, <1>8, <1>9, <2>2, <3>1, <3>2
  <2> QED BY <2>1, <2>2
<1>10. \/ CursorPos = 0 /\ CursorPos' = 0
       \/ CursorPos \in 1..Len(array) /\ CursorPos' = CursorPos
       \/ \E i \in 1..Len(hash) : CursorPos = Len(array) + i /\ CursorPos' = Len(array') + i
  <2>1. CASE cursor = Nil
    BY <2>1 DEF CursorPos
  <2>2. CASE cursor # Nil
    <3>1. PICK c \in Key : c = cursor
      BY <1>3, <2>2
    <3>2. Located(c) /\ Located(c)' /\ CursorPos = Position(c) /\ CursorPos' = Position(c)'
      BY <1>6, <2>2, <3>1 DEF CursorPos, Located, Position, InArray, Absent, SlotOf, StopAt, Probe
    <3>3. InArray(c)' => InArray(c)
      BY <1>2, <3>1, <3>2 DEF Located
    <3> QED BY <1>9, <3>2, <3>3
  <2> QED BY <2>1, <2>2
<1>11. ASSUME NEW k \in Key, Located(k), Located(k)', InArray(k)' => InArray(k)
       PROVE  Position(k)' <= CursorPos' <=> Position(k) <= CursorPos
  <2> DEFINE P == Position(k)  Q == Position(k)'  C == CursorPos  D == CursorPos'
  <2>1. \/ P \in 1..Len(array) /\ Q = P
        \/ \E i \in 1..Len(hash) : P = Len(array) + i /\ Q = Len(array') + i
    BY <1>9, <1>11
  <2>2. \/ C = 0 /\ D = 0
        \/ C \in 1..Len(array) /\ D = C
        \/ \E i \in 1..Len(hash) : C = Len(array) + i /\ D = Len(array') + i
    BY <1>10
  <2> HIDE DEF P, Q, C, D
  <2>3. Q <= D <=> P <= C
    BY <1>0, <2>1, <2>2
  <2> QED BY <2>3 DEF P, Q, C, D
<1> QED BY <1>1, <1>2, <1>6, <1>11

\* Such a step keeps the traversal in order, if the keys it still has to return
\* keep a value.
LEMMA TravKept ==
    ASSUME TableInv, TableInv', TravInv, cursor # Free, pending' = <<>>,
           UNCHANGED <<cursor, visited>>, expected' \subseteq expected,
           \A k \in expected' : Contents'[k] # Nil,
           Len(array) <= Len(array'),
           \A i \in Int : i > Len(array) /\ i <= Len(array') => i \in 1..ArrayLimit,
           DOMAIN hash' = DOMAIN hash,
           \A i \in DOMAIN hash :
               hash'[i].key = hash[i].key \/ (hash'[i].key \notin Key /\ hash[i].key # cursor)
    PROVE  TravInv'
<1>1. /\ pending = <<>> /\ old = <<>>
      /\ cursor = Nil => visited = {}
      /\ cursor # Nil => Located(cursor)
      /\ \A k \in visited :
            (ForArray(k) => InArray(k)) /\ (Located(k) => Position(k) <= CursorPos)
      /\ \A k \in expected :
            Contents[k] # Nil /\ (Position(k) <= CursorPos => k \in visited)
  BY DEF TravInv, TableInv
<1>2. visited \subseteq Key /\ expected \subseteq Key /\ old' = <<>>
  BY DEF TableInv, TypeOK
<1>3. /\ cursor # Nil => Located(cursor)'
      /\ \A k \in Key : InArray(k) => InArray(k)'
      /\ \A k \in Key : InArray(k)' /\ ~InArray(k) => ForArray(k) /\ Absent(hash, k)
      /\ \A k \in Key : Located(k) /\ Located(k)' /\ (InArray(k)' => InArray(k)) =>
            (Position(k)' <= CursorPos' <=> Position(k) <= CursorPos)
  BY <1>1, OrderKept
<1>a. (TableInv /\ old = <<>> => \A j \in Key : Contents[j] # Nil => Located(j))'
  BY ValueLocated, PTL
<1>4. ASSUME NEW k \in Key, Located(k)', ~InArray(k)' PROVE Located(k)
  BY <1>4 DEF Located, Absent
<1>5. ASSUME NEW k \in visited
      PROVE  (ForArray(k)' => InArray(k)') /\ (Located(k)' => Position(k)' <= CursorPos')
  <2>1. k \in Key
    BY <1>2
  <2>2. InArray(k)' => InArray(k)
    BY <1>1, <1>3, <2>1
  <2>3. Located(k)' => Located(k)
    BY <1>4, <2>1, <2>2 DEF Located
  <2>4. ForArray(k)' => InArray(k)'
    BY <1>1, <1>3, <2>1 DEF ForArray
  <2> QED BY <1>1, <1>3, <2>1, <2>2, <2>3, <2>4
<1>6. ASSUME NEW k \in expected', Position(k)' <= CursorPos' PROVE k \in visited
  <2>1. k \in Key /\ k \in expected
    BY <1>2
  <2>2. Located(k)
    BY <1>1, <2>1, ValueLocated
  <2>3. Located(k)'
    BY <1>a, <1>2, <2>1 DEF Located, Absent, InArray, Key
  <2>4. InArray(k)' => InArray(k)
    BY <1>3, <2>1, <2>2 DEF Located
  <2> QED BY <1>1, <1>3, <1>6, <2>1, <2>2, <2>3, <2>4
<1>7. /\ \A k \in visited' :
            (ForArray(k)' => InArray(k)') /\ (Located(k)' => Position(k)' <= CursorPos')
      /\ \A k \in expected' :
            Contents'[k] # Nil /\ (Position(k)' <= CursorPos' => k \in visited')
  BY <1>5, <1>6
<1>8. cursor' = Nil => visited' = {}
  BY <1>1
<1>9. cursor' # Nil => Located(cursor)'
  BY <1>3
<1> QED BY <1>7, <1>8, <1>9 DEF TravInv

\* So does an assignment of nil, or to a key that is there.
LEMMA AssignedTrav ==
    ASSUME TableInv, TableInv', TravInv, cursor # Free, pending' = <<>>, UNCHANGED <<old, cursor, visited>>,
           NEW k \in Key, NEW v \in Value, ToArray(k, v) \/ ToNode(k, v) \/ ToNothing(k, v),
           v = Nil \/ Contents[k] # Nil,
           expected' \subseteq expected, v = Nil => k \notin expected'
    PROVE  TravInv'
<1>0. /\ old = <<>> /\ expected \subseteq Key /\ Len(array) \in Nat /\ IntKey \subseteq Int
      /\ ArrayLimit \in Nat /\ Nil \notin Key
      /\ \A j \in expected : Contents[j] # Nil
  BY TableAssumption DEF TravInv, TableInv, TypeOK
<1>1. \A j \in Key : Contents'[j] = IF j = k THEN v ELSE Contents[j]
  BY <1>0, AssignedContents
<1>2. \A j \in expected' : Contents'[j] # Nil
  BY <1>0, <1>1
<1>3. CASE ToArray(k, v)
  <2>1. UNCHANGED hash /\ Len(array) <= Len(array')
        /\ \A i \in Int : i > Len(array) /\ i <= Len(array') => i \in 1..ArrayLimit
    <3>1. UNCHANGED hash /\ k \in Int /\ (InArray(k) \/ k \in 1..ArrayLimit)
          /\ Len(array') = IF k <= Len(array) THEN Len(array) ELSE k
      BY <1>0, <1>3 DEF ToArray, ForArray
    <3> QED BY <1>0, <3>1 DEF InArray
  <2> QED BY <1>2, <2>1, TravKept
<1>4. CASE ToNode(k, v)
  <2>1. UNCHANGED array /\ DOMAIN hash' = DOMAIN hash /\ ~InArray(k)
    BY <1>4 DEF ToNode, ForArray, InArray
  <2>2. PICK t \in DOMAIN hash :
          /\ \A j \in DOMAIN hash : hash'[j] = IF j = t THEN Node(k, v) ELSE hash[j]
          /\ hash[t].key = k \/ (Absent(hash, k) /\ hash[t].value = Nil /\ v # Nil)
    BY <1>4 DEF ToNode
  <2>3. Absent(hash, k) => Contents[k] = Nil
    BY <1>0, <2>1, ContentsFacts DEF Absent
  <2>4. hash[t].key = k
    BY <2>2, <2>3
  <2>5. \A j \in DOMAIN hash : hash'[j].key = hash[j].key
    BY <2>2, <2>4 DEF Node
  <2>6. Len(array) <= Len(array') /\ \A i \in Int : i > Len(array) /\ i <= Len(array') => i \in 1..ArrayLimit
    BY <1>0, <2>1
  <2> QED BY <1>2, <2>1, <2>5, <2>6, TravKept
<1>5. CASE ToNothing(k, v)
  <2>1. UNCHANGED <<array, hash>>
    BY <1>5 DEF ToNothing
  <2>2. Len(array) <= Len(array') /\ \A i \in Int : i > Len(array) /\ i <= Len(array') => i \in 1..ArrayLimit
    BY <1>0, <2>1
  <2> QED BY <1>2, <2>1, <2>2, TravKept
<1> QED BY <1>3, <1>4, <1>5

\* The positions of the cursor, and of a key with a value.
LEMMA CursorIs ==
    ASSUME TableInv, TravInv, cursor # Free
    PROVE  CursorAt = {CursorPos} /\ CursorPos \in 0..Size /\ Min(CursorAt) = CursorPos
<1>0. /\ Len(array) \in Nat /\ Len(hash) \in Nat /\ Size = Len(array) + Len(hash)
      /\ DOMAIN array = 1..Len(array) /\ DOMAIN hash = 1..Len(hash)
      /\ CursorAt \subseteq 0..Size /\ (CursorAt # {} => Min(CursorAt) \in CursorAt)
  BY PositionFacts
<1>1. CASE cursor = Nil
  BY <1>0, <1>1 DEF CursorAt, CursorPos
<1>2. CASE cursor # Nil
  <2>1. cursor \in Key /\ Located(cursor) /\ CursorPos = Position(cursor)
    BY <1>2 DEF TravInv, TableInv, TypeOK, CursorPos
  <2>2. CASE InArray(cursor)
    <3>1. CursorAt = {cursor} /\ CursorPos = cursor
      BY <1>2, <2>1, <2>2, PositionIs DEF CursorAt
    <3> QED BY <1>0, <3>1
  <2>3. CASE ~InArray(cursor)
    <3>1. PICK i \in DOMAIN hash : hash[i].key = cursor
      BY <2>1, <2>3 DEF Located, Absent
    <3>2. CursorPos = Len(array) + i
      BY <2>1, <2>3, <3>1, PositionIs
    <3>3. CursorAt = {p \in (Len(array) + 1)..Size : KeyAt(p) = cursor}
      BY <1>2, <2>3 DEF CursorAt
    <3>4. ASSUME NEW p \in (Len(array) + 1)..Size PROVE KeyAt(p) = cursor <=> p = Len(array) + i
      <4>1. p - Len(array) \in DOMAIN hash /\ KeyAt(p) = hash[p - Len(array)].key
        BY <1>0, <3>4 DEF KeyAt
      <4>2. hash[p - Len(array)].key = cursor <=> p - Len(array) = i
        BY <2>1, <3>1, <4>1 DEF TableInv, Apart
      <4> QED BY <1>0, <4>1, <4>2
    <3>5. Len(array) + i \in (Len(array) + 1)..Size
      BY <1>0
    <3>6. CursorAt = {CursorPos}
      BY <3>2, <3>3, <3>4, <3>5
    <3> QED BY <1>0, <3>6
  <2> QED BY <2>2, <2>3
<1> QED BY <1>1, <1>2

\* A key with a value surfaces at its position.
LEMMA ValueSurfaces ==
    ASSUME TableInv, old = <<>>, NEW k \in Key, Contents[k] # Nil
    PROVE  Position(k) \in 1..Size /\ Surfaces(Position(k)) /\ KeyAt(Position(k)) = k
<1>0. /\ Len(array) \in Nat /\ Len(hash) \in Nat /\ Size = Len(array) + Len(hash)
      /\ DOMAIN array = 1..Len(array) /\ DOMAIN hash = 1..Len(hash)
  BY PositionFacts
<1>1. CASE InArray(k)
  <2>1. Position(k) = k /\ k \in 1..Len(array) /\ Contents[k] = array[k]
    BY <1>1, PositionIs, ContentsFacts
  <2> QED BY <1>0, <2>1 DEF Surfaces, KeyAt, ValueAt
<1>2. CASE ~InArray(k)
  <2>1. PICK i \in DOMAIN hash : hash[i].key = k
    BY <1>2, ValueLocated DEF Located, Absent
  <2>2. Position(k) = Len(array) + i /\ Contents[k] = hash[i].value
    BY <1>2, <2>1, PositionIs, ContentsFacts
  <2>3. ~(Len(array) + i <= Len(array)) /\ (Len(array) + i) - Len(array) = i /\ Len(array) + i \in 1..Size
    BY <1>0
  <2>4. KeyAt(Len(array) + i) = k /\ ValueAt(Len(array) + i) = Contents[k]
    BY <2>1, <2>2, <2>3 DEF KeyAt, ValueAt
  <2>5. k # Free
    BY TableAssumption DEF Key
  <2> QED BY <1>2, <2>2, <2>3, <2>4, <2>5 DEF Surfaces
<1> QED BY <1>1, <1>2

\* What surfaces is a key at its position.
LEMMA SurfacingIs ==
    ASSUME TableInv, NEW p \in 1..Size, Surfaces(p)
    PROVE  /\ KeyAt(p) \in Key /\ Located(KeyAt(p)) /\ Position(KeyAt(p)) = p
           /\ ForArray(KeyAt(p)) => InArray(KeyAt(p))
<1>0. /\ Len(array) \in Nat /\ Len(hash) \in Nat /\ Size = Len(array) + Len(hash)
      /\ DOMAIN array = 1..Len(array) /\ DOMAIN hash = 1..Len(hash) /\ KeyAt(p) \in Key
  BY PositionFacts
<1>1. CASE p <= Len(array)
  <2>1. p \in 1..Len(array) /\ KeyAt(p) = p /\ array[p] # Nil
    BY <1>0, <1>1 DEF KeyAt, Surfaces, ValueAt
  <2>2. InArray(p)
    BY <1>0, <2>1 DEF InArray, TableInv, PartsInv
  <2> QED BY <1>0, <2>1, <2>2 DEF Position, Located
<1>2. CASE ~(p <= Len(array))
  <2> DEFINE i == p - Len(array)  k == KeyAt(p)
  <2>1. i \in DOMAIN hash /\ hash[i].key = k /\ p = Len(array) + i
    BY <1>0, <1>2 DEF KeyAt
  <2>2. ~InArray(k)
    BY <1>0, <1>2 DEF Surfaces
  <2> HIDE DEF i, k
  <2>3. Position(k) = p
    BY <1>0, <2>1, <2>2, PositionIs DEF k
  <2>4. ~ForArray(k)
    BY <2>1, <2>2 DEF ForArray, TableInv, PartsInv, Unshadowed
  <2>5. Located(k)
    BY <2>1 DEF Located, Absent
  <2> QED BY <1>0, <2>3, <2>4, <2>5 DEF k
<1> QED BY <1>1, <1>2

\* A call of next keeps the traversal in order.
LEMMA NextStepTrav ==
    ASSUME TableInv, TableInv', TravInv, NextStep
    PROVE  /\ TravInv'
           /\ NextPositions = {} => expected \subseteq visited
           /\ NextPositions # {} => cursor' \in Key /\ cursor' \notin visited
<1>0. /\ pending = <<>> /\ cursor # Free /\ old = <<>> /\ UNCHANGED <<home, array, hash, old, pending>>
      /\ visited \subseteq Key /\ expected \subseteq Key
  BY DEF NextStep, TableInv, TypeOK, table
<1>1. CursorAt # {} /\ Min(CursorAt) = CursorPos /\ CursorPos \in 0..Size /\ Size \in Nat
  BY <1>0, CursorIs, PositionFacts
<1>2. /\ \A k \in visited : Located(k) => Position(k) <= CursorPos
      /\ \A k \in visited : ForArray(k) => InArray(k)
      /\ \A k \in expected : Contents[k] # Nil /\ (Position(k) <= CursorPos => k \in visited)
  BY <1>0 DEF TravInv
<1>3. \A p \in 1..Size : Surfaces(p) /\ p > CursorPos <=> p \in NextPositions
  BY <1>1 DEF NextPositions
<1>4. \A k \in expected : Position(k) \in 1..Size /\ Surfaces(Position(k)) /\ KeyAt(Position(k)) = k
  BY <1>0, <1>2, ValueSurfaces
<1>5. CASE NextPositions = {}
  <2>1. expected \subseteq visited
    <3> SUFFICES ASSUME NEW k \in expected PROVE k \in visited
      OBVIOUS
    <3>1. Position(k) \in 1..Size /\ ~(Position(k) > CursorPos)
      BY <1>3, <1>4, <1>5
    <3>2. Position(k) <= CursorPos
      BY <1>1, <3>1
    <3> QED BY <1>2, <3>2
  <2>2. cursor' = Free
    BY <1>5 DEF NextStep
  <2> QED BY <1>5, <2>1, <2>2 DEF TravInv
<1>6. CASE NextPositions # {}
  <2> DEFINE p == Min(NextPositions)  c == KeyAt(p)
  <2>1. /\ p \in NextPositions /\ p \in 1..Size /\ Surfaces(p) /\ p > CursorPos
        /\ \A q \in NextPositions : p <= q
    <3>1. p \in NextPositions /\ NextPositions \subseteq 1..Size /\ \A q \in NextPositions : p <= q
      BY <1>1, <1>6, PositionFacts
    <3> QED BY <1>3, <3>1
  <2>2. cursor' = c /\ visited' = visited \cup {c} /\ UNCHANGED expected
    BY <1>6 DEF NextStep
  <2>3. c \in Key /\ Located(c) /\ Position(c) = p /\ (ForArray(c) => InArray(c))
    BY <2>1, SurfacingIs
  <2> HIDE DEF p, c
  <2>4. c \notin visited
    <3>1. Position(c) > CursorPos
      BY <2>1, <2>3
    <3>2. ~(Position(c) <= CursorPos)
      BY <1>1, <2>1, <2>3, <3>1
    <3> QED BY <1>2, <2>3, <3>2
  <2>5. \A k : /\ InArray(k)' <=> InArray(k)
               /\ Located(k)' <=> Located(k)
               /\ ForArray(k)' <=> ForArray(k)
    BY <1>0 DEF InArray, Located, Absent, ForArray
  <2>6. \A k : Position(k)' = Position(k)
    BY <1>0 DEF Position, InArray, SlotOf, StopAt, Probe
  <2>7. CursorPos' = p /\ cursor' # Nil /\ Located(cursor)'
    <3>1. cursor' # Nil
      BY <2>2, <2>3, TableAssumption DEF Key
    <3>2. CursorPos' = Position(c)
      BY <1>0, <2>2, <3>1 DEF CursorPos, Position, InArray, SlotOf, StopAt, Probe
    <3>3. Located(cursor)'
      BY <1>0, <2>2, <2>3 DEF Located, InArray, Absent
    <3> QED BY <2>3, <3>1, <3>2, <3>3
  <2>8. Contents' = Contents
    BY <1>0 DEF Contents, InArray
  <2>9. ASSUME NEW k \in visited \cup {c}
        PROVE  (ForArray(k)' => InArray(k)') /\ (Located(k)' => Position(k)' <= CursorPos')
    <3>1. CASE k = c
      BY <2>1, <2>3, <2>5, <2>6, <2>7, <3>1
    <3>2. CASE k \in visited
      <4>1. ForArray(k)' => InArray(k)'
        BY <1>2, <2>5, <3>2
      <4>2. ASSUME Located(k)' PROVE Position(k)' <= CursorPos'
        <5>1. Located(k) /\ k \in Key /\ Position(k)' = Position(k) /\ Position(k) <= CursorPos
          BY <1>0, <1>2, <2>5, <2>6, <3>2, <4>2
        <5>2. Position(k) \in Int
          <6>0. Len(array) \in Nat /\ DOMAIN hash = 1..Len(hash) /\ Len(hash) \in Nat
            BY PositionFacts
          <6>1. CASE InArray(k)
            BY <5>1, <6>0, <6>1, PositionIs
          <6>2. CASE ~InArray(k)
            <7>1. PICK i \in DOMAIN hash : hash[i].key = k
              BY <5>1, <6>2 DEF Located, Absent
            <7> QED BY <5>1, <6>0, <6>2, <7>1, PositionIs
          <6> QED BY <6>1, <6>2
        <5> QED BY <1>1, <2>1, <2>7, <5>1, <5>2
      <4> QED BY <4>1, <4>2
    <3> QED BY <3>1, <3>2
  <2>10. ASSUME NEW k \in expected, Position(k) <= p PROVE k \in visited \cup {c}
    <3>1. Position(k) \in 1..Size /\ Surfaces(Position(k)) /\ KeyAt(Position(k)) = k
      BY <1>4
    <3>2. CASE Position(k) > CursorPos
      <4>1. Position(k) \in NextPositions
        BY <1>3, <3>1, <3>2
      <4>2. Position(k) = p
        BY <2>1, <2>10, <3>1, <4>1
      <4> QED BY <3>1, <4>2 DEF c
    <3>3. CASE ~(Position(k) > CursorPos)
      <4>1. Position(k) <= CursorPos
        BY <1>1, <3>1, <3>3
      <4> QED BY <1>2, <4>1
    <3> QED BY <3>2, <3>3
  <2>11. \A k \in visited' :
            (ForArray(k)' => InArray(k)') /\ (Located(k)' => Position(k)' <= CursorPos')
    BY <2>2, <2>9
  <2>12. \A k \in expected' : Contents'[k] # Nil /\ (Position(k)' <= CursorPos' => k \in visited')
    BY <1>2, <2>2, <2>6, <2>7, <2>8, <2>10
  <2>13. TravInv'
    BY <1>0, <2>7, <2>11, <2>12 DEF TravInv
  <2> QED BY <1>6, <2>2, <2>3, <2>4, <2>13
<1> QED BY <1>5, <1>6

\* Every step does.
LEMMA StepTrav == TableInv /\ TableInv' /\ TravInv /\ [Next]_vars => TravInv'
<1> SUFFICES ASSUME TableInv, TableInv', TravInv, [Next]_vars, cursor' # Free PROVE TravInv'
  BY DEF TravInv
<1>0. /\ Nil \notin Key /\ Free \notin Key /\ Nil # Free /\ Nil \in Value /\ Len(array) \in Nat
      /\ (pending = <<>> => old = <<>>) /\ PartsInv /\ home \in HashFns
      /\ expected \subseteq Key
      /\ (cursor # Free => pending = <<>> /\ \A k \in expected : Contents[k] # Nil)
  <2>1. Nil \notin Key /\ Free \notin Key /\ Nil # Free /\ Nil \in Value
    BY TableAssumption DEF Key, Value
  <2>2. /\ Len(array) \in Nat /\ PartsInv /\ home \in HashFns /\ expected \subseteq Key
        /\ (pending = <<>> => old = <<>>)
    BY DEF TableInv, TypeOK
  <2>3. cursor # Free => pending = <<>> /\ \A k \in expected : Contents[k] # Nil
    BY Zenon DEF TravInv
  <2> QED BY <2>1, <2>2, <2>3
<1>1. ASSUME UNCHANGED <<table, trav>> PROVE TravInv'
  <2>1. UNCHANGED <<array, hash, old, pending, cursor, visited, expected>>
    BY <1>1 DEF table, trav
  <2>2. Contents' = Contents
    BY <2>1 DEF Contents, InArray
  <2>3. Len(array) <= Len(array') /\ \A i \in Int : i > Len(array) /\ i <= Len(array') => i \in 1..ArrayLimit
    BY <1>0, <2>1
  <2>4. cursor # Free /\ pending' = <<>> /\ \A k \in expected' : Contents'[k] # Nil
    BY <1>0, <2>1, <2>2
  <2> QED BY <2>1, <2>3, <2>4, TravKept
<1>2. ASSUME NEW k \in Key, NEW v \in Value, Set(k, v) PROVE TravInv'
  <2>1. pending = <<>> /\ pending' = <<>> /\ old = <<>> /\ UNCHANGED <<home, old>>
    BY <1>0, <1>2 DEF Set
  <2>2. ToArray(k, v) \/ ToNode(k, v) \/ ToNothing(k, v)
    BY <1>0, <1>2, <2>1, AssignedKeeps DEF Set
  <2>3. Get(k) = Contents[k]
    BY <2>1, GetContents
  <2>4. /\ UNCHANGED <<cursor, visited>> /\ expected' \subseteq expected
        /\ v = Nil => k \notin expected'
        /\ v = Nil \/ Contents[k] # Nil
    BY <1>2, <2>3 DEF Set, Traversed, trav
  <2>5. cursor # Free
    BY <2>4
  <2> QED BY <2>1, <2>2, <2>4, <2>5, AssignedTrav
<1>3. ASSUME NEW k \in Key, NEW v \in Value, BeginRehash(k, v) PROVE FALSE
  <2>1. pending' # <<>>
    BY <1>3 DEF BeginRehash
  <2> QED BY <2>1 DEF TableInv, Rehashing
<1>4. ASSUME RehashOne \/ EndRehash PROVE FALSE
  <2>1. pending # <<>> /\ UNCHANGED cursor
    BY <1>4 DEF RehashOne, EndRehash, trav, TableInv
  <2> QED BY <2>1 DEF TableInv, Rehashing
<1>5. ASSUME NEW k \in Key, ClearWeakKey(k) PROVE TravInv'
  <2>1. /\ pending = <<>> /\ old = <<>> /\ UNCHANGED <<array, old, pending, cursor, visited>>
        /\ k # cursor /\ expected' = expected \ {k}
    BY <1>0, <1>5 DEF ClearWeakKey
  <2> DEFINE t == SlotOf(hash, k)  n == Node(Nil, Nil)
  <2>2. hash' = [hash EXCEPT ![t] = n] /\ n.key = Nil /\ t \in DOMAIN hash /\ hash[t].key = k
    BY <1>0, <1>5, FoundPlace DEF ClearWeakKey, Place, Node
  <2> HIDE DEF t, n
  <2>3. DOMAIN hash' = DOMAIN hash /\ \A i \in DOMAIN hash : hash'[i] = IF i = t THEN n ELSE hash[i]
    BY <2>2
  <2>4. \A i \in DOMAIN hash :
           hash'[i].key = hash[i].key \/ (hash'[i].key \notin Key /\ hash[i].key # cursor)
    BY <1>0, <2>1, <2>2, <2>3
  <2>5. Len(array) <= Len(array') /\ \A i \in Int : i > Len(array) /\ i <= Len(array') => i \in 1..ArrayLimit
    BY <1>0, <2>1
  <2>6. \A j \in Key : Contents'[j] = IF j = k THEN Nil ELSE Contents[j]
    BY <1>5, ClearContents
  <2>7. \A j \in expected' : Contents'[j] # Nil
    BY <1>0, <2>1, <2>6
  <2> QED BY <2>1, <2>3, <2>4, <2>5, <2>7, TravKept
<1>6. ASSUME NEW k \in Key, ClearWeakValue(k) PROVE TravInv'
  <2>1. /\ pending = <<>> /\ old = <<>> /\ UNCHANGED <<home, old, pending, cursor, visited>>
        /\ expected' = expected \ {k}
    BY <1>0, <1>6 DEF ClearWeakValue
  <2>2. ToArray(k, Nil) \/ ToNode(k, Nil) \/ ToNothing(k, Nil)
    BY <1>0, <1>6, <2>1, ClearedIsAssigned, AssignedKeeps
  <2> QED BY <1>0, <2>1, <2>2, AssignedTrav
<1>7. CASE BeginTraversal
  <2>1. /\ UNCHANGED <<home, array, hash, old, pending>> /\ cursor' = Nil /\ visited' = {} /\ pending = <<>>
        /\ old = <<>> /\ expected' = {k \in Key : Get(k) # Nil}
    BY <1>0, <1>7 DEF BeginTraversal, table
  <2>2. Contents' = Contents /\ \A k : Position(k)' = Position(k)
    BY <2>1 DEF Contents, InArray, Position, SlotOf, StopAt, Probe
  <2>3. CursorPos' = 0
    BY <2>1 DEF CursorPos
  <2>4. ASSUME NEW k \in expected' PROVE Contents'[k] # Nil /\ ~(Position(k)' <= CursorPos')
    <3>1. k \in Key /\ Contents[k] # Nil
      BY <2>1, <2>4, GetContents
    <3>2. Position(k) \in 1..Size /\ Size \in Nat
      BY <2>1, <3>1, ValueSurfaces, PositionFacts
    <3> QED BY <2>2, <2>3, <3>1, <3>2
  <2> QED BY <2>1, <2>4 DEF TravInv
<1>8. CASE NextStep
  BY <1>8, NextStepTrav
<1>9. ASSUME NEW e \in TmName, GetTm(e) PROVE TravInv'
  BY <1>1, <1>9 DEF GetTm
<1>10. CASE UNCHANGED vars
  BY <1>1, <1>10 DEF vars
<1> QED BY <1>2, <1>3, <1>4, <1>5, <1>6, <1>7, <1>8, <1>9, <1>10 DEF Next, Value

\* The traversal invariant holds in every reachable state.
LEMMA TravInvariance == Spec => []TravInv
<1>1. Init => TravInv
  BY DEF Init, TravInv
<1> QED BY <1>1, StepTrav, Invariance, PTL DEF Spec

\* `next` finds the key it is called with: updating, erasing and collecting leave
\* the node of the cursor where it was.
THEOREM CursorStaysValid == Spec => []NextKeyValid
<1>1. TableInv /\ TravInv => NextKeyValid
  BY CursorIs DEF NextKeyValid
<1> QED BY <1>1, Invariance, TravInvariance, PTL

\* A traversal returns no key twice, and when `next` returns nil it has returned
\* every key that was in the table all along.
THEOREM TraversalCorrect == Spec => TraversalComplete
<1> DEFINE A ==
       /\ cursor' # cursor /\ cursor' \in Key => cursor' \notin visited
       /\ cursor # Free /\ cursor' = Free /\ UNCHANGED table => expected \subseteq visited
<1>1. TableInv /\ TableInv' /\ TravInv /\ [Next]_vars => [A]_vars
  <2> SUFFICES ASSUME TableInv, TableInv', TravInv, Next PROVE A
    OBVIOUS
  <2>0. Nil \notin Key /\ Free \notin Key /\ Nil # Free
    BY TableAssumption DEF Key
  <2>1. CASE NextStep
    BY <2>0, <2>1, NextStepTrav DEF NextStep
  <2>2. ASSUME NEW k \in Key, NEW v \in Value, Set(k, v) PROVE A
    <3>1. cursor' = cursor \/ (v # Nil /\ Get(k) = Nil /\ cursor' = Free)
      BY <2>2 DEF Set, Traversed, trav
    <3>2. UNCHANGED table => Contents' = Contents
      <4> SUFFICES ASSUME UNCHANGED table PROVE Contents' = Contents
        OBVIOUS
      <4>1. UNCHANGED <<array, hash, old>>
        BY DEF table
      <4> QED BY <4>1 DEF Contents, InArray
    <3>3. Get(k) = Contents[k] /\ Contents'[k] = v
      <4>1. old = <<>>
        BY <2>2 DEF Set, TableInv
      <4> QED BY <2>2, <4>1, GetContents, SetContents
    <3> QED BY <2>0, <3>1, <3>2, <3>3
  <2>3. ASSUME NEW k \in Key, NEW v \in Value, BeginRehash(k, v) PROVE A
    <3>1. pending = <<>> /\ pending' # <<>>
      BY <2>3 DEF BeginRehash
    <3>2. cursor' = Free /\ ~UNCHANGED table
      BY <3>1 DEF TableInv, Rehashing, table
    <3> QED BY <2>0, <3>2
  <2>4. CASE RehashOne \/ EndRehash \/ \E k \in Key : ClearWeakKey(k) \/ ClearWeakValue(k)
    <3>1. UNCHANGED cursor
      BY <2>4 DEF RehashOne, EndRehash, ClearWeakKey, ClearWeakValue, trav
    <3> QED BY <3>1
  <2>5. CASE \E e \in TmName : GetTm(e)
    BY <2>5 DEF GetTm, trav
  <2>6. CASE BeginTraversal
    BY <2>0, <2>6 DEF BeginTraversal
  <2> QED BY <2>1, <2>2, <2>3, <2>4, <2>5, <2>6 DEF Next, Value
<1> QED BY <1>1, Invariance, TravInvariance, PTL DEF Spec, TraversalComplete
=============================================================================
