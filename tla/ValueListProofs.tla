--------------------------- MODULE ValueListProofs ---------------------------
(***************************************************************************)
(* Theorems about ValueList, for any values, states and number of nodes.   *)
(***************************************************************************)
EXTENDS ValueList, EZValueProofs, FiniteSetTheorems, WellFoundedInduction

-----------------------------------------------------------------------------
(* Walks along links.                                                      *)

\* A set of numbers that is not empty has a least one.
LEMMA Least ==
    ASSUME NEW T, T \subseteq Nat, T # {}
    PROVE  \E x \in T : \A y \in T : x <= y
<1> DEFINE less == {ss \in Nat \X Nat : ss[1] < ss[2]}
<1>1. IsWellFoundedOn(less, Nat)
  BY NatLessThanWellFounded, Zenon DEF OpToRel
<1>2. PICK x \in T : \A y \in T : ~(<<y, x>> \in less)
  <2> HIDE DEF less
  <2> QED  BY <1>1, WFMin
<1>3. \A y \in T : x <= y
  <2> TAKE y \in T
  <2>1. x \in Nat /\ y \in Nat /\ ~(<<y, x>> \in less)
    BY <1>2
  <2> QED  BY <2>1
<1> QED  BY <1>3

\* A walk along links that follow a sequence of all nodes is that sequence.
LEMMA WalkFollows ==
    ASSUME NEW nodes, NEW m \in Nat, NEW s \in [1..m -> nodes],
           Cardinality(nodes) = m, None \notin nodes,
           NEW first, first = IF m = 0 THEN None ELSE s[1],
           NEW link, \A i \in 1..m : link[s[i]] = IF i < m THEN s[i + 1] ELSE None
    PROVE  Walk(nodes, first, link) = s
<1> DEFINE Step(f) == [k \in 1..m + 1 |->
                         IF k = 1 THEN first
                         ELSE IF f[k - 1] = None THEN None ELSE link[f[k - 1]]]
           at == CHOOSE f : f = Step(f)
           g == [k \in 1..m + 1 |-> IF k <= m THEN s[k] ELSE None]
<1>1. g = Step(g)
  <2>1. ASSUME NEW k \in 1..m + 1 PROVE g[k] = Step(g)[k]
    <3>1. CASE k = 1
      BY <3>1
    <3>2. CASE k # 1
      <4>1. k - 1 \in 1..m /\ g[k - 1] = s[k - 1] /\ s[k - 1] \in nodes
        BY <3>2
      <4> QED  BY <3>2, <4>1
    <3> QED  BY <3>1, <3>2
  <2> QED  BY <2>1
<1>2. at = Step(at)
  <2> HIDE DEF Step, g
  <2> QED  BY <1>1
<1> HIDE DEF at
<1>3. \A k \in 1..m + 1 : at[k] = g[k]
  <2> DEFINE wrong == {k \in 1..m + 1 : at[k] # g[k]}
  <2> SUFFICES ASSUME wrong # {} PROVE FALSE
    OBVIOUS
  <2>1. PICK k \in wrong : \A j \in wrong : k <= j
    <3>1. wrong \subseteq Nat
      OBVIOUS
    <3> HIDE DEF wrong
    <3> QED  BY <3>1, Least
  <2>2. k \in 1..m + 1 /\ at[k] # g[k]
    BY <2>1
  <2>3. CASE k = 1
    <3>1. at[k] = Step(at)[k] /\ g[k] = Step(g)[k]
      BY <1>1, <1>2
    <3> QED  BY <2>2, <2>3, <3>1
  <2>4. CASE k # 1
    <3>1. k - 1 \in 1..m + 1 /\ k - 1 \notin wrong
      BY <2>1, <2>2, <2>4
    <3>2. at[k - 1] = g[k - 1]
      BY <3>1
    <3>3. at[k] = Step(at)[k] /\ g[k] = Step(g)[k]
      BY <1>1, <1>2
    <3> HIDE DEF wrong, g
    <3> QED  BY <2>2, <2>4, <3>2, <3>3
  <2> QED  BY <2>3, <2>4
<1>4. at = g
  <2>1. at = [k \in 1..m + 1 |-> at[k]]
    BY <1>2
  <2> QED  BY <1>3, <2>1
<1>5. Walk(nodes, first, link) = [k \in {i \in DOMAIN at : at[i] # None} |-> at[k]]
  BY DEF Walk, at
<1>6. {i \in DOMAIN at : at[i] # None} = 1..m
  BY <1>4
<1>7. \A k \in 1..m : at[k] = s[k]
  BY <1>4
<1> HIDE DEF g, Step
<1> QED  BY <1>5, <1>6, <1>7

-----------------------------------------------------------------------------
(* A collection that is in order.                                          *)

Entry == [value : Interval, state : State]

\* The sequence s has every node once, and the links follow it both ways.
InOrder(c, s) ==
    /\ c.size \in Nat
    /\ s \in [1..c.size -> DOMAIN c.entry]
    /\ \A n \in DOMAIN c.entry : \E i \in 1..c.size : s[i] = n
    /\ \A i, j \in 1..c.size : s[i] = s[j] => i = j
    /\ c.head = IF c.size = 0 THEN None ELSE s[1]
    /\ c.tail = IF c.size = 0 THEN None ELSE s[c.size]
    /\ c.next \in [DOMAIN c.entry -> Nat] /\ c.prev \in [DOMAIN c.entry -> Nat]
    /\ \A i \in 1..c.size :
          /\ c.next[s[i]] = IF i < c.size THEN s[i + 1] ELSE None
          /\ c.prev[s[i]] = IF i > 1 THEN s[i - 1] ELSE None

Fields ==
    {"head", "tail", "size", "next", "prev", "entry", "states", "begins", "fresh"}

\* The fields have their types, and _state_index is exact.
IsCollection(c) ==
    /\ DOMAIN c = Fields
    /\ c.fresh \in Nat \ {0}
    /\ c.entry \in [DOMAIN c.entry -> Entry]
    /\ DOMAIN c.entry \subseteq 1..c.fresh - 1
    /\ c.states = [x \in State |-> {n \in DOMAIN c.entry : c.entry[n].state = x}]

\* An element put in after position p, and the one at position p taken out.
Widened(s, m, p, x) ==
    [i \in 1..m + 1 |-> IF i <= p THEN s[i] ELSE IF i = p + 1 THEN x ELSE s[i - 1]]
Narrowed(s, m, p) == [i \in 1..m - 1 |-> IF i < p THEN s[i] ELSE s[i + 1]]

\* What an insertion and a removal do to the fields.
IsInserted(c, before, after, entry, e) ==
    /\ DOMAIN e = Fields
    /\ e.head = IF before = None THEN c.fresh ELSE c.head
    /\ e.tail = IF after = None THEN c.fresh ELSE c.tail
    /\ e.size = c.size + 1
    /\ e.next = Put(SetLink(c.next, before, c.fresh), c.fresh, after)
    /\ e.prev = Put(SetLink(c.prev, after, c.fresh), c.fresh, before)
    /\ e.entry = Put(c.entry, c.fresh, entry)
    /\ e.states = [c.states EXCEPT ![entry.state] = @ \cup {c.fresh}]
    /\ e.begins = Put(c.begins, entry.value.begin, c.fresh)
    /\ e.fresh = c.fresh + 1

IsRemoved(c, n, e) ==
    LET begin == c.entry[n].value.begin IN
    /\ DOMAIN e = Fields
    /\ e.head = IF c.prev[n] = None THEN c.next[n] ELSE c.head
    /\ e.tail = IF c.next[n] = None THEN c.prev[n] ELSE c.tail
    /\ e.size = c.size - 1
    /\ e.next = Del(SetLink(c.next, c.prev[n], c.next[n]), n)
    /\ e.prev = Del(SetLink(c.prev, c.next[n], c.prev[n]), n)
    /\ e.entry = Del(c.entry, n)
    /\ e.states = [c.states EXCEPT ![c.entry[n].state] = @ \ {n}]
    /\ e.begins = IF begin \in DOMAIN c.begins /\ c.begins[begin] = n
                  THEN Del(c.begins, begin) ELSE c.begins
    /\ e.fresh = c.fresh

\* The fields after an insertion.
LEMMA InsertFields ==
    ASSUME NEW c, IsCollection(c), NEW before, NEW after, NEW entry
    PROVE  IsInserted(c, before, after, entry, Insert(c, before, after, entry))
<1> DEFINE d == Link(c, before, after)
<1>1. /\ DOMAIN d = Fields
      /\ d.head = IF before = None THEN c.fresh ELSE c.head
      /\ d.tail = IF after = None THEN c.fresh ELSE c.tail
      /\ d.size = c.size
      /\ d.next = Put(SetLink(c.next, before, c.fresh), c.fresh, after)
      /\ d.prev = Put(SetLink(c.prev, after, c.fresh), c.fresh, before)
      /\ d.entry = c.entry /\ d.states = c.states
      /\ d.begins = c.begins /\ d.fresh = c.fresh
  BY DEF IsCollection, Link, Fields
<1> HIDE DEF d
<1>2. Insert(c, before, after, entry)
        = [d EXCEPT !.entry = Put(@, c.fresh, entry),
                    !.states[entry.state] = @ \cup {c.fresh},
                    !.begins = Put(@, entry.value.begin, c.fresh),
                    !.size = @ + 1,
                    !.fresh = @ + 1]
  BY Zenon DEF Insert, d
<1> QED  BY <1>1, <1>2 DEF Fields, IsInserted

\* A collection stays in order when a node is put between two neighbours.
LEMMA InsertInOrder ==
    ASSUME NEW c, IsCollection(c), NEW s, InOrder(c, s), NEW p \in 0..c.size,
           NEW before, before = IF p = 0 THEN None ELSE s[p],
           NEW after, after = IF p = c.size THEN None ELSE s[p + 1],
           NEW entry \in Entry
    PROVE  LET e == Insert(c, before, after, entry) IN
           IsCollection(e) /\ InOrder(e, Widened(s, c.size, p, c.fresh))
<1> DEFINE e == Insert(c, before, after, entry)
           t == Widened(s, c.size, p, c.fresh)
           m == c.size
           D == DOMAIN c.entry
<1>1. /\ DOMAIN e = Fields
      /\ e.head = IF before = None THEN c.fresh ELSE c.head
      /\ e.tail = IF after = None THEN c.fresh ELSE c.tail
      /\ e.size = c.size + 1
      /\ e.next = Put(SetLink(c.next, before, c.fresh), c.fresh, after)
      /\ e.prev = Put(SetLink(c.prev, after, c.fresh), c.fresh, before)
      /\ e.entry = Put(c.entry, c.fresh, entry)
      /\ e.states = [c.states EXCEPT ![entry.state] = @ \cup {c.fresh}]
      /\ e.begins = Put(c.begins, entry.value.begin, c.fresh)
      /\ e.fresh = c.fresh + 1
  <2>1. IsInserted(c, before, after, entry, e)
    BY InsertFields
  <2> HIDE DEF e
  <2> QED  BY <2>1 DEF IsInserted
<1> HIDE DEF e
<1>2. /\ m \in Nat /\ c.fresh \in Nat /\ c.fresh # 0 /\ c.fresh \notin D
      /\ D \subseteq Nat \ {0}
      /\ s \in [1..m -> D]
  BY DEF IsCollection, InOrder
<1>a. \A k \in 1..m : /\ s[k] \in D
                      /\ k # p => s[k] # before
                      /\ k # p + 1 => s[k] # after
  <2> TAKE k \in 1..m
  <2>1. s[k] \in D /\ s[k] # None
    BY <1>2 DEF None
  <2>2. \A i, j \in 1..m : s[i] = s[j] => i = j
    BY DEF InOrder
  <2>3. p # 0 => p \in 1..m /\ before = s[p]
    BY <1>2
  <2>4. p # m => p + 1 \in 1..m /\ after = s[p + 1]
    BY <1>2
  <2> HIDE DEF m, D
  <2> QED  BY <2>1, <2>2, <2>3, <2>4 DEF m
<1>3. DOMAIN e.entry = D \cup {c.fresh}
  BY <1>1 DEF Put
<1>4. IsCollection(e)
  <2>1. e.entry \in [DOMAIN e.entry -> Entry]
    BY <1>1 DEF Put, IsCollection
  <2>2. DOMAIN e.entry \subseteq 1..e.fresh - 1
    BY <1>1, <1>3 DEF IsCollection
  <2>3. e.states = [x \in State |-> {n \in DOMAIN e.entry : e.entry[n].state = x}]
    <3>1. entry.state \in State
      BY DEF Entry
    <3>2. e.states = [x \in State |-> IF x = entry.state
                                      THEN c.states[x] \cup {c.fresh} ELSE c.states[x]]
      BY <1>1, <3>1 DEF IsCollection
    <3>3. \A x \in State : e.states[x] = {n \in DOMAIN e.entry : e.entry[n].state = x}
      <4> TAKE x \in State
      <4>1. c.states[x] = {n \in D : c.entry[n].state = x}
        BY DEF IsCollection
      <4>2. /\ \A n \in D : e.entry[n] = c.entry[n]
            /\ e.entry[c.fresh] = entry
        BY <1>1, <1>2 DEF Put
      <4> QED  BY <1>3, <3>2, <4>1, <4>2
    <3> QED  BY <3>2, <3>3
  <2>4. e.fresh \in Nat \ {0}
    BY <1>1, <1>2
  <2> QED  BY <1>1, <2>1, <2>2, <2>3, <2>4 DEF IsCollection
<1>5. InOrder(e, t)
  <2>1. t \in [1..e.size -> DOMAIN e.entry]
    BY <1>1, <1>2, <1>3 DEF Widened
  <2>2. \A n \in DOMAIN e.entry : \E i \in 1..e.size : t[i] = n
    <3> TAKE n \in DOMAIN e.entry
    <3>1. CASE n = c.fresh
      <4>1. p + 1 \in 1..e.size /\ t[p + 1] = n
        BY <1>1, <1>2, <3>1 DEF Widened
      <4> QED  BY <4>1
    <3>2. CASE n # c.fresh
      <4>1. PICK i \in 1..m : s[i] = n
        BY <1>3, <3>2 DEF InOrder
      <4>2. CASE i <= p
        <5>1. i \in 1..e.size /\ t[i] = n
          BY <1>1, <1>2, <4>1, <4>2 DEF Widened
        <5> QED  BY <5>1
      <4>3. CASE i > p
        <5>1. i + 1 \in 1..e.size /\ t[i + 1] = n
          BY <1>1, <1>2, <4>1, <4>3 DEF Widened
        <5> QED  BY <5>1
      <4> QED  BY <4>2, <4>3
    <3> QED  BY <3>1, <3>2
  <2>3. \A i, j \in 1..e.size : t[i] = t[j] => i = j
    <3>1. \A i, j \in 1..m : s[i] = s[j] => i = j
      BY DEF InOrder
    <3>2. \A i \in 1..m : s[i] # c.fresh
      BY <1>2
    <3> TAKE i, j \in 1..e.size
    <3>3. /\ i <= p => i \in 1..m
          /\ i > p + 1 => i - 1 \in 1..m
          /\ j <= p => j \in 1..m
          /\ j > p + 1 => j - 1 \in 1..m
      BY <1>1, <1>2
    <3>4. /\ t[i] = IF i <= p THEN s[i] ELSE IF i = p + 1 THEN c.fresh ELSE s[i - 1]
          /\ t[j] = IF j <= p THEN s[j] ELSE IF j = p + 1 THEN c.fresh ELSE s[j - 1]
      BY <1>1 DEF Widened
    <3> QED  BY <1>1, <1>2, <3>1, <3>2, <3>3, <3>4
  <2>4. e.head = t[1] /\ e.tail = t[m + 1]
    <3>1. before = None <=> p = 0
      BY <1>2 DEF None
    <3>2. after = None <=> p = m
      BY <1>2 DEF None
    <3>3. p # 0 => c.head = s[1] /\ t[1] = s[1]
      BY <1>2 DEF InOrder, Widened
    <3>4. p # m => c.tail = s[m] /\ t[m + 1] = s[m]
      BY <1>2 DEF InOrder, Widened
    <3>5. t[p + 1] = c.fresh
      BY <1>2 DEF Widened
    <3> QED  BY <1>1, <3>1, <3>2, <3>3, <3>4, <3>5
  <2>5. /\ e.next \in [DOMAIN e.entry -> Nat]
        /\ e.prev \in [DOMAIN e.entry -> Nat]
    <3>1. c.next \in [D -> Nat] /\ c.prev \in [D -> Nat]
      BY DEF InOrder
    <3>2. before \in Nat /\ after \in Nat
      BY <1>2 DEF None
    <3>3. /\ SetLink(c.next, before, c.fresh) \in [D -> Nat]
          /\ SetLink(c.prev, after, c.fresh) \in [D -> Nat]
      BY <1>2, <3>1 DEF SetLink
    <3> QED  BY <1>1, <1>2, <1>3, <3>2, <3>3 DEF Put
  <2>6. \A i \in 1..m + 1 : e.next[t[i]] = IF i < m + 1 THEN t[i + 1] ELSE None
    <3> TAKE i \in 1..m + 1
    <3>1. /\ c.next \in [D -> Nat]
          /\ \A k \in 1..m : c.next[s[k]] = IF k < m THEN s[k + 1] ELSE None
          /\ \A k, j \in 1..m : s[k] = s[j] => k = j
      BY DEF InOrder
    <3>2. \A n \in D : e.next[n] = IF n = before THEN c.fresh ELSE c.next[n]
      BY <1>1, <1>2, <3>1 DEF Put, SetLink, None
    <3>3. e.next[c.fresh] = after
      BY <1>1 DEF Put
    <3>4. CASE i < p
      <4>1. i \in 1..m /\ t[i] = s[i] /\ t[i + 1] = s[i + 1] /\ i < m /\ p \in 1..m
        BY <1>2, <3>4 DEF Widened
      <4>2. s[i] \in D /\ s[i] # before
        BY <1>a, <3>4, <4>1
      <4>3. e.next[t[i]] = c.next[s[i]]
        BY <3>2, <4>1, <4>2
      <4>4. c.next[s[i]] = s[i + 1]
        BY <3>1, <4>1
      <4> QED  BY <1>2, <3>4, <4>1, <4>3, <4>4
    <3>5. CASE i = p
      <4>1. i \in 1..m /\ t[i] = s[i] /\ t[i + 1] = c.fresh /\ s[i] \in D /\ s[i] = before
        BY <1>2, <3>5 DEF Widened
      <4> QED  BY <1>2, <3>2, <3>5, <4>1
    <3>6. CASE i = p + 1
      <4>1. t[i] = c.fresh /\ (i < m + 1 => t[i + 1] = s[i])
        BY <1>2, <3>6 DEF Widened
      <4> QED  BY <1>2, <3>3, <3>6, <4>1
    <3>7. CASE i > p + 1
      <4>1. i - 1 \in 1..m /\ t[i] = s[i - 1] /\ (i < m + 1 => t[i + 1] = s[i])
        BY <1>2, <3>7 DEF Widened
      <4>2. s[i - 1] \in D /\ s[i - 1] # before
        <5>1. i - 1 # p
          BY <3>7
        <5> QED  BY <1>a, <4>1, <5>1
      <4>3. e.next[t[i]] = c.next[s[i - 1]]
        BY <3>2, <4>1, <4>2
      <4>4. c.next[s[i - 1]] = IF i - 1 < m THEN s[i] ELSE None
        BY <3>1, <4>1
      <4> QED  BY <1>2, <4>1, <4>3, <4>4
    <3> QED  BY <1>2, <3>4, <3>5, <3>6, <3>7
  <2>7. \A i \in 1..m + 1 : e.prev[t[i]] = IF i > 1 THEN t[i - 1] ELSE None
    <3> TAKE i \in 1..m + 1
    <3>1. /\ c.prev \in [D -> Nat]
          /\ \A k \in 1..m : c.prev[s[k]] = IF k > 1 THEN s[k - 1] ELSE None
          /\ \A k, j \in 1..m : s[k] = s[j] => k = j
      BY DEF InOrder
    <3>2. \A n \in D : e.prev[n] = IF n = after THEN c.fresh ELSE c.prev[n]
      BY <1>1, <1>2, <3>1 DEF Put, SetLink, None
    <3>3. e.prev[c.fresh] = before
      BY <1>1 DEF Put
    <3>4. CASE i <= p
      <4>1. i \in 1..m /\ t[i] = s[i] /\ (i > 1 => t[i - 1] = s[i - 1])
        BY <1>2, <3>4 DEF Widened
      <4>2. s[i] \in D /\ s[i] # after
        <5>1. i # p + 1
          BY <3>4
        <5> QED  BY <1>a, <4>1, <5>1
      <4>3. e.prev[t[i]] = c.prev[s[i]]
        BY <3>2, <4>1, <4>2
      <4> QED  BY <3>1, <4>1, <4>3
    <3>5. CASE i = p + 1
      <4>1. t[i] = c.fresh /\ (i > 1 => t[i - 1] = s[i - 1])
        BY <1>2, <3>5 DEF Widened
      <4> QED  BY <1>2, <3>3, <3>5, <4>1
    <3>6. CASE i = p + 2
      <4>1. i - 1 \in 1..m /\ t[i] = s[i - 1] /\ t[i - 1] = c.fresh /\ s[i - 1] = after
        BY <1>2, <3>6 DEF Widened
      <4>2. s[i - 1] \in D
        BY <1>2, <4>1
      <4> QED  BY <1>2, <3>2, <3>6, <4>1, <4>2
    <3>7. CASE i > p + 2
      <4>1. /\ i - 1 \in 1..m /\ i - 2 \in 1..m
            /\ t[i] = s[i - 1] /\ t[i - 1] = s[(i - 1) - 1] /\ i - 1 # p + 1
        BY <1>2, <3>7 DEF Widened
      <4>2. s[i - 1] \in D /\ s[i - 1] # after
        BY <1>a, <4>1
      <4>3. e.prev[t[i]] = c.prev[s[i - 1]]
        BY <3>2, <4>1, <4>2
      <4>4. c.prev[s[i - 1]] = s[(i - 1) - 1]
        BY <1>2, <3>1, <3>7, <4>1
      <4> QED  BY <1>2, <3>7, <4>1, <4>3, <4>4
    <3> QED  BY <1>2, <3>4, <3>5, <3>6, <3>7
  <2>8. e.size = m + 1 /\ e.size \in Nat /\ e.size # 0
    BY <1>1, <1>2
  <2> HIDE DEF t, m
  <2> QED  BY <2>1, <2>2, <2>3, <2>4, <2>5, <2>6, <2>7, <2>8 DEF InOrder
<1> QED  BY <1>4, <1>5 DEF e

\* The fields after a removal.
LEMMA RemoveFields ==
    ASSUME NEW c, IsCollection(c), NEW n
    PROVE  IsRemoved(c, n, RemoveNode(c, n))
<1> DEFINE d == Unlink(c, n)
           begin == c.entry[n].value.begin
<1>1. /\ DOMAIN d = Fields
      /\ d.head = IF c.prev[n] = None THEN c.next[n] ELSE c.head
      /\ d.tail = IF c.next[n] = None THEN c.prev[n] ELSE c.tail
      /\ d.size = c.size - 1
      /\ d.next = Del(SetLink(c.next, c.prev[n], c.next[n]), n)
      /\ d.prev = Del(SetLink(c.prev, c.next[n], c.prev[n]), n)
      /\ d.entry = Del(c.entry, n)
      /\ d.states = c.states /\ d.begins = c.begins /\ d.fresh = c.fresh
  BY DEF IsCollection, Unlink, Fields
<1> HIDE DEF d
<1>2. RemoveNode(c, n)
        = [d EXCEPT !.states[c.entry[n].state] = @ \ {n},
                    !.begins = IF begin \in DOMAIN @ /\ @[begin] = n
                               THEN Del(@, begin) ELSE @]
  BY Zenon DEF RemoveNode, d
<1> QED  BY <1>1, <1>2 DEF Fields, IsRemoved

\* The links g are f without node n, and x is linked to node to.
IsPast(g, D, f, x, to, n) ==
    /\ g \in [D \ {n} -> Nat]
    /\ \A k \in D \ {n} : g[k] = IF k = x THEN to ELSE f[k]

\* A link is set past a node that goes.
LEMMA LinkPast ==
    ASSUME NEW D, 0 \notin D, NEW f \in [D -> Nat], NEW x, NEW to \in Nat, NEW n \in D,
           x # 0 => x \in D
    PROVE  IsPast(Del(SetLink(f, x, to), n), D, f, x, to, n)
<1>1. PICK g : g = SetLink(f, x, to)
  OBVIOUS
<1>2. g \in [D -> Nat] /\ \A k \in D : g[k] = IF k = x THEN to ELSE f[k]
  <2>1. CASE x = 0
    <3>1. g = f
      BY <1>1, <2>1 DEF SetLink, None
    <3> QED  BY <2>1, <3>1
  <2>2. CASE x # 0
    <3>1. g = [f EXCEPT ![x] = to] /\ x \in D
      BY <1>1, <2>2 DEF SetLink, None
    <3> QED  BY <3>1
  <2> QED  BY <2>1, <2>2
<1>3. Del(g, n) \in [D \ {n} -> Nat] /\ \A k \in D \ {n} : Del(g, n)[k] = g[k]
  BY <1>2 DEF Del
<1>4. \A k \in D \ {n} : Del(g, n)[k] = IF k = x THEN to ELSE f[k]
  BY <1>2, <1>3
<1> QED  BY <1>1, <1>3, <1>4 DEF IsPast

\* A collection stays in order when a node is taken out.
LEMMA RemoveInOrder ==
    ASSUME NEW c, IsCollection(c), NEW s, InOrder(c, s), NEW p \in 1..c.size
    PROVE  LET e == RemoveNode(c, s[p]) IN
           IsCollection(e) /\ InOrder(e, Narrowed(s, c.size, p))
<1> DEFINE n == s[p]
           e == RemoveNode(c, n)
           t == Narrowed(s, c.size, p)
           m == c.size
           D == DOMAIN c.entry
<1>1. /\ DOMAIN e = Fields
      /\ e.head = IF c.prev[n] = None THEN c.next[n] ELSE c.head
      /\ e.tail = IF c.next[n] = None THEN c.prev[n] ELSE c.tail
      /\ e.size = c.size - 1
      /\ e.next = Del(SetLink(c.next, c.prev[n], c.next[n]), n)
      /\ e.prev = Del(SetLink(c.prev, c.next[n], c.prev[n]), n)
      /\ e.entry = Del(c.entry, n)
      /\ e.states = [c.states EXCEPT ![c.entry[n].state] = @ \ {n}]
      /\ e.fresh = c.fresh
  <2>1. IsRemoved(c, n, e)
    BY RemoveFields
  <2> HIDE DEF e, n
  <2> QED  BY <2>1 DEF IsRemoved
<1> HIDE DEF e
<1>2. /\ m \in Nat /\ p \in 1..m /\ D \subseteq Nat \ {0}
      /\ s \in [1..m -> D] /\ n \in D
      /\ c.next \in [D -> Nat] /\ c.prev \in [D -> Nat]
  BY DEF IsCollection, InOrder
<1>3. DOMAIN e.entry = D \ {n} /\ e.size = m - 1 /\ m - 1 \in Nat
  BY <1>1, <1>2 DEF Del
<1>4. /\ \A i, j \in 1..m : s[i] = s[j] => i = j
      /\ \A i \in 1..m : c.next[s[i]] = IF i < m THEN s[i + 1] ELSE None
      /\ \A i \in 1..m : c.prev[s[i]] = IF i > 1 THEN s[i - 1] ELSE None
  BY DEF InOrder
<1>5. IsCollection(e)
  <2>1. e.entry \in [DOMAIN e.entry -> Entry]
    BY <1>1 DEF Del, IsCollection
  <2>2. DOMAIN e.entry \subseteq 1..e.fresh - 1 /\ e.fresh \in Nat \ {0}
    BY <1>1, <1>3 DEF IsCollection
  <2>3. e.states = [x \in State |-> {k \in DOMAIN e.entry : e.entry[k].state = x}]
    <3>1. c.entry[n].state \in State
      BY <1>2 DEF Entry, IsCollection
    <3>2. e.states = [x \in State |-> IF x = c.entry[n].state
                                      THEN c.states[x] \ {n} ELSE c.states[x]]
      BY <1>1, <3>1 DEF IsCollection
    <3>3. \A x \in State : e.states[x] = {k \in DOMAIN e.entry : e.entry[k].state = x}
      <4> TAKE x \in State
      <4>1. c.states[x] = {k \in D : c.entry[k].state = x}
        BY DEF IsCollection
      <4>2. \A k \in D \ {n} : e.entry[k] = c.entry[k]
        BY <1>1, <1>2 DEF Del
      <4> QED  BY <1>3, <3>2, <4>1, <4>2
    <3> QED  BY <3>2, <3>3
  <2> QED  BY <1>1, <2>1, <2>2, <2>3 DEF IsCollection
<1>6. InOrder(e, t)
  <2>1. t \in [1..e.size -> DOMAIN e.entry]
    <3>1. \A i \in 1..m - 1 : t[i] \in D /\ t[i] # n
      <4> TAKE i \in 1..m - 1
      <4>1. t[i] = IF i < p THEN s[i] ELSE s[i + 1]
        BY DEF Narrowed
      <4>2. i \in 1..m /\ i + 1 \in 1..m
        BY <1>2
      <4> QED  BY <1>2, <1>4, <4>1, <4>2
    <3> QED  BY <1>3, <3>1 DEF Narrowed
  <2>2. \A k \in DOMAIN e.entry : \E i \in 1..e.size : t[i] = k
    <3> TAKE k \in DOMAIN e.entry
    <3>1. PICK i \in 1..m : s[i] = k
      BY <1>3 DEF InOrder
    <3>2. i # p
      BY <1>3, <3>1
    <3>3. CASE i < p
      <4>1. i \in 1..e.size /\ t[i] = k
        BY <1>2, <1>3, <3>1, <3>3 DEF Narrowed
      <4> QED  BY <4>1
    <3>4. CASE i > p
      <4>1. i - 1 \in 1..e.size /\ t[i - 1] = k
        BY <1>2, <1>3, <3>1, <3>4 DEF Narrowed
      <4> QED  BY <4>1
    <3> QED  BY <1>2, <3>2, <3>3, <3>4
  <2>3. \A i, j \in 1..e.size : t[i] = t[j] => i = j
    <3> TAKE i, j \in 1..e.size
    <3>0. i \in 1..m - 1 /\ j \in 1..m - 1
      BY <1>3
    <3>1. /\ i \in 1..m /\ i + 1 \in 1..m /\ j \in 1..m /\ j + 1 \in 1..m
      BY <1>2, <3>0
    <3>2. /\ t[i] = IF i < p THEN s[i] ELSE s[i + 1]
          /\ t[j] = IF j < p THEN s[j] ELSE s[j + 1]
      BY <1>3 DEF Narrowed
    <3> QED  BY <1>2, <1>4, <3>1, <3>2
  <2>4. e.head = IF m - 1 = 0 THEN None ELSE t[1]
    <3>1. c.prev[n] = None <=> p = 1
      <4>1. c.prev[n] = IF p > 1 THEN s[p - 1] ELSE None
        BY <1>2, <1>4
      <4>2. p > 1 => s[p - 1] \in D
        BY <1>2
      <4> QED  BY <1>2, <4>1, <4>2 DEF None
    <3>2. c.head = s[1]
      BY <1>2 DEF InOrder
    <3>3. CASE p = 1
      <4>1. c.next[n] = IF 1 < m THEN s[2] ELSE None
        BY <1>2, <1>4, <3>3
      <4>2. m - 1 # 0 => t[1] = s[2]
        BY <1>2, <3>3 DEF Narrowed
      <4> QED  BY <1>1, <1>2, <3>1, <3>3, <4>1, <4>2
    <3>4. CASE p # 1
      <4>1. m - 1 # 0 /\ t[1] = s[1]
        BY <1>2, <3>4 DEF Narrowed
      <4> QED  BY <1>1, <3>1, <3>2, <3>4, <4>1
    <3> QED  BY <3>3, <3>4
  <2>5. e.tail = IF m - 1 = 0 THEN None ELSE t[m - 1]
    <3>1. c.next[n] = None <=> p = m
      <4>1. c.next[n] = IF p < m THEN s[p + 1] ELSE None
        BY <1>2, <1>4
      <4>2. p < m => s[p + 1] \in D
        BY <1>2
      <4> QED  BY <1>2, <4>1, <4>2 DEF None
    <3>2. c.tail = s[m]
      BY <1>2 DEF InOrder
    <3>3. CASE p = m
      <4>1. c.prev[n] = IF m > 1 THEN s[m - 1] ELSE None
        BY <1>2, <1>4, <3>3
      <4>2. m - 1 # 0 => t[m - 1] = s[m - 1]
        BY <1>2, <3>3 DEF Narrowed
      <4> QED  BY <1>1, <1>2, <3>1, <3>3, <4>1, <4>2, SMTT(30)
    <3>4. CASE p # m
      <4>1. m - 1 # 0 /\ t[m - 1] = s[m]
        BY <1>2, <3>4 DEF Narrowed
      <4> QED  BY <1>1, <3>1, <3>2, <3>4, <4>1
    <3> QED  BY <3>3, <3>4
  <2>6. /\ e.next \in [DOMAIN e.entry -> Nat]
        /\ \A k \in D \ {n} : e.next[k] = IF k = c.prev[n] THEN c.next[n] ELSE c.next[k]
    <3>1. PICK f \in [D -> Nat] : f = c.next
      BY <1>2
    <3>2. PICK x \in Nat : x = c.prev[n] /\ (x # 0 => x \in D)
      <4>1. c.prev[n] \in Nat /\ (c.prev[n] # 0 => c.prev[n] \in D)
        <5>1. c.prev[n] = IF p > 1 THEN s[p - 1] ELSE None
          BY <1>2, <1>4
        <5>2. p > 1 => p - 1 \in 1..m /\ s[p - 1] \in D
          BY <1>2
        <5> QED  BY <1>2, <5>1, <5>2 DEF None
      <4> QED  BY <4>1
    <3>3. PICK to \in Nat : to = c.next[n]
      BY <1>2
    <3>4. 0 \notin D /\ n \in D
      BY <1>2
    <3>5. IsPast(Del(SetLink(f, x, to), n), D, f, x, to, n)
      <4> HIDE DEF D, n
      <4> QED  BY <3>1, <3>2, <3>3, <3>4, LinkPast
    <3> QED  BY <1>1, <1>3, <3>1, <3>2, <3>3, <3>5 DEF IsPast
  <2>7. /\ e.prev \in [DOMAIN e.entry -> Nat]
        /\ \A k \in D \ {n} : e.prev[k] = IF k = c.next[n] THEN c.prev[n] ELSE c.prev[k]
    <3>1. PICK f \in [D -> Nat] : f = c.prev
      BY <1>2
    <3>2. PICK x \in Nat : x = c.next[n] /\ (x # 0 => x \in D)
      <4>1. c.next[n] \in Nat /\ (c.next[n] # 0 => c.next[n] \in D)
        <5>1. c.next[n] = IF p < m THEN s[p + 1] ELSE None
          BY <1>2, <1>4
        <5>2. p < m => p + 1 \in 1..m /\ s[p + 1] \in D
          BY <1>2
        <5> QED  BY <1>2, <5>1, <5>2 DEF None
      <4> QED  BY <4>1
    <3>3. PICK to \in Nat : to = c.prev[n]
      BY <1>2
    <3>4. 0 \notin D /\ n \in D
      BY <1>2
    <3>5. IsPast(Del(SetLink(f, x, to), n), D, f, x, to, n)
      <4> HIDE DEF D, n
      <4> QED  BY <3>1, <3>2, <3>3, <3>4, LinkPast
    <3> QED  BY <1>1, <1>3, <3>1, <3>2, <3>3, <3>5 DEF IsPast
  <2>8. \A i \in 1..m - 1 : e.next[t[i]] = IF i < m - 1 THEN t[i + 1] ELSE None
    <3> TAKE i \in 1..m - 1
    <3>0. t[i] \in D \ {n}
      BY <1>3, <2>1
    <3>1. i \in 1..m /\ i + 1 \in 1..m
      BY <1>2
    <3>2. c.prev[n] = IF p > 1 THEN s[p - 1] ELSE None
      BY <1>2, <1>4
    <3>3. CASE i < p - 1
      <4>1. t[i] = s[i] /\ t[i + 1] = s[i + 1] /\ i < m - 1 /\ i < m
        BY <1>2, <3>3 DEF Narrowed
      <4>2. s[i] # c.prev[n]
        BY <1>2, <1>4, <3>1, <3>2, <3>3 DEF None
      <4> QED  BY <1>4, <2>6, <3>0, <3>1, <4>1, <4>2
    <3>4. CASE i = p - 1
      <4>1. t[i] = s[i] /\ c.prev[n] = s[i] /\ (i < m - 1 => t[i + 1] = s[p + 1])
        BY <1>2, <3>2, <3>4 DEF Narrowed
      <4>2. c.next[n] = IF p < m THEN s[p + 1] ELSE None
        BY <1>2, <1>4
      <4> QED  BY <1>2, <2>6, <3>0, <3>4, <4>1, <4>2
    <3>5. CASE i >= p
      <4>1. t[i] = s[i + 1] /\ (i < m - 1 => t[i + 1] = s[(i + 1) + 1])
        BY <1>2, <3>5 DEF Narrowed
      <4>2. s[i + 1] # c.prev[n]
        BY <1>2, <1>4, <3>1, <3>2, <3>5 DEF None
      <4>3. c.next[s[i + 1]] = IF i + 1 < m THEN s[(i + 1) + 1] ELSE None
        BY <1>4, <3>1
      <4>4. e.next[t[i]] = c.next[s[i + 1]]
        BY <2>6, <3>0, <4>1, <4>2
      <4>5. i + 1 < m <=> i < m - 1
        BY <1>2
      <4> QED  BY <4>1, <4>3, <4>4, <4>5
    <3>6. i < p - 1 \/ i = p - 1 \/ i >= p
      BY <1>2
    <3> QED  BY <3>3, <3>4, <3>5, <3>6
  <2>9. \A i \in 1..m - 1 : e.prev[t[i]] = IF i > 1 THEN t[i - 1] ELSE None
    <3> TAKE i \in 1..m - 1
    <3>0. t[i] \in D \ {n}
      BY <1>3, <2>1
    <3>1. i \in 1..m /\ i + 1 \in 1..m
      BY <1>2
    <3>2. c.next[n] = IF p < m THEN s[p + 1] ELSE None
      BY <1>2, <1>4
    <3>3. CASE i < p
      <4>1. t[i] = s[i] /\ (i > 1 => t[i - 1] = s[i - 1])
        BY <1>2, <3>3 DEF Narrowed
      <4>2. s[i] # c.next[n]
        BY <1>2, <1>4, <3>1, <3>2, <3>3 DEF None
      <4>3. c.prev[s[i]] = IF i > 1 THEN s[i - 1] ELSE None
        BY <1>4, <3>1
      <4> QED  BY <2>7, <3>0, <4>1, <4>2, <4>3
    <3>4. CASE i = p
      <4>1. t[i] = s[i + 1] /\ c.next[n] = s[i + 1] /\ (i > 1 => t[i - 1] = s[p - 1])
        BY <1>2, <3>2, <3>4 DEF Narrowed
      <4>2. c.prev[n] = IF p > 1 THEN s[p - 1] ELSE None
        BY <1>2, <1>4
      <4> QED  BY <1>2, <2>7, <3>0, <3>4, <4>1, <4>2
    <3>5. CASE i > p
      <4>1. t[i] = s[i + 1] /\ i > 1 /\ t[i - 1] = s[i]
        BY <1>2, <3>5 DEF Narrowed
      <4>2. s[i + 1] # c.next[n]
        BY <1>2, <1>4, <3>1, <3>2, <3>5 DEF None
      <4>3. c.prev[s[i + 1]] = s[i]
        BY <1>2, <1>4, <3>1, <3>5
      <4> QED  BY <2>7, <3>0, <4>1, <4>2, <4>3
    <3> QED  BY <1>2, <3>3, <3>4, <3>5
  <2> HIDE DEF t, m, n
  <2> QED  BY <1>3, <2>1, <2>2, <2>3, <2>4, <2>5, <2>6, <2>7, <2>8, <2>9 DEF InOrder
<1> QED  BY <1>5, <1>6 DEF e

\* A collection stays in order when a value or a state is replaced.
LEMMA SetValueInOrder ==
    ASSUME NEW c, IsCollection(c), NEW s, InOrder(c, s),
           NEW n \in DOMAIN c.entry, NEW v \in Interval
    PROVE  LET e == [c EXCEPT !.entry[n].value = v] IN
           /\ IsCollection(e) /\ InOrder(e, s)
           /\ e.entry = [c.entry EXCEPT ![n].value = v]
           /\ e.begins = c.begins /\ e.fresh = c.fresh
           /\ e.next = c.next /\ e.size = c.size
<1> DEFINE e == [c EXCEPT !.entry[n].value = v]
<1>1. /\ DOMAIN e = Fields
      /\ e.entry = [c.entry EXCEPT ![n].value = v]
      /\ e.begins = c.begins /\ e.fresh = c.fresh /\ e.states = c.states
      /\ e.next = c.next /\ e.prev = c.prev
      /\ e.head = c.head /\ e.tail = c.tail /\ e.size = c.size
  BY DEF IsCollection, Fields
<1> HIDE DEF e
<1>2. /\ DOMAIN e.entry = DOMAIN c.entry
      /\ e.entry \in [DOMAIN c.entry -> Entry]
      /\ \A k \in DOMAIN c.entry : e.entry[k].state = c.entry[k].state
  BY <1>1 DEF IsCollection, Entry
<1>3. IsCollection(e)
  <2>1. e.states = [x \in State |-> {k \in DOMAIN e.entry : e.entry[k].state = x}]
    BY <1>1, <1>2 DEF IsCollection
  <2> QED  BY <1>1, <1>2, <2>1 DEF IsCollection
<1>4. InOrder(e, s)
  BY <1>1, <1>2 DEF InOrder
<1> QED  BY <1>1, <1>3, <1>4 DEF e

\* Changing a state leaves the order and moves the node between the indices.
LEMMA UpdateInOrder ==
    ASSUME NEW c, IsCollection(c), NEW s, InOrder(c, s),
           NEW n \in DOMAIN c.entry, NEW x \in State
    PROVE  LET e == UpdateValueState(c, n, x) IN
           /\ IsCollection(e) /\ InOrder(e, s)
           /\ e.entry = [c.entry EXCEPT ![n].state = x]
           /\ e.begins = c.begins
<1> DEFINE e == UpdateValueState(c, n, x)
           old == c.entry[n].state
<1>1. c.entry[n] \in Entry /\ old \in State
  BY DEF IsCollection, Entry
<1>2. CASE old = x
  <2>1. e = c
    BY <1>2 DEF UpdateValueState
  <2>2. c.entry = [c.entry EXCEPT ![n].state = x]
    BY <1>1, <1>2 DEF IsCollection, Entry
  <2> QED  BY <2>1, <2>2
<1>3. CASE old # x
  <2> DEFINE index == [c.states EXCEPT ![old] = @ \ {n}, ![x] = @ \cup {n}]
  <2>1. e = [c EXCEPT !.entry[n].state = x,
                      !.states[old] = @ \ {n}, !.states[x] = @ \cup {n}]
    BY <1>3, Zenon DEF UpdateValueState
  <2>2. /\ DOMAIN e = Fields
        /\ e.entry = [c.entry EXCEPT ![n].state = x]
        /\ e.begins = c.begins /\ e.fresh = c.fresh
        /\ e.states = index
        /\ e.next = c.next /\ e.prev = c.prev
        /\ e.head = c.head /\ e.tail = c.tail /\ e.size = c.size
    <3> HIDE DEF e, old
    <3> QED  BY <2>1 DEF IsCollection, Fields
  <2> HIDE DEF e
  <2>3. /\ DOMAIN e.entry = DOMAIN c.entry
        /\ e.entry \in [DOMAIN c.entry -> Entry]
        /\ \A k \in DOMAIN c.entry :
              e.entry[k].state = IF k = n THEN x ELSE c.entry[k].state
    BY <1>1, <2>2 DEF IsCollection, Entry
  <2>4. e.states = [y \in State |-> {k \in DOMAIN e.entry : e.entry[k].state = y}]
    <3>1. e.states = [y \in State |-> IF y = x THEN c.states[y] \cup {n}
                                      ELSE IF y = old THEN c.states[y] \ {n}
                                      ELSE c.states[y]]
      <4>1. c.states = [y \in State |-> c.states[y]] /\ x \in State /\ old \in State
        BY <1>1 DEF IsCollection
      <4> HIDE DEF old
      <4> QED  BY <1>3, <2>2, <4>1
    <3>2. ASSUME NEW y \in State
          PROVE  e.states[y] = {k \in DOMAIN e.entry : e.entry[k].state = y}
      <4>1. c.states[y] = {k \in DOMAIN c.entry : c.entry[k].state = y}
        BY DEF IsCollection
      <4> QED  BY <1>3, <2>3, <3>1, <4>1
    <3> QED  BY <3>1, <3>2
  <2>5. IsCollection(e)
    BY <2>2, <2>3, <2>4 DEF IsCollection
  <2>6. InOrder(e, s)
    BY <2>2, <2>3 DEF InOrder
  <2> QED  BY <2>2, <2>5, <2>6 DEF e
<1> QED  BY <1>2, <1>3

-----------------------------------------------------------------------------
(* The units of a collection.                                              *)

\* The values of en are disjoint and have the units H, and be finds each value
\* by its first unit and nothing else.
Tiles(en, be, H) ==
    /\ \A n, m \in DOMAIN en :
          n # m => UnitsOf(en[n].value) \cap UnitsOf(en[m].value) = {}
    /\ H = UNION {UnitsOf(en[n].value) : n \in DOMAIN en}
    /\ DOMAIN be = {en[n].value.begin : n \in DOMAIN en}
    /\ \A n \in DOMAIN en : be[en[n].value.begin] = n

\* A value has its first unit.
LEMMA FirstUnit == \A v \in Interval : v.begin \in UnitsOf(v)
BY DEF Interval, UnitsOf, EndIndex

\* Only the values count.
LEMMA SameTiles ==
    ASSUME NEW en, NEW be, NEW H, Tiles(en, be, H),
           NEW en2, DOMAIN en2 = DOMAIN en,
           \A n \in DOMAIN en : en2[n].value = en[n].value
    PROVE  Tiles(en2, be, H)
<1>1. UNION {UnitsOf(en[n].value) : n \in DOMAIN en}
        = UNION {UnitsOf(en2[n].value) : n \in DOMAIN en2}
  OBVIOUS
<1>2. {en[n].value.begin : n \in DOMAIN en} = {en2[n].value.begin : n \in DOMAIN en2}
  OBVIOUS
<1> QED  BY <1>1, <1>2 DEF Tiles

\* A value with new units comes to the units there were.
LEMMA PutTiles ==
    ASSUME NEW en, en \in [DOMAIN en -> Entry], NEW be, NEW H, Tiles(en, be, H),
           NEW n, n \notin DOMAIN en, NEW x \in Entry, UnitsOf(x.value) \cap H = {}
    PROVE  Tiles(Put(en, n, x), Put(be, x.value.begin, n), H \cup UnitsOf(x.value))
<1> DEFINE en2 == Put(en, n, x)
           be2 == Put(be, x.value.begin, n)
           begin == x.value.begin
<1>1. /\ DOMAIN en2 = DOMAIN en \cup {n} /\ en2[n] = x
      /\ \A k \in DOMAIN en : en2[k] = en[k]
      /\ DOMAIN be2 = DOMAIN be \cup {begin} /\ be2[begin] = n
      /\ \A b \in DOMAIN be \ {begin} : be2[b] = be[b]
  BY DEF Put
<1> HIDE DEF en2, be2
<1>2. x.value \in Interval /\ \A k \in DOMAIN en : en[k].value \in Interval
  BY DEF Entry
<1>3. \A k \in DOMAIN en : UnitsOf(en[k].value) \subseteq H
  BY DEF Tiles
<1>4. \A k, m \in DOMAIN en2 :
         k # m => UnitsOf(en2[k].value) \cap UnitsOf(en2[m].value) = {}
  <2>1. ASSUME NEW k \in DOMAIN en
        PROVE  UnitsOf(en2[k].value) \cap UnitsOf(en2[n].value) = {}
    BY <1>1, <1>3
  <2>2. ASSUME NEW k \in DOMAIN en, NEW m \in DOMAIN en, k # m
        PROVE  UnitsOf(en2[k].value) \cap UnitsOf(en2[m].value) = {}
    <3>1. UnitsOf(en[k].value) \cap UnitsOf(en[m].value) = {}
      BY <2>2 DEF Tiles
    <3> QED  BY <1>1, <3>1
  <2>3. ASSUME NEW k \in DOMAIN en2, NEW m \in DOMAIN en2, k # m
        PROVE  UnitsOf(en2[k].value) \cap UnitsOf(en2[m].value) = {}
    <3>1. (k \in DOMAIN en \/ k = n) /\ (m \in DOMAIN en \/ m = n)
      BY <1>1
    <3> QED  BY <2>1, <2>2, <2>3, <3>1
  <2> QED  BY <2>3
<1>5. H \cup UnitsOf(x.value) = UNION {UnitsOf(en2[k].value) : k \in DOMAIN en2}
  BY <1>1 DEF Tiles
<1>6. DOMAIN be2 = {en2[k].value.begin : k \in DOMAIN en2}
  BY <1>1 DEF Tiles
<1>7. \A k \in DOMAIN en2 : be2[en2[k].value.begin] = k
  <2> TAKE k \in DOMAIN en2
  <2>1. CASE k = n
    BY <1>1, <2>1
  <2>2. CASE k # n
    <3>1. k \in DOMAIN en /\ en2[k] = en[k]
      BY <1>1, <2>2
    <3>2. en[k].value.begin \in H /\ begin \notin H
      BY <1>2, <1>3, <3>1, FirstUnit
    <3>3. en[k].value.begin \in DOMAIN be /\ be[en[k].value.begin] = k
      BY <3>1 DEF Tiles
    <3> QED  BY <1>1, <3>1, <3>2, <3>3
  <2> QED  BY <2>1, <2>2
<1> QED  BY <1>4, <1>5, <1>6, <1>7 DEF Tiles, en2, be2

\* The units of a value that is removed go, and the index finds it by its first unit.
LEMMA DelTiles ==
    ASSUME NEW en, en \in [DOMAIN en -> Entry], NEW be, NEW H, Tiles(en, be, H),
           NEW n \in DOMAIN en
    PROVE  LET begin == en[n].value.begin IN
           /\ begin \in DOMAIN be /\ be[begin] = n
           /\ Tiles(Del(en, n), Del(be, begin), H \ UnitsOf(en[n].value))
<1> DEFINE begin == en[n].value.begin
           en2 == Del(en, n)
           be2 == Del(be, begin)
<1>1. /\ DOMAIN en2 = DOMAIN en \ {n}
      /\ \A k \in DOMAIN en \ {n} : en2[k] = en[k]
      /\ DOMAIN be2 = DOMAIN be \ {begin}
      /\ \A b \in DOMAIN be \ {begin} : be2[b] = be[b]
  BY DEF Del
<1> HIDE DEF en2, be2
<1>2. \A k \in DOMAIN en : en[k].value \in Interval
  BY DEF Entry
<1>3. \A k \in DOMAIN en \ {n} : en[k].value.begin # begin
  BY <1>2, FirstUnit DEF Tiles
<1>4. \A k, m \in DOMAIN en2 :
         k # m => UnitsOf(en2[k].value) \cap UnitsOf(en2[m].value) = {}
  BY <1>1 DEF Tiles
<1>5. H \ UnitsOf(en[n].value) = UNION {UnitsOf(en2[k].value) : k \in DOMAIN en2}
  <2>1. ASSUME NEW u \in H \ UnitsOf(en[n].value)
        PROVE  u \in UNION {UnitsOf(en2[k].value) : k \in DOMAIN en2}
    BY <1>1 DEF Tiles
  <2>2. ASSUME NEW k \in DOMAIN en2, NEW u \in UnitsOf(en2[k].value)
        PROVE  u \in H \ UnitsOf(en[n].value)
    BY <1>1 DEF Tiles
  <2> QED  BY <2>1, <2>2
<1>6. DOMAIN be2 = {en2[k].value.begin : k \in DOMAIN en2}
  <2>1. DOMAIN be = {en[k].value.begin : k \in DOMAIN en}
    BY DEF Tiles
  <2> QED  BY <1>1, <1>3, <2>1
<1>7. \A k \in DOMAIN en2 : be2[en2[k].value.begin] = k
  <2> TAKE k \in DOMAIN en2
  <2>1. k \in DOMAIN en \ {n} /\ en2[k] = en[k]
    BY <1>1
  <2>2. en[k].value.begin \in DOMAIN be \ {begin} /\ be[en[k].value.begin] = k
    BY <1>3, <2>1 DEF Tiles
  <2> QED  BY <1>1, <2>1, <2>2
<1>8. begin \in DOMAIN be /\ be[begin] = n
  BY DEF Tiles
<1> QED  BY <1>4, <1>5, <1>6, <1>7, <1>8 DEF Tiles, en2, be2

\* A value may be replaced by one with the same first unit and no units of others.
LEMMA ReplaceTiles ==
    ASSUME NEW en, en \in [DOMAIN en -> Entry], NEW be, NEW H, Tiles(en, be, H),
           NEW n \in DOMAIN en, NEW v \in Interval, v.begin = en[n].value.begin,
           UnitsOf(v) \cap (H \ UnitsOf(en[n].value)) = {}
    PROVE  Tiles([en EXCEPT ![n].value = v], be,
                 (H \ UnitsOf(en[n].value)) \cup UnitsOf(v))
<1> DEFINE en2 == [en EXCEPT ![n].value = v]
<1>1. /\ DOMAIN en2 = DOMAIN en /\ en2[n].value = v
      /\ \A k \in DOMAIN en \ {n} : en2[k] = en[k]
  BY DEF Entry
<1> HIDE DEF en2
<1>2. \A k \in DOMAIN en \ {n} : UnitsOf(en[k].value) \subseteq H \ UnitsOf(en[n].value)
  BY DEF Tiles
<1>3. \A k, m \in DOMAIN en2 :
         k # m => UnitsOf(en2[k].value) \cap UnitsOf(en2[m].value) = {}
  <2> TAKE k, m \in DOMAIN en2
  <2>1. CASE k # n /\ m # n
    BY <1>1, <2>1 DEF Tiles
  <2>2. CASE k = n /\ m # n
    BY <1>1, <1>2, <2>2
  <2>3. CASE k # n /\ m = n
    BY <1>1, <1>2, <2>3
  <2> QED  BY <2>1, <2>2, <2>3
<1>4. (H \ UnitsOf(en[n].value)) \cup UnitsOf(v)
        = UNION {UnitsOf(en2[k].value) : k \in DOMAIN en2}
  <2>1. ASSUME NEW u \in H \ UnitsOf(en[n].value)
        PROVE  \E k \in DOMAIN en2 : u \in UnitsOf(en2[k].value)
    BY <1>1 DEF Tiles
  <2>2. ASSUME NEW k \in DOMAIN en2, NEW u \in UnitsOf(en2[k].value)
        PROVE  u \in (H \ UnitsOf(en[n].value)) \cup UnitsOf(v)
    BY <1>1, <1>2
  <2>3. UnitsOf(v) = UnitsOf(en2[n].value) /\ n \in DOMAIN en2
    BY <1>1
  <2> QED  BY <2>1, <2>2, <2>3
<1>5. \A k \in DOMAIN en : en2[k].value.begin = en[k].value.begin
  BY <1>1
<1>6. DOMAIN be = {en2[k].value.begin : k \in DOMAIN en2}
  <2>1. DOMAIN be = {en[k].value.begin : k \in DOMAIN en}
    BY DEF Tiles
  <2> QED  BY <1>1, <1>5, <2>1
<1>7. \A k \in DOMAIN en2 : be[en2[k].value.begin] = k
  BY <1>1, <1>5 DEF Tiles
<1> QED  BY <1>3, <1>4, <1>6, <1>7 DEF Tiles, en2

-----------------------------------------------------------------------------
(* Clearing, a loop of removals.                                           *)

Covered(c, T) == UNION {UnitsOf(c.entry[n].value) : n \in T}

\* The elements of t are those of s at the positions at, in the same order.
Thins(c, s, e, t, at) ==
    /\ InOrder(e, t)
    /\ at \in [1..e.size -> 1..c.size]
    /\ \A i, j \in 1..e.size : i < j => at[i] < at[j]
    /\ \A i \in 1..e.size : t[i] = s[at[i]]

\* The collection e is c without the nodes T.
Thinned(c, s, H, e, T) ==
    /\ IsCollection(e)
    /\ e.entry = [n \in DOMAIN c.entry \ T |-> c.entry[n]]
    /\ Tiles(c.entry, c.begins, H) => Tiles(e.entry, e.begins, H \ Covered(c, T))
    /\ \E t, at : Thins(c, s, e, t, at)

\* One more removal in the loop.
LEMMA ThinStep ==
    ASSUME NEW c, NEW s, NEW H, NEW e, NEW T, Thinned(c, s, H, e, T),
           c.size \in Nat, NEW n \in DOMAIN c.entry \ T
    PROVE  Thinned(c, s, H, RemoveNode(e, n), T \cup {n})
<1> DEFINE d == RemoveNode(e, n)
<1>1. PICK t, at : Thins(c, s, e, t, at)
  BY DEF Thinned
<1>2. /\ IsCollection(e) /\ InOrder(e, t)
      /\ e.entry = [k \in DOMAIN c.entry \ T |-> c.entry[k]]
  BY <1>1 DEF Thinned, Thins
<1>3. n \in DOMAIN e.entry /\ e.entry[n] = c.entry[n]
  BY <1>2
<1>4. PICK p \in 1..e.size : t[p] = n
  BY <1>2, <1>3 DEF InOrder
<1>5. IsCollection(d) /\ InOrder(d, Narrowed(t, e.size, p))
  BY <1>2, <1>4, RemoveInOrder
<1>6. /\ d.size = e.size - 1 /\ d.entry = Del(e.entry, n)
      /\ d.begins = IF e.entry[n].value.begin \in DOMAIN e.begins
                       /\ e.begins[e.entry[n].value.begin] = n
                    THEN Del(e.begins, e.entry[n].value.begin) ELSE e.begins
  <2>1. IsRemoved(e, n, d)
    BY <1>2, RemoveFields
  <2> HIDE DEF d
  <2> QED  BY <2>1 DEF IsRemoved
<1> HIDE DEF d
<1>7. d.entry = [k \in DOMAIN c.entry \ (T \cup {n}) |-> c.entry[k]]
  BY <1>2, <1>6 DEF Del
<1>8. Tiles(c.entry, c.begins, H) => Tiles(d.entry, d.begins, H \ Covered(c, T \cup {n}))
  <2> SUFFICES ASSUME Tiles(c.entry, c.begins, H)
               PROVE  Tiles(d.entry, d.begins, H \ Covered(c, T \cup {n}))
    OBVIOUS
  <2>1. Tiles(e.entry, e.begins, H \ Covered(c, T))
    BY DEF Thinned
  <2>2. e.entry \in [DOMAIN e.entry -> Entry]
    BY <1>2 DEF IsCollection
  <2>3. LET begin == e.entry[n].value.begin IN
        /\ begin \in DOMAIN e.begins /\ e.begins[begin] = n
        /\ Tiles(Del(e.entry, n), Del(e.begins, begin),
                 (H \ Covered(c, T)) \ UnitsOf(e.entry[n].value))
    BY <1>3, <2>1, <2>2, DelTiles
  <2>4. (H \ Covered(c, T)) \ UnitsOf(e.entry[n].value) = H \ Covered(c, T \cup {n})
    BY <1>3 DEF Covered
  <2> QED  BY <1>6, <2>3, <2>4
<1>9. \E u, to : Thins(c, s, d, u, to)
  <2> DEFINE u == Narrowed(t, e.size, p)
             to == Narrowed(at, e.size, p)
             m == e.size
  <2>1. /\ m \in Nat /\ at \in [1..m -> 1..c.size] /\ d.size = m - 1
        /\ \A i, j \in 1..m : i < j => at[i] < at[j]
        /\ \A i \in 1..m : t[i] = s[at[i]]
    BY <1>1, <1>2, <1>6 DEF Thins, InOrder
  <2>2. \A i \in 1..m - 1 :
           /\ to[i] = IF i < p THEN at[i] ELSE at[i + 1]
           /\ u[i] = IF i < p THEN t[i] ELSE t[i + 1]
           /\ i \in 1..m /\ i + 1 \in 1..m
    BY <2>1 DEF Narrowed
  <2>3. to \in [1..d.size -> 1..c.size]
    <3>1. DOMAIN to = 1..m - 1 /\ to = [i \in 1..m - 1 |-> to[i]]
      BY DEF Narrowed
    <3> HIDE DEF to
    <3>2. \A i \in 1..m - 1 : to[i] \in 1..c.size
      BY <2>1, <2>2
    <3> QED  BY <2>1, <3>1, <3>2
  <2> HIDE DEF to, u, m
  <2>4. \A i, j \in 1..d.size : i < j => to[i] < to[j]
    <3> SUFFICES ASSUME NEW i \in 1..m - 1, NEW j \in 1..m - 1, i < j
                 PROVE  to[i] < to[j]
      BY <2>1
    <3>1. i < j + 1 /\ i + 1 < j + 1 /\ (i < p \/ ~(j < p))
      BY <1>4, <2>1 DEF m
    <3> QED  BY <2>1, <2>2, <3>1
  <2>5. \A i \in 1..d.size : u[i] = s[to[i]]
    BY <2>1, <2>2
  <2>6. InOrder(d, u)
    BY <1>5 DEF u
  <2>7. Thins(c, s, d, u, to)
    BY <2>3, <2>4, <2>5, <2>6 DEF Thins
  <2> QED  BY <2>7
<1> QED  BY <1>5, <1>7, <1>8, <1>9 DEF Thinned, d

\* A sequence of a finite set has each of its elements once.
LEMMA SeqOfSet ==
    ASSUME NEW S, IsFiniteSet(S)
    PROVE  /\ Cardinality(S) \in Nat
           /\ SetToSeq(S) \in [1..Cardinality(S) -> S]
           /\ \A i, j \in 1..Cardinality(S) : SetToSeq(S)[i] = SetToSeq(S)[j] => i = j
           /\ \A x \in S : \E i \in 1..Cardinality(S) : SetToSeq(S)[i] = x
<1> DEFINE m == Cardinality(S)
           q == SetToSeq(S)
<1>1. m \in Nat /\ ExistsBijection(1..m, S)
  BY FS_CardinalityType
<1>2. \E f \in [1..m -> S] : IsInjective(f)
  BY <1>1 DEF ExistsBijection, Bijection, Injection
<1>3. q \in [1..m -> S] /\ IsInjective(q)
  <2>1. q = CHOOSE f \in [1..m -> S] : IsInjective(f)
    BY DEF SetToSeq
  <2> HIDE DEF q, m
  <2> QED  BY <1>2, <2>1
<1> HIDE DEF q
<1>4. q \in Injection(1..m, S)
  BY <1>3 DEF Injection
<1>5. Cardinality(1..m) = m
  BY <1>1, FS_Interval
<1>6. q \in Surjection(1..m, S)
  BY <1>4, <1>5, FS_Injection
<1> QED  BY <1>1, <1>3, <1>6 DEF q, Surjection, IsInjective

\* clear_spent_values takes out the confirmed values and nothing else.
LEMMA ClearThins ==
    ASSUME NEW c, IsCollection(c), NEW s, InOrder(c, s), NEW H
    PROVE  Thinned(c, s, H, ClearSpentValues(c), c.states["confirmed"])
<1> DEFINE S == c.states["confirmed"]
           q == SetToSeq(S)
           m == Cardinality(S)
           Step(f, k) == [i \in 0..k |-> IF i = 0 THEN c ELSE RemoveNode(f[i - 1], q[i])]
           after == CHOOSE f : f = Step(f, Len(q))
           T(k) == {q[j] : j \in 1..k}
<1>1. S \subseteq DOMAIN c.entry /\ IsFiniteSet(S) /\ c.size \in Nat
  <2>1. S \subseteq DOMAIN c.entry
    BY StateAssumption DEF IsCollection
  <2>2. DOMAIN c.entry \subseteq 1..c.fresh - 1 /\ c.fresh - 1 \in Int
    BY DEF IsCollection
  <2>3. IsFiniteSet(1..c.fresh - 1)
    BY <2>2, FS_Interval
  <2> QED  BY <2>1, <2>2, <2>3, FS_Subset DEF InOrder
<1>2. /\ m \in Nat /\ q \in [1..m -> S]
      /\ \A i, j \in 1..m : q[i] = q[j] => i = j
      /\ \A x \in S : \E i \in 1..m : q[i] = x
  BY <1>1, SeqOfSet
<1>3. Len(q) = m
  <2> HIDE DEF q, m
  <2> QED  BY <1>2
<1> HIDE DEF S, q, m
<1>4. \A k \in Nat : \E f : f = Step(f, k)
  <2> DEFINE bad == {k \in Nat : ~(\E f : f = Step(f, k))}
  <2> SUFFICES ASSUME bad # {} PROVE FALSE
    OBVIOUS
  <2>1. PICK k \in bad : \A j \in bad : k <= j
    <3>1. bad \subseteq Nat
      OBVIOUS
    <3> HIDE DEF bad
    <3> QED  BY <3>1, Least
  <2>2. k \in Nat /\ ~(\E f : f = Step(f, k))
    BY <2>1
  <2>3. CASE k = 0
    <3> DEFINE g == [i \in 0..0 |-> c]
    <3>1. g = Step(g, 0)
      OBVIOUS
    <3> QED  BY <2>2, <2>3, <3>1
  <2>4. CASE k # 0
    <3>1. k - 1 \in Nat /\ k - 1 \notin bad
      BY <2>1, <2>2, <2>4
    <3>2. PICK f : f = Step(f, k - 1)
      BY <3>1
    <3> DEFINE g == [i \in 0..k |-> IF i < k THEN f[i] ELSE RemoveNode(f[k - 1], q[k])]
    <3>3. ASSUME NEW i \in 0..k PROVE g[i] = Step(g, k)[i]
      <4>1. CASE i = 0
        <5>1. g[i] = f[0] /\ Step(g, k)[i] = c /\ f[0] = Step(f, k - 1)[0]
          BY <2>2, <2>4, <3>2, <4>1
        <5>2. Step(f, k - 1)[0] = c
          BY <3>1
        <5> QED  BY <5>1, <5>2
      <4>2. CASE i # 0 /\ i < k
        <5>1. i - 1 \in 0..k /\ i - 1 < k /\ i \in 0..k - 1
          BY <2>2, <4>2
        <5>2. g[i] = f[i] /\ g[i - 1] = f[i - 1]
          BY <4>2, <5>1
        <5>3. f[i] = Step(f, k - 1)[i]
          BY <3>2
        <5>4. Step(f, k - 1)[i] = RemoveNode(f[i - 1], q[i])
          BY <4>2, <5>1
        <5>5. Step(g, k)[i] = RemoveNode(g[i - 1], q[i])
          BY <4>2
        <5> HIDE DEF Step, g
        <5> QED  BY <5>2, <5>3, <5>4, <5>5
      <4>3. CASE i = k
        <5>1. k - 1 \in 0..k /\ k - 1 < k
          BY <2>2, <2>4
        <5>2. g[k] = RemoveNode(f[k - 1], q[k]) /\ g[k - 1] = f[k - 1]
          BY <2>2, <5>1
        <5>3. Step(g, k)[k] = RemoveNode(g[k - 1], q[k])
          BY <2>2, <2>4
        <5> HIDE DEF Step, g
        <5> QED  BY <4>3, <5>2, <5>3
      <4> QED  BY <2>2, <4>1, <4>2, <4>3
    <3>4. g = Step(g, k)
      <4>1. Step(g, k) = [i \in 0..k |-> Step(g, k)[i]]
        OBVIOUS
      <4>2. g = [i \in 0..k |-> g[i]]
        OBVIOUS
      <4> HIDE DEF g, Step
      <4> QED  BY <3>3, <4>1, <4>2
    <3> QED  BY <2>2, <3>4
  <2> QED  BY <2>3, <2>4
<1>5. after = Step(after, m)
  <2>1. after = CHOOSE f : f = Step(f, m)
    BY <1>3
  <2>2. \E f : f = Step(f, m)
    BY <1>2, <1>4
  <2> HIDE DEF after, Step
  <2> QED  BY <2>1, <2>2
<1>6. ClearSpentValues(c) = after[m]
  <2>1. ClearSpentValues(c) = after[Len(q)]
    BY DEF ClearSpentValues, S, q
  <2> QED  BY <1>3, <2>1
<1> HIDE DEF after
<1>7. after[0] = c
  <2>1. after[0] = Step(after, m)[0]
    BY <1>5
  <2> QED  BY <1>2, <2>1
<1>8. \A k \in 1..m : after[k] = RemoveNode(after[k - 1], q[k])
  <2> TAKE k \in 1..m
  <2>1. after[k] = Step(after, m)[k]
    BY <1>5
  <2> QED  BY <1>2, <2>1
<1> HIDE DEF T, Step
<1>9. \A k \in 0..m : Thinned(c, s, H, after[k], T(k))
  <2> DEFINE bad == {k \in 0..m : ~Thinned(c, s, H, after[k], T(k))}
  <2> SUFFICES ASSUME bad # {} PROVE FALSE
    OBVIOUS
  <2>1. PICK k \in bad : \A j \in bad : k <= j
    <3>1. bad \subseteq Nat
      BY <1>2
    <3> HIDE DEF bad
    <3> QED  BY <3>1, Least
  <2>2. k \in 0..m /\ ~Thinned(c, s, H, after[k], T(k))
    BY <2>1
  <2>3. CASE k = 0
    <3>1. T(0) = {}
      BY DEF T
    <3>2. Thinned(c, s, H, c, {})
      <4> DEFINE at == [i \in 1..c.size |-> i]
      <4>1. Thins(c, s, c, s, at)
        BY <1>1 DEF Thins
      <4>2. c.entry = [n \in DOMAIN c.entry \ {} |-> c.entry[n]]
        BY DEF IsCollection
      <4>3. H \ Covered(c, {}) = H
        BY DEF Covered
      <4> HIDE DEF at
      <4> QED  BY <4>1, <4>2, <4>3 DEF Thinned
    <3> QED  BY <1>7, <2>2, <2>3, <3>1, <3>2
  <2>4. CASE k # 0
    <3>1. k \in 1..m /\ k - 1 \in 0..m /\ k - 1 \notin bad
      <4>1. k \in 1..m /\ k - 1 \in 0..m
        BY <1>2, <2>2, <2>4
      <4> HIDE DEF bad
      <4>2. ~(k <= k - 1)
        BY <4>1
      <4> QED  BY <2>1, <4>1, <4>2
    <3>2. Thinned(c, s, H, after[k - 1], T(k - 1))
      BY <3>1
    <3>3. q[k] \in DOMAIN c.entry \ T(k - 1)
      <4>1. q[k] \in DOMAIN c.entry
        BY <1>1, <1>2, <3>1
      <4>2. q[k] \notin T(k - 1)
        <5> SUFFICES ASSUME NEW j \in 1..k - 1, q[k] = q[j] PROVE FALSE
          BY DEF T
        <5>1. j \in 1..m /\ j # k
          BY <1>2, <3>1
        <5> QED  BY <1>2, <3>1, <5>1
      <4> QED  BY <4>1, <4>2
    <3>4. T(k - 1) \cup {q[k]} = T(k)
      <4>1. 1..k = (1..k - 1) \cup {k}
        BY <1>2, <3>1
      <4> QED  BY <4>1 DEF T
    <3> HIDE DEF bad
    <3>5. Thinned(c, s, H, RemoveNode(after[k - 1], q[k]), T(k - 1) \cup {q[k]})
      BY <1>1, <3>2, <3>3, ThinStep
    <3> QED  BY <1>8, <2>2, <3>1, <3>4, <3>5
  <2> QED  BY <2>3, <2>4
<1>10. T(m) = S
  BY <1>2 DEF T
<1>11. Thinned(c, s, H, after[m], T(m))
  BY <1>2, <1>9
<1> QED  BY <1>6, <1>10, <1>11 DEF S

-----------------------------------------------------------------------------
(* The operations on a collection that is in order.                        *)

\* Adding, splitting and merging keep a collection in order; what they make of
\* its values and of the index by first units.
LEMMA AddInOrder ==
    ASSUME NEW c, IsCollection(c), NEW s, InOrder(c, s), NEW x \in Entry,
           NEW e \in AddValue(c, x)
    PROVE  /\ IsCollection(e)
           /\ e.entry = Put(c.entry, c.fresh, x)
           /\ e.begins = Put(c.begins, x.value.begin, c.fresh)
           /\ \/ InOrder(e, Widened(s, c.size, c.size, c.fresh))
              \/ InOrder(e, Widened(s, c.size, 0, c.fresh))
<1>1. c.size \in Nat /\ 0 \in 0..c.size /\ c.size \in 0..c.size
  BY DEF InOrder
<1>2. CASE e = Insert(c, c.tail, None, x)
  <2>1. c.tail = IF c.size = 0 THEN None ELSE s[c.size]
    BY DEF InOrder
  <2> DEFINE before == c.tail
             p == c.size
             after == IF p = c.size THEN None ELSE s[p + 1]
  <2>2. after = None
    OBVIOUS
  <2>3. IsInserted(c, before, None, x, e)
    BY <1>2, InsertFields
  <2>4. IsCollection(e) /\ InOrder(e, Widened(s, c.size, p, c.fresh))
    BY <1>1, <1>2, <2>1, <2>2, InsertInOrder
  <2> QED  BY <2>3, <2>4 DEF IsInserted
<1>3. CASE e = Insert(c, None, c.head, x)
  <2>1. c.head = IF 0 = c.size THEN None ELSE s[0 + 1]
    BY DEF InOrder
  <2>2. None = IF 0 = 0 THEN None ELSE s[0]
    OBVIOUS
  <2>3. IsInserted(c, None, c.head, x, e)
    BY <1>3, InsertFields
  <2>4. IsCollection(e) /\ InOrder(e, Widened(s, c.size, 0, c.fresh))
    BY <1>1, <1>3, <2>1, <2>2, InsertInOrder
  <2> QED  BY <2>3, <2>4 DEF IsInserted
<1> QED  BY <1>2, <1>3 DEF AddValue

\* What there is to know of the node at a position.
LEMMA NodeAt ==
    ASSUME NEW c, IsCollection(c), NEW s, InOrder(c, s), NEW p \in 1..c.size
    PROVE  /\ c.size \in Nat /\ s[p] \in DOMAIN c.entry
           /\ c.entry[s[p]] \in Entry
           /\ c.entry[s[p]].value \in Interval /\ c.entry[s[p]].state \in State
           /\ c.next[s[p]] = IF p < c.size THEN s[p + 1] ELSE None
<1>1. /\ c.size \in Nat /\ s[p] \in DOMAIN c.entry
      /\ c.next[s[p]] = IF p < c.size THEN s[p + 1] ELSE None
  BY DEF InOrder
<1>2. c.entry[s[p]] \in Entry
  BY <1>1 DEF IsCollection
<1> QED  BY <1>1, <1>2 DEF Entry

\* The change comes right after the part that is paid.
LEMMA SplitInOrder ==
    ASSUME NEW c, IsCollection(c), NEW s, InOrder(c, s), NEW p \in 1..c.size,
           NEW n, n = s[p], NEW change \in 1..c.entry[n].value.num - 1
    PROVE  LET e == SplitNode(c, n, change)
               parts == SplitValue(c.entry[n].value, change)
               x == [c.entry[n] EXCEPT !.value = parts[2]]
           IN
           /\ IsCollection(e) /\ InOrder(e, Widened(s, c.size, p, c.fresh))
           /\ e.entry = Put([c.entry EXCEPT ![n].value = parts[1]], c.fresh, x)
           /\ e.begins = Put(c.begins, parts[2].begin, c.fresh)
           /\ x \in Entry
<1> DEFINE parts == SplitValue(c.entry[n].value, change)
           x == [c.entry[n] EXCEPT !.value = parts[2]]
           d == [c EXCEPT !.entry[n].value = parts[1]]
           e == SplitNode(c, n, change)
<1>1. /\ c.size \in Nat /\ n \in DOMAIN c.entry /\ p \in 0..c.size
      /\ c.entry[n] \in Entry /\ c.entry[n].value \in Interval
      /\ c.next[n] = IF p < c.size THEN s[p + 1] ELSE None
  BY NodeAt
<1>2. parts[1] \in Interval /\ parts[2] \in Interval
  BY <1>1, SplitPartition
<1>3. x \in Entry /\ x.value = parts[2]
  BY <1>1, <1>2 DEF Entry
<1>4. e = Insert(d, n, c.next[n], x)
  BY DEF SplitNode
<1> HIDE DEF parts, x
<1>5. /\ IsCollection(d) /\ InOrder(d, s)
      /\ d.entry = [c.entry EXCEPT ![n].value = parts[1]]
      /\ d.begins = c.begins /\ d.fresh = c.fresh /\ d.size = c.size
  BY <1>1, <1>2, SetValueInOrder
<1> HIDE DEF d, e
<1>6. /\ n = IF p = 0 THEN None ELSE s[p]
      /\ c.next[n] = IF p = d.size THEN None ELSE s[p + 1]
      /\ p \in 0..d.size
  BY <1>1, <1>5
<1>7. IsInserted(d, n, c.next[n], x, e)
  BY <1>4, <1>5, InsertFields
<1>8. IsCollection(e) /\ InOrder(e, Widened(s, d.size, p, d.fresh))
  <2> DEFINE after == c.next[n]
  <2>1. after = IF p = d.size THEN None ELSE s[p + 1]
    BY <1>6
  <2>2. e = Insert(d, n, after, x)
    BY <1>4 DEF e
  <2> HIDE DEF after
  <2> QED  BY <1>3, <1>5, <1>6, <2>1, <2>2, InsertInOrder
<1>9. /\ e.entry = Put(d.entry, d.fresh, x)
      /\ e.begins = Put(d.begins, x.value.begin, d.fresh)
  BY <1>7 DEF IsInserted
<1> QED  BY <1>3, <1>5, <1>8, <1>9 DEF e, x, parts

\* The second of the two merged nodes goes.
LEMMA MergeInOrder ==
    ASSUME NEW c, IsCollection(c), NEW s, InOrder(c, s),
           NEW p \in 1..c.size, p + 1 <= c.size, NEW v \in Interval
    PROVE  LET e == RemoveNode([c EXCEPT !.entry[s[p]].value = v], s[p + 1])
               begin == c.entry[s[p + 1]].value.begin
           IN
           /\ IsCollection(e) /\ InOrder(e, Narrowed(s, c.size, p + 1))
           /\ e.entry = Del([c.entry EXCEPT ![s[p]].value = v], s[p + 1])
           /\ e.begins = IF begin \in DOMAIN c.begins /\ c.begins[begin] = s[p + 1]
                         THEN Del(c.begins, begin) ELSE c.begins
<1> DEFINE n == s[p]
           m == s[p + 1]
           d == [c EXCEPT !.entry[n].value = v]
           e == RemoveNode(d, m)
<1>1. /\ n \in DOMAIN c.entry /\ m \in DOMAIN c.entry /\ n # m
      /\ p + 1 \in 1..c.size
  BY DEF InOrder
<1>2. /\ IsCollection(d) /\ InOrder(d, s)
      /\ d.entry = [c.entry EXCEPT ![n].value = v]
      /\ d.begins = c.begins /\ d.size = c.size
  BY <1>1, SetValueInOrder
<1>3. d.entry[m] = c.entry[m]
  BY <1>1, <1>2
<1> HIDE DEF d
<1>4. IsCollection(e) /\ InOrder(e, Narrowed(s, d.size, p + 1))
  <2>1. p + 1 \in 1..d.size
    BY <1>1, <1>2
  <2> QED  BY <1>2, <2>1, RemoveInOrder
<1>5. IsRemoved(d, m, e)
  BY <1>2, RemoveFields
<1> HIDE DEF e
<1>6. /\ e.entry = Del(d.entry, m)
      /\ e.begins = IF d.entry[m].value.begin \in DOMAIN d.begins
                       /\ d.begins[d.entry[m].value.begin] = m
                    THEN Del(d.begins, d.entry[m].value.begin) ELSE d.begins
  BY <1>5 DEF IsRemoved
<1> QED  BY <1>2, <1>3, <1>4, <1>6 DEF e, d

\* Splitting keeps the units, and so does merging values that follow one another.
LEMMA SplitTiles ==
    ASSUME NEW en, en \in [DOMAIN en -> Entry], NEW be, NEW H, Tiles(en, be, H),
           NEW n \in DOMAIN en, NEW change \in 1..en[n].value.num - 1,
           NEW k, k \notin DOMAIN en
    PROVE  LET parts == SplitValue(en[n].value, change)
               x == [en[n] EXCEPT !.value = parts[2]]
           IN  Tiles(Put([en EXCEPT ![n].value = parts[1]], k, x),
                     Put(be, parts[2].begin, k), H)
<1> DEFINE parts == SplitValue(en[n].value, change)
           x == [en[n] EXCEPT !.value = parts[2]]
           d == [en EXCEPT ![n].value = parts[1]]
           U == UnitsOf(en[n].value)
<1>1. en[n] \in Entry /\ en[n].value \in Interval /\ U \subseteq H
  BY DEF Entry, Tiles
<1>2. /\ parts[1] \in Interval /\ parts[2] \in Interval
      /\ UnitsOf(parts[1]) \cup UnitsOf(parts[2]) = U
      /\ UnitsOf(parts[1]) \cap UnitsOf(parts[2]) = {}
  BY <1>1, SplitPartition
<1>3. parts[1].begin = en[n].value.begin
  BY <1>1 DEF SplitValue
<1>4. x \in Entry /\ x.value = parts[2]
  BY <1>1, <1>2 DEF Entry
<1> HIDE DEF parts, x
<1>5. Tiles(d, be, (H \ U) \cup UnitsOf(parts[1]))
  BY <1>2, <1>3, ReplaceTiles
<1>6. d \in [DOMAIN d -> Entry] /\ k \notin DOMAIN d
  BY <1>2 DEF Entry
<1> HIDE DEF d
<1>7. UnitsOf(x.value) \cap ((H \ U) \cup UnitsOf(parts[1])) = {}
  BY <1>2, <1>4
<1>8. ((H \ U) \cup UnitsOf(parts[1])) \cup UnitsOf(x.value) = H
  BY <1>1, <1>2, <1>4
<1>9. Tiles(Put(d, k, x), Put(be, x.value.begin, k), H)
  BY <1>4, <1>5, <1>6, <1>7, <1>8, PutTiles
<1> QED  BY <1>4, <1>9 DEF parts, x, d

\* A merged value is an interval.
LEMMA MergedInterval ==
    ASSUME NEW v \in Interval, NEW w \in Interval
    PROVE  /\ Merged(v, w) \in Interval /\ Merged(v, w).begin = v.begin
           /\ EndIndex(v) + 1 = w.begin
                 => UnitsOf(Merged(v, w)) = UnitsOf(v) \cup UnitsOf(w)
BY DEF Merged, Interval, UnitsOf, EndIndex

\* Merging two values that follow one another keeps the units.
LEMMA MergeTiles ==
    ASSUME NEW en, en \in [DOMAIN en -> Entry], NEW be, NEW H, Tiles(en, be, H),
           NEW n \in DOMAIN en, NEW m \in DOMAIN en, n # m,
           EndIndex(en[n].value) + 1 = en[m].value.begin
    PROVE  LET v == Merged(en[n].value, en[m].value)
               begin == en[m].value.begin
           IN  /\ begin \in DOMAIN be /\ be[begin] = m
               /\ Tiles(Del([en EXCEPT ![n].value = v], m), Del(be, begin), H)
<1> DEFINE v == Merged(en[n].value, en[m].value)
           begin == en[m].value.begin
           d == Del(en, m)
           U == UnitsOf(en[n].value)
           W == UnitsOf(en[m].value)
<1>1. /\ en[n].value \in Interval /\ en[m].value \in Interval
      /\ U \subseteq H /\ W \subseteq H /\ U \cap W = {}
  BY DEF Entry, Tiles
<1>2. v \in Interval /\ v.begin = en[n].value.begin /\ UnitsOf(v) = U \cup W
  BY <1>1, MergedInterval
<1>3. /\ begin \in DOMAIN be /\ be[begin] = m
      /\ Tiles(d, Del(be, begin), H \ W)
  BY DelTiles
<1>4. /\ d \in [DOMAIN d -> Entry] /\ n \in DOMAIN d /\ d[n] = en[n]
      /\ Del([en EXCEPT ![n].value = v], m) = [d EXCEPT ![n].value = v]
  BY DEF Del, Entry
<1> HIDE DEF v, d
<1>5. Tiles([d EXCEPT ![n].value = v], Del(be, begin),
            ((H \ W) \ UnitsOf(d[n].value)) \cup UnitsOf(v))
  <2>1. UnitsOf(v) \cap ((H \ W) \ UnitsOf(d[n].value)) = {}
    BY <1>2, <1>4
  <2> QED  BY <1>2, <1>3, <1>4, <2>1, ReplaceTiles
<1>6. ((H \ W) \ UnitsOf(d[n].value)) \cup UnitsOf(v) = H
  BY <1>1, <1>2, <1>4
<1> QED  BY <1>3, <1>4, <1>5, <1>6 DEF v, d

-----------------------------------------------------------------------------
(* The inductive invariant.                                                *)

ListInv ==
    /\ IsCollection(l)
    /\ \E s : InOrder(l, s)
    /\ held \subseteq Nat /\ sound \in BOOLEAN
    /\ sound => Tiles(l.entry, l.begins, held)

\* The empty collection is in order.
LEMMA InitInv == Init => ListInv
<1> SUFFICES ASSUME Init PROVE ListInv
  OBVIOUS
<1>1. /\ DOMAIN l = Fields
      /\ l.head = None /\ l.tail = None /\ l.size = 0 /\ l.fresh = 1
      /\ l.next = <<>> /\ l.prev = <<>> /\ l.entry = <<>> /\ l.begins = <<>>
      /\ l.states = [x \in State |-> {}]
      /\ held = {} /\ sound = TRUE
  BY DEF Init, Empty, Fields
<1>2. DOMAIN l.entry = {} /\ DOMAIN l.begins = {}
  BY <1>1
<1>3. IsCollection(l)
  <2>1. l.entry \in [DOMAIN l.entry -> Entry]
    BY <1>1
  <2> QED  BY <1>1, <1>2, <2>1 DEF IsCollection
<1>4. InOrder(l, <<>>)
  <2>1. /\ <<>> \in [1..l.size -> DOMAIN l.entry]
        /\ l.next \in [DOMAIN l.entry -> Nat] /\ l.prev \in [DOMAIN l.entry -> Nat]
    BY <1>1
  <2> QED  BY <1>1, <1>2, <2>1 DEF InOrder
<1>5. Tiles(l.entry, l.begins, held)
  BY <1>1, <1>2 DEF Tiles
<1> QED  BY <1>1, <1>3, <1>4, <1>5 DEF ListInv

\* The new node's number is not in use; a value added has naturals as units.
LEMMA FreshNode == ListInv => l.fresh \notin DOMAIN l.entry
BY DEF ListInv, IsCollection

\* Units are naturals.
LEMMA UnitsNat == \A v \in Interval : UnitsOf(v) \subseteq Nat
BY DEF Interval, UnitsOf, EndIndex

\* Each action keeps the invariant.
LEMMA AddInv ==
    ASSUME ListInv, NEW v \in Coin, Add(v)
    PROVE  ListInv'
<1> DEFINE x == [value |-> v, state |-> "unspent"]
<1>1. v \in Interval /\ x \in Entry /\ x.value = v
  BY CoinAssumption, StateAssumption DEF Entry
<1> HIDE DEF x
<1>2. PICK s : InOrder(l, s)
  BY DEF ListInv
<1>3. /\ IsCollection(l')
      /\ l'.entry = Put(l.entry, l.fresh, x)
      /\ l'.begins = Put(l.begins, x.value.begin, l.fresh)
      /\ \/ InOrder(l', Widened(s, l.size, l.size, l.fresh))
         \/ InOrder(l', Widened(s, l.size, 0, l.fresh))
  <2>1. l' \in AddValue(l, x)
    BY DEF Add, x
  <2> QED  BY <1>1, <1>2, <2>1, AddInOrder DEF ListInv
<1>4. held' = held \cup UnitsOf(v) /\ sound' = (sound /\ UnitsOf(v) \cap held = {})
  BY DEF Add
<1>5. sound' => Tiles(l'.entry, l'.begins, held')
  <2> SUFFICES ASSUME sound, UnitsOf(v) \cap held = {}
               PROVE  Tiles(l'.entry, l'.begins, held')
    BY <1>4
  <2>1. l.entry \in [DOMAIN l.entry -> Entry] /\ l.fresh \notin DOMAIN l.entry
    BY FreshNode DEF ListInv, IsCollection
  <2>2. Tiles(l.entry, l.begins, held)
    BY DEF ListInv
  <2>3. Tiles(Put(l.entry, l.fresh, x), Put(l.begins, x.value.begin, l.fresh),
              held \cup UnitsOf(x.value))
    BY <1>1, <2>1, <2>2, PutTiles
  <2> QED  BY <1>1, <1>3, <1>4, <2>3
<1>6. held' \subseteq Nat /\ sound' \in BOOLEAN
  <2>1. held' \subseteq Nat
    BY <1>1, <1>4, UnitsNat DEF ListInv
  <2>2. sound' \in BOOLEAN
    BY <1>4, Zenon
  <2> QED  BY <2>1, <2>2
<1>7. \E t : InOrder(l', t)
  BY <1>3
<1> QED  BY <1>3, <1>5, <1>6, <1>7, Zenon DEF ListInv

\* remove_value keeps the list.
LEMMA RemoveInv ==
    ASSUME ListInv, NEW n \in Nodes, RemoveValue(n)
    PROVE  ListInv'
<1>1. PICK s : InOrder(l, s)
  BY DEF ListInv
<1>2. PICK p \in 1..l.size : s[p] = n
  BY <1>1 DEF InOrder, Nodes
<1>3. IsCollection(l') /\ InOrder(l', Narrowed(s, l.size, p))
  BY <1>1, <1>2, RemoveInOrder DEF ListInv, RemoveValue
<1>4. /\ l'.entry = Del(l.entry, n)
      /\ l'.begins = IF l.entry[n].value.begin \in DOMAIN l.begins
                       /\ l.begins[l.entry[n].value.begin] = n
                     THEN Del(l.begins, l.entry[n].value.begin) ELSE l.begins
  <2>1. IsRemoved(l, n, l')
    BY RemoveFields DEF ListInv, RemoveValue
  <2> QED  BY <2>1 DEF IsRemoved
<1>5. held' = held \ UnitsOf(l.entry[n].value) /\ sound' = sound
  BY DEF RemoveValue, ValueAt
<1>6. sound => Tiles(l'.entry, l'.begins, held')
  <2> SUFFICES ASSUME sound PROVE Tiles(l'.entry, l'.begins, held')
    OBVIOUS
  <2>1. l.entry \in [DOMAIN l.entry -> Entry] /\ n \in DOMAIN l.entry
    BY DEF ListInv, IsCollection, Nodes
  <2>2. Tiles(l.entry, l.begins, held)
    BY DEF ListInv
  <2>3. LET begin == l.entry[n].value.begin IN
        /\ begin \in DOMAIN l.begins /\ l.begins[begin] = n
        /\ Tiles(Del(l.entry, n), Del(l.begins, begin), held \ UnitsOf(l.entry[n].value))
    BY <2>1, <2>2, DelTiles
  <2> QED  BY <1>4, <1>5, <2>3
<1> QED  BY <1>3, <1>5, <1>6, Zenon DEF ListInv

\* split_value keeps the list.
LEMMA SplitInv ==
    ASSUME ListInv, NEW n \in Nodes, NEW change \in 1..ValueAt(n).num - 1,
           Split(n, change)
    PROVE  ListInv'
<1> DEFINE parts == SplitValue(l.entry[n].value, change)
           x == [l.entry[n] EXCEPT !.value = parts[2]]
<1>1. PICK s : InOrder(l, s)
  BY DEF ListInv
<1>2. PICK p \in 1..l.size : s[p] = n
  BY <1>1 DEF InOrder, Nodes
<1>3. /\ change \in 1..l.entry[n].value.num - 1
      /\ l' = SplitNode(l, n, change) /\ held' = held /\ sound' = sound
  BY DEF Split, ValueAt
<1>4. /\ IsCollection(l') /\ InOrder(l', Widened(s, l.size, p, l.fresh))
      /\ l'.entry = Put([l.entry EXCEPT ![n].value = parts[1]], l.fresh, x)
      /\ l'.begins = Put(l.begins, parts[2].begin, l.fresh)
  BY <1>1, <1>2, <1>3, SplitInOrder DEF ListInv
<1>5. sound => Tiles(l'.entry, l'.begins, held)
  <2> SUFFICES ASSUME sound PROVE Tiles(l'.entry, l'.begins, held)
    OBVIOUS
  <2>1. /\ l.entry \in [DOMAIN l.entry -> Entry] /\ n \in DOMAIN l.entry
        /\ l.fresh \notin DOMAIN l.entry
    BY FreshNode DEF ListInv, IsCollection, Nodes
  <2>2. Tiles(l.entry, l.begins, held)
    BY DEF ListInv
  <2> QED  BY <1>3, <1>4, <2>1, <2>2, SplitTiles
<1> HIDE DEF parts, x
<1> QED  BY <1>3, <1>4, <1>5, Zenon DEF ListInv

\* The two nodes of a merge are neighbours in the list.
LEMMA Neighbours ==
    ASSUME NEW c, IsCollection(c), NEW s, InOrder(c, s),
           NEW p \in 1..c.size, c.next[s[p]] \in DOMAIN c.entry
    PROVE  p + 1 <= c.size /\ c.next[s[p]] = s[p + 1]
<1>1. c.next[s[p]] = IF p < c.size THEN s[p + 1] ELSE None
  BY NodeAt
<1>2. None \notin DOMAIN c.entry /\ c.size \in Nat
  BY DEF IsCollection, InOrder, None
<1> QED  BY <1>1, <1>2

\* merge_adjacent_values keeps the list, whichever two nodes it is given.
LEMMA MergeInv ==
    ASSUME ListInv, NEW n \in Nodes, NEW m \in Nodes, MergeAdjacentValues(n, m)
    PROVE  ListInv'
<1> DEFINE v == Merged(l.entry[n].value, l.entry[m].value)
           begin == l.entry[m].value.begin
<1>1. PICK s : InOrder(l, s)
  BY DEF ListInv
<1>2. PICK p \in 1..l.size : s[p] = n
  BY <1>1 DEF InOrder, Nodes
<1>3. /\ p + 1 <= l.size /\ s[p + 1] = m /\ n # m
      /\ n \in DOMAIN l.entry /\ m \in DOMAIN l.entry
  <2>1. n \in DOMAIN l.entry /\ m \in DOMAIN l.entry /\ l.next[n] = m
    BY DEF Nodes, MergeAdjacentValues
  <2>2. p + 1 <= l.size /\ s[p + 1] = m
    BY <1>1, <1>2, <2>1, Neighbours DEF ListInv
  <2> QED  BY <1>1, <1>2, <2>1, <2>2 DEF InOrder
<1>4. l.entry \in [DOMAIN l.entry -> Entry]
  BY DEF ListInv, IsCollection
<1>5. v \in Interval
  BY <1>3, <1>4, MergedInterval DEF Entry
<1>6. l' = RemoveNode([l EXCEPT !.entry[n].value = v], m)
  BY DEF MergeAdjacentValues, ValueAt
<1> HIDE DEF v
<1>7. /\ IsCollection(l') /\ InOrder(l', Narrowed(s, l.size, p + 1))
      /\ l'.entry = Del([l.entry EXCEPT ![n].value = v], m)
      /\ l'.begins = IF begin \in DOMAIN l.begins /\ l.begins[begin] = m
                     THEN Del(l.begins, begin) ELSE l.begins
  BY <1>1, <1>2, <1>3, <1>5, <1>6, MergeInOrder DEF ListInv
<1>8. held' = held
      /\ sound' = (sound /\ EndIndex(l.entry[n].value) + 1 = l.entry[m].value.begin)
  BY DEF MergeAdjacentValues, ValueAt
<1>9. sound' => Tiles(l'.entry, l'.begins, held')
  <2> SUFFICES ASSUME sound, EndIndex(l.entry[n].value) + 1 = l.entry[m].value.begin
               PROVE  Tiles(l'.entry, l'.begins, held)
    BY <1>8
  <2>1. Tiles(l.entry, l.begins, held)
    BY DEF ListInv
  <2> QED  BY <1>3, <1>4, <1>7, <2>1, MergeTiles DEF v
<1>10. held' \subseteq Nat /\ sound' \in BOOLEAN
  <2>1. held' \subseteq Nat
    BY <1>8 DEF ListInv
  <2>2. sound' \in BOOLEAN
    BY <1>8, Zenon
  <2> QED  BY <2>1, <2>2
<1> QED  BY <1>7, <1>9, <1>10, Zenon DEF ListInv

\* update_value_state keeps the list.
LEMMA UpdateInv ==
    ASSUME ListInv, NEW n \in Nodes, NEW x \in State, Update(n, x)
    PROVE  ListInv'
<1>1. PICK s : InOrder(l, s)
  BY DEF ListInv
<1>2. /\ n \in DOMAIN l.entry /\ l.entry \in [DOMAIN l.entry -> Entry]
      /\ l' = UpdateValueState(l, n, x) /\ held' = held /\ sound' = sound
  BY DEF ListInv, IsCollection, Nodes, Update
<1>3. /\ IsCollection(l') /\ InOrder(l', s)
      /\ l'.entry = [l.entry EXCEPT ![n].state = x] /\ l'.begins = l.begins
  BY <1>1, <1>2, UpdateInOrder DEF ListInv
<1>4. DOMAIN l'.entry = DOMAIN l.entry
      /\ \A k \in DOMAIN l.entry : l'.entry[k].value = l.entry[k].value
  BY <1>2, <1>3 DEF Entry
<1>5. sound => Tiles(l'.entry, l'.begins, held)
  BY <1>3, <1>4, SameTiles DEF ListInv
<1> QED  BY <1>2, <1>3, <1>5, Zenon DEF ListInv

\* clear_spent_values keeps the list.
LEMMA ClearInv ==
    ASSUME ListInv, ClearSpent
    PROVE  ListInv'
<1>1. PICK s : InOrder(l, s)
  BY DEF ListInv
<1> DEFINE S == l.states["confirmed"]
<1>2. Thinned(l, s, held, l', S)
  BY <1>1, ClearThins DEF ListInv, ClearSpent
<1>3. S = {n \in Nodes : StateAt(n) = "confirmed"}
  BY StateAssumption DEF ListInv, IsCollection, Nodes, StateAt
<1>4. held' = held \ Covered(l, S) /\ sound' = sound
  <2>1. held' = held \ AllUnits(S)
    BY <1>3 DEF ClearSpent
  <2>2. AllUnits(S) = Covered(l, S)
    BY DEF AllUnits, Covered, ValueAt
  <2> QED  BY <2>1, <2>2 DEF ClearSpent
<1>5. \E t : InOrder(l', t)
  BY <1>2 DEF Thinned, Thins
<1> HIDE DEF S
<1>6. sound => Tiles(l'.entry, l'.begins, held')
  BY <1>2, <1>4 DEF ListInv, Thinned
<1>7. IsCollection(l')
  BY <1>2 DEF Thinned
<1> QED  BY <1>4, <1>5, <1>6, <1>7, Zenon DEF ListInv

\* A sequence of the nodes exists that the links follow, and while only disjoint
\* values are added the values tile the units held.
LEMMA InductiveInvariant == Spec => []ListInv
<1>1. ListInv /\ [Next]_vars => ListInv'
  <2> SUFFICES ASSUME ListInv, [Next]_vars PROVE ListInv'
    OBVIOUS
  <2>1. CASE \E v \in Coin : Add(v)
    BY <2>1, AddInv
  <2>2. CASE \E n \in Nodes : RemoveValue(n)
    BY <2>2, RemoveInv
  <2>3. CASE \E n \in Nodes : \E change \in 1..ValueAt(n).num - 1 : Split(n, change)
    BY <2>3, SplitInv
  <2>4. CASE \E n \in Nodes : \E m \in Nodes : MergeAdjacentValues(n, m)
    BY <2>4, MergeInv
  <2>5. CASE \E n \in Nodes : \E x \in State : Update(n, x)
    BY <2>5, UpdateInv
  <2>6. CASE ClearSpent
    BY <2>6, ClearInv
  <2>7. CASE UNCHANGED vars
    BY <2>7 DEF vars, ListInv
  <2> QED  BY <2>1, <2>2, <2>3, <2>4, <2>5, <2>6, <2>7 DEF Next
<1> QED  BY <1>1, InitInv, PTL DEF Spec

-----------------------------------------------------------------------------
(* The theorems.                                                           *)

\* The sequence of the nodes is what the walks along the links give.
LEMMA WalkInOrder ==
    ASSUME NEW c, IsCollection(c), NEW s, InOrder(c, s)
    PROVE  /\ Walk(DOMAIN c.entry, c.head, c.next) = s
           /\ Walk(DOMAIN c.entry, c.tail, c.prev)
                = [i \in 1..c.size |-> s[(c.size - i) + 1]]
           /\ Cardinality(DOMAIN c.entry) = c.size
<1> DEFINE m == c.size
           D == DOMAIN c.entry
           r == [i \in 1..m |-> s[(m - i) + 1]]
<1>1. /\ m \in Nat /\ s \in [1..m -> D]
      /\ \A n \in D : \E i \in 1..m : s[i] = n
      /\ \A i, j \in 1..m : s[i] = s[j] => i = j
      /\ c.head = IF m = 0 THEN None ELSE s[1]
      /\ c.tail = IF m = 0 THEN None ELSE s[m]
      /\ \A i \in 1..m : c.next[s[i]] = IF i < m THEN s[i + 1] ELSE None
      /\ \A i \in 1..m : c.prev[s[i]] = IF i > 1 THEN s[i - 1] ELSE None
  BY DEF InOrder
<1>2. None \notin D
  BY DEF IsCollection, None
<1>3. Cardinality(D) = m
  <2>1. s \in Bijection(1..m, D)
    BY <1>1 DEF Bijection, Injection, Surjection, IsInjective
  <2>2. IsFiniteSet(1..m) /\ Cardinality(1..m) = m
    <3>1. m \in Nat
      BY <1>1
    <3> HIDE DEF m
    <3>2. 1 \in Int /\ m \in Int
      BY <3>1
    <3> QED  BY <3>1, <3>2, FS_Interval
  <2> HIDE DEF m, D
  <2> QED  BY <2>1, <2>2, FS_Bijection DEF ExistsBijection
<1>4. Walk(D, c.head, c.next) = s
  <2> DEFINE first == c.head
             link == c.next
  <2>1. /\ m \in Nat /\ s \in [1..m -> D]
        /\ first = IF m = 0 THEN None ELSE s[1]
        /\ \A i \in 1..m : link[s[i]] = IF i < m THEN s[i + 1] ELSE None
    BY <1>1
  <2> SUFFICES Walk(D, first, link) = s
    OBVIOUS
  <2> HIDE DEF m, D, first, link
  <2> QED  BY <2>1, <1>2, <1>3, WalkFollows
<1>5. r \in [1..m -> D] /\ \A i \in 1..m : r[i] = s[(m - i) + 1]
  BY <1>1
<1>6. c.tail = IF m = 0 THEN None ELSE r[1]
  BY <1>1
<1>7. \A i \in 1..m : c.prev[r[i]] = IF i < m THEN r[i + 1] ELSE None
  <2> TAKE i \in 1..m
  <2>1. (m - i) + 1 \in 1..m /\ r[i] = s[(m - i) + 1]
    BY <1>1
  <2>2. c.prev[r[i]] = IF (m - i) + 1 > 1 THEN s[((m - i) + 1) - 1] ELSE None
    BY <1>1, <2>1
  <2>3. i < m => r[i + 1] = s[((m - i) + 1) - 1]
    <3>1. i < m => i + 1 \in 1..m /\ (m - (i + 1)) + 1 = ((m - i) + 1) - 1
      BY <1>1
    <3> QED  BY <3>1
  <2> QED  BY <1>1, <2>2, <2>3
<1> HIDE DEF r
<1>8. Walk(D, c.tail, c.prev) = r
  <2>0. PICK q : q = r
    OBVIOUS
  <2> DEFINE first == c.tail
             link == c.prev
  <2>1. /\ m \in Nat /\ q \in [1..m -> D]
        /\ first = IF m = 0 THEN None ELSE q[1]
        /\ \A i \in 1..m : link[q[i]] = IF i < m THEN q[i + 1] ELSE None
    BY <1>1, <1>5, <1>6, <1>7, <2>0
  <2> SUFFICES Walk(D, first, link) = q
    BY <2>0
  <2> HIDE DEF m, D, first, link
  <2> QED  BY <2>1, <1>2, <1>3, WalkFollows, SMTT(90)
<1> QED  BY <1>3, <1>4, <1>8 DEF r

\* The fields have their types, whatever is added, split, merged and removed.
THEOREM TypeCorrect == Spec => []TypeOK
<1>1. ListInv => TypeOK
  <2> SUFFICES ASSUME ListInv PROVE TypeOK
    OBVIOUS
  <2>1. PICK s : InOrder(l, s)
    BY DEF ListInv
  <2>2. /\ l.entry \in [Nodes -> [value : Interval, state : State]]
        /\ l.fresh \in Nat
        /\ \A x \in State : l.states[x] \subseteq Nodes
    BY DEF ListInv, IsCollection, Entry, Nodes
  <2>3. l.size \in Nat /\ l.head \in Nodes \cup {None} /\ l.tail \in Nodes \cup {None}
    BY <2>1 DEF InOrder, Nodes
  <2>4. /\ l.next \in [Nodes -> Nodes \cup {None}]
        /\ l.prev \in [Nodes -> Nodes \cup {None}]
    <3>1. ASSUME NEW n \in Nodes
          PROVE  l.next[n] \in Nodes \cup {None} /\ l.prev[n] \in Nodes \cup {None}
      <4>1. PICK i \in 1..l.size : s[i] = n
        BY <2>1 DEF InOrder, Nodes
      <4>2. /\ l.next[n] = IF i < l.size THEN s[i + 1] ELSE None
            /\ l.prev[n] = IF i > 1 THEN s[i - 1] ELSE None
        BY <2>1, <4>1 DEF InOrder
      <4>3. s \in [1..l.size -> Nodes] /\ l.size \in Nat
        BY <2>1 DEF InOrder, Nodes
      <4>4. /\ i < l.size => i + 1 \in 1..l.size
            /\ i > 1 => i - 1 \in 1..l.size
        BY <4>3
      <4>5. /\ i < l.size => s[i + 1] \in Nodes
            /\ i > 1 => s[i - 1] \in Nodes
        BY <4>3, <4>4
      <4> QED  BY <4>2, <4>5
    <3>2. l.next \in [Nodes -> Nat] /\ l.prev \in [Nodes -> Nat]
      BY <2>1 DEF InOrder, Nodes
    <3> QED  BY <3>1, <3>2
  <2>5. held \subseteq Nat /\ sound \in BOOLEAN
    BY Zenon DEF ListInv
  <2> QED  BY <2>2, <2>3, <2>4, <2>5 DEF TypeOK
<1> QED  BY <1>1, InductiveInvariant, PTL

\* Both directions of the list visit every node of _index_map once, in opposite
\* orders, and size counts them, after any operations on any values.
THEOREM LinksCorrect == Spec => []LinksAgree
<1>1. ListInv => LinksAgree
  <2> SUFFICES ASSUME ListInv PROVE LinksAgree
    OBVIOUS
  <2>1. PICK s : InOrder(l, s)
    BY DEF ListInv
  <2>2. /\ Listing = s
        /\ Walk(Nodes, l.tail, l.prev) = [i \in 1..l.size |-> s[(l.size - i) + 1]]
    BY <2>1, WalkInOrder DEF ListInv, Listing, Nodes
  <2>3. /\ l.size \in Nat /\ s \in [1..l.size -> Nodes]
        /\ \A n \in Nodes : \E i \in 1..l.size : s[i] = n
    BY <2>1 DEF InOrder, Nodes
  <2>4. Len(s) = l.size /\ ToSet(s) = Nodes
    BY <2>3 DEF ToSet
  <2> DEFINE r == [i \in 1..l.size |-> s[(l.size - i) + 1]]
  <2>5. Reverse(r) = s
    <3>1. Len(r) = l.size
      BY <2>3
    <3>2. Reverse(r) = [i \in 1..l.size |-> r[(l.size - i) + 1]]
      <4> HIDE DEF r
      <4> QED  BY <3>1, Zenon DEF Reverse
    <3>3. \A i \in 1..l.size : r[(l.size - i) + 1] = s[i]
      <4> TAKE i \in 1..l.size
      <4>1. (l.size - i) + 1 \in 1..l.size /\ (l.size - ((l.size - i) + 1)) + 1 = i
        BY <2>3
      <4> QED  BY <4>1
    <3> HIDE DEF r
    <3> QED  BY <2>3, <3>2, <3>3
  <2> QED  BY <2>2, <2>4, <2>5 DEF LinksAgree
<1> QED  BY <1>1, InductiveInvariant, PTL

\* _state_index has exactly the nodes whose values are in the state.
THEOREM StateIndexCorrect == Spec => []StateIndexAgrees
<1>1. ListInv => StateIndexAgrees
  BY DEF ListInv, IsCollection, StateIndexAgrees, Nodes, StateAt
<1> QED  BY <1>1, InductiveInvariant, PTL

\* With disjoint values added and only values that follow one another merged, the
\* values stay disjoint, have exactly the units added and not removed, and are
\* found by their first units.
THEOREM UnitsKept == Spec => []UnitsConserved
<1>1. ListInv => UnitsConserved
  <2> SUFFICES ASSUME ListInv, sound
               PROVE  /\ \A n, m \in Nodes :
                            n # m => ~IsIntersectValue(ValueAt(n), ValueAt(m))
                      /\ AllUnits(Nodes) = held
                      /\ DOMAIN l.begins = {ValueAt(n).begin : n \in Nodes}
                      /\ \A n \in Nodes : l.begins[ValueAt(n).begin] = n
    BY DEF UnitsConserved
  <2>1. Tiles(l.entry, l.begins, held)
    BY DEF ListInv
  <2>2. \A n \in Nodes : ValueAt(n) \in Interval
    BY DEF ListInv, IsCollection, Entry, Nodes, ValueAt
  <2>3. \A n, m \in Nodes : n # m => ~IsIntersectValue(ValueAt(n), ValueAt(m))
    <3>1. \A n, m \in Nodes : n # m => UnitsOf(ValueAt(n)) \cap UnitsOf(ValueAt(m)) = {}
      BY <2>1 DEF Tiles, Nodes, ValueAt
    <3> QED  BY <2>2, <3>1, IntersectMeaning
  <2> QED  BY <2>1, <2>3 DEF Tiles, Nodes, ValueAt, AllUnits
<1> QED  BY <1>1, InductiveInvariant, PTL

\* Comparing neighbours in the order of the first units finds every overlap.
THEOREM ValidationCorrect == Spec => []ValidationExact
<1>1. ListInv => ValidationExact
  <2> SUFFICES ASSUME ListInv PROVE ValidationExact
    OBVIOUS
  <2>1. PICK s : InOrder(l, s)
    BY DEF ListInv
  <2> DEFINE m == l.size
             v(i) == ValueAt(s[i])
  <2>2. /\ m \in Nat /\ s \in [1..m -> Nodes]
        /\ \A n \in Nodes : \E i \in 1..m : s[i] = n
        /\ \A i, j \in 1..m : s[i] = s[j] => i = j
    BY <2>1 DEF InOrder, Nodes
  <2>3. Listing = s /\ Len(s) = m
    <3>1. Listing = s
      BY <2>1, WalkInOrder DEF ListInv, Listing, Nodes
    <3> QED  BY <2>2, <3>1
  <2>4. \A i \in 1..m : v(i).begin \in Nat /\ v(i).num \in Nat \ {0}
    <3>1. \A n \in Nodes : ValueAt(n) \in Interval
      BY DEF ListInv, IsCollection, Entry, Nodes, ValueAt
    <3> QED  BY <2>2, <3>1 DEF Interval
  <2>5. \A i, j \in 1..m :
           Before(i, j) <=> \/ v(i).begin < v(j).begin
                           \/ (v(i).begin = v(j).begin /\ i < j)
    BY <2>3 DEF Before
  <2>6. ValidateNoOverlap <=>
          \A i, j \in 1..m :
             Before(i, j) /\ ~(\E k \in 1..m : Before(i, k) /\ Before(k, j))
               => EndIndex(v(i)) < v(j).begin
    BY <2>3 DEF ValidateNoOverlap
  <2> HIDE DEF m, v
  <2>7. ASSUME \A n, k \in Nodes : n # k => ~IsIntersectValue(ValueAt(n), ValueAt(k)),
               NEW i \in 1..m, NEW j \in 1..m, Before(i, j)
        PROVE  EndIndex(v(i)) < v(j).begin
    <3>1. i # j /\ v(i).begin <= v(j).begin
      BY <2>2, <2>4, <2>5, <2>7
    <3>2. ~IsIntersectValue(v(i), v(j))
      BY <2>2, <2>7, <3>1 DEF v
    <3> QED  BY <2>4, <3>1, <3>2 DEF IsIntersectValue, EndIndex
  <2>8. ASSUME ValidateNoOverlap, NEW i \in 1..m, NEW j \in 1..m, Before(i, j)
        PROVE  EndIndex(v(i)) < v(j).begin
    \* The first of those that come after i.
    <3> DEFINE later == {k \in 1..m : Before(i, k)}
               firsts == {v(k).begin : k \in later}
    <3>1. firsts \subseteq Nat /\ v(j).begin \in firsts
      BY <2>4, <2>8
    <3>2. PICK b \in firsts : \A a \in firsts : b <= a
      <4> HIDE DEF firsts
      <4> QED  BY <3>1, Least
    <3> DEFINE least == {k \in later : v(k).begin = b}
    <3>3. least \subseteq Nat /\ least # {}
      BY <2>2, <3>2
    <3>4. PICK k \in least : \A o \in least : k <= o
      <4> HIDE DEF least
      <4> QED  BY <3>3, Least
    <3>5. k \in 1..m /\ Before(i, k) /\ v(k).begin = b
      BY <3>4
    <3>6. ~(\E o \in 1..m : Before(i, o) /\ Before(o, k))
      <4> SUFFICES ASSUME NEW o \in 1..m, Before(i, o), Before(o, k) PROVE FALSE
        OBVIOUS
      <4>1. o \in later /\ b <= v(o).begin
        BY <3>2
      <4>2. v(o).begin = b /\ o < k
        BY <2>4, <2>5, <3>1, <3>2, <3>5, <4>1
      <4>3. k <= o
        BY <3>4, <4>1, <4>2
      <4> QED  BY <2>2, <3>5, <4>2, <4>3
    <3>7. EndIndex(v(i)) < v(k).begin
      BY <2>6, <2>8, <3>5, <3>6
    <3>8. v(k).begin <= v(j).begin
      BY <3>1, <3>2, <3>5
    <3> QED  BY <2>4, <3>5, <3>7, <3>8 DEF EndIndex
  <2>9. ASSUME ValidateNoOverlap, NEW n \in Nodes, NEW k \in Nodes, n # k
        PROVE  ~IsIntersectValue(ValueAt(n), ValueAt(k))
    <3>1. PICK i \in 1..m : s[i] = n
      BY <2>2
    <3>2. PICK j \in 1..m : s[j] = k
      BY <2>2
    <3>3. Before(i, j) \/ Before(j, i)
      <4>1. /\ i \in Nat /\ j \in Nat /\ i # j
            /\ v(i).begin \in Nat /\ v(j).begin \in Nat
        BY <2>2, <2>4, <2>9, <3>1, <3>2
      <4>2. /\ Before(i, j) <=> \/ v(i).begin < v(j).begin
                                \/ (v(i).begin = v(j).begin /\ i < j)
            /\ Before(j, i) <=> \/ v(j).begin < v(i).begin
                                \/ (v(j).begin = v(i).begin /\ j < i)
        BY <2>5
      <4> QED  BY <4>1, <4>2
    <3>4. EndIndex(v(i)) < v(j).begin \/ EndIndex(v(j)) < v(i).begin
      BY <2>8, <2>9, <3>3
    <3>5. v(i) = ValueAt(n) /\ v(j) = ValueAt(k)
      BY <3>1, <3>2 DEF v
    <3> QED  BY <2>4, <3>4, <3>5 DEF IsIntersectValue, EndIndex
  <2> QED  BY <2>6, <2>7, <2>9 DEF ValidationExact
<1> QED  BY <1>1, InductiveInvariant, PTL

-----------------------------------------------------------------------------
(* The collection as a sequence of values.                                 *)

\* The elements of a sequence after position p.
LEMMA Suffix ==
    ASSUME NEW S, NEW a \in Seq(S), NEW p \in 0..Len(a)
    PROVE  LET d == SubSeq(a, p + 1, Len(a)) IN
           /\ d \in Seq(S) /\ Len(d) = Len(a) - p
           /\ \A i \in 1..Len(a) - p : d[i] = a[i + p]
<1> DEFINE m == Len(a)
           d == SubSeq(a, p + 1, m)
<1>1. m \in Nat /\ p + 1 \in Int /\ m \in Int /\ \A i \in p + 1..m : a[i] \in S
  OBVIOUS
<1>2. /\ d \in Seq(S) /\ Len(d) = IF p + 1 <= m THEN m - (p + 1) + 1 ELSE 0
      /\ \A i \in 1..m - (p + 1) + 1 : d[i] = a[(p + 1) + i - 1]
  BY <1>1, SubSeqProperties
<1> HIDE DEF d
<1>3. Len(d) = m - p
  BY <1>1, <1>2
<1>4. ASSUME NEW i \in 1..m - p PROVE d[i] = a[i + p]
  <2>1. i \in 1..m - (p + 1) + 1 /\ (p + 1) + i - 1 = i + p
    BY <1>1
  <2> QED  BY <1>2, <2>1
<1> QED  BY <1>2, <1>3, <1>4 DEF d

\* The operators on sequences that ValueSeq is written with put one element in
\* or take one out.
LEMMA SequenceOps ==
    ASSUME NEW S, NEW a \in Seq(S), NEW x \in S
    PROVE  /\ Append(a, x) = Widened(a, Len(a), Len(a), x)
           /\ Cons(x, a) = Widened(a, Len(a), 0, x)
           /\ \A p \in 0..Len(a) : InsertAt(a, p + 1, x) = Widened(a, Len(a), p, x)
           /\ \A p \in 1..Len(a) : RemoveAt(a, p) = Narrowed(a, Len(a), p)
<1> DEFINE m == Len(a)
<1>0. m \in Nat /\ a \in [1..m -> S]
  OBVIOUS
<1>1. Append(a, x) = Widened(a, m, m, x)
  <2> DEFINE e == Append(a, x)
  <2>1. /\ e \in Seq(S) /\ Len(e) = m + 1
        /\ \A i \in 1..m : e[i] = a[i]
        /\ e[m + 1] = x
    BY AppendProperties
  <2>2. e = [i \in 1..m + 1 |-> e[i]]
    <3> HIDE DEF e
    <3> QED  BY <1>0, <2>1
  <2>3. \A i \in 1..m + 1 : e[i] = IF i <= m THEN a[i] ELSE IF i = m + 1 THEN x
                                   ELSE a[i - 1]
    <3> HIDE DEF e
    <3> QED  BY <1>0, <2>1
  <2> HIDE DEF e
  <2>4. e = Widened(a, m, m, x)
    BY <2>2, <2>3 DEF Widened
  <2> QED  BY <2>4 DEF e
<1>2. Cons(x, a) = Widened(a, m, 0, x)
  <2> DEFINE e == <<x>> \o a
  <2>1. <<x>> \in Seq(S) /\ Len(<<x>>) = 1 /\ <<x>>[1] = x
    OBVIOUS
  <2>2. /\ e \in Seq(S) /\ Len(e) = 1 + m
        /\ \A i \in 1..1 + m : e[i] = IF i <= 1 THEN <<x>>[i] ELSE a[i - 1]
    <3> DEFINE w == <<x>>
    <3>1. w \in Seq(S) /\ Len(w) = 1
      BY <2>1
    <3> HIDE DEF w
    <3>2. /\ w \o a \in Seq(S) /\ Len(w \o a) = Len(w) + m
          /\ \A i \in 1..Len(w) + m :
                (w \o a)[i] = IF i <= Len(w) THEN w[i] ELSE a[i - Len(w)]
      BY <3>1, ConcatProperties
    <3> QED  BY <3>1, <3>2 DEF w
  <2> HIDE DEF e
  <2>3. e = [i \in 1..m + 1 |-> e[i]]
    BY <1>0, <2>2
  <2>4. \A i \in 1..m + 1 : e[i] = IF i <= 0 THEN a[i] ELSE IF i = 0 + 1 THEN x
                                   ELSE a[i - 1]
    BY <1>0, <2>1, <2>2
  <2>5. e = Widened(a, m, 0, x)
    BY <2>3, <2>4 DEF Widened
  <2> QED  BY <2>5 DEF Cons, e
<1>3. ASSUME NEW p \in 0..m
      PROVE  InsertAt(a, p + 1, x) = Widened(a, m, p, x)
  <2> DEFINE b == SubSeq(a, 1, (p + 1) - 1)
             w == <<x>>
             d == SubSeq(a, p + 1, m)
             f == b \o w
             e == f \o d
  <2>1. b \in Seq(S) /\ Len(b) = p /\ \A i \in 1..p : b[i] = a[i]
    <3>1. /\ 1 \in Int /\ (p + 1) - 1 \in Int /\ (p + 1) - 1 = p
          /\ \A i \in 1..(p + 1) - 1 : a[i] \in S
      BY <1>0
    <3>2. /\ b \in Seq(S) /\ Len(b) = IF 1 <= (p + 1) - 1 THEN ((p + 1) - 1) - 1 + 1 ELSE 0
          /\ \A i \in 1..((p + 1) - 1) - 1 + 1 : b[i] = a[1 + i - 1]
      BY <3>1, SubSeqProperties
    <3> HIDE DEF b
    <3> QED  BY <1>0, <3>1, <3>2
  <2>2. d \in Seq(S) /\ Len(d) = m - p /\ \A i \in 1..m - p : d[i] = a[i + p]
    <3>1. p \in 0..Len(a)
      BY <1>0
    <3> QED  BY <3>1, Suffix
  <2>3. w \in Seq(S) /\ Len(w) = 1 /\ w[1] = x
    OBVIOUS
  <2> HIDE DEF b, d, w
  <2>4. /\ f \in Seq(S) /\ Len(f) = p + 1
        /\ \A i \in 1..p + 1 : f[i] = IF i <= p THEN a[i] ELSE x
    <3>1. /\ f \in Seq(S) /\ Len(f) = Len(b) + Len(w)
          /\ \A i \in 1..Len(b) + Len(w) : f[i] = IF i <= Len(b) THEN b[i] ELSE w[i - Len(b)]
      BY <2>1, <2>3, ConcatProperties
    <3> HIDE DEF f
    <3> QED  BY <1>0, <2>1, <2>3, <3>1
  <2> HIDE DEF f
  <2>5. /\ e \in Seq(S) /\ Len(e) = m + 1
        /\ \A i \in 1..m + 1 : e[i] = IF i <= p + 1 THEN f[i] ELSE d[i - (p + 1)]
    <3>1. /\ e \in Seq(S) /\ Len(e) = Len(f) + Len(d)
          /\ \A i \in 1..Len(f) + Len(d) : e[i] = IF i <= Len(f) THEN f[i] ELSE d[i - Len(f)]
      BY <2>2, <2>4, ConcatProperties
    <3> HIDE DEF e
    <3> QED  BY <1>0, <2>2, <2>4, <3>1
  <2> HIDE DEF e
  <2>6. e = [i \in 1..m + 1 |-> e[i]]
    BY <1>0, <2>5
  <2>7. \A i \in 1..m + 1 : e[i] = IF i <= p THEN a[i] ELSE IF i = p + 1 THEN x
                                   ELSE a[i - 1]
    <3> TAKE i \in 1..m + 1
    <3>1. i > p + 1 => i - (p + 1) \in 1..m - p /\ (i - (p + 1)) + p = i - 1
      BY <1>0
    <3>2. i > p + 1 => d[i - (p + 1)] = a[i - 1]
      BY <2>2, <3>1
    <3> QED  BY <1>0, <2>4, <2>5, <3>2
  <2>8. e = Widened(a, m, p, x)
    BY <2>6, <2>7 DEF Widened
  <2> QED  BY <2>8 DEF InsertAt, e, f, b, d, w
<1>4. ASSUME NEW p \in 1..m
      PROVE  RemoveAt(a, p) = Narrowed(a, m, p)
  <2> DEFINE b == SubSeq(a, 1, p - 1)
             d == SubSeq(a, p + 1, m)
             e == b \o d
  <2>1. b \in Seq(S) /\ Len(b) = p - 1 /\ \A i \in 1..p - 1 : b[i] = a[i]
    <3>1. 1 \in Int /\ p - 1 \in Int /\ \A i \in 1..p - 1 : a[i] \in S
      BY <1>0
    <3>2. /\ b \in Seq(S) /\ Len(b) = IF 1 <= p - 1 THEN (p - 1) - 1 + 1 ELSE 0
          /\ \A i \in 1..(p - 1) - 1 + 1 : b[i] = a[1 + i - 1]
      BY <3>1, SubSeqProperties
    <3> HIDE DEF b
    <3> QED  BY <1>0, <3>1, <3>2
  <2>2. d \in Seq(S) /\ Len(d) = m - p /\ \A i \in 1..m - p : d[i] = a[i + p]
    <3>1. p \in 0..Len(a)
      BY <1>0
    <3> QED  BY <3>1, Suffix
  <2> HIDE DEF b, d
  <2>3. /\ e \in Seq(S) /\ Len(e) = m - 1
        /\ \A i \in 1..m - 1 : e[i] = IF i < p THEN b[i] ELSE d[i - (p - 1)]
    <3>1. /\ e \in Seq(S) /\ Len(e) = Len(b) + Len(d)
          /\ \A i \in 1..Len(b) + Len(d) : e[i] = IF i <= Len(b) THEN b[i] ELSE d[i - Len(b)]
      BY <2>1, <2>2, ConcatProperties
    <3> HIDE DEF e
    <3>2. Len(b) = p - 1 /\ Len(d) = m - p /\ (p - 1) + (m - p) = m - 1
      BY <1>0, <2>1, <2>2
    <3>3. \A i \in 1..m - 1 : i <= p - 1 <=> i < p
      BY <1>0
    <3> QED  BY <3>1, <3>2, <3>3
  <2> HIDE DEF e
  <2>4. e = [i \in 1..m - 1 |-> e[i]]
    BY <1>0, <2>3
  <2>5. \A i \in 1..m - 1 : e[i] = IF i < p THEN a[i] ELSE a[i + 1]
    <3> TAKE i \in 1..m - 1
    <3>1. ~(i < p) => i - (p - 1) \in 1..m - p /\ (i - (p - 1)) + p = i + 1
      BY <1>0
    <3>2. ~(i < p) => d[i - (p - 1)] = a[i + 1]
      BY <2>2, <3>1
    <3>3. i < p => i \in 1..p - 1
      BY <1>0
    <3> QED  BY <2>1, <2>3, <3>2, <3>3
  <2>6. e = Narrowed(a, m, p)
    BY <2>4, <2>5 DEF Narrowed
  <2> QED  BY <2>6 DEF RemoveAt, e, b, d
<1> QED  BY <1>0, <1>1, <1>2, <1>3, <1>4

\* The entries of the nodes in order.
Shown(c, s) == [i \in 1..c.size |-> c.entry[s[i]]]

\* They make a sequence.
LEMMA ShownSeq ==
    ASSUME NEW c, IsCollection(c), NEW s, InOrder(c, s)
    PROVE  /\ c.size \in Nat
           /\ Shown(c, s) \in Seq(Entry) /\ Len(Shown(c, s)) = c.size
           /\ \A i \in 1..c.size : Shown(c, s)[i] = c.entry[s[i]]
<1>1. c.size \in Nat /\ \A i \in 1..c.size : c.entry[s[i]] \in Entry
  BY DEF IsCollection, InOrder
<1> QED  BY <1>1 DEF Shown

\* They are what the listing of the collection gives, before and after a step.
LEMMA ContentsShown ==
    ASSUME IsCollection(l), NEW s, InOrder(l, s)
    PROVE  Contents = Shown(l, s)
<1>1. Listing = s
  BY WalkInOrder DEF Listing, Nodes
<1>2. Len(s) = l.size
  BY DEF InOrder
<1> QED  BY <1>1, <1>2 DEF Contents, Shown

\* What is seen of the list after a step.
LEMMA NextShown ==
    ASSUME IsCollection(l'), NEW s, InOrder(l', s)
    PROVE  Contents' = Shown(l', s)
<1>1. Listing' = s
  BY WalkInOrder DEF Listing, Nodes
<1>2. Len(s) = l'.size
  BY DEF InOrder
<1> QED  BY <1>1, <1>2 DEF Contents, Shown

\* What is shown after a node was put in, taken out, or given another entry.
LEMMA ShownPut ==
    ASSUME NEW c, IsCollection(c), NEW s, InOrder(c, s), NEW p \in 0..c.size,
           NEW e, NEW x, e.entry = Put(c.entry, c.fresh, x),
           InOrder(e, Widened(s, c.size, p, c.fresh))
    PROVE  Shown(e, Widened(s, c.size, p, c.fresh)) = Widened(Shown(c, s), c.size, p, x)
<1> DEFINE t == Widened(s, c.size, p, c.fresh)
           m == c.size
           a == Shown(c, s)
<1>1. /\ m \in Nat /\ c.fresh \notin DOMAIN c.entry
      /\ s \in [1..m -> DOMAIN c.entry]
      /\ \A n \in DOMAIN c.entry : e.entry[n] = c.entry[n]
      /\ e.entry[c.fresh] = x
  BY DEF IsCollection, InOrder, Put
<1>2. e.size = m + 1
  <2>1. e.size \in Nat /\ DOMAIN t = 1..e.size
    BY DEF InOrder
  <2>2. DOMAIN t = 1..m + 1
    BY DEF Widened
  <2> HIDE DEF t
  <2> QED  BY <1>1, <2>1, <2>2
<1>3. \A i \in 1..m : a[i] = c.entry[s[i]]
  BY DEF Shown
<1>4. ASSUME NEW i \in 1..m + 1
      PROVE  e.entry[t[i]] = IF i <= p THEN a[i] ELSE IF i = p + 1 THEN x ELSE a[i - 1]
  <2>1. t[i] = IF i <= p THEN s[i] ELSE IF i = p + 1 THEN c.fresh ELSE s[i - 1]
    BY DEF Widened
  <2>2. /\ i <= p => i \in 1..m
        /\ i > p + 1 => i - 1 \in 1..m
    BY <1>1
  <2> HIDE DEF t, a, m
  <2> QED  BY <1>1, <1>3, <2>1, <2>2
<1> HIDE DEF t, a
<1>5. Shown(e, t) = [i \in 1..m + 1 |-> e.entry[t[i]]]
  BY <1>2 DEF Shown
<1> HIDE DEF m
<1>6. Shown(e, t) = Widened(a, m, p, x)
  BY <1>4, <1>5 DEF Widened
<1> QED  BY <1>6 DEF t, a, m

\* A node that is taken out is gone from what is seen, and the rest moves up.
LEMMA ShownDel ==
    ASSUME NEW c, IsCollection(c), NEW s, InOrder(c, s), NEW p \in 1..c.size,
           NEW e, e.entry = Del(c.entry, s[p]),
           InOrder(e, Narrowed(s, c.size, p)), e.size = c.size - 1
    PROVE  Shown(e, Narrowed(s, c.size, p)) = Narrowed(Shown(c, s), c.size, p)
<1> DEFINE t == Narrowed(s, c.size, p)
           m == c.size
           a == Shown(c, s)
<1>1. /\ m \in Nat
      /\ s \in [1..m -> DOMAIN c.entry]
      /\ \A i, j \in 1..m : s[i] = s[j] => i = j
      /\ \A n \in DOMAIN c.entry \ {s[p]} : e.entry[n] = c.entry[n]
  BY DEF InOrder, Del
<1>3. \A i \in 1..m : a[i] = c.entry[s[i]]
  BY DEF Shown
<1>4. ASSUME NEW i \in 1..m - 1
      PROVE  e.entry[t[i]] = IF i < p THEN a[i] ELSE a[i + 1]
  <2>1. t[i] = IF i < p THEN s[i] ELSE s[i + 1]
    BY DEF Narrowed
  <2>2. i \in 1..m /\ i + 1 \in 1..m
    BY <1>1
  <2>3. t[i] \in DOMAIN c.entry \ {s[p]}
    <3> HIDE DEF t, a, m
    <3>1. p \in 1..m
      BY DEF m
    <3> QED  BY <1>1, <2>1, <2>2, <3>1
  <2> HIDE DEF t, a, m
  <2> QED  BY <1>1, <1>3, <2>1, <2>2, <2>3
<1> HIDE DEF t, a
<1>5. Shown(e, t) = [i \in 1..m - 1 |-> e.entry[t[i]]]
  BY DEF Shown
<1> HIDE DEF m
<1>6. Shown(e, t) = Narrowed(a, m, p)
  BY <1>4, <1>5 DEF Narrowed
<1> QED  BY <1>6 DEF t, a, m

\* A changed entry is seen in its place.
LEMMA ShownChange ==
    ASSUME NEW c, IsCollection(c), NEW s, InOrder(c, s), NEW p \in 1..c.size,
           NEW e, NEW x, e.size = c.size,
           e.entry = [c.entry EXCEPT ![s[p]] = x]
    PROVE  Shown(e, s) = ReplaceAt(Shown(c, s), p, x)
<1>1. /\ c.size \in Nat
      /\ \A i \in 1..c.size : s[i] \in DOMAIN c.entry
      /\ \A i, j \in 1..c.size : s[i] = s[j] => i = j
  BY DEF InOrder
<1>2. \A i \in 1..c.size : e.entry[s[i]] = IF i = p THEN x ELSE c.entry[s[i]]
  BY <1>1
<1> QED  BY <1>2 DEF Shown, ReplaceAt

-----------------------------------------------------------------------------
(* Every operation does to the sequence what its name says.                *)

\* Each action of the list is the action of the sequence with its name.
LEMMA AddShown ==
    ASSUME ListInv, NEW v \in Coin, Add(v)
    PROVE  Abstract!Insert([value |-> v, state |-> "unspent"])
<1> DEFINE x == [value |-> v, state |-> "unspent"]
<1>1. x \in Entry
  BY CoinAssumption, StateAssumption DEF Entry
<1>2. PICK s : InOrder(l, s)
  BY DEF ListInv
<1>3. l' \in AddValue(l, x)
  BY DEF Add
<1> HIDE DEF x
<1>4. /\ IsCollection(l')
      /\ l'.entry = Put(l.entry, l.fresh, x)
      /\ \/ InOrder(l', Widened(s, l.size, l.size, l.fresh))
         \/ InOrder(l', Widened(s, l.size, 0, l.fresh))
  BY <1>1, <1>2, <1>3, AddInOrder DEF ListInv
<1> DEFINE a == Shown(l, s)
           m == l.size
<1>5. /\ Contents = a /\ a \in Seq(Entry) /\ Len(a) = m
      /\ m \in Nat /\ 0 \in 0..m /\ m \in 0..m
  BY <1>2, ContentsShown, ShownSeq DEF ListInv
<1>6. ASSUME NEW p \in 0..m, InOrder(l', Widened(s, m, p, l.fresh))
      PROVE  Contents' = Widened(a, m, p, x)
  <2> DEFINE t == Widened(s, m, p, l.fresh)
  <2>1. Shown(l', t) = Widened(a, m, p, x)
    BY <1>2, <1>4, <1>6, ShownPut DEF ListInv
  <2>2. Contents' = Shown(l', t)
    <3>1. InOrder(l', t)
      BY <1>6
    <3> HIDE DEF t
    <3> QED  BY <1>4, <3>1, NextShown
  <2> QED  BY <2>1, <2>2
<1> HIDE DEF a, m
<1>7. Contents' = Widened(a, m, m, x) \/ Contents' = Widened(a, m, 0, x)
  BY <1>4, <1>5, <1>6 DEF m
<1>8. Append(a, x) = Widened(a, m, m, x) /\ Cons(x, a) = Widened(a, m, 0, x)
  BY <1>1, <1>5, SequenceOps
<1>9. Contents' = Append(Contents, x) \/ Contents' = Cons(x, Contents)
  BY <1>5, <1>7, <1>8
<1> QED  BY <1>9 DEF Abstract!Insert, Abstract!Cons, Cons, x

\* remove_value is seen as a deletion at the node's place.
LEMMA RemoveShown ==
    ASSUME ListInv, NEW n \in Nodes, RemoveValue(n)
    PROVE  \E i \in 1..Len(Contents) : Abstract!Delete(i)
<1>1. PICK s : InOrder(l, s)
  BY DEF ListInv
<1>2. PICK p \in 1..l.size : s[p] = n
  BY <1>1 DEF InOrder, Nodes
<1>3. IsCollection(l') /\ InOrder(l', Narrowed(s, l.size, p))
  BY <1>1, <1>2, RemoveInOrder DEF ListInv, RemoveValue
<1>4. l'.entry = Del(l.entry, s[p]) /\ l'.size = l.size - 1
  <2>1. IsRemoved(l, n, l')
    BY RemoveFields DEF ListInv, RemoveValue
  <2> QED  BY <1>2, <2>1 DEF IsRemoved
<1> DEFINE a == Shown(l, s)
           t == Narrowed(s, l.size, p)
<1>5. Contents = a /\ a \in Seq(Entry) /\ Len(a) = l.size
  BY <1>1, ContentsShown, ShownSeq DEF ListInv
<1>6. Shown(l', t) = Narrowed(a, l.size, p)
  BY <1>1, <1>3, <1>4, ShownDel DEF ListInv
<1>7. Contents' = Shown(l', t)
  <2>1. InOrder(l', t)
    BY <1>3
  <2> HIDE DEF t
  <2> QED  BY <1>3, <2>1, NextShown
<1>8. RemoveAt(a, p) = Narrowed(a, l.size, p)
  <2>1. a[p] \in Entry
    BY <1>5
  <2> HIDE DEF a
  <2> QED  BY <1>5, <2>1, SequenceOps
<1> HIDE DEF a, t
<1>9. Abstract!Delete(p)
  BY <1>5, <1>6, <1>7, <1>8 DEF Abstract!Delete, Abstract!RemoveAt, RemoveAt
<1> QED  BY <1>5, <1>9

\* update_value_state is seen as a change of state at the node's place.
LEMMA UpdateShown ==
    ASSUME ListInv, NEW n \in Nodes, NEW x \in State, Update(n, x)
    PROVE  \E i \in 1..Len(Contents) : \E y \in State : Abstract!SetState(i, y)
<1>1. PICK s : InOrder(l, s)
  BY DEF ListInv
<1>2. PICK p \in 1..l.size : s[p] = n
  BY <1>1 DEF InOrder, Nodes
<1>3. /\ n \in DOMAIN l.entry /\ l' = UpdateValueState(l, n, x)
  BY DEF Nodes, Update
<1>4. /\ IsCollection(l') /\ InOrder(l', s)
      /\ l'.entry = [l.entry EXCEPT ![n].state = x]
  BY <1>1, <1>3, UpdateInOrder DEF ListInv
<1> DEFINE a == Shown(l, s)
           y == [l.entry[n] EXCEPT !.state = x]
<1>5. /\ Contents = a /\ a \in Seq(Entry) /\ Len(a) = l.size
      /\ \A i \in 1..l.size : a[i] = l.entry[s[i]]
  BY <1>1, ContentsShown, ShownSeq DEF ListInv
<1>6. l'.size = l.size
  BY <1>1, <1>4 DEF InOrder
<1>7. l'.entry = [l.entry EXCEPT ![s[p]] = y]
  BY <1>2, <1>4
<1> HIDE DEF a
<1>8. Shown(l', s) = ReplaceAt(a, p, y)
  <2> HIDE DEF y
  <2> QED  BY <1>1, <1>6, <1>7, ShownChange DEF ListInv, a
<1>9. Contents' = Shown(l', s)
  BY <1>4, NextShown
<1>10. y = [a[p] EXCEPT !.state = x]
  BY <1>2, <1>5
<1>11. Abstract!SetState(p, x)
  BY <1>5, <1>8, <1>9, <1>10 DEF Abstract!SetState, Abstract!ReplaceAt, ReplaceAt
<1> QED  BY <1>5, <1>11

\* split_value is seen as a value that becomes two in its place.
LEMMA SplitShown ==
    ASSUME ListInv, NEW n \in Nodes, NEW change \in 1..ValueAt(n).num - 1,
           Split(n, change)
    PROVE  \E i \in 1..Len(Contents) :
              \E k \in 1..Contents[i].value.num - 1 : Abstract!Split(i, k)
<1> DEFINE parts == SplitValue(l.entry[n].value, change)
           x == [l.entry[n] EXCEPT !.value = parts[2]]
           y == [l.entry[n] EXCEPT !.value = parts[1]]
           d == [l EXCEPT !.entry[n].value = parts[1]]
<1>1. PICK s : InOrder(l, s)
  BY DEF ListInv
<1>2. PICK p \in 1..l.size : s[p] = n
  BY <1>1 DEF InOrder, Nodes
<1>3. /\ change \in 1..l.entry[n].value.num - 1
      /\ l' = SplitNode(l, n, change)
  BY DEF Split, ValueAt
<1>4. /\ IsCollection(l') /\ InOrder(l', Widened(s, l.size, p, l.fresh))
      /\ l'.entry = Put([l.entry EXCEPT ![n].value = parts[1]], l.fresh, x)
      /\ x \in Entry
  BY <1>1, <1>2, <1>3, SplitInOrder DEF ListInv
<1>5. /\ n \in DOMAIN l.entry /\ l.entry[n] \in Entry /\ l.size \in Nat
      /\ parts[1] \in Interval
  <2>1. /\ n \in DOMAIN l.entry /\ l.entry[n] \in Entry
        /\ l.entry[n].value \in Interval /\ l.size \in Nat
    BY <1>1, <1>2, NodeAt DEF ListInv
  <2> QED  BY <1>3, <2>1, SplitPartition
<1> HIDE DEF parts, x
<1>6. /\ IsCollection(d) /\ InOrder(d, s)
      /\ d.entry = [l.entry EXCEPT ![n].value = parts[1]]
      /\ d.fresh = l.fresh /\ d.size = l.size
  BY <1>1, <1>5, SetValueInOrder DEF ListInv
<1> HIDE DEF d
<1> DEFINE a == Shown(l, s)
           b == Shown(d, s)
           t == Widened(s, l.size, p, l.fresh)
<1>7. /\ Contents = a /\ Len(a) = l.size
      /\ \A i \in 1..l.size : a[i] = l.entry[s[i]]
  BY <1>1, ContentsShown, ShownSeq DEF ListInv
<1>8. b \in Seq(Entry) /\ Len(b) = l.size
  BY <1>6, ShownSeq
<1>9. b = ReplaceAt(a, p, y)
  <2>1. d.entry = [l.entry EXCEPT ![s[p]] = y]
    BY <1>2, <1>6
  <2> HIDE DEF y, a, b
  <2> QED  BY <1>1, <1>6, <2>1, ShownChange DEF ListInv, a, b
<1> HIDE DEF a
<1>10. Shown(l', t) = Widened(b, l.size, p, x)
  <2>1. p \in 0..d.size /\ l'.entry = Put(d.entry, d.fresh, x)
        /\ InOrder(l', Widened(s, d.size, p, d.fresh))
    BY <1>4, <1>5, <1>6
  <2>2. Shown(l', Widened(s, d.size, p, d.fresh)) = Widened(Shown(d, s), d.size, p, x)
    BY <1>6, <2>1, ShownPut
  <2> QED  BY <1>6, <2>2
<1>11. Contents' = Shown(l', t)
  <2>1. InOrder(l', t)
    BY <1>4
  <2> HIDE DEF t
  <2> QED  BY <1>4, <2>1, NextShown
<1> HIDE DEF b, t
<1>12. InsertAt(b, p + 1, x) = Widened(b, l.size, p, x)
  <2>1. p \in 0..Len(b)
    BY <1>5, <1>8
  <2> QED  BY <1>4, <1>8, <2>1, SequenceOps
<1>13. a[p] = l.entry[n]
  BY <1>2, <1>7
<1>14. Contents' = InsertAt(ReplaceAt(Contents, p, y), p + 1, x)
  BY <1>7, <1>9, <1>10, <1>11, <1>12
<1>15. /\ parts = SplitValue(Contents[p].value, change)
       /\ x = [Contents[p] EXCEPT !.value = parts[2]]
       /\ y = [Contents[p] EXCEPT !.value = parts[1]]
  BY <1>7, <1>13 DEF parts, x, y
<1> HIDE DEF y
<1>16. Abstract!Split(p, change)
  <2> DEFINE w == Contents[p]
  <2>1. parts = Abstract!SplitValue(w.value, change)
    BY <1>15, Zenon DEF Abstract!SplitValue, Abstract!EndIndex, SplitValue, EndIndex
  <2>2. Contents' = Abstract!InsertAt(Abstract!ReplaceAt(Contents, p, y), p + 1, x)
    BY <1>14, Zenon DEF Abstract!InsertAt, InsertAt, Abstract!ReplaceAt, ReplaceAt
  <2>3. x = [w EXCEPT !.value = parts[2]] /\ y = [w EXCEPT !.value = parts[1]]
    BY <1>15
  <2> QED  BY <2>1, <2>2, <2>3, Zenon DEF Abstract!Split
<1>17. p \in 1..Len(Contents) /\ change \in 1..Contents[p].value.num - 1
  BY <1>3, <1>7, <1>13
<1> QED  BY <1>16, <1>17

\* merge_adjacent_values is seen as a value that takes in the next.
LEMMA MergeShown ==
    ASSUME ListInv, NEW n \in Nodes, NEW m \in Nodes, MergeAdjacentValues(n, m)
    PROVE  \E i \in 1..Len(Contents) : i < Len(Contents) /\ Abstract!Merge(i)
<1> DEFINE v == Merged(l.entry[n].value, l.entry[m].value)
           d == [l EXCEPT !.entry[n].value = v]
           y == [l.entry[n] EXCEPT !.value = v]
<1>1. PICK s : InOrder(l, s)
  BY DEF ListInv
<1>2. PICK p \in 1..l.size : s[p] = n
  BY <1>1 DEF InOrder, Nodes
<1>3. /\ p + 1 <= l.size /\ s[p + 1] = m /\ l.size \in Nat
      /\ n \in DOMAIN l.entry /\ m \in DOMAIN l.entry
      /\ l.entry[n] \in Entry /\ l.entry[m] \in Entry
  <2>1. n \in DOMAIN l.entry /\ m \in DOMAIN l.entry /\ l.next[n] = m
    BY DEF Nodes, MergeAdjacentValues
  <2>2. p + 1 <= l.size /\ s[p + 1] = m
    BY <1>1, <1>2, <2>1, Neighbours DEF ListInv
  <2> QED  BY <1>1, <1>2, <2>1, <2>2 DEF InOrder, ListInv, IsCollection
<1>4. v \in Interval
  BY <1>3, MergedInterval DEF Entry
<1>5. /\ l' = RemoveNode(d, m)
      /\ l.entry[n].state = l.entry[m].state
  BY DEF MergeAdjacentValues, ValueAt, StateAt
<1>6. y = [l.entry[n] EXCEPT !.value.num = @ + l.entry[m].value.num]
  BY <1>3 DEF Entry, Interval, Merged
<1> HIDE DEF v
<1>7. /\ IsCollection(d) /\ InOrder(d, s)
      /\ d.entry = [l.entry EXCEPT ![n].value = v]
      /\ d.size = l.size
  BY <1>1, <1>3, <1>4, SetValueInOrder DEF ListInv
<1> HIDE DEF d
<1> DEFINE a == Shown(l, s)
           b == Shown(d, s)
           t == Narrowed(s, d.size, p + 1)
<1>8. p + 1 \in 1..d.size /\ p \in 1..l.size
  BY <1>3, <1>7
<1>9. IsCollection(l') /\ InOrder(l', t)
  <2>1. l' = RemoveNode(d, s[p + 1])
    BY <1>3, <1>5
  <2> QED  BY <1>7, <1>8, <2>1, RemoveInOrder
<1>10. l'.entry = Del(d.entry, s[p + 1]) /\ l'.size = d.size - 1
  <2>1. IsRemoved(d, m, l')
    BY <1>5, <1>7, RemoveFields
  <2> QED  BY <1>3, <2>1 DEF IsRemoved
<1>11. /\ Contents = a /\ a \in Seq(Entry) /\ Len(a) = l.size
       /\ \A i \in 1..l.size : a[i] = l.entry[s[i]]
  BY <1>1, ContentsShown, ShownSeq DEF ListInv
<1>12. b \in Seq(Entry) /\ Len(b) = l.size
  BY <1>7, ShownSeq
<1>13. b = ReplaceAt(a, p, y)
  <2>1. d.entry = [l.entry EXCEPT ![s[p]] = y]
    BY <1>2, <1>7
  <2> HIDE DEF y, a, b
  <2> QED  BY <1>1, <1>7, <2>1, ShownChange DEF ListInv, a, b
<1> HIDE DEF a
<1>14. Shown(l', t) = Narrowed(b, d.size, p + 1)
  BY <1>7, <1>8, <1>9, <1>10, ShownDel
<1>15. Contents' = Shown(l', t)
  <2> HIDE DEF t
  <2> QED  BY <1>9, NextShown
<1> HIDE DEF b, t
<1>16. RemoveAt(b, p + 1) = Narrowed(b, l.size, p + 1)
  <2>1. p + 1 \in 1..Len(b) /\ b[p + 1] \in Entry
    BY <1>7, <1>8, <1>12
  <2> QED  BY <1>12, <2>1, SequenceOps
<1>17. Contents' = RemoveAt(ReplaceAt(Contents, p, y), p + 1)
  BY <1>7, <1>11, <1>13, <1>14, <1>15, <1>16
<1>18. RemoveAt(ReplaceAt(a, p, y), p + 1) = ReplaceAt(RemoveAt(a, p + 1), p, y)
  <2> DEFINE k == l.size
  <2>1. RemoveAt(a, p + 1) = Narrowed(a, k, p + 1)
    <3>1. p + 1 \in 1..Len(a) /\ a[p + 1] \in Entry
      BY <1>7, <1>8, <1>11
    <3> QED  BY <1>11, <3>1, SequenceOps
  <2>2. \A i \in 1..k : b[i] = IF i = p THEN y ELSE a[i]
    BY <1>11, <1>13 DEF ReplaceAt
  <2>3. Narrowed(b, k, p + 1) = ReplaceAt(Narrowed(a, k, p + 1), p, y)
    <3>1. p \in 1..k - 1 /\ k \in Nat
      BY <1>3
    <3> HIDE DEF k, y
    <3>2. \A i \in 1..k - 1 :
             /\ i \in 1..k /\ i + 1 \in 1..k
             /\ i + 1 = p => i < p + 1
      BY <3>1
    <3>3. \A i \in 1..k - 1 :
             (IF i < p + 1 THEN b[i] ELSE b[i + 1])
               = IF i = p THEN y ELSE IF i < p + 1 THEN a[i] ELSE a[i + 1]
      BY <2>2, <3>1, <3>2
    <3> QED  BY <3>1, <3>3 DEF Narrowed, ReplaceAt
  <2> QED  BY <1>13, <1>16, <2>1, <2>3
<1>19. a[p] = l.entry[n] /\ a[p + 1] = l.entry[m]
  <2>1. p + 1 \in 1..l.size
    BY <1>3
  <2> QED  BY <1>2, <1>3, <1>11, <2>1
<1>20. Abstract!Merge(p)
  <2>1. Contents[p].state = Contents[p + 1].state
    BY <1>5, <1>11, <1>19
  <2>2. y = [Contents[p] EXCEPT !.value.num = @ + Contents[p + 1].value.num]
    BY <1>6, <1>11, <1>19
  <2>3. Contents' = ReplaceAt(RemoveAt(Contents, p + 1), p, y)
    BY <1>11, <1>17, <1>18
  <2> HIDE DEF y
  <2> QED  BY <2>1, <2>2, <2>3 DEF Abstract!Merge, Abstract!ReplaceAt, ReplaceAt,
        Abstract!RemoveAt, RemoveAt
<1>21. p \in 1..Len(Contents) /\ p < Len(Contents)
  BY <1>3, <1>11
<1> QED  BY <1>20, <1>21

\* clear_spent_values is seen as one step that drops the confirmed values.
LEMMA ClearShown ==
    ASSUME ListInv, ClearSpent
    PROVE  Abstract!ClearSpent
<1> DEFINE S == l.states["confirmed"]
           m == l.size
           k == l'.size
<1>1. PICK s : InOrder(l, s)
  BY DEF ListInv
<1>2. Thinned(l, s, held, l', S)
  BY <1>1, ClearThins DEF ListInv, ClearSpent
<1>3. S = {n \in DOMAIN l.entry : l.entry[n].state = "confirmed"}
  BY StateAssumption DEF ListInv, IsCollection
<1>4. PICK t, at : Thins(l, s, l', t, at)
  BY <1>2 DEF Thinned
<1>5. /\ IsCollection(l') /\ InOrder(l', t)
      /\ l'.entry = [n \in DOMAIN l.entry \ S |-> l.entry[n]]
      /\ at \in [1..k -> 1..m]
      /\ \A i, j \in 1..k : i < j => at[i] < at[j]
      /\ \A i \in 1..k : t[i] = s[at[i]]
  BY <1>2, <1>4 DEF Thinned, Thins
<1>6. /\ m \in Nat /\ k \in Nat
      /\ s \in [1..m -> DOMAIN l.entry]
      /\ t \in [1..k -> DOMAIN l.entry \ S]
      /\ \A n \in DOMAIN l.entry \ S : \E i \in 1..k : t[i] = n
      /\ \A i, j \in 1..m : s[i] = s[j] => i = j
  BY <1>1, <1>5 DEF InOrder
<1> DEFINE a == Shown(l, s)
           K == {i \in 1..m : a[i].state # "confirmed"}
<1>7. /\ Contents = a /\ Len(a) = m
      /\ \A i \in 1..m : a[i] = l.entry[s[i]]
  BY <1>1, ContentsShown, ShownSeq DEF ListInv
<1>8. Abstract!Kept = K
  BY <1>7 DEF Abstract!Kept
<1>9. Contents' = Shown(l', t)
  BY <1>5, NextShown
<1> HIDE DEF a, m, k
<1>10. \A i \in 1..m : i \in K <=> s[i] \in DOMAIN l.entry \ S
  BY <1>3, <1>6, <1>7
<1>11. at \in [1..k -> K]
  BY <1>5, <1>6, <1>10
<1>12. \A i \in K : \E j \in 1..k : at[j] = i
  <2> TAKE i \in K
  <2>1. i \in 1..m /\ s[i] \in DOMAIN l.entry \ S
    BY <1>10
  <2>2. PICK j \in 1..k : t[j] = s[i]
    BY <1>6, <2>1
  <2>3. at[j] \in 1..m /\ s[at[j]] = s[i]
    BY <1>5, <2>2
  <2> QED  BY <1>6, <2>1, <2>3
<1>13. \A i, j \in 1..k : at[i] = at[j] => i = j
  <2> SUFFICES ASSUME NEW i \in 1..k, NEW j \in 1..k, i < j PROVE at[i] # at[j]
    BY <1>6
  <2>1. at[i] < at[j] /\ at[i] \in Nat /\ at[j] \in Nat
    BY <1>5, <1>6
  <2> QED  BY <2>1
<1> HIDE DEF K, S
<1>14. Cardinality(K) = k
  <2>1. at \in Bijection(1..k, K)
    BY <1>11, <1>12, <1>13 DEF Bijection, Injection, Surjection, IsInjective
  <2>2. 1 \in Int /\ k \in Int
    BY <1>6
  <2>3. IsFiniteSet(1..k) /\ Cardinality(1..k) = k
    BY <1>6, <2>2, FS_Interval
  <2> QED  BY <2>1, <2>3, FS_Bijection DEF ExistsBijection
<1>15. Contents' = [i \in DOMAIN at |-> Contents[at[i]]]
  <2>1. Shown(l', t) = [i \in 1..k |-> l'.entry[t[i]]]
    BY DEF Shown, k
  <2>2. DOMAIN at = 1..k
    BY <1>5
  <2>3. \A i \in 1..k : l'.entry[t[i]] = a[at[i]]
    BY <1>5, <1>6, <1>7
  <2> QED  BY <1>7, <1>9, <2>1, <2>2, <2>3
<1>16. /\ at \in [1..Cardinality(K) -> K]
       /\ \A i, j \in DOMAIN at : i < j => at[i] < at[j]
  BY <1>5, <1>11, <1>14
<1>17. Abstract!Cardinality(K) = Cardinality(K)
  BY Zenon DEF Abstract!Cardinality, Cardinality
<1> QED  BY <1>8, <1>15, <1>16, <1>17 DEF Abstract!ClearSpent

\* The linked list with its indices implements the sequence of values: every
\* operation adds, deletes, splits, merges and changes just the entries it
\* names, in their places.
THEOREM CollectionIsSequence == Spec => IsSequence
<1>1. Init => Abstract!Init
  <2> SUFFICES ASSUME Init PROVE Abstract!Init
    OBVIOUS
  <2>1. ListInv
    BY InitInv
  <2>2. PICK s : InOrder(l, s)
    BY <2>1 DEF ListInv
  <2>3. Contents = Shown(l, s)
    BY <2>1, <2>2, ContentsShown DEF ListInv
  <2>4. l.size = 0
    BY DEF Init, Empty
  <2> QED  BY <2>3, <2>4 DEF Shown, Abstract!Init
<1>2. ListInv /\ [Next]_vars => [Abstract!Next]_Contents
  <2> SUFFICES ASSUME ListInv, [Next]_vars PROVE [Abstract!Next]_Contents
    OBVIOUS
  <2>1. CASE \E v \in Coin : Add(v)
    BY <2>1, AddShown DEF Abstract!Next
  <2>2. CASE \E n \in Nodes : RemoveValue(n)
    BY <2>2, RemoveShown DEF Abstract!Next
  <2>3. CASE \E n \in Nodes : \E change \in 1..ValueAt(n).num - 1 : Split(n, change)
    BY <2>3, SplitShown DEF Abstract!Next
  <2>4. CASE \E n \in Nodes : \E m \in Nodes : MergeAdjacentValues(n, m)
    BY <2>4, MergeShown DEF Abstract!Next
  <2>5. CASE \E n \in Nodes : \E x \in State : Update(n, x)
    BY <2>5, UpdateShown DEF Abstract!Next
  <2>6. CASE ClearSpent
    BY <2>6, ClearShown DEF Abstract!Next
  <2>7. CASE UNCHANGED vars
    BY <2>7 DEF vars, Contents, Listing, Nodes
  <2> QED  BY <2>1, <2>2, <2>3, <2>4, <2>5, <2>6, <2>7 DEF Next
<1> QED  BY <1>1, <1>2, InductiveInvariant, PTL DEF Spec, IsSequence, Abstract!Spec
=============================================================================
