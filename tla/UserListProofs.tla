---------------------------- MODULE UserListProofs ----------------------------
(***************************************************************************)
(* Proofs about UserList, for any clients, range and number of nodes.      *)
(* Those that need a single heartbeat at a time say so.                    *)
(***************************************************************************)
EXTENDS UserList, FiniteSetTheorems, TLAPS

-----------------------------------------------------------------------------
(***************************************************************************)
(* Chains of nodes, for any next pointers nx.  After(nx, p) is what a walk *)
(* from p reaches: the least set that holds the successor of p and of each *)
(* of its members.  Unlike Path it also makes sense from a freed node.     *)
(***************************************************************************)
Heap == Nodes \cup {Head}
Nexts == [Heap -> Nodes \cup {NULL}]

Closed(nx, S) == \A n \in S : nx[n] # NULL => nx[n] \in S

After(nx, p) ==
  {n \in Nodes : \A S \in SUBSET Nodes :
     Closed(nx, S) /\ (nx[p] # NULL => nx[p] \in S) => n \in S}

(***************************************************************************)
(* No two nodes of the list have the same successor.                       *)
(***************************************************************************)
OnList(nx) == {Head} \cup After(nx, Head)

Chained(nx) ==
  \A x, y \in OnList(nx) : nx[x] # NULL /\ nx[x] = nx[y] => x = y

(***************************************************************************)
(* ny is nx with one pointer changed.                                      *)
(***************************************************************************)
Changed(nx, ny, p, v) ==
  ny \in Nexts /\ ny[p] = v /\ \A n \in Heap : n # p => ny[n] = nx[n]

LEMMA Changes ==
  ASSUME NEW nx \in Nexts, NEW p \in Heap, NEW v \in Nodes \cup {NULL}
  PROVE  Changed(nx, [nx EXCEPT ![p] = v], p, v)
BY DEF Changed, Nexts

LEMMA Numbers == MaxNodes \in Nat /\ NULL \notin Nodes /\ Head \notin Nodes /\ NULL # Head
                 /\ Nodes \subseteq Heap /\ Head \in Heap
BY UserAssumption DEF Nodes, NULL, Head, Heap

LEMMA AfterClosed ==
  ASSUME NEW nx \in Nexts, NEW p \in Heap
  PROVE  /\ After(nx, p) \subseteq Nodes
         /\ Closed(nx, After(nx, p))
         /\ nx[p] # NULL => nx[p] \in After(nx, p)
BY Numbers DEF Nexts, After, Closed

LEMMA AfterLeast ==
  ASSUME NEW nx \in Nexts, NEW p \in Heap, NEW S \in SUBSET Nodes, Closed(nx, S),
         nx[p] # NULL => nx[p] \in S
  PROVE  After(nx, p) \subseteq S
BY DEF After

LEMMA AfterEnd ==
  ASSUME NEW nx \in Nexts, NEW p \in Heap, nx[p] = NULL
  PROVE  After(nx, p) = {}
PROOF
  <1>1. Closed(nx, {})
    BY DEF Closed
  <1> QED BY <1>1, AfterLeast

LEMMA AfterStep ==
  ASSUME NEW nx \in Nexts, NEW p \in Heap, nx[p] # NULL
  PROVE  /\ nx[p] \in Nodes
         /\ After(nx, p) = {nx[p]} \cup After(nx, nx[p])
PROOF
  <1>1. nx[p] \in Nodes /\ nx[p] \in Heap
    BY Numbers DEF Nexts
  <1>2. Closed(nx, {nx[p]} \cup After(nx, nx[p])) /\ {nx[p]} \cup After(nx, nx[p]) \subseteq Nodes
    BY <1>1, AfterClosed DEF Closed
  <1>3. After(nx, p) \subseteq {nx[p]} \cup After(nx, nx[p])
    BY <1>2, AfterLeast
  <1>4. After(nx, p) \subseteq Nodes /\ Closed(nx, After(nx, p)) /\ nx[p] \in After(nx, p)
    BY AfterClosed
  <1>5. After(nx, nx[p]) \subseteq After(nx, p)
    BY <1>1, <1>4, AfterLeast DEF Closed
  <1> QED BY <1>1, <1>3, <1>4, <1>5

(***************************************************************************)
(* A change of pointers that no walk from p follows does not change it.    *)
(***************************************************************************)
LEMMA AfterSame ==
  ASSUME NEW nx \in Nexts, NEW ny \in Nexts, NEW p \in Heap,
         \A n \in {p} \cup After(nx, p) : ny[n] = nx[n]
  PROVE  After(ny, p) = After(nx, p)
PROOF
  <1>1. /\ After(nx, p) \subseteq Nodes /\ Closed(nx, After(nx, p))
        /\ nx[p] # NULL => nx[p] \in After(nx, p)
        /\ After(ny, p) \subseteq Nodes /\ Closed(ny, After(ny, p))
        /\ ny[p] # NULL => ny[p] \in After(ny, p)
    BY AfterClosed
  <1>2. After(ny, p) \subseteq After(nx, p)
    <2>1. Closed(ny, After(nx, p))
      BY <1>1 DEF Closed
    <2> QED BY <1>1, <2>1, AfterLeast
  <1>3. After(nx, p) \subseteq After(ny, p)
    <2>1. Closed(nx, After(ny, p))
      BY <1>1, <1>2 DEF Closed
    <2> QED BY <1>1, <2>1, AfterLeast
  <1> QED BY <1>2, <1>3

(***************************************************************************)
(* insert: a node behind the last one is reached by whoever reaches that.  *)
(***************************************************************************)
LEMMA AfterLink ==
  ASSUME NEW nx \in Nexts, NEW l \in Heap, NEW m \in Nodes, nx[l] = NULL, nx[m] = NULL,
         l # m, NEW ny, Changed(nx, ny, l, m), NEW p \in Heap
  PROVE  /\ After(nx, p) \subseteq After(ny, p)
         /\ After(ny, p) \subseteq After(nx, p) \cup {m}
         /\ l \notin {p} \cup After(nx, p) => After(ny, p) = After(nx, p)
         /\ l \in {p} \cup After(nx, p) => m \in After(ny, p)
PROOF
  <1>1. ny \in Nexts /\ ny[l] = m /\ \A n \in Heap : n # l => ny[n] = nx[n]
    BY DEF Changed
  <1>2. /\ After(nx, p) \subseteq Nodes /\ Closed(nx, After(nx, p))
        /\ nx[p] # NULL => nx[p] \in After(nx, p)
        /\ After(ny, p) \subseteq Nodes /\ Closed(ny, After(ny, p))
        /\ ny[p] # NULL => ny[p] \in After(ny, p)
    BY <1>1, AfterClosed
  <1>3. After(nx, p) \subseteq After(ny, p)
    <2>1. Closed(nx, After(ny, p))
      BY <1>1, <1>2, Numbers DEF Closed
    <2>2. nx[p] # NULL => nx[p] \in After(ny, p)
      BY <1>1, <1>2
    <2> QED BY <1>2, <2>1, <2>2, AfterLeast
  <1>4. After(ny, p) \subseteq After(nx, p) \cup {m}
    <2>1. Closed(ny, After(nx, p) \cup {m})
      BY <1>1, <1>2, Numbers DEF Closed
    <2>2. ny[p] # NULL => ny[p] \in After(nx, p) \cup {m}
      BY <1>1, <1>2
    <2>3. After(nx, p) \cup {m} \in SUBSET Nodes
      BY <1>2
    <2> QED BY <1>1, <2>1, <2>2, <2>3, AfterLeast
  <1>5. ASSUME l \notin {p} \cup After(nx, p) PROVE After(ny, p) = After(nx, p)
    <2>1. \A n \in {p} \cup After(nx, p) : ny[n] = nx[n]
      BY <1>1, <1>2, <1>5, Numbers
    <2> QED BY <1>1, <2>1, AfterSame
  <1>6. ASSUME l \in {p} \cup After(nx, p) PROVE m \in After(ny, p)
    <2>1. ny[l] # NULL
      BY <1>1, Numbers
    <2> QED BY <1>1, <1>2, <1>3, <1>6, <2>1 DEF Closed
  <1> QED BY <1>1, <1>3, <1>4, <1>5, <1>6

(***************************************************************************)
(* delete_node: a walk misses the unlinked node, if any; and nothing else. *)
(***************************************************************************)
LEMMA AfterUnlink ==
  ASSUME NEW nx \in Nexts, NEW p \in Heap, NEW q \in Nodes, nx[p] = q,
         NEW ny, Changed(nx, ny, p, nx[q]), NEW x \in Heap
  PROVE  /\ After(nx, x) \subseteq After(ny, x) \cup {q}
         /\ After(ny, x) \subseteq After(nx, x)
PROOF
  <1>1. ny \in Nexts /\ ny[p] = nx[q] /\ \A n \in Heap : n # p => ny[n] = nx[n]
    BY DEF Changed
  <1>2. /\ After(nx, x) \subseteq Nodes /\ Closed(nx, After(nx, x))
        /\ nx[x] # NULL => nx[x] \in After(nx, x)
        /\ After(ny, x) \subseteq Nodes /\ Closed(ny, After(ny, x))
        /\ ny[x] # NULL => ny[x] \in After(ny, x)
    BY <1>1, AfterClosed
  <1>3. After(ny, x) \subseteq After(nx, x)
    <2>1. Closed(ny, After(nx, x))
      BY <1>1, <1>2, Numbers DEF Closed
    <2>2. ny[x] # NULL => ny[x] \in After(nx, x)
      BY <1>1, <1>2, Numbers DEF Closed
    <2> QED BY <1>1, <1>2, <2>1, <2>2, AfterLeast
  <1>4. CASE p \in {x} \cup After(ny, x)
    <2>1. nx[q] # NULL => nx[q] \in After(ny, x)
      BY <1>1, <1>2, <1>4 DEF Closed
    <2>2. Closed(nx, After(ny, x) \cup {q})
      BY <1>1, <1>2, <2>1, Numbers DEF Closed
    <2>3. nx[x] # NULL => nx[x] \in After(ny, x) \cup {q}
      BY <1>1, <1>2
    <2>4. After(ny, x) \cup {q} \in SUBSET Nodes
      BY <1>2
    <2>5. After(nx, x) \subseteq After(ny, x) \cup {q}
      BY <2>2, <2>3, <2>4, AfterLeast
    <2> QED BY <1>1, <1>3, <2>5
  <1>5. CASE p \notin {x} \cup After(ny, x)
    <2>1. Closed(nx, After(ny, x))
      BY <1>1, <1>2, <1>5, Numbers DEF Closed
    <2>2. nx[x] # NULL => nx[x] \in After(ny, x)
      BY <1>1, <1>2, <1>5
    <2>3. After(nx, x) \subseteq After(ny, x)
      BY <1>2, <2>1, <2>2, AfterLeast
    <2> QED BY <1>1, <1>3, <2>3
  <1> QED BY <1>4, <1>5

(***************************************************************************)
(* In a proper list the unlinked node is no longer reached from the head,  *)
(* and the list stays proper; so it does when a new node is linked.        *)
(***************************************************************************)
LEMMA ChainedUnlink ==
  ASSUME NEW nx \in Nexts, NEW p \in OnList(nx), NEW q \in Nodes, nx[p] = q,
         NEW ny, Changed(nx, ny, p, nx[q]), Chained(nx)
  PROVE  /\ Chained(ny)
         /\ q \in After(nx, Head) /\ p # q
         /\ After(ny, Head) = After(nx, Head) \ {q}
PROOF
  <1>1. /\ After(nx, Head) \subseteq Nodes /\ Closed(nx, After(nx, Head))
        /\ nx[Head] # NULL => nx[Head] \in After(nx, Head)
    BY Numbers, AfterClosed
  <1>2. p \in Heap /\ q \in After(nx, Head)
    BY <1>1, Numbers DEF OnList, Closed, Heap
  <1>3. p # q                \* else the head's list would not need p
    <2> SUFFICES ASSUME p = q PROVE FALSE
      OBVIOUS
    <2>1. p \in After(nx, Head) /\ p # Head /\ p # NULL
      BY <1>2, Numbers
    <2>2. \A n \in OnList(nx) : nx[n] = p => n = p
      BY <2>1 DEF Chained, OnList
    <2>3. Closed(nx, After(nx, Head) \ {p})
      BY <1>1, <2>2 DEF Closed, OnList
    <2>4. nx[Head] # NULL => nx[Head] \in After(nx, Head) \ {p}
      BY <1>1, <2>1, <2>2 DEF OnList
    <2>5. After(nx, Head) \subseteq After(nx, Head) \ {p}
      BY <1>1, <2>3, <2>4, Numbers, AfterLeast
    <2> QED BY <2>1, <2>5
  <1>4. ny \in Nexts /\ ny[p] = nx[q] /\ \A n \in Heap : n # p => ny[n] = nx[n]
    BY DEF Changed
  <1>5. /\ After(nx, Head) \subseteq After(ny, Head) \cup {q}
        /\ After(ny, Head) \subseteq After(nx, Head)
    BY <1>2, Numbers, AfterUnlink
  <1>6. \A n \in OnList(nx) : nx[n] = q => n = p
    BY Numbers DEF Chained
  <1>7. nx[q] # q
    BY <1>2, <1>3, <1>6 DEF OnList
  <1>8. After(ny, Head) \subseteq After(nx, Head) \ {q}
    <2>1. Closed(ny, After(nx, Head) \ {q})
      <3> SUFFICES ASSUME NEW n \in After(nx, Head) \ {q}, ny[n] # NULL
                   PROVE  ny[n] \in After(nx, Head) \ {q}
        BY DEF Closed
      <3>1. CASE n = p
        BY <1>1, <1>2, <1>4, <1>7, <3>1 DEF Closed
      <3>2. CASE n # p
        BY <1>1, <1>4, <1>6, <3>2, Numbers DEF Closed, OnList
      <3> QED BY <3>1, <3>2
    <2>2. ny[Head] # NULL => ny[Head] \in After(nx, Head) \ {q}
      <3>1. CASE p = Head
        BY <1>1, <1>2, <1>4, <1>7, <3>1 DEF Closed
      <3>2. CASE p # Head
        BY <1>1, <1>4, <1>6, <3>2, Numbers DEF OnList
      <3> QED BY <3>1, <3>2
    <2>3. After(nx, Head) \ {q} \in SUBSET Nodes
      BY <1>1
    <2> QED BY <1>4, <2>1, <2>2, <2>3, Numbers, AfterLeast
  <1>9. Chained(ny)
    <2> SUFFICES ASSUME NEW x \in OnList(ny), NEW y \in OnList(ny), ny[x] # NULL, ny[x] = ny[y]
                 PROVE  x = y
      BY DEF Chained
    <2>1. x \in OnList(nx) \ {q} /\ y \in OnList(nx) \ {q} /\ q \in OnList(nx)
      BY <1>2, <1>8, Numbers DEF OnList
    <2>2. x \in Heap /\ y \in Heap
      BY <1>1, <2>1, Numbers DEF OnList
    <2> QED BY <1>4, <2>1, <2>2 DEF Chained
  <1> QED BY <1>2, <1>3, <1>5, <1>8, <1>9

LEMMA ChainedLink ==
  ASSUME NEW nx \in Nexts, NEW l \in Heap, NEW m \in Nodes, nx[l] = NULL, nx[m] = NULL,
         l # m, m \notin After(nx, Head), NEW ny, Changed(nx, ny, l, m), Chained(nx)
  PROVE  Chained(ny)
PROOF
  <1>1. ny \in Nexts /\ ny[l] = m /\ \A n \in Heap : n # l => ny[n] = nx[n]
    BY DEF Changed
  <1>2. /\ After(nx, Head) \subseteq Nodes /\ Closed(nx, After(nx, Head))
        /\ nx[Head] # NULL => nx[Head] \in After(nx, Head)
        /\ After(ny, Head) \subseteq Nodes
    BY <1>1, Numbers, AfterClosed
  <1>6. After(ny, Head) \subseteq After(nx, Head) \cup {m}
    BY Numbers, AfterLink
  <1>3. \A n \in OnList(nx) : nx[n] # m
    BY <1>2, Numbers DEF Closed, OnList
  <1>4. ny[m] = NULL
    BY <1>1, Numbers
  <1> SUFFICES ASSUME NEW x \in OnList(ny), NEW y \in OnList(ny), ny[x] # NULL, ny[x] = ny[y]
               PROVE  x = y
    BY DEF Chained
  <1>5. x \in OnList(nx) /\ y \in OnList(nx) /\ x \in Heap /\ y \in Heap
    BY <1>2, <1>4, <1>6, Numbers DEF OnList
  <1> QED BY <1>1, <1>3, <1>5 DEF Chained

-----------------------------------------------------------------------------
(***************************************************************************)
(* Every nonempty set of naturals has a least element: the intervals up to *)
(* its elements are finite sets, which strict inclusion orders well.  This *)
(* is the induction that the facts about Path need.                        *)
(***************************************************************************)
LEMMA LeastNumber ==
  ASSUME NEW T \in SUBSET Nat, T # {}
  PROVE  \E m \in T : \A k \in T : m <= k
PROOF
  <1> DEFINE R == StrictSubsetOrdering(Nat)
             F == {1..k : k \in T}
  <1>1. F \subseteq FiniteSubsetsOf(Nat)
    <2> SUFFICES ASSUME NEW k \in T PROVE 1..k \in FiniteSubsetsOf(Nat)
      BY DEF F
    <2>1. IsFiniteSet(1..k)
      BY FS_Interval
    <2> QED BY <2>1 DEF FiniteSubsetsOf
  <1>2. PICK x \in F : \A y \in F : ~(<<y, x>> \in R)
    <2>1. IsWellFoundedOn(R, FiniteSubsetsOf(Nat)) /\ F # {}
      BY FS_StrictSubsetOrderingWellFounded
    <2> HIDE DEF R, F
    <2> QED BY <1>1, <2>1, WFMin
  <1>3. PICK m \in T : x = 1..m
    OBVIOUS
  <1>4. ASSUME NEW k \in T, k < m PROVE FALSE
    <2>1. 1..k \subseteq 1..m /\ 1..k # 1..m
      BY <1>4
    <2>2. <<1..k, 1..m>> \in R
      BY <2>1 DEF StrictSubsetOrdering
    <2> QED BY <1>2, <1>3, <2>2
  <1> QED BY <1>4

(***************************************************************************)
(* Path, for any next pointers; it satisfies the equation it is defined by *)
(* since there is a function on each 0..n that does.                       *)
(***************************************************************************)
PathOf(nx) ==
  LET w[i \in 0..MaxNodes] ==
        IF i = 0 THEN Head ELSE IF w[i-1] = NULL THEN NULL ELSE nx[w[i-1]]
  IN  w

After1(nx, v) == IF v = NULL THEN NULL ELSE nx[v]

WalkTo(nx, n, w) ==
  w \in [0..n -> Ptr] /\ w[0] = Head /\ \A i \in 1..n : w[i] = After1(nx, w[i-1])

LEMMA WalkExists ==
  ASSUME NEW nx \in Nexts, NEW n \in Nat
  PROVE  \E w : WalkTo(nx, n, w)
PROOF
  <1> DEFINE T == {k \in Nat : ~ \E w : WalkTo(nx, k, w)}
  <1> SUFFICES ASSUME T # {} PROVE FALSE
    OBVIOUS
  <1>1. PICK m \in T : \A k \in T : m <= k
    <2> HIDE DEF T
    <2>1. T \in SUBSET Nat
      BY DEF T
    <2> QED BY <2>1, LeastNumber
  <1>2. m # 0
    <2>1. WalkTo(nx, 0, [i \in 0..0 |-> Head])
      BY DEF WalkTo, Ptr
    <2> QED BY <2>1
  <1>3. PICK w : WalkTo(nx, m-1, w)
    BY <1>1, <1>2
  <1>4. m-1 \in 0..m-1 /\ w[m-1] \in Ptr
    BY <1>1, <1>2, <1>3 DEF WalkTo
  <1>5. After1(nx, w[m-1]) \in Ptr
    BY <1>4 DEF After1, Ptr, Nexts, Heap
  <1>6. WalkTo(nx, m, [i \in 0..m |-> IF i = m THEN After1(nx, w[m-1]) ELSE w[i]])
    <2> DEFINE v == [i \in 0..m |-> IF i = m THEN After1(nx, w[m-1]) ELSE w[i]]
    <2>1. v \in [0..m -> Ptr]
      BY <1>1, <1>2, <1>3, <1>5 DEF WalkTo
    <2>2. v[0] = Head
      BY <1>1, <1>2, <1>3 DEF WalkTo
    <2>3. ASSUME NEW i \in 1..m PROVE v[i] = After1(nx, v[i-1])
      <3>1. v[i-1] = w[i-1] /\ i-1 \in 0..m-1
        BY <1>1, <1>2
      <3>2. CASE i = m
        BY <3>1, <3>2
      <3>3. CASE i # m
        <4>1. i \in 1..m-1 /\ v[i] = w[i]
          BY <1>1, <1>2, <3>3
        <4> QED BY <1>3, <3>1, <4>1 DEF WalkTo
      <3> QED BY <3>2, <3>3
    <2> QED BY <2>1, <2>2, <2>3 DEF WalkTo
  <1> QED BY <1>1, <1>6

LEMMA PathStep ==
  ASSUME NEW nx \in Nexts
  PROVE  /\ PathOf(nx)[0] = Head
         /\ \A i \in 1..MaxNodes : PathOf(nx)[i] = After1(nx, PathOf(nx)[i-1])
         /\ \A i \in 0..MaxNodes : PathOf(nx)[i] \in Ptr
PROOF
  <1> DEFINE Eq(w) == w = [i \in 0..MaxNodes |->
                             IF i = 0 THEN Head ELSE IF w[i-1] = NULL THEN NULL ELSE nx[w[i-1]]]
  <1>1. PathOf(nx) = CHOOSE w : Eq(w)
    BY DEF PathOf
  <1>2. PICK v : WalkTo(nx, MaxNodes, v)
    BY Numbers, WalkExists
  <1>3. Eq(v)
    BY <1>2, Numbers DEF WalkTo, After1
  <1>4. Eq(PathOf(nx))
    <2> HIDE DEF Eq
    <2> QED BY <1>1, <1>3, Zenon
  <1>5. /\ PathOf(nx)[0] = Head
        /\ \A i \in 1..MaxNodes : PathOf(nx)[i] = After1(nx, PathOf(nx)[i-1])
    <2> DEFINE w == PathOf(nx)
    <2>1. Eq(w)
      BY <1>4
    <2> HIDE DEF w
    <2>2. w[0] = Head /\ \A i \in 1..MaxNodes : w[i] = After1(nx, w[i-1])
      BY <2>1, Numbers DEF After1
    <2> QED BY <2>2 DEF w
  <1> DEFINE w == PathOf(nx)
             T == {i \in 0..MaxNodes : w[i] \notin Ptr}
  <1>6. w[0] = Head /\ \A i \in 1..MaxNodes : w[i] = After1(nx, w[i-1])
    BY <1>5
  <1> HIDE DEF w, Eq
  <1>7. ASSUME T # {} PROVE FALSE
    <2>1. T \in SUBSET Nat
      BY Numbers DEF T
    <2>2. PICK m \in T : \A k \in T : m <= k
      <3> HIDE DEF T
      <3> QED BY <1>7, <2>1, LeastNumber
    <2>3. m \in 1..MaxNodes /\ m-1 \in 0..MaxNodes
      BY <1>6, <2>2, Numbers DEF Ptr
    <2>4. w[m-1] \in Ptr
      BY <2>2, <2>3
    <2>5. After1(nx, w[m-1]) \in Ptr
      BY <2>4 DEF After1, Ptr, Nexts, Heap
    <2> QED BY <1>6, <2>2, <2>3, <2>5
  <1>8. \A i \in 0..MaxNodes : w[i] \in Ptr
    BY <1>7
  <1> QED BY <1>5, <1>8 DEF w

(***************************************************************************)
(* Path runs through the list, meets no node twice and ends within its     *)
(* bound.                                                                  *)
(***************************************************************************)
LEMMA PathInside ==
  ASSUME NEW nx \in Nexts, NEW i \in 0..MaxNodes
  PROVE  PathOf(nx)[i] \in OnList(nx) \cup {NULL}
PROOF
  <1> DEFINE w == PathOf(nx)
             T == {k \in 0..MaxNodes : w[k] \notin OnList(nx) \cup {NULL}}
  <1>1. w[0] = Head /\ \A k \in 1..MaxNodes : w[k] = After1(nx, w[k-1])
    BY PathStep
  <1>2. /\ After(nx, Head) \subseteq Nodes /\ Closed(nx, After(nx, Head))
        /\ nx[Head] # NULL => nx[Head] \in After(nx, Head)
    BY Numbers, AfterClosed
  <1> HIDE DEF w
  <1>3. ASSUME T # {} PROVE FALSE
    <2>1. T \in SUBSET Nat
      BY Numbers DEF T
    <2>2. PICK m \in T : \A k \in T : m <= k
      <3> HIDE DEF T
      <3> QED BY <1>3, <2>1, LeastNumber
    <2>3. m \in 1..MaxNodes /\ m-1 \in 0..MaxNodes
      BY <1>1, <2>2, Numbers DEF OnList
    <2>4. w[m-1] \in OnList(nx) \cup {NULL}
      BY <2>2, <2>3
    <2>5. After1(nx, w[m-1]) \in OnList(nx) \cup {NULL}
      BY <1>2, <2>4 DEF After1, OnList, Closed
    <2> QED BY <1>1, <2>2, <2>3, <2>5
  <1> QED BY <1>3 DEF w

LEMMA PathApart ==
  ASSUME NEW nx \in Nexts, Chained(nx), NEW w, NEW M \in Nat, w[0] = Head,
         \A i \in 1..M : w[i] = After1(nx, w[i-1]),
         \A i \in 0..M : w[i] \in OnList(nx) \cup {NULL}
  PROVE  \A i, j \in 0..M : i < j /\ w[i] = w[j] => w[i] = NULL
PROOF
  <1> DEFINE T == {i \in 0..M : \E j \in 0..M : i < j /\ w[i] = w[j] /\ w[i] # NULL}
  <1>1. ASSUME T # {} PROVE FALSE
    <2>1. T \in SUBSET Nat
      BY DEF T
    <2>2. PICK m \in T : \A k \in T : m <= k
      <3> HIDE DEF T
      <3> QED BY <1>1, <2>1, LeastNumber
    <2>3. PICK j \in 0..M : m < j /\ w[m] = w[j] /\ w[m] # NULL
      BY <2>2
    <2>4. m \in 0..M /\ j \in 1..M /\ j-1 \in 0..M
      BY <2>2, <2>3
    <2>5. w[j-1] # NULL /\ w[j] = nx[w[j-1]] /\ w[j-1] \in OnList(nx)
      BY <2>3, <2>4 DEF After1
    <2>6. w[j] \in Nodes
      <3>1. After(nx, Head) \subseteq Nodes
        BY Numbers, AfterClosed
      <3> QED BY <2>3, <2>5, <3>1, Numbers DEF OnList, Nexts, Heap
    <2>7. m \in 1..M /\ m-1 \in 0..M
      BY <2>3, <2>4, <2>6, Numbers
    <2>8. w[m-1] # NULL /\ w[m] = nx[w[m-1]] /\ w[m-1] \in OnList(nx)
      BY <2>3, <2>7 DEF After1
    <2>9. w[m-1] = w[j-1]
      BY <2>3, <2>5, <2>8 DEF Chained
    <2>10. m-1 \in T
      BY <2>3, <2>4, <2>7, <2>8, <2>9
    <2> QED BY <2>2, <2>7, <2>10
  <1> QED BY <1>1

LEMMA PathEnds ==
  ASSUME NEW nx \in Nexts, Chained(nx), PathOf(nx)[MaxNodes] # NULL
  PROVE  nx[PathOf(nx)[MaxNodes]] = NULL
PROOF
  <1> DEFINE M == MaxNodes
             p == PathOf(nx)
             w == [i \in 0..M+1 |-> IF i = M+1 THEN nx[p[M]] ELSE p[i]]
  <1> SUFFICES ASSUME nx[p[M]] # NULL PROVE FALSE
    OBVIOUS
  <1>1. p[0] = Head /\ \A i \in 1..M : p[i] = After1(nx, p[i-1])
    BY PathStep
  <1>2. \A i \in 0..M : p[i] \in OnList(nx) \cup {NULL}
    BY PathInside
  <1>3. M \in Nat /\ M \in 0..M
    BY Numbers
  <1> HIDE DEF p, M
  <1>4. After(nx, Head) \subseteq Nodes
    BY Numbers, AfterClosed
  <1>5. p[M] \in OnList(nx) /\ p[M] # NULL
    BY <1>2, <1>3 DEF p, M
  <1>6. nx[p[M]] \in After(nx, Head)
    <2>1. Closed(nx, After(nx, Head)) /\ (nx[Head] # NULL => nx[Head] \in After(nx, Head))
      BY Numbers, AfterClosed
    <2> QED BY <1>5, <2>1 DEF OnList, Closed
  <1>7. w[0] = Head /\ \A i \in 1..M+1 : w[i] = After1(nx, w[i-1])
    <2>1. w[0] = Head
      BY <1>1, <1>3
    <2>2. ASSUME NEW i \in 1..M+1 PROVE w[i] = After1(nx, w[i-1])
      <3>1. i-1 \in 0..M /\ w[i-1] = p[i-1]
        BY <1>3
      <3>2. CASE i = M+1
        BY <1>3, <1>5, <3>1, <3>2 DEF After1
      <3>3. CASE i # M+1
        BY <1>1, <1>3, <3>1, <3>3
      <3> QED BY <3>2, <3>3
    <2> QED BY <2>1, <2>2
  <1>8. \A i \in 0..M+1 : w[i] \in OnList(nx) \cup {NULL}
    BY <1>2, <1>3, <1>6 DEF OnList
  <1>9. \A i, j \in 0..M+1 : i < j /\ w[i] = w[j] => w[i] = NULL
    <2> HIDE DEF w
    <2>1. M+1 \in Nat
      BY <1>3
    <2> QED BY <1>7, <1>8, <2>1, PathApart
  <1>10. w[M+1] \in Nodes
    BY <1>3, <1>4, <1>6
  <1>11. \A i \in 1..M+1 : w[i] # NULL
    <2> HIDE DEF w
    <2>1. ASSUME NEW i \in 1..M+1, w[i] = NULL PROVE FALSE
      <3> DEFINE U == {k \in 1..M+1 : i <= k /\ w[k] # NULL}
      <3>1. U \in SUBSET Nat /\ M+1 \in U
        BY <1>3, <1>10, Numbers
      <3>2. PICK k \in U : \A l \in U : k <= l
        <4> HIDE DEF U
        <4> QED BY <3>1, LeastNumber
      <3>3. k # i /\ k \in 1..M+1 /\ i < k /\ k-1 \in 1..M+1 /\ i <= k-1
        BY <2>1, <3>2, <1>3
      <3>4. w[k-1] = NULL
        BY <3>2, <3>3
      <3>5. w[k] = NULL
        BY <1>7, <3>3, <3>4 DEF After1
      <3> QED BY <3>2, <3>5
    <2> QED BY <2>1
  <1> DEFINE f == [i \in 1..M+1 |-> w[i]]
  <1> HIDE DEF w
  <1>12. f \in [1..M+1 -> Nodes]
    <2> SUFFICES ASSUME NEW i \in 1..M+1 PROVE w[i] \in Nodes
      OBVIOUS
    <2>1. i \in 0..M+1 /\ 0 \in 0..M+1 /\ 0 < i
      BY <1>3
    <2>2. w[i] # Head
      BY <1>7, <1>9, <1>11, <2>1
    <2> QED BY <1>4, <1>8, <1>11, <2>1, <2>2 DEF OnList
  <1>13. /\ IsFiniteSet(1..M+1) /\ Cardinality(1..M+1) = M+1
         /\ IsFiniteSet(Nodes) /\ Cardinality(Nodes) = M
    BY <1>3, FS_Interval DEF Nodes, M
  <1>14. PICK i, j \in 1..M+1 : i # j /\ f[i] = f[j]
    <2>1. PICK S, T : S = 1..M+1 /\ T = Nodes
      OBVIOUS
    <2>2. Cardinality(T) < Cardinality(S) /\ IsFiniteSet(S) /\ IsFiniteSet(T) /\ f \in [S -> T]
      BY <1>3, <1>12, <1>13, <2>1
    <2> HIDE DEF f
    <2>3. \E i, j \in S : i # j /\ f[i] = f[j]
      BY <2>2, FS_PigeonHole
    <2> QED BY <2>1, <2>3
  <1> QED BY <1>3, <1>9, <1>11, <1>14

(***************************************************************************)
(* What follows on Path is what is reached.                                *)
(***************************************************************************)
LEMMA PathReaches ==
  ASSUME NEW nx \in Nexts, Chained(nx), NEW i \in 0..MaxNodes, NEW p, p = PathOf(nx)[i],
         p # NULL
  PROVE  /\ p \in OnList(nx) /\ p \in Heap
         /\ After(nx, p) = {n \in Nodes : \E j \in 0..MaxNodes : i < j /\ PathOf(nx)[j] = n}
PROOF
  <1> DEFINE M == MaxNodes
             w == PathOf(nx)
             A == {n \in Nodes : \E j \in 0..M : i < j /\ w[j] = n}
  <1>1. w[0] = Head /\ \A j \in 1..M : w[j] = After1(nx, w[j-1])
    BY PathStep
  <1>2. \A j \in 0..M : w[j] \in OnList(nx) \cup {NULL}
    BY PathInside
  <1>3. M \in Nat /\ w[i] = p
    BY Numbers
  <1>4. w[M] # NULL => nx[w[M]] = NULL
    BY PathEnds
  <1>5. \A k, l \in 0..M : k < l /\ w[k] = w[l] => w[k] = NULL
    <2> HIDE DEF M, w
    <2> QED BY <1>1, <1>2, <1>3, PathApart
  <1>6. After(nx, Head) \subseteq Nodes
    BY Numbers, AfterClosed
  <1> HIDE DEF M, w
  <1>7. p \in OnList(nx) /\ p \in Heap
    BY <1>2, <1>3, <1>6, Numbers DEF OnList, M
  <1>8. /\ After(nx, p) \subseteq Nodes /\ Closed(nx, After(nx, p))
        /\ nx[p] # NULL => nx[p] \in After(nx, p)
    BY <1>7, AfterClosed
  <1>9. ASSUME NEW k \in 0..M, i <= k, w[k] # NULL, nx[w[k]] # NULL PROVE nx[w[k]] \in A
    <2>1. k # M
      BY <1>4, <1>9
    <2>2. k+1 \in 1..M /\ k+1 \in 0..M /\ i < k+1
      BY <1>3, <1>9, <2>1
    <2>3. w[k+1] = nx[w[k]]
      BY <1>1, <1>9, <2>2 DEF After1
    <2>4. nx[w[k]] \in Nodes
      BY <1>2, <1>6, <1>9, Numbers DEF OnList, Nexts, Heap
    <2> QED BY <2>2, <2>3, <2>4
  <1>10. After(nx, p) \subseteq A
    <2>1. Closed(nx, A)
      <3> SUFFICES ASSUME NEW n \in A, nx[n] # NULL PROVE nx[n] \in A
        BY DEF Closed
      <3>1. PICK k \in 0..M : i < k /\ w[k] = n
        BY DEF A
      <3>2. n # NULL
        BY Numbers
      <3> QED BY <1>9, <3>1, <3>2
    <2>2. nx[p] # NULL => nx[p] \in A
      BY <1>3, <1>9 DEF M
    <2>3. A \in SUBSET Nodes
      OBVIOUS
    <2> HIDE DEF A
    <2> QED BY <1>7, <2>1, <2>2, <2>3, AfterLeast
  <1>11. ASSUME NEW n \in A PROVE n \in After(nx, p)
    <2> DEFINE T == {k \in 0..M : i < k /\ w[k] # NULL /\ w[k] \notin After(nx, p)}
    <2>1. PICK k \in 0..M : i < k /\ w[k] = n
      OBVIOUS
    <2> SUFFICES ASSUME T # {} PROVE FALSE
      BY <2>1, Numbers
    <2>2. T \in SUBSET Nat
      BY <1>3
    <2>3. PICK m \in T : \A l \in T : m <= l
      <3> HIDE DEF T
      <3> QED BY <2>2, LeastNumber
    <2>4. m \in 1..M /\ m-1 \in 0..M /\ i <= m-1 /\ w[m] # NULL
      BY <1>3, <2>3
    <2>5. w[m-1] # NULL /\ w[m] = nx[w[m-1]]
      BY <1>1, <2>4 DEF After1
    <2>6. m-1 # i
      BY <1>3, <1>8, <2>3, <2>5
    <2>7. w[m-1] \in After(nx, p)
      BY <1>3, <2>3, <2>4, <2>5, <2>6
    <2> QED BY <1>8, <2>3, <2>5, <2>7 DEF Closed
  <1> QED BY <1>7, <1>10, <1>11 DEF w, M

LEMMA PathIsPathOf == Path = PathOf(next)
BY DEF Path, PathOf

LEMMA LinkedIsAfter ==
  ASSUME next \in Nexts, Chained(next)
  PROVE  Linked = After(next, Head)
PROOF
  <1>1. Path = PathOf(next) /\ PathOf(next)[0] = Head
    BY PathIsPathOf, PathStep
  <1>2. 0 \in 0..MaxNodes /\ Head # NULL
    BY Numbers
  <1>3. After(next, Head) =
          {n \in Nodes : \E j \in 0..MaxNodes : 0 < j /\ PathOf(next)[j] = n}
    BY <1>1, <1>2, PathReaches
  <1> QED BY <1>1, <1>3, Numbers DEF Linked

LEMMA AheadIsAfter ==
  ASSUME next \in Nexts, Chained(next), NEW p \in OnList(next)
  PROVE  Ahead(p) = After(next, p)
PROOF
  <1>1. Path = PathOf(next)
    BY PathIsPathOf
  <1> DEFINE w == PathOf(next)
             M == MaxNodes
  <1>2. w[0] = Head /\ \A i \in 1..M : w[i] = After1(next, w[i-1])
    BY PathStep
  <1>3. \A i \in 0..M : w[i] \in OnList(next) \cup {NULL}
    BY PathInside
  <1>4. M \in Nat /\ 0 \in 0..M
    BY Numbers
  <1>5. \A k, l \in 0..M : k < l /\ w[k] = w[l] => w[k] = NULL
    <2> HIDE DEF M, w
    <2> QED BY <1>2, <1>3, <1>4, PathApart
  <1>6. p # NULL
    <2>1. After(next, Head) \subseteq Nodes
      BY Numbers, AfterClosed
    <2> QED BY <2>1, Numbers DEF OnList
  <1>7. PICK i \in 0..M : w[i] = p
    <2>1. CASE p = Head
      BY <1>2, <1>4, <2>1
    <2>2. CASE p \in After(next, Head)
      BY <1>1, <2>2, <1>4, LinkedIsAfter DEF Linked
    <2> QED BY <2>1, <2>2 DEF OnList
  <1>8. After(next, p) = {n \in Nodes : \E j \in 0..M : i < j /\ w[j] = n}
    BY <1>6, <1>7, PathReaches
  <1>9. \A k \in 0..M : w[k] = p => k = i
    <2> HIDE DEF w, M
    <2> QED BY <1>4, <1>5, <1>6, <1>7
  <1> HIDE DEF w
  <1>10. Ahead(p) = {n \in Nodes : \E k, j \in 0..M : k < j /\ w[k] = p /\ w[j] = n}
    BY <1>1 DEF Ahead, w
  <1> QED BY <1>7, <1>8, <1>9, <1>10

(***************************************************************************)
(* delete_node stops before a listed node with the address, or behind the  *)
(* last node when there is none.                                           *)
(***************************************************************************)
LEMMA DeleteStops ==
  ASSUME next \in Nexts, Chained(next), NEW a, NEW i \in Before(a)
  PROVE  /\ Path[i] \in OnList(next) /\ Path[i] \in Heap
         /\ next[Path[i]] # NULL => addr[next[Path[i]]] = a
         /\ next[Path[i]] = NULL => \A n \in After(next, Head) : addr[n] # a
PROOF
  <1> DEFINE w == PathOf(next)
  <1>1. Path = w
    BY PathIsPathOf
  <1>2. /\ i \in 0..MaxNodes /\ w[i] # NULL
        /\ next[w[i]] # NULL => addr[next[w[i]]] = a
        /\ \A j \in 0..(i-1) : addr[next[w[j]]] # a
    BY <1>1 DEF Before
  <1>3. /\ w[i] \in OnList(next) /\ w[i] \in Heap
        /\ After(next, w[i]) = {n \in Nodes : \E j \in 0..MaxNodes : i < j /\ w[j] = n}
    BY <1>2, PathReaches
  <1>4. ASSUME next[w[i]] = NULL, NEW n \in After(next, Head) PROVE addr[n] # a
    <2>1. PICK j \in 1..MaxNodes : w[j] = n /\ n \in Nodes
      BY <1>1, LinkedIsAfter DEF Linked
    <2>2. After(next, w[i]) = {}
      BY <1>3, <1>4, AfterEnd
    <2>3. j <= i /\ j-1 \in 0..i-1
      BY <1>2, <1>3, <2>1, <2>2, Numbers
    <2>4. w[j] = After1(next, w[j-1])
      BY <2>1, PathStep
    <2>5. n = next[w[j-1]]
      BY <2>1, <2>4, Numbers DEF After1
    <2> QED BY <1>2, <2>3, <2>5
  <1> QED BY <1>1, <1>2, <1>3, <1>4

-----------------------------------------------------------------------------
(***************************************************************************)
(* Types, for any number of heartbeats.                                    *)
(***************************************************************************)
ListType ==
  /\ linkedlist \in {Head, NULL}
  /\ next \in Nexts
  /\ addr \in [Nodes -> Clients]
  /\ fd \in [Nodes -> Hearts \cup {NoFd}]
  /\ live \subseteq Nodes

EnvType == mode \in [Clients -> {"up", "refuse", "silent"}] /\ logged \subseteq Clients

LoginType ==
  /\ lpc \in {"idle", "check", "compare", "advance", "insert", "step"} /\ lp \in Ptr
  /\ lp = NULL <=> lpc = "idle"
  /\ seen \in Nodes \cup {NULL} /\ missed \in BOOLEAN
  /\ fdaddr \in Clients /\ node \in Nodes \cup {NULL}

HeartType ==
  /\ \A h \in Hearts : hp[h] = NULL => hpc[h] # "reap"
  /\ hpc \in [Hearts -> {"idle", "connect", "reap"}]
  /\ hp \in [Hearts -> Ptr]
  /\ conn \in [Hearts -> [Clients -> {"none", "up", "refuse", "silent"}]]
  /\ unclosed \in [Hearts -> SUBSET Clients]

CtrlType ==
  /\ cpc \in {"test", "add", "advance"} /\ cp \in Ptr /\ argv \subseteq Nodes
  /\ cp = NULL => cpc = "test"

UserTypes == ListType /\ EnvType /\ LoginType /\ HeartType /\ CtrlType

CrashType == crashed \in BOOLEAN

LEMMA TypeParts == UserTypes /\ CrashType => TypeOK
PROOF
  <1>1. Nexts = [Nodes \cup {Head} -> Nodes \cup {NULL}]
    BY DEF Nexts, Heap
  <1> QED BY <1>1, Zenon
      DEF TypeOK, UserTypes, CrashType, ListType, EnvType, LoginType, HeartType, CtrlType

LEMMA TypeInit == Init => UserTypes
PROOF
  <1> SUFFICES ASSUME Init PROVE UserTypes
    OBVIOUS
  <1>1. (CHOOSE c \in Clients : TRUE) \in Clients
    BY UserAssumption
  <1>2. PICK k \in 0..MaxNodes : Range0 \in [1..k -> Clients]
    BY UserAssumption
  <1>3. ListType
    <2>1. \A n \in Nodes : InRange(n) => Range0[n] \in Clients
      BY <1>2 DEF InRange
    <2>2. \A p \in Heap : InRange(p+1) => p+1 \in Nodes
      BY <1>2, Numbers DEF InRange, Nodes, Heap, Head
    <2>3. next \in Nexts
      BY <2>2 DEF Init, Nexts, Heap
    <2> QED BY <1>1, <2>1, <2>3 DEF Init, ListType
  <1>4. EnvType
    BY UserAssumption DEF Init, EnvType
  <1>5. LoginType
    BY <1>1 DEF Init, LoginType, Ptr
  <1>6. HeartType
    BY DEF Init, HeartType, Ptr
  <1>7. CtrlType
    BY DEF Init, CtrlType, Ptr
  <1> QED BY <1>3, <1>4, <1>5, <1>6, <1>7 DEF UserTypes

(***************************************************************************)
(* What a walk finds next is a node or the end.                            *)
(***************************************************************************)
LEMMA NextType ==
  ASSUME ListType, NEW p \in Ptr, p # NULL
  PROVE  next[p] \in Nodes \cup {NULL} /\ next[p] \in Ptr /\ p \in Heap
BY DEF ListType, Nexts, Ptr, Heap

LEMMA DeleteTypes ==
  ASSUME ListType, NEW a, delete_node(a), linkedlist = Head
  PROVE  /\ linkedlist' \in {Head, NULL}
         /\ next' \in Nexts
         /\ live' \subseteq Nodes
PROOF
  <1>1. PICK i \in Before(a) :
          LET p == Path[i]
              q == next[p]
          IN  IF q = NULL
              THEN linkedlist' = NULL /\ UNCHANGED <<next, live>>
              ELSE /\ next' = [next EXCEPT ![p] = next[q]]
                   /\ live' = live \ {q}
                   /\ UNCHANGED linkedlist
    BY DEF delete_node
  <1>2. PICK p, q : p = Path[i] /\ q = next[p]
    OBVIOUS
  <1>3. next \in Nexts /\ live \subseteq Nodes
    BY DEF ListType
  <1>4. p \in Heap
    <2>1. p \in Ptr /\ p # NULL
      BY <1>2, <1>3, PathStep, PathIsPathOf DEF Before
    <2> QED BY <2>1 DEF Ptr, Heap
  <1>5. CASE q = NULL
    BY <1>1, <1>2, <1>3, <1>5
  <1>6. CASE q # NULL
    <2>1. q \in Heap /\ next[q] \in Nodes \cup {NULL}
      BY <1>2, <1>3, <1>4, <1>6 DEF Nexts, Heap
    <2> QED BY <1>1, <1>2, <1>3, <1>6, <2>1 DEF Nexts
  <1> QED BY <1>5, <1>6

LEMMA TypeLogin ==
  ASSUME UserTypes, login_pthread
  PROVE  UserTypes'
PROOF
  <1>1. ListType /\ EnvType /\ LoginType /\ HeartType /\ CtrlType
    BY DEF UserTypes
  <1>2. HeartType' /\ CtrlType'
    <2>1. UNCHANGED <<hpc, hp, conn, unclosed, cpc, cp, argv>>
      BY DEF login_pthread, CheckTest, CheckCompare, CheckFound, CheckAdvance, node_create,
             InsertTest, InsertAdvance, InsertLink, heartVars, ctrlVars
    <2> QED BY <1>1, <2>1 DEF HeartType, CtrlType
  <1>3. ASSUME lpc # "idle" PROVE lp # NULL /\ lp \in Heap /\ next[lp] \in Ptr
    BY <1>1, <1>3, NextType DEF LoginType
  <1>4. ASSUME lpc # "idle", next[lp] # NULL PROVE next[lp] \in Nodes
    BY <1>1, <1>3, <1>4, NextType DEF LoginType
  <1>5. CASE CheckTest \/ InsertTest
    BY <1>1, <1>2, <1>5 DEF CheckTest, InsertTest, listVars, envVars, ListType, EnvType,
                            LoginType, UserTypes
  <1>6. CASE CheckCompare
    <2>1. LoginType'
      BY <1>1, <1>4, <1>6 DEF CheckCompare, LoginType
    <2> QED BY <1>1, <1>2, <1>6, <2>1 DEF CheckCompare, listVars, envVars, ListType, EnvType, UserTypes
  <1>7. CASE CheckFound
    BY <1>1, <1>2, <1>7 DEF CheckFound, listVars, ListType, EnvType, LoginType, Ptr, UserTypes
  <1>8. CASE CheckAdvance \/ InsertAdvance
    <2>1. lpc # "idle" /\ next[lp] # NULL /\ lp' = next[lp]
      BY <1>8 DEF CheckAdvance, InsertAdvance
    <2>2. lp' \in Ptr /\ lp' # NULL
      BY <1>3, <2>1
    <2>3. missed' \in BOOLEAN /\ seen' \in Nodes \cup {NULL}
      BY <1>1, <1>8 DEF CheckAdvance, InsertAdvance, LoginType
    <2>4. LoginType'
      BY <1>1, <1>8, <2>2, <2>3 DEF CheckAdvance, InsertAdvance, LoginType
    <2> QED BY <1>1, <1>2, <1>8, <2>4
        DEF CheckAdvance, InsertAdvance, listVars, envVars, ListType, EnvType, UserTypes
  <1>9. CASE node_create
    <2>1. PICK n \in Nodes \ live :
            /\ live' = live \cup {n} /\ addr' = [addr EXCEPT ![n] = fdaddr]
            /\ fd' = [fd EXCEPT ![n] = NoFd] /\ next' = [next EXCEPT ![n] = NULL] /\ node' = n
      BY <1>9 DEF node_create
    <2>2. ListType'
      BY <1>1, <1>9, <2>1 DEF node_create, ListType, LoginType, Nexts, Heap
    <2>3. EnvType' /\ LoginType'
      BY <1>1, <1>9, <2>1, Numbers DEF node_create, envVars, EnvType, LoginType, Ptr
    <2> QED BY <1>2, <2>2, <2>3 DEF UserTypes
  <1>10. CASE InsertLink
    <2>1. ListType'
      BY <1>1, <1>3, <1>10 DEF InsertLink, ListType, LoginType, Nexts
    <2>2. EnvType' /\ LoginType'
      BY <1>1, <1>10 DEF InsertLink, EnvType, LoginType, Ptr
    <2> QED BY <1>2, <2>1, <2>2 DEF UserTypes
  <1> QED BY <1>5, <1>6, <1>7, <1>8, <1>9, <1>10 DEF login_pthread

LEMMA TypeHeart ==
  ASSUME UserTypes, NEW h \in Hearts, heart(h) \/ heart_pthread(h)
  PROVE  UserTypes'
PROOF
  <1>1. UNCHANGED <<addr, mode, logged, lpc, lp, fdaddr, node, seen, missed, cpc, cp, argv>>
    BY DEF heart, heart_pthread, ConnectStep, SocketFails, Select, ReapKeep, ReapDelete, ReapEnd,
           listVars, envVars, loginVars, ctrlVars
  <1>2. EnvType' /\ LoginType' /\ CtrlType'
    BY <1>1 DEF UserTypes, EnvType, LoginType, CtrlType
  <1>3. ListType /\ HeartType /\ EnvType
    BY DEF UserTypes
  <1>5. CASE heart(h)
    <2>1. HeartType'
      BY <1>3, <1>5 DEF heart, HeartType, ListType, NoAnswers, Ptr
    <2> QED BY <1>2, <1>3, <1>5, <2>1 DEF heart, listVars, UserTypes, ListType
  <1>6. CASE ConnectStep(h)
    <2>1. PICK n : n = next[hp[h]]
      OBVIOUS
    <2>2. /\ hpc[h] = "connect" /\ hp[h] # NULL /\ n # NULL /\ fd' = [fd EXCEPT ![n] = h]
          /\ conn' = [conn EXCEPT ![h][addr[n]] = mode[addr[n]]]
          /\ unclosed' = [unclosed EXCEPT ![h] = @ \cup {addr[n]}]
          /\ hp' = [hp EXCEPT ![h] = n] /\ UNCHANGED <<linkedlist, next, live, hpc>>
      BY <1>6, <2>1 DEF ConnectStep, End
    <2>3. n \in Nodes /\ addr[n] \in Clients /\ n \in Ptr
      BY <1>3, <2>1, <2>2, NextType DEF HeartType, ListType
    <2>4. HeartType'
      <3>1. mode[addr[n]] \in {"up", "refuse", "silent"}
        BY <1>3, <2>3 DEF EnvType
      <3>2. conn' \in [Hearts -> [Clients -> {"none", "up", "refuse", "silent"}]]
        BY <1>3, <2>2, <2>3, <3>1 DEF HeartType
      <3>3. unclosed' \in [Hearts -> SUBSET Clients] /\ hp' \in [Hearts -> Ptr]
        BY <1>3, <2>2, <2>3 DEF HeartType
      <3> QED BY <1>3, <2>2, <2>3, <3>2, <3>3 DEF HeartType
    <2>5. ListType'
      BY <1>1, <1>3, <2>2, <2>3 DEF ListType
    <2> QED BY <1>2, <2>2, <2>4, <2>5 DEF UserTypes
  <1>7. CASE Select(h) \/ SocketFails(h)
    <2>1. HeartType'
      BY <1>3, <1>7, Numbers DEF Select, SocketFails, HeartType, Ptr
    <2> QED BY <1>2, <1>3, <1>7, <2>1 DEF Select, SocketFails, listVars, UserTypes, ListType
  <1>8. CASE ReapKeep(h)
    <2>1. /\ hpc[h] = "reap" /\ hp[h] # NULL /\ next[hp[h]] # NULL
          /\ hp' = [hp EXCEPT ![h] = next[hp[h]]]
          /\ UNCHANGED <<linkedlist, next, addr, fd, live, hpc, conn>>
      BY <1>8 DEF ReapKeep, End, listVars
    <2>2. unclosed' \in [Hearts -> SUBSET Clients]
      BY <1>3, <1>8 DEF ReapKeep, CloseFd, HeartType
    <2>3. next[hp[h]] \in Ptr
      BY <1>3, <2>1, NextType DEF HeartType
    <2>4. HeartType' /\ ListType'
      BY <1>3, <2>1, <2>2, <2>3 DEF HeartType, ListType
    <2> QED BY <1>2, <2>4 DEF UserTypes
  <1>9. CASE ReapDelete(h)
    <2>1. PICK n : n = next[hp[h]]
      OBVIOUS
    <2>2. /\ hpc[h] = "reap" /\ hp[h] # NULL /\ n # NULL /\ delete_node(addr[n])
          /\ UNCHANGED <<hpc, hp, conn>> /\ linkedlist = Head
          /\ fd' = IF fd[n] = h /\ conn[h][addr[n]] = "refuse"
                   THEN [fd EXCEPT ![n] = NoFd] ELSE fd
      BY <1>9, <2>1 DEF ReapDelete, End
    <2>3. n \in Nodes
      BY <1>3, <2>1, <2>2, NextType DEF HeartType
    <2>4. fd' \in [Nodes -> Hearts \cup {NoFd}]
      BY <1>3, <2>2, <2>3 DEF ListType
    <2>5. unclosed' \in [Hearts -> SUBSET Clients]
      BY <1>3, <1>9 DEF ReapDelete, CloseFd, HeartType
    <2>6. HeartType'
      BY <1>3, <2>2, <2>5 DEF HeartType
    <2>7. ListType'
      BY <1>1, <1>3, <2>2, <2>4, DeleteTypes DEF ListType
    <2> QED BY <1>2, <2>6, <2>7 DEF UserTypes
  <1>10. CASE ReapEnd(h)
    <2>1. HeartType'
      BY <1>3, <1>10 DEF ReapEnd, HeartType, NoAnswers, Ptr
    <2> QED BY <1>2, <1>3, <1>10, <2>1 DEF ReapEnd, listVars, UserTypes, ListType
  <1> QED BY <1>5, <1>6, <1>7, <1>8, <1>9, <1>10 DEF heart_pthread

(***************************************************************************)
(* The clients and the threads that only read the list.                    *)
(***************************************************************************)
ReadsList ==
  \/ \E c \in Clients : ClientChange(c) \/ handle_accpet(c)
  \/ ctrldata \/ CtrlTest \/ CtrlAdd \/ CtrlAdvance
  \/ \E n \in Nodes : ctrl_data_pthread(n)
  \/ Crash \/ UNCHANGED vars

LEMMA TypeReads ==
  ASSUME UserTypes, ReadsList
  PROVE  UserTypes' /\ UNCHANGED <<linkedlist, next, addr, fd, live, hpc, hp, conn, unclosed, node>>
PROOF
  <1>1. UNCHANGED <<linkedlist, next, addr, fd, live, hpc, hp, conn, unclosed, node>>
    BY DEF ReadsList, ClientChange, handle_accpet, ctrldata, CtrlTest, CtrlAdd, CtrlAdvance,
           ctrl_data_pthread, Crash, vars, listVars, heartVars, loginVars
  <1>2. ListType' /\ HeartType'
    BY <1>1 DEF UserTypes, ListType, HeartType
  <1>4. CASE \E c \in Clients : ClientChange(c)
    <2>1. PICK c \in Clients : ClientChange(c)
      BY <1>4
    <2>2. UNCHANGED <<lpc, lp, fdaddr, node, seen, missed, cpc, cp, argv>>
      BY <2>1 DEF ClientChange, loginVars, ctrlVars
    <2>3. EnvType'
      BY <2>1, UserAssumption DEF ClientChange, EnvType, UserTypes
    <2>4. LoginType' /\ CtrlType'
      BY <2>2 DEF UserTypes, LoginType, CtrlType
    <2> QED BY <1>1, <1>2, <2>3, <2>4 DEF UserTypes
  <1>5. CASE \E c \in Clients : handle_accpet(c)
    <2>1. PICK c \in Clients : handle_accpet(c)
      BY <1>5
    <2>2. /\ lpc' = "check" /\ lp' = Head /\ fdaddr' = c
          /\ UNCHANGED <<mode, logged, seen, missed, cpc, cp, argv>>
      BY <2>1 DEF handle_accpet, envVars, ctrlVars
    <2>3. LoginType' /\ EnvType' /\ CtrlType'
      BY <1>1, <2>2, Numbers DEF UserTypes, LoginType, EnvType, CtrlType, Ptr
    <2> QED BY <1>1, <1>2, <2>3 DEF UserTypes
  <1>6. CASE ctrldata \/ CtrlTest \/ CtrlAdd \/ CtrlAdvance
             \/ (\E n \in Nodes : ctrl_data_pthread(n)) \/ Crash \/ UNCHANGED vars
    <2>1. UNCHANGED <<lpc, lp, fdaddr, node, seen, missed, mode, logged>>
      BY <1>6 DEF ctrldata, CtrlTest, CtrlAdd, CtrlAdvance, ctrl_data_pthread, Crash, vars,
                  loginVars, envVars
    <2>2. LoginType' /\ EnvType'
      BY <2>1 DEF UserTypes, LoginType, EnvType
    <2>3. CtrlType'
      <3>1. ListType /\ CtrlType
        BY DEF UserTypes
      <3>2. CASE ctrldata \/ CtrlTest
        BY <3>1, <3>2, Numbers DEF ctrldata, CtrlTest, CtrlType, ListType, Ptr
      <3>3. CASE CtrlAdd \/ CtrlAdvance
        <4>1. cp # NULL /\ next[cp] \in Nodes \cup {NULL} /\ next[cp] \in Ptr
          BY <3>1, <3>3, NextType DEF CtrlAdd, CtrlAdvance, CtrlType
        <4> QED BY <3>1, <3>3, <4>1 DEF CtrlAdd, CtrlAdvance, CtrlType
      <3>4. CASE (\E n \in Nodes : ctrl_data_pthread(n)) \/ Crash \/ UNCHANGED vars
        BY <3>1, <3>4 DEF ctrl_data_pthread, Crash, vars, ctrlVars, CtrlType
      <3> QED BY <1>6, <3>2, <3>3, <3>4
    <2> QED BY <1>1, <1>2, <2>2, <2>3 DEF UserTypes
  <1> QED BY <1>1, <1>4, <1>5, <1>6 DEF ReadsList

LEMMA TypeNext == UserTypes /\ [Next]_vars => UserTypes'
BY TypeLogin, TypeHeart, TypeReads DEF Next, ReadsList

LEMMA CrashNext == CrashType /\ [Next]_vars => CrashType'
BY DEF Next, Runs, Crash, vars, CrashType

(***************************************************************************)
(* What missed tells is for good.                                          *)
(***************************************************************************)
LEMMA MissedStays == [Next]_vars => (missed => missed')
BY DEF Next, login_pthread, CheckTest, CheckCompare, CheckFound, CheckAdvance, node_create,
       InsertTest, InsertAdvance, InsertLink, heart, heart_pthread, ConnectStep, SocketFails,
       Select, ReapKeep, ReapDelete, ReapEnd, ClientChange, handle_accpet, ctrldata, CtrlTest,
       CtrlAdd, CtrlAdvance, ctrl_data_pthread, Crash, vars, loginVars

(***************************************************************************)
(* delete_node redirects one pointer or, finding nothing, clears the head. *)
(***************************************************************************)
Unlinks(p, q) ==
  /\ p \in OnList(next) /\ p \in Heap /\ q \in Nodes /\ next[p] = q
  /\ Changed(next, next', p, next[q]) /\ live' = live \ {q} /\ linkedlist' = linkedlist

LEMMA DeleteNode ==
  ASSUME ListType, Chained(next), NEW a, delete_node(a)
  PROVE  \/ \E p, q \in Heap : Unlinks(p, q) /\ addr[q] = a
         \/ /\ linkedlist' = NULL /\ UNCHANGED <<next, live>>
            /\ \A n \in After(next, Head) : addr[n] # a
PROOF
  <1>1. next \in Nexts
    BY DEF ListType
  <1>2. PICK i \in Before(a) :
          LET p == Path[i]
              q == next[p]
          IN  IF q = NULL
              THEN linkedlist' = NULL /\ UNCHANGED <<next, live>>
              ELSE /\ next' = [next EXCEPT ![p] = next[q]]
                   /\ live' = live \ {q}
                   /\ UNCHANGED linkedlist
    BY DEF delete_node
  <1>3. PICK p : p = Path[i]
    OBVIOUS
  <1>4. /\ p \in OnList(next) /\ p \in Heap
        /\ next[p] # NULL => addr[next[p]] = a
        /\ next[p] = NULL => \A n \in After(next, Head) : addr[n] # a
    BY <1>1, <1>3, DeleteStops
  <1>5. CASE next[p] = NULL
    BY <1>2, <1>3, <1>4, <1>5
  <1>6. CASE next[p] # NULL
    <2>1. PICK q : q = next[p]
      OBVIOUS
    <2>2. q \in Nodes /\ q \in Heap /\ next[q] \in Nodes \cup {NULL}
      BY <1>1, <1>4, <1>6, <2>1, Numbers DEF Nexts
    <2>3. next' = [next EXCEPT ![p] = next[q]] /\ live' = live \ {q} /\ linkedlist' = linkedlist
      BY <1>2, <1>3, <1>6, <2>1
    <2>4. Changed(next, next', p, next[q])
      BY <1>1, <1>4, <2>2, <2>3, Changes
    <2> QED BY <1>4, <1>6, <2>1, <2>2, <2>3, <2>4 DEF Unlinks
  <1> QED BY <1>5, <1>6

-----------------------------------------------------------------------------
(***************************************************************************)
(* The list, whatever the number of heartbeats.  Each listed node is       *)
(* allocated and has an address of its own.                                *)
(***************************************************************************)
InUse == After(next, Head)

ListInv ==
  /\ Chained(next)
  /\ InUse \subseteq live
  /\ \A m, n \in InUse : addr[m] = addr[n] => m = n

(***************************************************************************)
(* check_ip may stand on a freed node; from there it still reaches the     *)
(* node with the address it looks for, if the list has one.  What it has   *)
(* compared has another address, or is not on the list.                    *)
(***************************************************************************)
CheckInv ==
  /\ lpc \in {"check", "compare", "advance"} =>
       \A n \in InUse : addr[n] = fdaddr => n \in After(next, lp)
  /\ lpc = "advance" /\ seen \in InUse => addr[seen] # fdaddr

(***************************************************************************)
(* The new node is allocated, ends in NULL and is not reached by insert's  *)
(* own walk; its address is on no listed node.                             *)
(***************************************************************************)
InsertInv ==
  lpc \in {"insert", "step"} =>
    /\ node \in live /\ next[node] = NULL /\ addr[node] = fdaddr
    /\ lp # node /\ node \notin After(next, lp) /\ node \notin InUse
    /\ \A n \in InUse : addr[n] # fdaddr

UserInv == UserTypes /\ ListInv /\ CheckInv /\ InsertInv

LEMMA InUseType ==
  ASSUME ListType
  PROVE  /\ next \in Nexts /\ InUse \subseteq Nodes
         /\ Closed(next, InUse) /\ (next[Head] # NULL => next[Head] \in InUse)
BY Numbers, AfterClosed DEF InUse, ListType

LEMMA UserInit == Init => UserInv /\ InUse = live
PROOF
  <1> SUFFICES ASSUME Init PROVE UserInv /\ InUse = live
    OBVIOUS
  <1>1. UserTypes /\ ListType
    BY TypeInit DEF UserTypes
  <1>2. PICK k \in 0..MaxNodes : /\ Range0 \in [1..k -> Clients]
                                 /\ \A i, j \in 1..k : i # j => Range0[i] # Range0[j]
    BY UserAssumption
  <1>3. /\ k \in Nat /\ live = 1..k /\ live \subseteq Nodes
        /\ \A n \in 1..k : addr[n] = Range0[n]
        /\ \A p \in 0..k : next[p] = IF p = k THEN NULL ELSE p+1
    BY <1>2, Numbers DEF Init, InRange, Nodes, Head
  <1>4. /\ next \in Nexts /\ InUse \subseteq Nodes
        /\ Closed(next, InUse) /\ (next[Head] # NULL => next[Head] \in InUse)
    BY <1>1, InUseType
  <1>5. InUse \subseteq live
    <2>1. Closed(next, live)
      BY <1>3, Numbers DEF Closed
    <2>2. next[Head] # NULL => next[Head] \in live
      BY <1>3, Numbers DEF Head
    <2> QED BY <1>3, <1>4, <2>1, <2>2, Numbers, AfterLeast DEF InUse
  <1>6. live \subseteq InUse
    <2> DEFINE T == {i \in 1..k : i \notin InUse}
    <2> SUFFICES ASSUME T # {} PROVE FALSE
      BY <1>3
    <2>1. T \in SUBSET Nat
      BY <1>3
    <2>2. PICK m \in T : \A i \in T : m <= i
      <3> HIDE DEF T
      <3> QED BY <2>1, LeastNumber
    <2>3. CASE m = 1
      BY <1>3, <1>4, <2>2, <2>3, Numbers DEF Head, NULL
    <2>4. CASE m # 1
      <3>1. m-1 \in 1..k /\ m-1 \in InUse
        BY <1>3, <2>2, <2>4
      <3>2. next[m-1] = m /\ m # NULL
        BY <1>3, <2>2, <3>1 DEF NULL
      <3> QED BY <1>4, <2>2, <3>1, <3>2 DEF Closed
    <2> QED BY <2>3, <2>4
  <1>7. Chained(next)
    <2>1. OnList(next) \subseteq 0..k
      BY <1>3, <1>5 DEF OnList, InUse, Head
    <2>2. \A x, y \in 0..k : next[x] # NULL /\ next[x] = next[y] => x = y
      BY <1>3
    <2> QED BY <2>1, <2>2 DEF Chained
  <1>8. \A m, n \in InUse : addr[m] = addr[n] => m = n
    BY <1>2, <1>3, <1>5
  <1>9. CheckInv /\ InsertInv
    BY DEF Init, CheckInv, InsertInv
  <1> QED BY <1>1, <1>5, <1>6, <1>7, <1>8, <1>9 DEF UserInv, ListInv

(***************************************************************************)
(* Steps that leave the list alone, and the two that change it.            *)
(***************************************************************************)
LEMMA SameList ==
  ASSUME ListInv, UNCHANGED <<next, addr, live>>
  PROVE  ListInv' /\ InUse' = InUse
BY DEF ListInv, InUse

LEMMA UnlinkKeeps ==
  ASSUME UserInv, NEW p, NEW q, Unlinks(p, q), UNCHANGED <<addr, lpc, lp, fdaddr, node, seen>>
  PROVE  /\ ListInv' /\ CheckInv' /\ InsertInv'
         /\ InUse' = InUse \ {q} /\ q \in InUse /\ p # q
         /\ \A x \in Heap : /\ After(next', x) \subseteq After(next, x)
                            /\ After(next, x) \subseteq After(next', x) \cup {q}
PROOF
  <1> USE DEF InUse
  <1>1. /\ next \in Nexts /\ InUse \subseteq Nodes /\ Chained(next)
        /\ p \in OnList(next) /\ p \in Heap /\ q \in Nodes /\ next[p] = q
        /\ Changed(next, next', p, next[q]) /\ live' = live \ {q}
    BY InUseType DEF UserInv, UserTypes, ListInv, Unlinks
  <1>2. Chained(next') /\ q \in InUse /\ p # q /\ InUse' = InUse \ {q}
    BY <1>1, ChainedUnlink
  <1>3. \A x \in Heap : /\ After(next', x) \subseteq After(next, x)
                        /\ After(next, x) \subseteq After(next', x) \cup {q}
    BY <1>1, AfterUnlink
  <1>4. ListInv'
    BY <1>1, <1>2 DEF UserInv, ListInv
  <1>5. lpc # "idle" => lp \in Heap
    BY Numbers DEF UserInv, UserTypes, LoginType, Ptr, Heap
  <1>6. CheckInv'
    BY <1>2, <1>3, <1>5 DEF UserInv, CheckInv
  <1>7. InsertInv'
    <2> SUFFICES ASSUME lpc \in {"insert", "step"} PROVE InsertInv'
      BY DEF InsertInv
    <2>1. /\ node \in live /\ next[node] = NULL /\ addr[node] = fdaddr
          /\ lp # node /\ node \notin After(next, lp) /\ node \notin InUse
          /\ \A n \in InUse : addr[n] # fdaddr
      BY DEF UserInv, UserTypes, InsertInv, ListType
    <2>2. node # p /\ node # q /\ node \in Heap
      BY <1>1, <1>2, <2>1, Numbers DEF OnList, Heap, UserInv, UserTypes, ListType
    <2>3. next'[node] = NULL
      BY <1>1, <2>1, <2>2 DEF Changed
    <2> QED BY <1>1, <1>2, <1>3, <1>5, <2>1, <2>2, <2>3 DEF InsertInv
  <1> QED BY <1>2, <1>3, <1>4, <1>6, <1>7

(***************************************************************************)
(* What a step of the login task can do to the list as a heartbeat sees    *)
(* it: at most one node comes, at the end, with an address of its own.     *)
(***************************************************************************)
OnlyGrows ==
  /\ InUse \subseteq InUse'
  /\ \A n \in InUse : addr'[n] = addr[n] /\ fd'[n] = fd[n]
  /\ \A n \in InUse' \ InUse, m \in InUse : addr'[n] # addr[m]
  /\ \A x \in OnList(next) : /\ After(next, x) \subseteq After(next', x)
                             /\ After(next', x) \subseteq After(next, x) \cup (InUse' \ InUse)
                             /\ InUse' \ InUse \subseteq After(next', x)

LEMMA AfterInUse ==
  ASSUME NEW nx \in Nexts, NEW x \in OnList(nx)
  PROVE  x \in Heap /\ After(nx, x) \subseteq After(nx, Head)
PROOF
  <1>1. /\ After(nx, Head) \subseteq Nodes /\ Closed(nx, After(nx, Head))
        /\ nx[Head] # NULL => nx[Head] \in After(nx, Head)
    BY Numbers, AfterClosed
  <1>2. x \in Heap
    BY <1>1, Numbers DEF OnList
  <1>3. nx[x] # NULL => nx[x] \in After(nx, Head)
    BY <1>1 DEF OnList, Closed
  <1> QED BY <1>1, <1>2, <1>3, AfterLeast

(***************************************************************************)
(* Every walk on the list comes to the last node.                          *)
(***************************************************************************)
LEMMA LastReached ==
  ASSUME NEW nx \in Nexts, NEW x \in OnList(nx), NEW l \in OnList(nx), nx[l] = NULL
  PROVE  l \in {x} \cup After(nx, x)
PROOF
  <1> DEFINE S == {y \in After(nx, Head) : x \in After(nx, y) \/ y \in {x} \cup After(nx, x)}
  <1>1. /\ After(nx, Head) \subseteq Nodes /\ Closed(nx, After(nx, Head))
        /\ nx[Head] # NULL => nx[Head] \in After(nx, Head)
    BY Numbers, AfterClosed
  <1>2. x \in Heap /\ l \in Heap /\ Closed(nx, After(nx, x)) /\ (nx[x] # NULL => nx[x] \in After(nx, x))
    BY AfterInUse, AfterClosed
  <1>3. CASE x = Head
    BY <1>3 DEF OnList
  <1>4. CASE x # Head
    <2>1. x \in After(nx, Head)
      BY <1>4 DEF OnList
    <2>2. ASSUME NEW y \in Heap, x \in After(nx, y), nx[y] # NULL
          PROVE  x = nx[y] \/ x \in After(nx, nx[y])
      BY <2>2, AfterStep
    <2>3. Closed(nx, S)
      <3> SUFFICES ASSUME NEW y \in S, nx[y] # NULL PROVE nx[y] \in S
        BY DEF Closed
      <3>1. nx[y] \in After(nx, Head) /\ y \in Heap
        BY <1>1, Numbers DEF Closed
      <3>2. CASE x \in After(nx, y)
        BY <2>2, <3>1, <3>2
      <3>3. CASE y \in {x} \cup After(nx, x)
        BY <1>2, <3>1, <3>3 DEF Closed
      <3> QED BY <3>2, <3>3
    <2>4. nx[Head] # NULL => nx[Head] \in S
      BY <1>1, <2>1, <2>2, Numbers
    <2>5. S \in SUBSET Nodes
      BY <1>1
    <2>6. After(nx, Head) \subseteq S
      <3> HIDE DEF S
      <3> QED BY <2>3, <2>4, <2>5, Numbers, AfterLeast
    <2>7. After(nx, l) = {}
      BY <1>2, AfterEnd
    <2>8. l # Head
      BY <2>1, <2>7
    <2> QED BY <2>6, <2>7, <2>8 DEF OnList
  <1> QED BY <1>3, <1>4

LEMMA ListSame == UNCHANGED <<next, addr, fd>> => OnlyGrows
BY DEF OnlyGrows, InUse

LEMMA ListLogin ==
  ASSUME UserInv, login_pthread, ~missed'
  PROVE  UserInv' /\ OnlyGrows
PROOF
  <1>1. UserTypes'
    BY TypeLogin DEF UserInv
  <1>2. /\ next \in Nexts /\ InUse \subseteq Nodes /\ Closed(next, InUse)
        /\ next[Head] # NULL => next[Head] \in InUse
    BY InUseType DEF UserInv, UserTypes
  <1>3. lpc # "idle" => lp \in Heap
    BY Numbers DEF UserInv, UserTypes, LoginType, Ptr, Heap
  <1>4. ListInv /\ CheckInv /\ InsertInv /\ ListType /\ LoginType
    BY DEF UserInv, UserTypes
  <1>5. CASE CheckTest \/ CheckCompare \/ InsertTest
    <2>1. UNCHANGED <<next, addr, fd, live, lp, fdaddr, node>>
      BY <1>5 DEF CheckTest, CheckCompare, InsertTest, listVars
    <2>2. ListInv' /\ InUse' = InUse /\ OnlyGrows
      BY <1>4, <2>1, SameList, ListSame
    <2>3. CheckInv'
      <3>1. CASE CheckTest \/ InsertTest
        BY <1>4, <2>1, <2>2, <3>1 DEF CheckTest, InsertTest, CheckInv
      <3>2. CASE CheckCompare
        <4>1. /\ lpc = "compare" /\ lpc' = "advance" /\ seen' = next[lp]
              /\ addr[next[lp]] # fdaddr \/ next[lp] \notin live
          BY <3>2 DEF CheckCompare, SameAddr
        <4> QED BY <1>4, <2>1, <2>2, <4>1 DEF CheckInv, ListInv
      <3> QED BY <1>5, <3>1, <3>2
    <2>4. InsertInv'
      BY <1>4, <1>5, <2>1, <2>2 DEF CheckTest, CheckCompare, InsertTest, InsertInv
    <2> QED BY <1>1, <2>2, <2>3, <2>4 DEF UserInv
  <1>6. CASE CheckFound
    <2>1. lpc' = "idle" /\ UNCHANGED <<next, addr, fd, live>>
      BY <1>6 DEF CheckFound, listVars
    <2>2. ListInv' /\ CheckInv' /\ InsertInv' /\ OnlyGrows
      BY <1>4, <2>1, SameList, ListSame DEF CheckInv, InsertInv
    <2> QED BY <1>1, <2>2 DEF UserInv
  <1>7. CASE CheckAdvance
    <2>1. /\ lpc = "advance" /\ next[lp] # NULL /\ lp' = next[lp] /\ lpc' = "check"
          /\ next[lp] = seen \/ addr[next[lp]] # fdaddr
          /\ UNCHANGED <<next, addr, fd, live, fdaddr, node>>
      BY <1>7 DEF CheckAdvance, SameAddr, listVars
    <2>2. After(next, lp) = {next[lp]} \cup After(next, next[lp])
      BY <1>2, <1>3, <2>1, AfterStep
    <2>3. ListInv' /\ InUse' = InUse /\ OnlyGrows
      BY <1>4, <2>1, SameList, ListSame
    <2>4. CheckInv'
      <3> SUFFICES ASSUME NEW n \in InUse, addr[n] = fdaddr PROVE n \in After(next, next[lp])
        BY <2>1, <2>3 DEF CheckInv
      <3>1. n \in After(next, lp) /\ n # next[lp]
        BY <1>4, <2>1 DEF CheckInv
      <3> QED BY <2>2, <3>1
    <2>5. InsertInv'
      BY <2>1 DEF InsertInv
    <2> QED BY <1>1, <2>3, <2>4, <2>5 DEF UserInv
  <1>9. CASE node_create
    <2>1. PICK n \in Nodes \ live :
            /\ live' = live \cup {n} /\ addr' = [addr EXCEPT ![n] = fdaddr]
            /\ fd' = [fd EXCEPT ![n] = NoFd] /\ next' = [next EXCEPT ![n] = NULL] /\ node' = n
      BY <1>9 DEF node_create
    <2>2. lpc = "check" /\ next[lp] = NULL /\ lpc' = "insert" /\ lp' = Head /\ fdaddr' = fdaddr
      BY <1>9 DEF node_create
    <2>3. n \notin InUse /\ n \in Heap /\ n # Head
      BY <1>4, <2>1, Numbers DEF ListInv
    <2>4. Changed(next, next', n, NULL)
      BY <1>2, <2>1, <2>3, Changes
    <2>5. next' \in Nexts /\ next'[n] = NULL /\ \A x \in Heap : x # n => next'[x] = next[x]
      BY <2>4 DEF Changed
    <2>6. ASSUME NEW x \in OnList(next) PROVE After(next', x) = After(next, x) /\ x \in Heap
      <3>1. x \in Heap /\ After(next, x) \subseteq InUse
        BY <1>2, AfterInUse DEF InUse
      <3>2. \A y \in {x} \cup After(next, x) : next'[y] = next[y]
        BY <1>2, <2>3, <2>5, <3>1, Numbers DEF OnList, InUse
      <3> QED BY <1>2, <2>5, <3>1, <3>2, AfterSame
    <2>7. InUse' = InUse /\ OnList(next') = OnList(next)
      BY <2>6 DEF InUse, OnList
    <2>8. \A m \in InUse : addr'[m] = addr[m] /\ fd'[m] = fd[m]
      BY <1>2, <1>4, <2>1, <2>3 DEF ListType
    <2>9. OnlyGrows
      BY <2>6, <2>7, <2>8 DEF OnlyGrows
    <2>10. Chained(next')
      <3>1. \A x \in OnList(next) : next'[x] = next[x]
        BY <2>3, <2>5, <2>6 DEF OnList, InUse
      <3> QED BY <1>4, <2>7, <3>1 DEF Chained, ListInv
    <2>11. ListInv'
      BY <1>4, <2>1, <2>7, <2>8, <2>10 DEF ListInv
    <2>12. InsertInv'
      <3>1. addr'[n] = fdaddr
        BY <1>4, <2>1 DEF ListType
      <3>2. \A m \in InUse : addr[m] # fdaddr
        <4>1. After(next, lp) = {}
          BY <1>2, <1>3, <2>2, AfterEnd
        <4> QED BY <1>4, <2>2, <4>1 DEF CheckInv
      <3>3. After(next', Head) = InUse
        BY <2>6 DEF OnList, InUse
      <3> QED BY <2>1, <2>2, <2>3, <2>5, <2>7, <2>8, <3>1, <3>2, <3>3 DEF InsertInv
    <2>13. CheckInv'
      BY <2>2 DEF CheckInv
    <2> QED BY <1>1, <2>9, <2>11, <2>12, <2>13 DEF UserInv
  <1>10. CASE InsertAdvance
    <2>1. /\ lpc = "step" /\ lpc' = "insert" /\ next[lp] # NULL /\ lp' = next[lp]
          /\ UNCHANGED <<next, addr, fd, live, fdaddr, node>>
      BY <1>10 DEF InsertAdvance, listVars
    <2>2. After(next, lp) = {next[lp]} \cup After(next, next[lp])
      BY <1>2, <1>3, <2>1, AfterStep
    <2>3. ListInv' /\ InUse' = InUse /\ OnlyGrows
      BY <1>4, <2>1, SameList, ListSame
    <2>4. InsertInv'
      BY <1>4, <2>1, <2>2, <2>3 DEF InsertInv
    <2>5. CheckInv'
      BY <2>1 DEF CheckInv
    <2> QED BY <1>1, <2>3, <2>4, <2>5 DEF UserInv
  <1>11. CASE InsertLink
    <2>1. /\ lpc = "insert" /\ next[lp] = NULL /\ next' = [next EXCEPT ![lp] = node]
          /\ lpc' = "idle" /\ UNCHANGED <<addr, fd, live>>
      BY <1>11 DEF InsertLink
    <2>2. /\ node \in live /\ next[node] = NULL /\ addr[node] = fdaddr
          /\ lp # node /\ node \notin InUse /\ node \in Nodes
          /\ \A n \in InUse : addr[n] # fdaddr
      BY <1>4, <2>1 DEF InsertInv, ListType
    <2>3. Changed(next, next', lp, node)
      BY <1>2, <1>3, <2>1, <2>2, Changes
    <2>4. ASSUME NEW x \in Heap
          PROVE  /\ After(next, x) \subseteq After(next', x)
                 /\ After(next', x) \subseteq After(next, x) \cup {node}
      <3>1. lp \in Heap /\ next[lp] = NULL
        BY <1>3, <2>1
      <3> HIDE DEF InUse
      <3> QED BY <1>2, <2>2, <2>3, <3>1, AfterLink
    <2>5. InUse \subseteq InUse' /\ InUse' \subseteq InUse \cup {node}
      BY <2>4, Numbers DEF InUse
    <2>6. Chained(next')
      BY <1>2, <1>3, <1>4, <2>1, <2>2, <2>3, ChainedLink DEF ListInv, InUse
    <2>7. ListInv'
      BY <1>4, <2>1, <2>2, <2>5, <2>6 DEF ListInv
    <2>8. ASSUME NEW x \in OnList(next)
          PROVE  /\ After(next, x) \subseteq After(next', x)
                 /\ After(next', x) \subseteq After(next, x) \cup (InUse' \ InUse)
                 /\ InUse' \ InUse \subseteq After(next', x)
      <3>1. x \in Heap /\ x \in OnList(next')
        BY <1>2, <2>5, AfterInUse DEF OnList, InUse
      <3>2. After(next', x) \subseteq InUse'
        BY <2>3, <3>1, AfterInUse DEF Changed, InUse
      <3>3. ASSUME NEW n \in InUse' \ InUse PROVE n \in After(next', x)
        <4>1. n = node
          BY <2>5
        <4>2. lp \in OnList(next)
          BY <1>2, <1>3, <2>1, <2>2, <2>3, <3>3, Numbers, AfterLink DEF OnList, InUse
        <4>3. lp \in {x} \cup After(next, x)
          BY <1>2, <2>1, <4>2, LastReached
        <4> QED BY <1>2, <1>3, <2>1, <2>2, <2>3, <3>1, <4>1, <4>3, AfterLink
      <3> QED BY <2>2, <2>4, <3>1, <3>2, <3>3
    <2>9. OnlyGrows
      BY <2>1, <2>2, <2>5, <2>8 DEF OnlyGrows
    <2>10. CheckInv' /\ InsertInv'
      BY <2>1 DEF CheckInv, InsertInv
    <2> QED BY <1>1, <2>7, <2>9, <2>10 DEF UserInv
  <1> QED BY <1>5, <1>6, <1>7, <1>9, <1>10, <1>11 DEF login_pthread

(***************************************************************************)
(* Clients and the threads that read only; handle_accpet starts the walk   *)
(* of check_ip at the head.                                                *)
(***************************************************************************)
LEMMA ListReads ==
  ASSUME UserInv, ReadsList
  PROVE  UserInv'
PROOF
  <1>1. UNCHANGED <<linkedlist, next, addr, fd, live, hpc, hp, conn, unclosed, node>> /\ UserTypes'
    BY TypeReads DEF UserInv
  <1>2. ListInv' /\ InUse' = InUse
    BY <1>1, SameList DEF UserInv
  <1>3. CASE \E c \in Clients : handle_accpet(c)
    <2>1. lpc' = "check" /\ lp' = Head
      BY <1>3 DEF handle_accpet
    <2>2. CheckInv' /\ InsertInv'
      BY <1>1, <1>2, <2>1 DEF CheckInv, InsertInv, InUse
    <2> QED BY <1>1, <1>2, <2>2 DEF UserInv
  <1>4. CASE ~ \E c \in Clients : handle_accpet(c)
    <2>1. UNCHANGED <<lpc, lp, fdaddr, node, seen>>
      BY <1>4 DEF ReadsList, ClientChange, ctrldata, CtrlTest, CtrlAdd, CtrlAdvance,
                  ctrl_data_pthread, Crash, vars, loginVars
    <2>2. CheckInv' /\ InsertInv'
      BY <1>1, <1>2, <2>1 DEF UserInv, CheckInv, InsertInv
    <2> QED BY <1>1, <1>2, <2>2 DEF UserInv
  <1> QED BY <1>3, <1>4

(***************************************************************************)
(* A heartbeat writes fd, and its second loop deletes nodes.               *)
(***************************************************************************)
LEMMA ListHeart ==
  ASSUME UserInv, NEW h \in Hearts, heart(h) \/ heart_pthread(h)
  PROVE  UserInv'
PROOF
  <1>1. UNCHANGED <<addr, lpc, lp, fdaddr, node, seen>>
    BY DEF heart, heart_pthread, ConnectStep, SocketFails, Select, ReapKeep, ReapDelete, ReapEnd,
           listVars, loginVars
  <1>2. UserTypes' /\ ListType
    BY TypeHeart DEF UserInv, UserTypes
  <1>3. CASE UNCHANGED <<next, live>>
    BY <1>1, <1>2, <1>3, SameList DEF UserInv, CheckInv, InsertInv
  <1>4. CASE ReapDelete(h)
    <2>1. PICK a : delete_node(a)
      BY <1>4 DEF ReapDelete
    <2>2. CASE \E p, q \in Heap : Unlinks(p, q)
      BY <1>1, <1>2, <2>2, UnlinkKeeps DEF UserInv
    <2> QED BY <1>2, <1>3, <2>1, <2>2, DeleteNode DEF UserInv, ListInv
  <1>5. CASE ~ReapDelete(h)
    BY <1>3, <1>5 DEF heart, heart_pthread, ConnectStep, SocketFails, Select, ReapKeep, ReapEnd,
                      listVars
  <1> QED BY <1>4, <1>5

LEMMA UserNext == UserInv /\ [Next]_vars /\ ~missed' => UserInv'
BY ListLogin, ListHeart, ListReads DEF Next, ReadsList

(***************************************************************************)
(* Pointers and fields keep their ranges, whoever crashes or lists an      *)
(* address twice.                                                          *)
(***************************************************************************)
THEOREM TypeCorrect == Spec => []TypeOK
PROOF
  <1>1. Init => UserTypes /\ CrashType
    BY TypeInit DEF Init, CrashType
  <1> QED BY <1>1, TypeNext, CrashNext, TypeParts, PTL DEF Spec

(***************************************************************************)
(* One heartbeat at a time: a round ends before the timer starts the next. *)
(***************************************************************************)
OneHeart == \A g, h \in Hearts : g = h

(***************************************************************************)
(* The facts about the list hold until check_ip has passed an address it   *)
(* looked for.                                                             *)
(***************************************************************************)
UserListInv == UserTypes /\ (missed \/ UserInv)

LEMMA UserListNext == UserListInv /\ [Next]_vars => UserListInv'
PROOF
  <1> SUFFICES ASSUME UserListInv, [Next]_vars PROVE UserListInv'
    OBVIOUS
  <1>1. UserTypes'
    BY TypeNext DEF UserListInv
  <1>2. CASE missed'
    BY <1>1, <1>2 DEF UserListInv
  <1>3. CASE ~missed'
    BY <1>1, <1>3, MissedStays, UserNext DEF UserListInv
  <1> QED BY <1>2, <1>3

(***************************************************************************)
(* A heartbeat may delete any node under the walk of check_ip, even the    *)
(* node it stands on: no address comes to be listed twice except when the  *)
(* walk lands on another node than the one it has compared, and that one   *)
(* has the address.                                                        *)
(***************************************************************************)
THEOREM UserListedOnce == ASSUME OneHeart PROVE Spec => []NoDuplicateUser
PROOF
  <1>1. UserListInv => NoDuplicateUser
    <2> SUFFICES ASSUME UserInv PROVE NoDuplicateUser
      BY DEF NoDuplicateUser, UserListInv
    <2>1. Linked = InUse
      BY LinkedIsAfter DEF UserInv, UserTypes, ListInv, ListType, InUse
    <2> QED BY <2>1 DEF NoDuplicateUser, UserInv, ListInv
  <1>2. Init => UserListInv
    BY UserInit DEF UserListInv, UserInv
  <1> QED BY <1>1, <1>2, UserListNext, PTL DEF Spec

-----------------------------------------------------------------------------
(***************************************************************************)
(* The clients the theorem about loyal ones is about.                      *)
(***************************************************************************)
Stays == {c \in Loyal : \E i \in DOMAIN Range0 : Range0[i] = c}

(***************************************************************************)
(* The heartbeat stands on the list, since nobody else deletes nodes.      *)
(***************************************************************************)
HeartOnList(h) == IF hpc[h] = "idle" THEN hp[h] = NULL ELSE hp[h] \in OnList(next)

(***************************************************************************)
(* Each socket of the round is found through a node: while it connects on  *)
(* any, afterwards on one that the second loop has yet to reach.           *)
(***************************************************************************)
HasSocket(h, S) == \A c \in unclosed[h] : \E n \in S : fd[n] = h /\ addr[n] = c

HeartSockets(h) ==
  /\ hpc[h] = "connect" => HasSocket(h, InUse)
  /\ hpc[h] = "reap" => HasSocket(h, After(next, hp[h]))

(***************************************************************************)
(* The nodes of the loyal clients still have to be connected to, or are    *)
(* connected; the second loop finds all of them connected.                 *)
(***************************************************************************)
HeartAnswers(h) ==
  /\ hpc[h] = "connect" =>
       \A n \in InUse : addr[n] \in Stays => n \in After(next, hp[h]) \/ Kept(h, n)
  /\ hpc[h] = "reap" => \A n \in After(next, hp[h]) : addr[n] \in Stays => Kept(h, n)

(***************************************************************************)
(* The node of a client that answered the round is on the list.  In the    *)
(* second loop, those passed are connected.                                *)
(***************************************************************************)
HeartExact(h) ==
  /\ hpc[h] # "idle" => \A c \in Clients :
       conn[h][c] = "up" => \E n \in InUse : fd[n] = h /\ addr[n] = c
  /\ hpc[h] = "reap" => \A n \in InUse : n \in After(next, hp[h]) \/ Kept(h, n)

StaysInv == \A c \in Stays : mode[c] = "up" /\ \E n \in InUse : addr[n] = c

HeartInv ==
  /\ linkedlist = Head
  /\ \A h \in Hearts : HeartOnList(h) /\ HeartSockets(h) /\ HeartAnswers(h) /\ HeartExact(h)
  /\ StaysInv

LEMMA HeartInit == Init => HeartInv
PROOF
  <1> SUFFICES ASSUME Init PROVE HeartInv
    OBVIOUS
  <1>1. InUse = live
    BY UserInit
  <1>2. \A h \in Hearts : HeartOnList(h) /\ HeartSockets(h) /\ HeartAnswers(h) /\ HeartExact(h)
    BY DEF Init, HeartOnList, HeartSockets, HeartAnswers, HeartExact
  <1>3. ASSUME NEW c \in Stays PROVE mode[c] = "up" /\ \E n \in InUse : addr[n] = c
    <2>1. c \in Loyal /\ \E i \in DOMAIN Range0 : Range0[i] = c
      BY DEF Stays
    <2>2. PICK i \in DOMAIN Range0 : Range0[i] = c
      BY <2>1
    <2>3. i \in Nodes /\ InRange(i)
      BY UserAssumption DEF Nodes, InRange
    <2>4. i \in live /\ addr[i] = c
      BY <2>2, <2>3 DEF Init
    <2>5. mode[c] = "up"
      BY <2>1 DEF Init
    <2> QED BY <1>1, <2>4, <2>5
  <1> QED BY <1>2, <1>3 DEF Init, HeartInv, StaysInv

(***************************************************************************)
(* Steps of others: the list may grow by an address nobody had.            *)
(***************************************************************************)
LEMMA GrowKeeps ==
  ASSUME UserInv, HeartInv, OnlyGrows, UNCHANGED <<linkedlist, hpc, hp, conn, unclosed>>,
         \A c \in Stays : mode'[c] = mode[c]
  PROVE  HeartInv'
PROOF
  <1>1. linkedlist' = Head
    BY DEF HeartInv
  <1>2. /\ InUse \subseteq InUse'
        /\ \A n \in InUse : addr'[n] = addr[n] /\ fd'[n] = fd[n]
        /\ \A n \in InUse' \ InUse, m \in InUse : addr'[n] # addr[m]
        /\ \A x \in OnList(next) : /\ After(next, x) \subseteq After(next', x)
                                   /\ After(next', x) \subseteq After(next, x) \cup (InUse' \ InUse)
                                   /\ InUse' \ InUse \subseteq After(next', x)
    BY DEF OnlyGrows
  <1>3. \A c \in Stays : mode[c] = "up" /\ \E n \in InUse : addr[n] = c
    BY DEF HeartInv, StaysInv
  <1>4. StaysInv'
    <2> SUFFICES ASSUME NEW c \in Stays PROVE mode'[c] = "up" /\ \E n \in InUse' : addr'[n] = c
      BY DEF StaysInv
    <2> QED BY <1>2, <1>3
  <1>5. ASSUME NEW h \in Hearts
        PROVE  HeartOnList(h)' /\ HeartSockets(h)' /\ HeartAnswers(h)' /\ HeartExact(h)'
    <2>1. HeartOnList(h) /\ HeartSockets(h) /\ HeartAnswers(h) /\ HeartExact(h)
      BY DEF HeartInv
    <2>2. hpc' = hpc /\ hp' = hp /\ conn' = conn /\ unclosed' = unclosed
      OBVIOUS
    <2>3. OnList(next) \subseteq OnList(next')
      BY <1>2 DEF OnList, InUse
    <2>4. HeartOnList(h)'
      BY <2>1, <2>2, <2>3 DEF HeartOnList
    <2>5. hpc[h] # "idle" => hp[h] \in OnList(next)
      BY <2>1 DEF HeartOnList
    <2>6. hp[h] \in OnList(next) => After(next, hp[h]) \subseteq InUse
      BY AfterInUse, InUseType DEF UserInv, UserTypes, InUse
    <2>7. HeartSockets(h)'
      BY <1>2, <2>1, <2>2, <2>5, <2>6 DEF HeartSockets, HasSocket
    <2>8. \A n \in InUse : Kept(h, n)' <=> Kept(h, n)
      BY <1>2, <2>2 DEF Kept
    <2>9. \A n \in InUse' \ InUse : addr'[n] \notin Stays
      BY <1>2, <1>3
    <2>10. ASSUME hpc[h] = "connect", NEW n \in InUse', addr'[n] \in Stays
           PROVE  n \in After(next', hp[h]) \/ Kept(h, n)'
      BY <1>2, <2>1, <2>5, <2>8, <2>9, <2>10 DEF HeartAnswers
    <2>11. ASSUME hpc[h] = "reap", NEW n \in After(next', hp[h]), addr'[n] \in Stays
           PROVE  Kept(h, n)'
      BY <1>2, <2>1, <2>5, <2>6, <2>8, <2>9, <2>11 DEF HeartAnswers
    <2>12. HeartAnswers(h)'
      BY <2>2, <2>10, <2>11 DEF HeartAnswers
    <2>13. ASSUME hpc[h] # "idle", NEW c \in Clients, conn[h][c] = "up"
           PROVE  \E n \in InUse' : fd'[n] = h /\ addr'[n] = c
      <3>1. PICK n \in InUse : fd[n] = h /\ addr[n] = c
        BY <2>1, <2>13 DEF HeartExact
      <3> QED BY <1>2, <3>1
    <2>14. ASSUME hpc[h] = "reap", NEW n \in InUse'
           PROVE  n \in After(next', hp[h]) \/ Kept(h, n)'
      BY <1>2, <2>1, <2>5, <2>8, <2>14 DEF HeartExact
    <2>15. HeartExact(h)'
      BY <2>2, <2>13, <2>14 DEF HeartExact
    <2> QED BY <2>4, <2>7, <2>12, <2>15
  <1> QED BY <1>1, <1>4, <1>5 DEF HeartInv

(***************************************************************************)
(* The steps of the heartbeat itself, first those that delete nothing.     *)
(***************************************************************************)
LEMMA HeartStart ==
  ASSUME UserInv, HeartInv, OneHeart, NEW h \in Hearts, heart(h)
  PROVE  HeartInv'
PROOF
  <1>1. /\ hpc'[h] = "connect" /\ hp'[h] = Head /\ unclosed'[h] = {}
        /\ UNCHANGED <<linkedlist, next, addr, fd, mode>>
    BY DEF heart, listVars, envVars, UserInv, UserTypes, HeartType, HeartInv
  <1>2. InUse' = InUse
    BY <1>1 DEF InUse
  <1>3. StaysInv' /\ linkedlist' = Head
    BY <1>1, <1>2 DEF HeartInv, StaysInv
  <1>4. HeartOnList(h)'
    BY <1>1 DEF HeartOnList, OnList
  <1>5. HeartSockets(h)'
    BY <1>1 DEF HeartSockets, HasSocket
  <1>6. HeartAnswers(h)'
    BY <1>1 DEF HeartAnswers, InUse
  <1>7. HeartExact(h)'
    <2>1. \A c \in Clients : conn'[h][c] = "none"
      BY DEF heart, NoAnswers, UserInv, UserTypes, HeartType
    <2> QED BY <1>1, <2>1 DEF HeartExact
  <1> QED BY <1>3, <1>4, <1>5, <1>6, <1>7 DEF HeartInv, OneHeart

LEMMA HeartConnect ==
  ASSUME UserInv, HeartInv, OneHeart, NEW h \in Hearts, ConnectStep(h)
  PROVE  HeartInv'
PROOF
  <1>1. PICK n : n = next[hp[h]]
    OBVIOUS
  <1>2. /\ hpc[h] = "connect" /\ n # NULL /\ fd' = [fd EXCEPT ![n] = h]
        /\ conn' = [conn EXCEPT ![h][addr[n]] = mode[addr[n]]]
        /\ unclosed' = [unclosed EXCEPT ![h] = @ \cup {addr[n]}]
        /\ hp' = [hp EXCEPT ![h] = n] /\ UNCHANGED <<linkedlist, next, addr, mode, hpc>>
    BY <1>1 DEF ConnectStep, End, envVars
  <1>3. /\ next \in Nexts /\ InUse \subseteq Nodes
        /\ HeartOnList(h) /\ HeartSockets(h) /\ HeartAnswers(h)
        /\ \A m, k \in InUse : addr[m] = addr[k] => m = k
    BY InUseType DEF UserInv, UserTypes, ListInv, HeartInv
  <1>4. hp[h] \in OnList(next) /\ hp[h] \in Heap /\ After(next, hp[h]) \subseteq InUse
    BY <1>2, <1>3, AfterInUse DEF HeartOnList, InUse
  <1>5. After(next, hp[h]) = {n} \cup After(next, n) /\ n \in InUse /\ n \in Nodes
    BY <1>1, <1>2, <1>3, <1>4, AfterStep
  <1>6. /\ hp'[h] = n /\ unclosed'[h] = unclosed[h] \cup {addr[n]}
        /\ fd'[n] = h /\ \A m \in InUse : m # n => fd'[m] = fd[m]
    BY <1>2, <1>3, <1>5 DEF UserInv, UserTypes, HeartType, ListType
  <1>7. conn'[h][addr[n]] = mode[addr[n]] /\ \A c \in Clients : c # addr[n] => conn'[h][c] = conn[h][c]
    <2>1. addr[n] \in Clients /\ conn[h] \in [Clients -> {"none", "up", "refuse", "silent"}]
      BY <1>5 DEF UserInv, UserTypes, ListType, HeartType
    <2> QED BY <1>2, <2>1 DEF UserInv, UserTypes, HeartType
  <1>8. InUse' = InUse
    BY <1>2 DEF InUse
  <1>9. StaysInv' /\ linkedlist' = Head
    BY <1>2, <1>8 DEF HeartInv, StaysInv
  <1>10. HeartOnList(h)'
    BY <1>2, <1>5, <1>6 DEF HeartOnList, OnList, InUse
  <1>11. HeartSockets(h)'
    <2> SUFFICES ASSUME NEW c \in unclosed'[h] PROVE \E m \in InUse : fd'[m] = h /\ addr[m] = c
      BY <1>2, <1>8 DEF HeartSockets, HasSocket
    <2> QED BY <1>2, <1>3, <1>5, <1>6 DEF HeartSockets, HasSocket
  <1>12. HeartAnswers(h)'
    <2> SUFFICES ASSUME NEW m \in InUse, addr[m] \in Stays
                 PROVE  m \in After(next, n) \/ Kept(h, m)'
      BY <1>2, <1>6, <1>8 DEF HeartAnswers
    <2>1. CASE m = n
      <3>1. mode[addr[n]] = "up"
        BY <2>1 DEF HeartInv, StaysInv
      <3> QED BY <1>2, <1>6, <1>7, <2>1, <3>1 DEF Kept
    <2>2. CASE m # n
      <3>1. addr[m] # addr[n] /\ addr[m] \in Clients
        BY <1>3, <1>5, <2>2 DEF UserInv, UserTypes, ListType
      <3>2. m \in After(next, n) \/ Kept(h, m)
        BY <1>2, <1>3, <1>5, <2>2 DEF HeartAnswers
      <3> QED BY <1>2, <1>6, <1>7, <2>2, <3>1, <3>2 DEF Kept
    <2> QED BY <2>1, <2>2
  <1>13. HeartExact(h)'
    <2> SUFFICES ASSUME NEW c \in Clients, conn'[h][c] = "up"
                 PROVE  \E m \in InUse : fd'[m] = h /\ addr[m] = c
      BY <1>2, <1>8 DEF HeartExact
    <2>1. CASE c = addr[n]
      BY <1>5, <1>6, <2>1
    <2>2. CASE c # addr[n]
      <3>1. PICK m \in InUse : fd[m] = h /\ addr[m] = c
        BY <1>2, <1>7, <2>2 DEF HeartInv, HeartExact
      <3> QED BY <1>6, <2>2, <3>1
    <2> QED BY <2>1, <2>2
  <1> QED BY <1>9, <1>10, <1>11, <1>12, <1>13 DEF HeartInv, OneHeart

LEMMA HeartSelect ==
  ASSUME UserInv, HeartInv, OneHeart, NEW h \in Hearts, Select(h)
  PROVE  HeartInv'
PROOF
  <1>1. /\ hpc[h] = "connect"
        /\ UNCHANGED <<linkedlist, next, addr, fd, mode, conn, unclosed>>
    BY DEF Select, listVars, envVars
  <1>2. HeartOnList(h) /\ HeartSockets(h) /\ HeartAnswers(h) /\ HeartExact(h) /\ next \in Nexts
    BY DEF HeartInv, UserInv, UserTypes, ListType
  <1>3. hp[h] \in OnList(next) /\ hp[h] \in Heap
    BY <1>1, <1>2, AfterInUse DEF HeartOnList
  <1>4. next[hp[h]] = NULL
    BY <1>3, Numbers DEF Select, End, Heap
  <1>5. After(next, hp[h]) = {}
    BY <1>2, <1>3, <1>4, AfterEnd
  <1>6. InUse' = InUse
    BY <1>1 DEF InUse
  <1>7. StaysInv' /\ linkedlist' = Head
    BY <1>1, <1>6 DEF HeartInv, StaysInv
  <1>8. CASE Answered(h)
    <2>1. hpc'[h] = "reap" /\ hp'[h] = Head
      BY <1>8 DEF Select, UserInv, UserTypes, HeartType
    <2>2. HeartOnList(h)'
      BY <1>1, <2>1 DEF HeartOnList, OnList
    <2>3. HeartSockets(h)'
      BY <1>1, <1>2, <2>1 DEF HeartSockets, HasSocket, InUse
    <2>4. HeartAnswers(h)'
      BY <1>1, <1>2, <1>5, <2>1 DEF HeartAnswers, Kept, InUse
    <2>5. HeartExact(h)'
      BY <1>1, <1>2, <2>1 DEF HeartExact, InUse
    <2> QED BY <1>7, <2>2, <2>3, <2>4, <2>5 DEF HeartInv, OneHeart
  <1>9. CASE ~Answered(h)
    <2>1. hpc'[h] = "idle" /\ hp'[h] = NULL
      BY <1>9 DEF Select, UserInv, UserTypes, HeartType
    <2>2. HeartOnList(h)' /\ HeartSockets(h)' /\ HeartAnswers(h)' /\ HeartExact(h)'
      BY <2>1 DEF HeartOnList, HeartSockets, HeartAnswers, HeartExact
    <2> QED BY <1>7, <2>2 DEF HeartInv, OneHeart
  <1> QED BY <1>8, <1>9

LEMMA HeartKeep ==
  ASSUME UserInv, HeartInv, OneHeart, NEW h \in Hearts, ReapKeep(h)
  PROVE  HeartInv'
PROOF
  <1>1. PICK n : n = next[hp[h]]
    OBVIOUS
  <1>2. /\ hpc[h] = "reap" /\ n # NULL /\ fd[n] = h
        /\ unclosed' = [unclosed EXCEPT ![h] = @ \ {addr[n]}]
        /\ hp' = [hp EXCEPT ![h] = n] /\ UNCHANGED <<linkedlist, next, addr, fd, mode, hpc, conn>>
    BY <1>1 DEF ReapKeep, End, Kept, CloseFd, listVars, envVars
  <1>3. /\ next \in Nexts /\ InUse \subseteq Nodes
        /\ HeartOnList(h) /\ HeartSockets(h) /\ HeartAnswers(h)
    BY InUseType DEF UserInv, UserTypes, HeartInv
  <1>4. hp[h] \in OnList(next) /\ hp[h] \in Heap /\ After(next, hp[h]) \subseteq InUse
    BY <1>2, <1>3, AfterInUse DEF HeartOnList, InUse
  <1>5. After(next, hp[h]) = {n} \cup After(next, n) /\ n \in InUse
    BY <1>1, <1>2, <1>3, <1>4, AfterStep
  <1>6. hp'[h] = n /\ unclosed'[h] = unclosed[h] \ {addr[n]}
    BY <1>2 DEF UserInv, UserTypes, HeartType
  <1>7. InUse' = InUse
    BY <1>2 DEF InUse
  <1>8. StaysInv' /\ linkedlist' = Head
    BY <1>2, <1>7 DEF HeartInv, StaysInv
  <1>9. HeartOnList(h)'
    BY <1>2, <1>5, <1>6 DEF HeartOnList, OnList, InUse
  <1>10. HeartSockets(h)'
    BY <1>2, <1>3, <1>5, <1>6 DEF HeartSockets, HasSocket
  <1>11. HeartAnswers(h)'
    BY <1>2, <1>3, <1>5, <1>6 DEF HeartAnswers, Kept
  <1>12. HeartExact(h)'
    <2>1. HeartExact(h) /\ Kept(h, n)
      BY <1>1 DEF HeartInv, ReapKeep
    <2> QED BY <1>2, <1>5, <1>6, <1>7, <2>1 DEF HeartExact, Kept
  <1> QED BY <1>8, <1>9, <1>10, <1>11, <1>12 DEF HeartInv, OneHeart

LEMMA HeartFails ==
  ASSUME UserInv, HeartInv, OneHeart, NEW h \in Hearts, SocketFails(h)
  PROVE  HeartInv'
PROOF
  <1>1. hpc'[h] = "idle" /\ hp'[h] = NULL /\ UNCHANGED <<linkedlist, next, addr, mode>>
    BY DEF SocketFails, listVars, envVars, UserInv, UserTypes, HeartType
  <1>2. InUse' = InUse
    BY <1>1 DEF InUse
  <1>3. StaysInv' /\ linkedlist' = Head
    BY <1>1, <1>2 DEF HeartInv, StaysInv
  <1>4. HeartOnList(h)' /\ HeartSockets(h)' /\ HeartAnswers(h)' /\ HeartExact(h)'
    BY <1>1 DEF HeartOnList, HeartSockets, HeartAnswers, HeartExact
  <1> QED BY <1>3, <1>4 DEF HeartInv, OneHeart

LEMMA HeartEnd ==
  ASSUME UserInv, HeartInv, OneHeart, NEW h \in Hearts, ReapEnd(h)
  PROVE  HeartInv'
PROOF
  <1>1. hpc'[h] = "idle" /\ hp'[h] = NULL /\ UNCHANGED <<linkedlist, next, addr, mode>>
    BY DEF ReapEnd, listVars, envVars, UserInv, UserTypes, HeartType
  <1>2. InUse' = InUse
    BY <1>1 DEF InUse
  <1>3. StaysInv' /\ linkedlist' = Head
    BY <1>1, <1>2 DEF HeartInv, StaysInv
  <1>4. HeartOnList(h)' /\ HeartSockets(h)' /\ HeartAnswers(h)' /\ HeartExact(h)'
    BY <1>1 DEF HeartOnList, HeartSockets, HeartAnswers, HeartExact
  <1> QED BY <1>3, <1>4 DEF HeartInv, OneHeart

(***************************************************************************)
(* delete_node is given the address of the node in front of the heartbeat, *)
(* and since no other has that address it unlinks this node.               *)
(***************************************************************************)
LEMMA HeartDelete ==
  ASSUME UserInv, HeartInv, OneHeart, NEW h \in Hearts, ReapDelete(h)
  PROVE  HeartInv'
PROOF
  <1>1. PICK n : n = next[hp[h]]
    OBVIOUS
  <1>2. /\ hpc[h] = "reap" /\ n # NULL /\ ~Kept(h, n) /\ delete_node(addr[n]) /\ CloseFd(h, n)
        /\ UNCHANGED <<addr, mode, hpc, hp, conn, lpc, lp, fdaddr, node, seen>>
        /\ fd' = IF fd[n] = h /\ conn[h][addr[n]] = "refuse"
                 THEN [fd EXCEPT ![n] = NoFd] ELSE fd
    BY <1>1 DEF ReapDelete, End, envVars, loginVars
  <1>3. /\ next \in Nexts /\ InUse \subseteq Nodes /\ Chained(next) /\ ListType
        /\ HeartOnList(h) /\ HeartSockets(h) /\ HeartAnswers(h)
        /\ \A m, k \in InUse : addr[m] = addr[k] => m = k
    BY InUseType DEF UserInv, UserTypes, ListInv, HeartInv
  <1>4. hp[h] \in OnList(next) /\ hp[h] \in Heap /\ After(next, hp[h]) \subseteq InUse
    BY <1>2, <1>3, AfterInUse DEF HeartOnList, InUse
  <1>5. n \in After(next, hp[h]) /\ n \in InUse /\ n \in Nodes
    BY <1>1, <1>2, <1>3, <1>4, AfterStep
  <1>6. Unlinks(hp[h], n)
    <2>1. PICK p, q \in Heap : Unlinks(p, q) /\ addr[q] = addr[n]
      BY <1>2, <1>3, <1>5, DeleteNode DEF InUse
    <2>2. q \in InUse
      BY <1>2, <2>1, UnlinkKeeps
    <2>3. q = n
      BY <1>3, <1>5, <2>1, <2>2
    <2>4. p = hp[h]
      BY <1>1, <1>2, <1>3, <1>4, <2>1, <2>3 DEF Unlinks, Chained
    <2> QED BY <2>1, <2>3, <2>4
  <1>7. /\ InUse' = InUse \ {n} /\ hp[h] # n
        /\ After(next', hp[h]) \subseteq After(next, hp[h])
        /\ After(next, hp[h]) \subseteq After(next', hp[h]) \cup {n}
    BY <1>2, <1>4, <1>6, UnlinkKeeps
  <1>8. After(next', hp[h]) \subseteq InUse'
    <2>1. hp[h] \in OnList(next') /\ next' \in Nexts
      BY <1>4, <1>6, <1>7 DEF OnList, InUse, Unlinks, Changed
    <2> QED BY <2>1, AfterInUse DEF InUse
  <1>9. \A m \in Nodes : m # n => fd'[m] = fd[m]
    BY <1>2, <1>3 DEF ListType
  <1>10. linkedlist' = Head
    BY <1>6 DEF Unlinks, HeartInv
  <1>11. StaysInv'
    <2> SUFFICES ASSUME NEW c \in Stays PROVE mode[c] = "up" /\ \E m \in InUse' : addr[m] = c
      BY <1>2 DEF StaysInv
    <2>1. mode[c] = "up" /\ \E m \in InUse : addr[m] = c
      BY DEF HeartInv, StaysInv
    <2>2. addr[n] \notin Stays
      BY <1>2, <1>3, <1>5 DEF HeartAnswers
    <2> QED BY <1>7, <2>1, <2>2
  <1>12. HeartOnList(h)'
    BY <1>2, <1>4, <1>7 DEF HeartOnList, OnList, InUse
  <1>13. HeartSockets(h)'
    <2> SUFFICES ASSUME NEW c \in unclosed'[h]
                 PROVE  \E m \in After(next', hp[h]) : fd'[m] = h /\ addr[m] = c
      BY <1>2 DEF HeartSockets, HasSocket
    <2>1. c \in unclosed[h] /\ ~(fd[n] = h /\ c = addr[n])
      BY <1>2 DEF CloseFd, UserInv, UserTypes, HeartType
    <2>2. PICK m \in After(next, hp[h]) : fd[m] = h /\ addr[m] = c
      BY <1>2, <1>3, <2>1 DEF HeartSockets, HasSocket
    <2>3. m # n
      BY <2>1, <2>2
    <2> QED BY <1>3, <1>4, <1>7, <1>9, <2>2, <2>3
  <1>14. HeartAnswers(h)'
    <2> SUFFICES ASSUME NEW m \in After(next', hp[h]), addr[m] \in Stays
                 PROVE  Kept(h, m)'
      BY <1>2 DEF HeartAnswers
    <2>1. m # n /\ m \in Nodes /\ Kept(h, m)
      BY <1>2, <1>3, <1>4, <1>7, <1>8 DEF HeartAnswers
    <2> QED BY <1>2, <1>9, <2>1 DEF Kept
  <1>15. HeartExact(h)'
    <2>1. HeartExact(h) /\ InUse' \subseteq Nodes
      BY <1>3, <1>7 DEF HeartInv
    <2>2. ASSUME NEW c \in Clients, conn[h][c] = "up"
          PROVE  \E m \in InUse' : fd'[m] = h /\ addr[m] = c
      <3>1. PICK m \in InUse : fd[m] = h /\ addr[m] = c
        BY <1>2, <2>1, <2>2 DEF HeartExact
      <3>2. m # n
        BY <1>2, <2>2, <3>1 DEF Kept
      <3> QED BY <1>3, <1>7, <1>9, <3>1, <3>2
    <2>3. ASSUME NEW m \in InUse' PROVE m \in After(next', hp[h]) \/ Kept(h, m)'
      <3>1. m \in InUse /\ m # n /\ m \in Nodes
        BY <1>3, <1>7
      <3>2. m \in After(next, hp[h]) \/ Kept(h, m)
        BY <1>2, <2>1, <3>1 DEF HeartExact
      <3> QED BY <1>2, <1>7, <1>9, <3>1, <3>2 DEF Kept
    <2> QED BY <1>2, <2>2, <2>3 DEF HeartExact
  <1> QED BY <1>10, <1>11, <1>12, <1>13, <1>14, <1>15 DEF HeartInv, OneHeart

LEMMA HeartNext ==
  ASSUME OneHeart
  PROVE  UserInv /\ HeartInv /\ [Next]_vars /\ ~missed' => HeartInv'
PROOF
  <1> SUFFICES ASSUME UserInv, HeartInv, [Next]_vars, ~missed' PROVE HeartInv'
    OBVIOUS
  <1>1. CASE login_pthread
    <2>1. UNCHANGED <<linkedlist, hpc, hp, conn, unclosed, mode>>
      BY <1>1 DEF login_pthread, CheckTest, CheckCompare, CheckFound, CheckAdvance, node_create,
                  InsertTest, InsertAdvance, InsertLink, listVars, envVars, heartVars
    <2> QED BY <1>1, <2>1, ListLogin, GrowKeeps
  <1>2. CASE \E h \in Hearts : heart(h) \/ heart_pthread(h)
    BY <1>2, HeartStart, HeartConnect, HeartFails, HeartSelect, HeartKeep, HeartDelete, HeartEnd
    DEF heart_pthread
  <1>3. CASE ReadsList
    <2>1. UNCHANGED <<linkedlist, next, addr, fd, hpc, hp, conn, unclosed>>
      BY <1>3, TypeReads DEF UserInv
    <2>2. ASSUME NEW c \in Stays PROVE mode'[c] = mode[c]
      <3>1. CASE \E d \in Clients : ClientChange(d)
        <4>1. PICK d \in Clients : ClientChange(d)
          BY <3>1
        <4>2. d # c
          BY <4>1 DEF ClientChange, Stays
        <4> QED BY <4>1, <4>2 DEF ClientChange, UserInv, UserTypes, EnvType
      <3>2. CASE ~ \E d \in Clients : ClientChange(d)
        BY <1>3, <3>2 DEF ReadsList, handle_accpet, ctrldata, CtrlTest, CtrlAdd, CtrlAdvance,
                          ctrl_data_pthread, Crash, vars, envVars
      <3> QED BY <3>1, <3>2
    <2> QED BY <2>1, <2>2, ListSame, GrowKeeps
  <1> QED BY <1>1, <1>2, <1>3 DEF Next, ReadsList

(***************************************************************************)
(* All of it, until check_ip has passed an address it looked for.          *)
(***************************************************************************)
RoundInv == UserTypes /\ (missed \/ (UserInv /\ HeartInv))

LEMMA RoundInit == Init => RoundInv
BY UserInit, HeartInit DEF RoundInv, UserInv

LEMMA RoundNext == ASSUME OneHeart PROVE RoundInv /\ [Next]_vars => RoundInv'
PROOF
  <1> SUFFICES ASSUME RoundInv, [Next]_vars PROVE RoundInv'
    OBVIOUS
  <1>1. UserTypes'
    BY TypeNext DEF RoundInv
  <1>2. CASE missed'
    BY <1>1, <1>2 DEF RoundInv
  <1>3. CASE ~missed'
    <2>1. ~missed /\ UserInv /\ HeartInv
      BY <1>3, MissedStays DEF RoundInv
    <2>2. UserInv' /\ HeartInv'
      BY <1>3, <2>1, UserNext, HeartNext
    <2> QED BY <1>1, <2>2 DEF RoundInv
  <1> QED BY <1>2, <1>3

(***************************************************************************)
(* With one heartbeat at a time, and until an address is listed twice, the *)
(* list holds allocated nodes only, the heartbeat never follows a freed    *)
(* pointer, and the head is never lost.                                    *)
(***************************************************************************)
THEOREM ListStaysLive == ASSUME OneHeart PROVE Spec => []ListIsLive
PROOF
  <1>1. RoundInv => ListIsLive
    <2> SUFFICES ASSUME UserInv, HeartInv PROVE ListIsLive
      BY DEF RoundInv, ListIsLive
    <2>1. Linked = InUse /\ InUse \subseteq live
      BY LinkedIsAfter DEF UserInv, UserTypes, ListInv, ListType, InUse
    <2>2. ASSUME NEW h \in Hearts PROVE hp[h] \in live \cup {Head, NULL}
      BY <2>1 DEF HeartInv, HeartOnList, OnList, InUse
    <2> QED BY <2>1, <2>2 DEF ListIsLive, HeartInv
  <1> QED BY <1>1, RoundInit, RoundNext, PTL DEF Spec

(***************************************************************************)
(* The second loop of a round closes every socket the first one opened,    *)
(* whatever is inserted or deleted between them, until an address is       *)
(* listed twice.                                                           *)
(***************************************************************************)
THEOREM RoundClosesSockets == ASSUME OneHeart PROVE Spec => []SocketsClosed
PROOF
  <1>1. RoundInv => SocketsClosed
    <2> SUFFICES ASSUME UserInv, HeartInv, NEW h \in Hearts, hpc[h] = "reap"
                 PROVE  unclosed[h] \subseteq {addr[n] : n \in {m \in Ahead(hp[h]) : fd[m] = h}}
      BY DEF RoundInv, SocketsClosed
    <2>1. hp[h] \in OnList(next) /\ HasSocket(h, After(next, hp[h]))
      BY DEF HeartInv, HeartOnList, HeartSockets
    <2>2. Ahead(hp[h]) = After(next, hp[h])
      BY <2>1, AheadIsAfter DEF UserInv, UserTypes, ListInv, ListType
    <2> QED BY <2>1, <2>2 DEF HasSocket
  <1> QED BY <1>1, RoundInit, RoundNext, PTL DEF Spec

(***************************************************************************)
(* A client of the configured range that answers every heartbeat stays on  *)
(* the list, whatever other clients and threads do, until an address is    *)
(* listed twice.                                                           *)
(***************************************************************************)
THEOREM LoyalUserStays == ASSUME OneHeart PROVE Spec => []LoyalStaysListed
PROOF
  <1>1. RoundInv => LoyalStaysListed
    <2> SUFFICES ASSUME UserInv, HeartInv, NEW c \in Loyal, \E i \in DOMAIN Range0 : Range0[i] = c
                 PROVE  c \in Listed
      BY DEF RoundInv, LoyalStaysListed
    <2>1. Linked = InUse
      BY LinkedIsAfter DEF UserInv, UserTypes, ListInv, ListType, InUse
    <2>2. \E n \in InUse : addr[n] = c
      BY DEF HeartInv, StaysInv, Stays
    <2> QED BY <2>1, <2>2 DEF Listed
  <1> QED BY <1>1, RoundInit, RoundNext, PTL DEF Spec

(***************************************************************************)
(* A round that somebody answered leaves exactly the clients that answered *)
(* it on the list, whoever logs in or goes away while its loops run, until *)
(* an address is listed twice.                                             *)
(***************************************************************************)
THEOREM RoundLeavesAnswers == ASSUME OneHeart PROVE Spec => []RoundIsExact
PROOF
  <1>1. RoundInv => RoundIsExact
    <2> SUFFICES ASSUME UserInv, HeartInv, NEW h \in Hearts, hpc[h] = "reap"
                 PROVE  /\ \A c \in Clients : conn[h][c] = "up" => c \in Listed
                        /\ End(hp[h]) => \A c \in Listed : conn[h][c] = "up"
      BY DEF RoundInv, RoundIsExact
    <2>1. Linked = InUse /\ next \in Nexts
      BY LinkedIsAfter DEF UserInv, UserTypes, ListInv, ListType, InUse
    <2>2. HeartExact(h) /\ hp[h] \in OnList(next)
      BY DEF HeartInv, HeartOnList
    <2>3. ASSUME NEW c \in Clients, conn[h][c] = "up" PROVE c \in Listed
      BY <2>1, <2>2, <2>3 DEF HeartExact, Listed
    <2>4. ASSUME End(hp[h]), NEW c \in Listed PROVE conn[h][c] = "up"
      <3>1. hp[h] \in Heap /\ next[hp[h]] = NULL
        BY <2>1, <2>2, <2>4, AfterInUse, Numbers DEF End, Heap
      <3>2. After(next, hp[h]) = {}
        BY <2>1, <3>1, AfterEnd
      <3> QED BY <2>1, <2>2, <3>2 DEF HeartExact, Listed, Kept
    <2> QED BY <2>3, <2>4
  <1> QED BY <1>1, RoundInit, RoundNext, PTL DEF Spec

===============================================================================
