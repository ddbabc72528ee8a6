-------------------------- MODULE LinkedListProofs --------------------------
(***************************************************************************)
(* The linked list, in a memory of any size and for any values: its nodes  *)
(* and cells are accounted for, no operation follows a dangling pointer,   *)
(* and to its callers the list is a sequence of values.                    *)
(***************************************************************************)
EXTENDS LinkedList, WellFoundedInduction, FiniteSetTheorems, SequenceTheorems, TLAPS

USE DEF llVars, nodeVars, heapVars, callVars, localVars

(* s names the nodes of the list in order.                                 *)
Order(s) == /\ s \in [1 .. count -> nodes]
            /\ \A i, j \in 1 .. count : s[i] = s[j] => i = j
            /\ \A m \in nodes : \E i \in 1 .. count : m = s[i]

At(s, i) == IF i \in 1 .. count THEN s[i] ELSE Null

Linked(s) == head = At(s, 1) /\ \A i \in 1 .. count : next[s[i]] = At(s, i + 1)

Whole(s) == Order(s) /\ Linked(s)

Stored(s) == [i \in 1 .. count |-> cell[data[s[i]]]]

(* The first k - 1 values are not the one that is looked for.              *)
NotBefore(s, k) == \A i \in 1 .. k - 1 : cell[data[s[i]]] # key

(* The calls of a recursion that has gone down from the head.              *)
Called(s) == \A i \in 1 .. Len(stack) : stack[i] = s[Len(stack) + 1 - i]

(* Where an operation stands, place by place.                              *)
Resting(s) == Whole(s) /\ trav = Null /\ prev = Null /\ stack = <<>>

Seeking(s) ==
    /\ Whole(s) /\ before = Stored(s) /\ prev = Null /\ stack = <<>>
    /\ op \in {"find", "delete", "remove"} /\ key \in Values
    /\ \E k \in 1 .. count + 1 : trav = At(s, k) /\ NotBefore(s, k)

SeekingBefore(s) ==
    /\ Whole(s) /\ before = Stored(s) /\ stack = <<>>
    /\ op \in {"delete", "remove"} /\ key \in Values
    /\ \E k \in 1 .. count : \E j \in 1 .. k - 1 :
          /\ trav = s[k] /\ cell[data[s[k]]] = key /\ NotBefore(s, k)
          /\ prev = s[j]
          /\ op = "delete" => k = count

(* The first k - 1 links are turned.                                       *)
Turning(s) ==
    /\ Order(s) /\ before = Stored(s) /\ stack = <<>>
    /\ \E k \in 2 .. count :
          /\ prev = s[k - 1] /\ trav = s[k]
          /\ \A i \in 1 .. k - 1 : next[s[i]] = At(s, i - 1)
          /\ \A i \in k .. count : next[s[i]] = At(s, i + 1)

SeekingLast(s) ==
    /\ Whole(s) /\ before = Stored(s) /\ prev = Null /\ stack = <<>>
    /\ op \in {"turn2", "turn3"} /\ count > 1
    /\ \E k \in 1 .. count : trav = s[k]

Calling(s) ==
    /\ Whole(s) /\ before = Stored(s) /\ prev = Null
    /\ op \in {"turn2", "turn3"} /\ count > 1
    /\ trav = s[count] /\ Called(s)
    /\ Len(stack) \in 1 .. count /\ (op = "turn2" => Len(stack) < count)

(* The links behind the calls that have returned are turned; turn2 turns   *)
(* the link to the node of the call, turn3 the one from it.                *)
TurnedBehind(s) ==
    IF op = "turn2"
    THEN /\ Len(stack) < count
         /\ \A i \in 1 .. Len(stack) : next[s[i]] = s[i + 1]
         /\ \A i \in Len(stack) + 2 .. count : next[s[i]] = s[i - 1]
    ELSE \A i \in Len(stack) + 1 .. count : next[s[i]] = At(s, i - 1)

Returning(s) ==
    /\ Order(s) /\ before = Stored(s) /\ prev = Null
    /\ op \in {"turn2", "turn3"} /\ count > 1
    /\ head = s[1] /\ trav = s[count] /\ Called(s)
    /\ Len(stack) <= count /\ TurnedBehind(s)

(* The nodes before the k-th are gone.                                     *)
Freeing(s) ==
    /\ s \in [1 .. count -> Nodes] /\ stack = <<>>
    /\ \A i, j \in 1 .. count : s[i] = s[j] => i = j
    /\ \E k \in 1 .. count + 1 :
          /\ trav = At(s, k) /\ prev = At(s, k + 1)
          /\ \A i \in k .. count : s[i] \in nodes /\ next[s[i]] = At(s, i + 1)
          /\ \A m \in nodes : \E i \in k .. count : m = s[i]

Shape(s) == /\ pc = "idle" => Resting(s)
            /\ pc = "seek" => Seeking(s)
            /\ pc = "before" => SeekingBefore(s)
            /\ pc = "turn" => Turning(s)
            /\ pc = "last" => SeekingLast(s)
            /\ pc = "call" => Calling(s)
            /\ pc = "back" => Returning(s)
            /\ pc = "free" => Freeing(s)

(* Every node owns a cell of its own, and the other cells are lost.        *)
CellInv == /\ \A m, n \in nodes : data[m] = data[n] => m = n
           /\ \A c \in cells : c \in lost \/ \E m \in nodes : c = data[m]
           /\ \A m \in nodes : data[m] \in cells /\ data[m] \notin lost

ListInv == TypeOK /\ CellInv /\ \E s : Shape(s)
-----------------------------------------------------------------------------
(* The least-number principle, for a set: the relation < is well-founded.  *)
LEMMA LeastElement ==
  ASSUME NEW T \in SUBSET Nat, T # {}
  PROVE  \E m \in T : \A k \in T : m <= k
<1> DEFINE R == {e \in Nat \X Nat : e[1] < e[2]}
<1>1. IsWellFoundedOn(R, Nat)
  <2>1. OpToRel(<, Nat) = R
    BY Zenon DEF OpToRel
  <2> QED
    BY <2>1, NatLessThanWellFounded, Zenon
<1>2. \A a, b \in Nat : a < b => <<a, b>> \in R
  OBVIOUS
<1> HIDE DEF R
<1>3. PICK m \in T : \A y \in T : ~ (<<y, m>> \in R)
  BY <1>1, WFMin
<1>4. ASSUME NEW k \in T PROVE m <= k
  <2>1. k \in Nat /\ m \in Nat
    OBVIOUS
  <2>2. ~ (k < m)
    BY <1>2, <1>3, <2>1
  <2> QED
    BY <2>1, <2>2
<1> QED
  BY <1>4

(* kmalloc answers an address that is free.                                *)
LEMMA FreshIsFree ==
  ASSUME NEW free \in SUBSET Nat, free # {}
  PROVE  Fresh(free) \in free
BY LeastElement DEF Fresh

(* NodeAt is the recursive function it is written as, and follows s.       *)
LEMMA NodesInOrder ==
  ASSUME TypeOK, NEW s, Whole(s)
  PROVE  \A k \in 0 .. count - 1 : NodeAt[k] = s[k + 1]
<1> DEFINE N == Cardinality(Nodes)
           f == [k \in 0 .. N |-> At(s, k + 1)]
           P(g) == g = [k \in 0 .. N |->
                          IF k = 0 THEN head
                          ELSE IF g[k - 1] = Null THEN Null ELSE next[g[k - 1]]]
<1>0. N \in Nat /\ count \in 0 .. N
  BY ListAssumption, FS_CardinalityType DEF TypeOK
<1>1. P(f)
  <2>1. ASSUME NEW k \in 0 .. N
        PROVE  f[k] = IF k = 0 THEN head
                      ELSE IF f[k - 1] = Null THEN Null ELSE next[f[k - 1]]
    <3>1. CASE k = 0
      BY <1>0, <3>1 DEF Whole, Linked
    <3>2. CASE k # 0 /\ k \in 1 .. count
      <4>1. f[k - 1] = s[k] /\ f[k - 1] # Null
        <5>1. k - 1 \in 0 .. N /\ (k - 1) + 1 = k
          BY <1>0, <3>2
        <5>2. f[k - 1] = s[k]
          BY <3>2, <5>1 DEF At
        <5>3. s[k] \in nodes
          BY <3>2 DEF Whole, Order
        <5> QED
          BY <5>2, <5>3, ListAssumption DEF TypeOK
      <4>2. f[k] = next[s[k]]
        BY <1>0, <3>2 DEF Whole, Linked
      <4> QED
        BY <3>2, <4>1, <4>2
    <3>3. CASE k # 0 /\ k \notin 1 .. count
      BY <1>0, <3>3 DEF At
    <3> QED
      BY <3>1, <3>2, <3>3
  <2> QED
    BY <2>1
<1>2. NodeAt = CHOOSE g : P(g)
  BY DEF NodeAt
<1> HIDE DEF P
<1>3. P(NodeAt)
  BY <1>1, <1>2
<1>4. \A k \in 0 .. N : NodeAt[k] = IF k = 0 THEN head
                        ELSE IF NodeAt[k - 1] = Null THEN Null ELSE next[NodeAt[k - 1]]
  BY <1>3 DEF P
<1> DEFINE T == {k \in 0 .. count - 1 : NodeAt[k] # s[k + 1]}
<1>5. SUFFICES ASSUME T # {} PROVE FALSE
  OBVIOUS
<1>6. PICK m \in T : \A k \in T : m <= k
  <2>1. T \in SUBSET Nat
    BY <1>0
  <2> QED
    BY <1>5, <2>1, LeastElement
<1>7. CASE m = 0
  BY <1>0, <1>4, <1>6, <1>7 DEF Whole, Linked, At
<1>8. CASE m # 0
  <2>1. m - 1 \in 0 .. count - 1 /\ m - 1 \notin T
    BY <1>0, <1>6, <1>8
  <2>2. NodeAt[m - 1] = s[m] /\ s[m] # Null
    <3>1. m \in 1 .. count /\ (m - 1) + 1 = m
      BY <1>0, <1>6, <1>8
    <3>2. s[m] \in nodes
      BY <3>1 DEF Whole, Order
    <3> QED
      BY <2>1, <3>1, <3>2, ListAssumption DEF TypeOK
  <2>3. NodeAt[m] = next[s[m]]
    BY <1>0, <1>4, <1>6, <1>8, <2>2
  <2> QED
    BY <1>0, <1>6, <1>8, <2>3 DEF Whole, Linked, At
<1> QED
  BY <1>7, <1>8

LEMMA ContentsInOrder == \A s : TypeOK /\ Whole(s) => Contents = Stored(s)
<1> SUFFICES ASSUME NEW s, TypeOK, Whole(s) PROVE Contents = Stored(s)
  OBVIOUS
<1>1. count \in Int
  BY ListAssumption, FS_CardinalityType DEF TypeOK
<1>2. \A i \in 1 .. count : NodeAt[i - 1] = s[i]
  BY <1>1, NodesInOrder
<1> QED
  BY <1>2 DEF Contents, Stored

LEMMA ContentsNext == (\A s : TypeOK /\ Whole(s) => Contents = Stored(s))'
BY ContentsInOrder, PTL

(* There are as many nodes as node_count says.                             *)
LEMMA NodesCounted ==
  ASSUME TypeOK, NEW s, Order(s)
  PROVE  Cardinality(nodes) = count
<1>1. count \in Nat
  BY ListAssumption, FS_CardinalityType DEF TypeOK
<1>2. s \in Bijection(1 .. count, nodes)
  BY DEF Order, Bijection, Injection, Surjection, IsInjective
<1> QED
  BY <1>1, <1>2, FS_CountingElements DEF ExistsBijection
-----------------------------------------------------------------------------
(* The list as its callers see it, and what a step may do to it.           *)
List == IF pc = "idle" THEN Contents ELSE before

ValueStep == AsValues!Next \/ UNCHANGED <<List, result>>

Kept == TypeOK' /\ CellInv' /\ (\E s : Shape(s))'

LEMMA Counts ==
  ASSUME TypeOK
  PROVE  count \in Nat /\ Cardinality(Nodes) \in Nat /\ Null \notin nodes
<1>1. Cardinality(Nodes) \in Nat
  BY ListAssumption, FS_CardinalityType
<1>2. Null \notin nodes
  BY ListAssumption DEF TypeOK
<1> QED
  BY <1>1, <1>2 DEF TypeOK

LEMMA PointersTyped ==
  ASSUME NEW s, Order(s), NEW i
  PROVE  At(s, i) \in nodes \cup {Null}
BY DEF Order, At

LEMMA StoredTyped ==
  ASSUME TypeOK, CellInv, NEW s, Order(s)
  PROVE  /\ Stored(s) \in [1 .. count -> Values]
         /\ Stored(s) \in Seq(Values) /\ Len(Stored(s)) = count
<1>1. count \in Nat
  BY Counts
<1>2. ASSUME NEW i \in 1 .. count PROVE cell[data[s[i]]] \in Values
  <2>1. s[i] \in nodes
    BY DEF Order
  <2>2. data[s[i]] \in cells
    BY <2>1 DEF CellInv
  <2> QED
    BY <2>2 DEF TypeOK
<1>3. Stored(s) \in [1 .. count -> Values]
  BY <1>2 DEF Stored
<1> HIDE DEF Stored
<1> QED
  BY <1>1, <1>3

(* While the heap is left alone a list keeps its form.                     *)
LEMMA HeapAlone ==
  ASSUME UNCHANGED <<llVars, nodeVars, heapVars>>, NEW s
  PROVE  /\ Order(s)' <=> Order(s)
         /\ Whole(s)' <=> Whole(s)
         /\ Stored(s)' = Stored(s) /\ CellInv' <=> CellInv
         /\ count' = count /\ nodes' = nodes /\ \A i : At(s, i)' = At(s, i)
<1>1. nodes' = nodes /\ cells' = cells
  BY DEF nodes, cells
<1>2. \A i : At(s, i)' = At(s, i)
  BY DEF At
<1>3. Order(s)' <=> Order(s)
  BY <1>1 DEF Order
<1>4. Linked(s)' <=> Linked(s)
  BY <1>2 DEF Linked
<1>5. Stored(s)' = Stored(s)
  BY DEF Stored
<1>6. CellInv' <=> CellInv
  BY <1>1 DEF CellInv
<1> QED
  BY <1>1, <1>2, <1>3, <1>4, <1>5, <1>6 DEF Whole

LEMMA QuietTypes ==
  ASSUME TypeOK, UNCHANGED <<llVars, nodeVars, heapVars>>,
         pc' \in Places, op' \in Operations, key' \in Values \cup {Null},
         trav' \in nodes \cup {Null}, prev' \in nodes \cup {Null},
         stack' \in Seq(Nodes), before' \in Seq(Values), result' \in {0, 1}
  PROVE  TypeOK'
<1>1. nodes' = nodes /\ cells' = cells /\ nodes \subseteq Nodes
  BY DEF nodes, cells, TypeOK
<1> QED
  BY <1>1 DEF TypeOK

LEMMA QuietStep ==
  ASSUME TypeOK, CellInv, UNCHANGED <<llVars, nodeVars, heapVars>>,
         pc' \in Places, op' \in Operations, key' \in Values \cup {Null},
         trav' \in nodes \cup {Null}, prev' \in nodes \cup {Null},
         stack' \in Seq(Nodes), before' \in Seq(Values), result' \in {0, 1},
         NEW s, Shape(s)'
  PROVE  Kept
<1>1. TypeOK'
  BY QuietTypes
<1>2. CellInv'
  BY HeapAlone
<1> QED
  BY <1>1, <1>2 DEF Kept

(* An operation that returns having changed nothing.                       *)
LEMMA ReturnsSame ==
  ASSUME TypeOK, CellInv, UNCHANGED <<llVars, nodeVars, heapVars>>,
         ReturnNothing, result' \in {0, 1}, NEW s, Whole(s)
  PROVE  Kept /\ List' = Stored(s)
<1> USE DEF ReturnNothing
<1>1. Whole(s)' /\ Stored(s)' = Stored(s)
  BY HeapAlone
<1>2. Shape(s)'
  BY <1>1 DEF Shape, Resting
<1>3. TypeOK'
  BY QuietTypes DEF Places, Operations
<1>4. CellInv'
  BY HeapAlone
<1>5. List' = Stored(s)
  BY <1>1, <1>3, ContentsNext DEF List
<1> QED
  BY <1>2, <1>3, <1>4, <1>5 DEF Kept

(* An operation that begins leaves the list to be seen as it is.           *)
LEMMA BeginsSame ==
  ASSUME TypeOK, CellInv, NEW s, Shape(s), NEW o, NEW v, NEW at, Enter(o, v, at), at # "idle"
  PROVE  /\ Resting(s) /\ Whole(s) /\ trav = Null /\ prev = Null /\ stack = <<>>
         /\ before' = Stored(s) /\ before' \in Seq(Values)
         /\ List' = List
<1>1. pc = "idle" /\ pc' = at /\ before' = Contents
  BY DEF Enter
<1>2. Resting(s)
  BY <1>1 DEF Shape
<1>3. Contents = Stored(s)
  BY <1>2, ContentsInOrder DEF Resting
<1>4. Stored(s) \in Seq(Values)
  BY <1>2, StoredTyped DEF Resting, Whole
<1> QED
  BY <1>1, <1>2, <1>3, <1>4 DEF Resting, List
-----------------------------------------------------------------------------
LEMMA SearchBeginsKeeps ==
  ASSUME TypeOK, CellInv, NEW s, Shape(s), NEW v \in Values,
         NEW o \in {"find", "delete", "remove"}, SearchBegins(o, v)
  PROVE  Kept /\ ValueStep
<1>1. /\ Enter(o, v, "seek") /\ trav' = head /\ head # Null
      /\ UNCHANGED <<llVars, nodeVars, heapVars, prev, stack, result>>
      /\ pc' = "seek" /\ op' = o /\ key' = v
  BY DEF SearchBegins, Enter
<1>2. /\ Resting(s) /\ Whole(s) /\ trav = Null /\ prev = Null /\ stack = <<>>
      /\ before' = Stored(s) /\ before' \in Seq(Values) /\ List' = List
  BY <1>1, BeginsSame
<1>3. count \in Nat /\ head = At(s, 1)
  BY <1>2, Counts DEF Whole, Linked
<1>4. Seeking(s)'
  <2>1. trav' = At(s, 1)' /\ 1 \in 1 .. count' + 1
    <3>1. \A i : At(s, i)' = At(s, i)
      BY <1>1, HeapAlone
    <3> QED
      BY <1>1, <1>3, <3>1
  <2>2. NotBefore(s, 1)'
    BY DEF NotBefore
  <2>3. Whole(s)' /\ Stored(s)' = Stored(s)
    BY <1>1, <1>2, HeapAlone
  <2> QED
    BY <1>1, <1>2, <2>1, <2>2, <2>3 DEF Seeking
<1>5. Shape(s)'
  BY <1>1, <1>4 DEF Shape
<1>6. trav' \in nodes \cup {Null} /\ prev' \in nodes \cup {Null}
  BY <1>1, <1>2, <1>3, PointersTyped DEF Whole
<1>7. Kept
  BY <1>1, <1>2, <1>5, <1>6, QuietStep DEF Places, Operations, TypeOK
<1> QED
  BY <1>1, <1>2, <1>7 DEF ValueStep

LEMMA SearchNothingKeeps ==
  ASSUME TypeOK, CellInv, NEW s, Shape(s), SearchNothing
  PROVE  Kept /\ ValueStep
<1>1. /\ pc = "idle" /\ head = Null /\ ReturnNothing /\ result' = 0
      /\ UNCHANGED <<llVars, nodeVars, heapVars>>
  BY DEF SearchNothing, Return
<1>2. Whole(s)
  BY <1>1 DEF Shape, Resting
<1>3. count = 0
  <2>1. count \in Nat /\ Null \notin nodes
    BY Counts
  <2>2. 1 \notin 1 .. count
    BY <1>1, <1>2, <2>1 DEF Whole, Order, Linked, At
  <2> QED
    BY <2>1, <2>2
<1>4. Kept /\ List' = Stored(s)
  BY <1>1, <1>2, ReturnsSame
<1>5. List = Stored(s)
  BY <1>1, <1>2, ContentsInOrder DEF List
<1>6. PICK v \in Values : TRUE
  BY ListAssumption
<1>7. AsValues!Find(v)
  <2>1. ~AsValues!Contains(List, v)
    BY <1>3, <1>5 DEF AsValues!Contains, Stored
  <2> QED
    BY <1>1, <1>4, <1>5, <2>1 DEF AsValues!Find, List
<1> QED
  BY <1>4, <1>6, <1>7 DEF ValueStep, AsValues!Next

(* The node the loop is at, with nothing found so far.                     *)
LEMMA SeekingAt ==
  ASSUME TypeOK, CellInv, NEW s, Shape(s), pc = "seek"
  PROVE  /\ Seeking(s) /\ Whole(s) /\ before = Stored(s) /\ count \in Nat
         /\ \E k \in 1 .. count + 1 : trav = At(s, k) /\ NotBefore(s, k)
         /\ trav # Null => \E k \in 1 .. count : trav = s[k] /\ NotBefore(s, k) /\ s[k] \in nodes
<1>1. Seeking(s) /\ Whole(s) /\ before = Stored(s) /\ count \in Nat
  BY Counts DEF Shape, Seeking
<1>2. PICK k \in 1 .. count + 1 : trav = At(s, k) /\ NotBefore(s, k)
  BY <1>1 DEF Seeking
<1>3. ASSUME trav # Null PROVE k \in 1 .. count /\ trav = s[k] /\ s[k] \in nodes
  BY <1>1, <1>2, <1>3 DEF At, Whole, Order
<1> QED
  BY <1>1, <1>2, <1>3

LEMMA SeekPassesKeeps ==
  ASSUME TypeOK, CellInv, NEW s, Shape(s), SeekPasses
  PROVE  Kept /\ ValueStep
<1>1. /\ pc = "seek" /\ trav # Null /\ cell[data[trav]] # key /\ trav' = next[trav]
      /\ UNCHANGED <<llVars, nodeVars, heapVars, callVars, pc, prev, stack, result>>
  BY DEF SeekPasses
<1>2. Seeking(s) /\ Whole(s) /\ before = Stored(s) /\ count \in Nat
  BY <1>1, SeekingAt
<1>3. PICK k \in 1 .. count : trav = s[k] /\ NotBefore(s, k) /\ s[k] \in nodes
  BY <1>1, SeekingAt
<1>4. trav' = At(s, k + 1) /\ k + 1 \in 1 .. count + 1
  BY <1>1, <1>2, <1>3 DEF Whole, Linked
<1>5. NotBefore(s, k + 1)'
  <2>1. ASSUME NEW i \in 1 .. k PROVE cell[data[s[i]]] # key
    BY <1>1, <1>3, <2>1 DEF NotBefore
  <2>2. (k + 1) - 1 = k
    BY <1>2
  <2> QED
    BY <1>1, <2>1, <2>2 DEF NotBefore
<1>6. Seeking(s)'
  <2>1. /\ Whole(s)' /\ Stored(s)' = Stored(s) /\ count' = count
        /\ \A i : At(s, i)' = At(s, i)
    BY <1>1, <1>2, HeapAlone
  <2>2. trav' = At(s, k + 1)'
    BY <1>4, <2>1
  <2> QED
    BY <1>1, <1>2, <1>4, <1>5, <2>1, <2>2 DEF Seeking
<1>7. Shape(s)'
  BY <1>1, <1>6 DEF Shape
<1>8. trav' \in nodes \cup {Null} /\ prev' \in nodes \cup {Null}
  BY <1>1, <1>2, <1>4, PointersTyped DEF Whole, Seeking
<1>9. Kept
  BY <1>1, <1>7, <1>8, QuietStep DEF TypeOK
<1> QED
  BY <1>1, <1>9 DEF ValueStep, List

LEMMA SeekEndsKeeps ==
  ASSUME TypeOK, CellInv, NEW s, Shape(s), SeekEnds
  PROVE  Kept /\ ValueStep
<1>1. /\ pc = "seek" /\ trav = Null /\ ReturnNothing /\ result' = 0
      /\ UNCHANGED <<llVars, nodeVars, heapVars>>
  BY DEF SeekEnds, Return
<1>2. Seeking(s) /\ Whole(s) /\ before = Stored(s) /\ count \in Nat
  BY <1>1, SeekingAt
<1>3. PICK k \in 1 .. count + 1 : trav = At(s, k) /\ NotBefore(s, k)
  BY <1>1, SeekingAt
<1>4. k = count + 1
  <2>1. k \notin 1 .. count
    BY <1>1, <1>2, <1>3, Counts DEF At, Whole, Order
  <2> QED
    BY <1>2, <2>1
<1>5. Kept /\ List' = Stored(s)
  BY <1>1, <1>2, ReturnsSame
<1>6. List = Stored(s)
  BY <1>1, <1>2 DEF List
<1>7. ~AsValues!Contains(List, key)
  <2>1. ASSUME NEW i \in 1 .. count PROVE Stored(s)[i] # key
    BY <1>2, <1>3, <1>4 DEF NotBefore, Stored
  <2>2. Len(Stored(s)) = count
    BY <1>2, StoredTyped DEF Whole
  <2> QED
    BY <1>6, <2>1, <2>2 DEF AsValues!Contains
<1>8. AsValues!Find(key) /\ key \in Values
  BY <1>1, <1>2, <1>5, <1>6, <1>7 DEF AsValues!Find, List, Seeking
<1> QED
  BY <1>5, <1>8 DEF ValueStep, AsValues!Next

(* A search that hits: the value at trav is the first of its kind.         *)
LEMMA HitAt ==
  ASSUME TypeOK, CellInv, NEW s, Shape(s), NEW o, Hit(o)
  PROVE  /\ Seeking(s) /\ Whole(s) /\ before = Stored(s) /\ count \in Nat /\ key \in Values
         /\ pc = "seek" /\ op = o /\ List = Stored(s)
         /\ \E k \in 1 .. count : /\ trav = s[k] /\ NotBefore(s, k) /\ s[k] \in nodes
                                  /\ cell[data[s[k]]] = key
<1>1. pc = "seek" /\ op = o /\ trav # Null /\ cell[data[trav]] = key
  BY DEF Hit
<1>2. Seeking(s) /\ Whole(s) /\ before = Stored(s) /\ count \in Nat
  BY <1>1, SeekingAt
<1>3. PICK k \in 1 .. count : trav = s[k] /\ NotBefore(s, k) /\ s[k] \in nodes
  BY <1>1, SeekingAt
<1> QED
  BY <1>1, <1>2, <1>3 DEF List, Seeking

LEMMA FindHitsKeeps ==
  ASSUME TypeOK, CellInv, NEW s, Shape(s), FindHits
  PROVE  Kept /\ ValueStep
<1>1. /\ Hit("find") /\ ReturnNothing /\ result' = 1
      /\ UNCHANGED <<llVars, nodeVars, heapVars>>
  BY DEF FindHits, Return
<1>2. Whole(s) /\ count \in Nat /\ key \in Values /\ List = Stored(s)
  BY <1>1, HitAt
<1>3. PICK k \in 1 .. count : cell[data[s[k]]] = key
  BY <1>1, HitAt
<1>4. Kept /\ List' = Stored(s)
  BY <1>1, <1>2, ReturnsSame
<1>5. AsValues!Contains(List, key)
  <2>1. Len(Stored(s)) = count /\ Stored(s)[k] = key
    BY <1>2, <1>3, StoredTyped DEF Whole, Stored
  <2> QED
    BY <1>2, <2>1 DEF AsValues!Contains
<1>6. AsValues!Find(key)
  BY <1>1, <1>2, <1>4, <1>5 DEF AsValues!Find, List
<1> QED
  BY <1>2, <1>4, <1>6 DEF ValueStep, AsValues!Next

(* The node found is not the first: its predecessor is looked for.         *)
LEMMA BeforeBeginsKeeps ==
  ASSUME TypeOK, CellInv, NEW s, Shape(s), DeleteLastBegins \/ RemoveInnerBegins
  PROVE  Kept /\ ValueStep
<1>1. PICK o \in {"delete", "remove"} :
        /\ Hit(o) /\ prev' = head /\ pc' = "before"
        /\ o = "delete" => next[trav] = Null /\ ~OnlyNode
        /\ o = "remove" => head # trav
        /\ UNCHANGED <<llVars, nodeVars, heapVars, callVars, trav, stack, result>>
  BY DEF DeleteLastBegins, RemoveInnerBegins
<1>2. /\ Seeking(s) /\ Whole(s) /\ before = Stored(s) /\ count \in Nat /\ key \in Values
      /\ pc = "seek" /\ op = o
  BY <1>1, HitAt
<1>3. PICK k \in 1 .. count : /\ trav = s[k] /\ NotBefore(s, k) /\ s[k] \in nodes
                              /\ cell[data[s[k]]] = key
  BY <1>1, HitAt
<1>4. head = s[1] /\ head \in nodes
  BY <1>2, <1>3 DEF Whole, Linked, Order, At
<1>5. o = "delete" => k = count
  <2>1. CASE k < count
    <3>1. next[s[k]] = s[k + 1] /\ s[k + 1] \in nodes
      BY <1>2, <1>3, <2>1 DEF Whole, Linked, Order, At
    <3> QED
      BY <1>1, <1>3, <3>1, Counts
  <2> QED
    BY <1>2, <2>1
<1>6. k # 1
  BY <1>1, <1>2, <1>3, <1>4, <1>5 DEF OnlyNode
<1>7. SeekingBefore(s)'
  <2>1. Whole(s)' /\ Stored(s)' = Stored(s) /\ count' = count
    BY <1>1, <1>2, HeapAlone
  <2>2. NotBefore(s, k)'
    BY <1>1, <1>3 DEF NotBefore
  <2>3. 1 \in 1 .. k - 1
    BY <1>2, <1>6
  <2> QED
    BY <1>1, <1>2, <1>3, <1>4, <1>5, <2>1, <2>2, <2>3 DEF SeekingBefore, Seeking
<1>8. Shape(s)'
  BY <1>1, <1>7 DEF Shape
<1>9. trav' \in nodes \cup {Null} /\ prev' \in nodes \cup {Null}
  BY <1>1, <1>3, <1>4
<1>10. Kept
  BY <1>1, <1>8, <1>9, QuietStep DEF Places, TypeOK
<1> QED
  BY <1>1, <1>2, <1>10 DEF ValueStep, List

LEMMA BeforeAt ==
  ASSUME TypeOK, CellInv, NEW s, Shape(s), pc = "before"
  PROVE  /\ SeekingBefore(s) /\ Whole(s) /\ before = Stored(s) /\ count \in Nat
         /\ key \in Values /\ List = Stored(s)
         /\ \E k \in 1 .. count : \E j \in 1 .. k - 1 :
               /\ trav = s[k] /\ cell[data[s[k]]] = key /\ NotBefore(s, k)
               /\ prev = s[j] /\ next[prev] = s[j + 1]
               /\ s[j + 1] = s[k] <=> j + 1 = k
               /\ s[j] \in nodes /\ s[j + 1] \in nodes /\ s[k] \in nodes
               /\ op = "delete" => k = count
<1>1. SeekingBefore(s) /\ Whole(s) /\ before = Stored(s) /\ count \in Nat /\ key \in Values
  BY Counts DEF Shape, SeekingBefore
<1>2. PICK k \in 1 .. count : \E j \in 1 .. k - 1 :
        /\ trav = s[k] /\ cell[data[s[k]]] = key /\ NotBefore(s, k)
        /\ prev = s[j]
        /\ op = "delete" => k = count
  BY <1>1 DEF SeekingBefore
<1>3. PICK j \in 1 .. k - 1 : prev = s[j]
  BY <1>2
<1>4. j \in 1 .. count /\ j + 1 \in 1 .. count
  BY <1>1
<1>5. next[prev] = s[j + 1]
  BY <1>1, <1>3, <1>4 DEF Whole, Linked, At
<1>6. s[j] \in nodes /\ s[j + 1] \in nodes /\ s[k] \in nodes
  BY <1>1, <1>4 DEF Whole, Order
<1>7. s[j + 1] = s[k] <=> j + 1 = k
  BY <1>1, <1>4 DEF Whole, Order
<1> QED
  BY <1>1, <1>2, <1>3, <1>5, <1>6, <1>7 DEF List

LEMMA BeforePassesKeeps ==
  ASSUME TypeOK, CellInv, NEW s, Shape(s), BeforePasses
  PROVE  Kept /\ ValueStep
<1>1. /\ pc = "before" /\ next[prev] # trav /\ prev' = next[prev]
      /\ UNCHANGED <<llVars, nodeVars, heapVars, callVars, pc, trav, stack, result>>
  BY DEF BeforePasses
<1>2. SeekingBefore(s) /\ Whole(s) /\ before = Stored(s) /\ count \in Nat
  BY <1>1, BeforeAt
<1>3. PICK k \in 1 .. count : \E j \in 1 .. k - 1 :
        /\ trav = s[k] /\ cell[data[s[k]]] = key /\ NotBefore(s, k)
        /\ prev = s[j] /\ next[prev] = s[j + 1]
        /\ s[j + 1] = s[k] <=> j + 1 = k
        /\ s[j] \in nodes /\ s[j + 1] \in nodes /\ s[k] \in nodes
        /\ op = "delete" => k = count
  BY <1>1, BeforeAt
<1>4. PICK j \in 1 .. k - 1 :
        /\ prev = s[j] /\ next[prev] = s[j + 1] /\ s[j + 1] \in nodes
        /\ s[j + 1] = s[k] <=> j + 1 = k
  BY <1>3
<1>5. prev' = s[j + 1] /\ j + 1 \in 1 .. k - 1
  BY <1>1, <1>2, <1>3, <1>4
<1>6. SeekingBefore(s)'
  <2>1. Whole(s)' /\ Stored(s)' = Stored(s) /\ count' = count
    BY <1>1, <1>2, HeapAlone
  <2>2. NotBefore(s, k)'
    BY <1>1, <1>3 DEF NotBefore
  <2> QED
    BY <1>1, <1>2, <1>3, <1>5, <2>1, <2>2 DEF SeekingBefore
<1>7. Shape(s)'
  BY <1>1, <1>6 DEF Shape
<1>8. trav' \in nodes \cup {Null} /\ prev' \in nodes \cup {Null}
  BY <1>1, <1>3, <1>4, <1>5
<1>9. Kept
  BY <1>1, <1>7, <1>8, QuietStep DEF TypeOK
<1> QED
  BY <1>1, <1>9 DEF ValueStep, List
-----------------------------------------------------------------------------
(* A sequence of n values, taken out of which the k-th is.                 *)
Skipped(v, n, k) == [i \in 1 .. n - 1 |-> IF i < k THEN v[i] ELSE v[i + 1]]

LEMMA ConcatElements ==
  ASSUME NEW a \in Seq(Values), NEW b \in Seq(Values)
  PROVE  /\ a \o b \in Seq(Values)
         /\ Len(a \o b) = Len(a) + Len(b)
         /\ \A i \in 1 .. Len(a) : (a \o b)[i] = a[i]
         /\ \A i \in 1 .. Len(b) : (a \o b)[Len(a) + i] = b[i]
OBVIOUS

LEMMA TakesFirst ==
  ASSUME NEW n \in Nat, NEW v \in [1 .. n -> Values], NEW k \in 1 .. n, NEW e,
         v[k] = e, \A i \in 1 .. k - 1 : v[i] # e
  PROVE  /\ AsValues!RemoveFirst(v, e) = Skipped(v, n, k)
         /\ AsValues!Contains(v, e)
<1>1. v \in Seq(Values) /\ Len(v) = n
  OBVIOUS
<1>2. AsValues!Contains(v, e)
  BY <1>1 DEF AsValues!Contains
<1> DEFINE I == {i \in 1 .. Len(v) : v[i] = e}
<1>3. I # {} /\ \A i \in I : i >= k
  BY <1>1
<1>4. AsValues!SelectInSeq(v, LAMBDA x : x = e) = k
  <2>1. k \in I /\ I \subseteq Int
    BY <1>1
  <2>2. AsValues!Min(I) = k
    <3>1. k \in I /\ \A y \in I : k <= y
      BY <1>3, <2>1
    <3>2. \A x \in I : (\A y \in I : x <= y) => x = k
      BY <2>1, <3>1
    <3> HIDE DEF I
    <3> QED
      BY <3>1, <3>2 DEF AsValues!Min
  <2> QED
    BY <1>3, <2>2 DEF AsValues!SelectInSeq
<1> DEFINE l == SubSeq(v, 1, k - 1)
           m == SubSeq(v, k + 1, n)
<1>5. AsValues!RemoveFirst(v, e) = l \o m
  BY <1>1, <1>4 DEF AsValues!RemoveFirst, AsValues!RemoveAt
<1>6. /\ l \in Seq(Values) /\ Len(l) = k - 1 /\ \A i \in 1 .. k - 1 : l[i] = v[i]
      /\ m \in Seq(Values) /\ Len(m) = n - k /\ \A i \in 1 .. n - k : m[i] = v[k + i]
  <2>1. \A i \in 1 .. n : v[i] \in Values
    OBVIOUS
  <2>2. /\ 1 \in Int /\ k - 1 \in Int /\ k + 1 \in Int /\ n \in Int
        /\ \A i \in 1 .. k - 1 : i \in 1 .. n
        /\ \A i \in k + 1 .. n : i \in 1 .. n
    OBVIOUS
  <2>3. /\ l \in Seq(Values) /\ Len(l) = IF 1 <= k - 1 THEN (k - 1) - 1 + 1 ELSE 0
        /\ \A i \in 1 .. (k - 1) - 1 + 1 : l[i] = v[1 + i - 1]
    BY <2>1, <2>2, SubSeqProperties
  <2>4. /\ m \in Seq(Values) /\ Len(m) = IF k + 1 <= n THEN n - (k + 1) + 1 ELSE 0
        /\ \A i \in 1 .. n - (k + 1) + 1 : m[i] = v[(k + 1) + i - 1]
    BY <2>1, <2>2, SubSeqProperties
  <2> HIDE DEF l, m
  <2>5. Len(l) = k - 1 /\ \A i \in 1 .. k - 1 : l[i] = v[i]
    <3>1. (k - 1) - 1 + 1 = k - 1 /\ \A i \in 1 .. k - 1 : 1 + i - 1 = i
      OBVIOUS
    <3> QED
      BY <2>3, <3>1
  <2>6. Len(m) = n - k /\ \A i \in 1 .. n - k : m[i] = v[k + i]
    <3>1. n - (k + 1) + 1 = n - k /\ \A i \in 1 .. n - k : (k + 1) + i - 1 = k + i
      OBVIOUS
    <3> QED
      BY <2>4, <3>1
  <2> QED
    BY <2>3, <2>4, <2>5, <2>6
<1> HIDE DEF l, m
<1> DEFINE r == l \o m
<1>7. /\ r \in Seq(Values) /\ Len(r) = n - 1
      /\ \A i \in 1 .. Len(l) : r[i] = l[i]
      /\ \A i \in 1 .. Len(m) : r[Len(l) + i] = m[i]
  <2>1. Len(r) = Len(l) + Len(m)
    BY <1>6, ConcatElements
  <2> QED
    BY <1>6, <2>1, ConcatElements
<1> HIDE DEF r
<1>8. ASSUME NEW i \in 1 .. n - 1 PROVE r[i] = IF i < k THEN v[i] ELSE v[i + 1]
  <2>1. CASE i < k
    BY <1>6, <1>7, <2>1
  <2>2. CASE i >= k
    <3>1. i - (k - 1) \in 1 .. Len(m) /\ Len(l) + (i - (k - 1)) = i
      BY <1>6, <2>2
    <3>2. r[i] = m[i - (k - 1)]
      BY <1>7, <3>1
    <3>3. m[i - (k - 1)] = v[k + (i - (k - 1))] /\ k + (i - (k - 1)) = i + 1
      BY <1>6, <3>1
    <3> QED
      BY <2>2, <3>2, <3>3
  <2> QED
    BY <2>1, <2>2
<1>9. r = [i \in 1 .. n - 1 |-> r[i]]
  BY <1>7
<1>10. r = Skipped(v, n, k)
  BY <1>8, <1>9 DEF Skipped
<1> QED
  BY <1>2, <1>5, <1>10 DEF r

LEMMA WithoutOne ==
  ASSUME NEW f, NEW a
  PROVE  /\ DOMAIN Without(f, a) = DOMAIN f \ {a}
         /\ \A x \in DOMAIN f \ {a} : Without(f, a)[x] = f[x]
BY DEF Without, Restrict

(* A chain that lost its k-th node is a chain.                             *)
LEMMA ChainWithout ==
  ASSUME TypeOK, NEW s, Whole(s), NEW k \in 1 .. count,
         NEW t, t = Skipped(s, count, k),
         count' = count - 1, nodes' = nodes \ {s[k]},
         head' = IF k = 1 THEN At(s, 2) ELSE head,
         k > 1 => next'[s[k - 1]] = At(s, k + 1),
         \A i \in 1 .. count : i # k /\ i + 1 # k => next'[s[i]] = At(s, i + 1)
  PROVE  Whole(t)'
<1> DEFINE from(i) == IF i < k THEN i ELSE i + 1
<1>0. count \in Nat /\ k \in Nat
  BY Counts
<1>1. \A i \in 1 .. count - 1 : /\ from(i) \in 1 .. count /\ from(i) # k
                                /\ t[i] = s[from(i)]
  BY <1>0 DEF Skipped
<1>2. \A i, j \in 1 .. count - 1 : from(i) = from(j) => i = j
  BY <1>0
<1>3. \A i \in 1 .. count : i # k => \E j \in 1 .. count - 1 : from(j) = i
  <2>1. ASSUME NEW i \in 1 .. count, i < k PROVE i \in 1 .. count - 1 /\ from(i) = i
    BY <1>0, <2>1
  <2>2. ASSUME NEW i \in 1 .. count, i > k PROVE i - 1 \in 1 .. count - 1 /\ from(i - 1) = i
    BY <1>0, <2>2
  <2> QED
    BY <1>0, <2>1, <2>2
<1>4. \A i \in 1 .. count - 1 : t[i] \in nodes'
  <2>1. ASSUME NEW i \in 1 .. count - 1 PROVE s[from(i)] # s[k] /\ s[from(i)] \in nodes
    BY <1>1 DEF Whole, Order
  <2> QED
    BY <1>1, <2>1
<1>5. Order(t)'
  <2>1. t \in [1 .. count - 1 -> nodes']
    BY <1>4 DEF Skipped
  <2>2. ASSUME NEW i \in 1 .. count - 1, NEW j \in 1 .. count - 1, t[i] = t[j] PROVE i = j
    <3>1. from(i) = from(j)
      BY <1>1, <2>2 DEF Whole, Order
    <3> HIDE DEF from
    <3> QED
      BY <1>2, <3>1
  <2>3. ASSUME NEW m \in nodes' PROVE \E j \in 1 .. count - 1 : m = t[j]
    <3>1. PICK i \in 1 .. count : m = s[i]
      BY DEF Whole, Order
    <3>2. i # k
      BY <3>1
    <3> HIDE DEF from
    <3> QED
      BY <1>1, <1>3, <3>1, <3>2
  <2> QED
    BY <2>1, <2>2, <2>3 DEF Order
<1>6. \A i : At(t, i)' = IF i \in 1 .. count - 1 THEN t[i] ELSE Null
  BY DEF At
<1>7. head' = At(t, 1)'
  <2>1. CASE k = 1
    BY <1>0, <1>1, <1>6, <2>1 DEF At
  <2>2. CASE k > 1
    <3>1. 1 \in 1 .. count - 1 /\ t[1] = s[1]
      BY <1>0, <1>1, <2>2
    <3>2. head = s[1]
      BY <1>0 DEF Whole, Linked, At
    <3> QED
      BY <1>6, <2>2, <3>1, <3>2
  <2> QED
    BY <1>0, <2>1, <2>2
<1>8. ASSUME NEW i \in 1 .. count - 1 PROVE next'[t[i]] = At(t, i + 1)'
  <2>1. CASE i + 1 < k
    <3>1. t[i] = s[i] /\ t[i + 1] = s[i + 1] /\ i + 1 \in 1 .. count - 1
      BY <1>0, <1>1, <2>1
    <3>2. next'[s[i]] = s[i + 1]
      BY <1>0, <2>1 DEF At
    <3> QED
      BY <1>6, <3>1, <3>2
  <2>2. CASE i + 1 = k
    <3>1. t[i] = s[k - 1] /\ next'[s[k - 1]] = At(s, k + 1)
      BY <1>0, <1>1, <2>2
    <3>2. k \in 1 .. count - 1 => t[k] = s[k + 1]
      BY <1>0, <1>1
    <3>3. k \in 1 .. count - 1 <=> k + 1 \in 1 .. count
      BY <1>0
    <3> QED
      BY <1>6, <2>2, <3>1, <3>2, <3>3 DEF At
  <2>3. CASE i + 1 > k
    <3>1. t[i] = s[i + 1] /\ next'[s[i + 1]] = At(s, i + 2)
      BY <1>0, <1>1, <2>3
    <3>2. i + 1 \in 1 .. count - 1 => t[i + 1] = s[i + 2]
      BY <1>0, <1>1, <2>3
    <3>3. i + 1 \in 1 .. count - 1 <=> i + 2 \in 1 .. count
      BY <1>0
    <3> QED
      BY <1>6, <3>1, <3>2, <3>3 DEF At
  <2> QED
    BY <1>0, <2>1, <2>2, <2>3
<1> QED
  BY <1>5, <1>7, <1>8 DEF Whole, Linked

(* The types after a removal.                                              *)
LEMMA RemovalTypes ==
  ASSUME TypeOK, ReturnNothing, result' = 1, count > 0, count' = count - 1,
         nodes' \subseteq nodes, cells' \subseteq cells, lost' \subseteq cells',
         head' \in nodes \cup {Null}, next' \in [nodes' -> nodes \cup {Null}],
         data' \in [nodes' -> Cells], cell' \in [cells' -> Values]
  PROVE  TypeOK'
<1>1. count' \in 0 .. Cardinality(Nodes)
  BY Counts DEF TypeOK
<1>2. /\ head' \in Nodes \cup {Null} /\ nodes' \subseteq Nodes /\ cells' \subseteq Cells
      /\ next' \in [nodes' -> Nodes \cup {Null}]
  BY DEF TypeOK
<1> QED
  BY <1>1, <1>2 DEF TypeOK, ReturnNothing, Places, Operations

(* The cells after the removal of a node whose cell is freed or lost.      *)
LEMMA RemovalCells ==
  ASSUME CellInv, NEW m \in nodes, nodes' = nodes \ {m},
         \A x \in nodes' : data'[x] = data[x],
         \/ cells' = cells \ {data[m]} /\ lost' = lost
         \/ cells' = cells /\ lost' = lost \cup {data[m]}
  PROVE  CellInv'
<1>1. \A x, y \in nodes' : data'[x] = data'[y] => x = y
  BY DEF CellInv
<1>2. \A x \in nodes' : data'[x] \in cells' /\ data'[x] \notin lost'
  BY DEF CellInv
<1>3. \A c \in cells' : c \in lost' \/ \E x \in nodes' : c = data'[x]
  BY DEF CellInv
<1> QED
  BY <1>1, <1>2, <1>3 DEF CellInv

(* Taking out the value that was found.                                    *)
LEMMA TakenOut ==
  ASSUME TypeOK, CellInv, NEW s, Whole(s), List = Stored(s), key \in Values,
         NEW k \in 1 .. count, cell[data[s[k]]] = key, NotBefore(s, k),
         TypeOK', CellInv', ReturnNothing, result' = 1, count' = count - 1,
         NEW t, Whole(t)',
         \A i \in 1 .. count - 1 :
            cell'[data'[t[i]]] = IF i < k THEN cell[data[s[i]]] ELSE cell[data[s[i + 1]]]
  PROVE  Kept /\ ValueStep
<1>1. count \in Nat
  BY Counts
<1>2. Stored(t)' = Skipped(Stored(s), count, k)
  <2>1. \A i \in 1 .. count - 1 : i \in 1 .. count /\ i + 1 \in 1 .. count
    BY <1>1
  <2> QED
    BY <2>1 DEF Stored, Skipped
<1>3. List' = Stored(t)'
  BY ContentsNext DEF List, ReturnNothing
<1>4. Shape(t)'
  BY DEF Shape, Resting, ReturnNothing
<1>5. /\ AsValues!RemoveFirst(List, key) = Skipped(Stored(s), count, k)
      /\ AsValues!Contains(List, key)
  <2>1. Stored(s) \in [1 .. count -> Values]
    BY StoredTyped DEF Whole
  <2>2. Stored(s)[k] = key /\ \A i \in 1 .. k - 1 : Stored(s)[i] # key
    BY <1>1 DEF Stored, NotBefore
  <2> QED
    BY <1>1, <2>1, <2>2, TakesFirst
<1>6. AsValues!TakeOut(key)
  BY <1>2, <1>3, <1>5 DEF AsValues!TakeOut, List
<1> QED
  BY <1>4, <1>6 DEF Kept, ValueStep, AsValues!Next

(* What the two kinds of removal do to the heap, the node being named.     *)
LEMMA NodeGone ==
  ASSUME TypeOK, NEW m \in nodes, data' = Without(data, m),
         NEW nx \in [nodes -> nodes \cup {Null}], next' = Without(nx, m)
  PROVE  /\ nodes' = nodes \ {m}
         /\ \A x \in nodes' : next'[x] = nx[x] /\ data'[x] = data[x]
         /\ next' \in [nodes' -> nodes \cup {Null}] /\ data' \in [nodes' -> Cells]
<1>1. DOMAIN data = nodes /\ DOMAIN nx = nodes
  BY DEF TypeOK
<1>2. nodes' = nodes \ {m}
  BY <1>1, WithoutOne DEF nodes
<1>3. DOMAIN data' = nodes \ {m} /\ \A x \in nodes \ {m} : data'[x] = data[x]
  BY <1>1, WithoutOne
<1>4. \A x \in nodes \ {m} : next'[x] = nx[x]
  BY <1>1, WithoutOne
<1>5. next' = [x \in nodes' |-> next'[x]] /\ data' = [x \in nodes' |-> data'[x]]
  BY <1>1, <1>2 DEF Without, Restrict
<1> QED
  BY <1>2, <1>3, <1>4, <1>5 DEF TypeOK

LEMMA CellFreed ==
  ASSUME TypeOK, NEW c \in cells, FreeCell(c)
  PROVE  /\ cells' = cells \ {c} /\ \A x \in cells' : cell'[x] = cell[x]
         /\ cell' \in [cells' -> Values]
<1>1. cells' = cells \ {c} /\ \A x \in cells \ {c} : cell'[x] = cell[x]
  BY WithoutOne DEF FreeCell, cells
<1>2. cell' = [x \in cells' |-> cell'[x]]
  BY <1>1 DEF FreeCell, Without, Restrict, cells
<1> QED
  BY <1>1, <1>2 DEF TypeOK

(* The links of a list point to its nodes.                                 *)
LEMMA LinksTyped ==
  ASSUME TypeOK, NEW s, Whole(s)
  PROVE  next \in [nodes -> nodes \cup {Null}] /\ head \in nodes \cup {Null}
<1>1. ASSUME NEW m \in nodes PROVE next[m] \in nodes \cup {Null}
  <2>1. PICK i \in 1 .. count : m = s[i]
    BY DEF Whole, Order
  <2>2. next[m] = At(s, i + 1)
    BY <2>1 DEF Whole, Linked
  <2> QED
    BY <2>2, PointersTyped DEF Whole
<1>2. head \in nodes \cup {Null}
  BY PointersTyped DEF Whole, Linked
<1> QED
  BY <1>1, <1>2 DEF TypeOK

(* The removal of the k-th node with, or without, the cell it owns.        *)
LEMMA NodeRemoved ==
  ASSUME TypeOK, CellInv, NEW s, Whole(s), List = Stored(s), key \in Values,
         NEW k \in 1 .. count, cell[data[s[k]]] = key, NotBefore(s, k),
         ReturnNothing, result' = 1, count' = count - 1,
         head' = IF k = 1 THEN At(s, 2) ELSE head,
         NEW nx \in [nodes -> nodes \cup {Null}], next' = Without(nx, s[k]),
         data' = Without(data, s[k]),
         k > 1 => nx[s[k - 1]] = At(s, k + 1),
         \A i \in 1 .. count : i # k /\ i + 1 # k => nx[s[i]] = next[s[i]],
         \/ FreeCell(data[s[k]]) /\ lost' = lost
         \/ cell' = cell /\ lost' = lost \cup {data[s[k]]}
  PROVE  Kept /\ ValueStep
<1>0. count \in Nat
  BY Counts
<1>1. /\ s[k] \in nodes /\ data[s[k]] \in cells /\ data[s[k]] \notin lost
      /\ \A i \in 1 .. count : s[i] \in nodes /\ data[s[i]] \in cells
      /\ \A i \in 1 .. count : s[i] = s[k] <=> i = k
      /\ \A i \in 1 .. count : data[s[i]] = data[s[k]] <=> i = k
  BY DEF Whole, Order, CellInv
<1>2. /\ nodes' = nodes \ {s[k]}
      /\ \A x \in nodes' : next'[x] = nx[x] /\ data'[x] = data[x]
      /\ next' \in [nodes' -> nodes \cup {Null}] /\ data' \in [nodes' -> Cells]
  BY <1>1, NodeGone
<1>3. /\ \/ cells' = cells \ {data[s[k]]} /\ lost' = lost
         \/ cells' = cells /\ lost' = lost \cup {data[s[k]]}
      /\ \A i \in 1 .. count : i # k => cell'[data[s[i]]] = cell[data[s[i]]]
      /\ cell' \in [cells' -> Values]
  <2>1. CASE FreeCell(data[s[k]]) /\ lost' = lost
    BY <1>1, <2>1, CellFreed
  <2>2. CASE cell' = cell /\ lost' = lost \cup {data[s[k]]}
    BY <1>1, <2>2 DEF cells, TypeOK
  <2> QED
    BY <2>1, <2>2
<1>4. TypeOK'
  <2>1. cells' \subseteq cells /\ lost' \subseteq cells'
    BY <1>1, <1>3 DEF TypeOK
  <2>2. head' \in nodes \cup {Null}
    BY LinksTyped, PointersTyped DEF Whole
  <2> QED
    BY <1>0, <1>2, <1>3, <2>1, <2>2, RemovalTypes
<1>5. CellInv'
  BY <1>1, <1>2, <1>3, RemovalCells
<1> DEFINE skip == Skipped(s, count, k)
<1>6. PICK t : t = skip
  OBVIOUS
<1>7. Whole(t)'
  <2>1. k > 1 => next'[s[k - 1]] = At(s, k + 1)
    <3>1. k > 1 => k - 1 \in 1 .. count /\ k - 1 # k
      BY <1>0
    <3> QED
      BY <1>1, <1>2, <3>1
  <2>2. \A i \in 1 .. count : i # k /\ i + 1 # k => next'[s[i]] = At(s, i + 1)
    BY <1>1, <1>2 DEF Whole, Linked
  <2> QED
    BY <1>2, <1>6, <2>1, <2>2, ChainWithout
<1>8. \A i \in 1 .. count - 1 :
         cell'[data'[t[i]]] = IF i < k THEN cell[data[s[i]]] ELSE cell[data[s[i + 1]]]
  <2>1. ASSUME NEW i \in 1 .. count, i # k PROVE cell'[data'[s[i]]] = cell[data[s[i]]]
    BY <1>1, <1>2, <1>3, <2>1
  <2>2. ASSUME NEW i \in 1 .. count - 1, i < k
        PROVE  t[i] = s[i] /\ i \in 1 .. count /\ i # k
    BY <1>0, <1>6, <2>2 DEF Skipped
  <2>3. ASSUME NEW i \in 1 .. count - 1, ~(i < k)
        PROVE  t[i] = s[i + 1] /\ i + 1 \in 1 .. count /\ i + 1 # k
    BY <1>0, <1>6, <2>3 DEF Skipped
  <2> QED
    BY <2>1, <2>2, <2>3
<1> QED
  BY <1>4, <1>5, <1>7, <1>8, TakenOut

LEMMA DeleteOnlyKeeps ==
  ASSUME TypeOK, CellInv, NEW s, Shape(s), DeleteOnly
  PROVE  Kept /\ ValueStep
<1>1. /\ Hit("delete") /\ count = 1 /\ head = trav /\ FreeCell(data[trav])
      /\ data' = Without(data, trav) /\ next' = Without(next, trav)
      /\ head' = Null /\ count' = count - 1 /\ ReturnNothing /\ result' = 1 /\ lost' = lost
  BY DEF DeleteOnly, OnlyNode, Return
<1>2. Whole(s) /\ key \in Values /\ List = Stored(s)
  BY <1>1, HitAt
<1>3. PICK k \in 1 .. count : /\ trav = s[k] /\ NotBefore(s, k) /\ cell[data[s[k]]] = key
  BY <1>1, HitAt
<1>4. k = 1 /\ At(s, 2) = Null
  BY <1>1 DEF At
<1>5. next \in [nodes -> nodes \cup {Null}]
  BY <1>2, LinksTyped
<1> QED
  BY <1>1, <1>2, <1>3, <1>4, <1>5, NodeRemoved

LEMMA RemoveHeadKeeps ==
  ASSUME TypeOK, CellInv, NEW s, Shape(s), RemoveHead
  PROVE  Kept /\ ValueStep
<1>1. /\ Hit("remove") /\ head = trav /\ head' = next[trav] /\ count' = count - 1
      /\ data' = Without(data, trav) /\ next' = Without(next, trav)
      /\ lost' = lost \cup {data[trav]} /\ cell' = cell /\ ReturnNothing /\ result' = 1
  BY DEF RemoveHead, Return
<1>2. Whole(s) /\ key \in Values /\ List = Stored(s) /\ count \in Nat
  BY <1>1, HitAt
<1>3. PICK k \in 1 .. count : /\ trav = s[k] /\ NotBefore(s, k) /\ cell[data[s[k]]] = key
  BY <1>1, HitAt
<1>4. k = 1 /\ head' = At(s, 2)
  <2>1. 1 \in 1 .. count /\ head = s[1]
    BY <1>2, <1>3 DEF Whole, Linked, At
  <2>2. k = 1
    BY <1>1, <1>2, <1>3, <2>1 DEF Whole, Order
  <2> QED
    BY <1>1, <1>2, <1>3, <2>1, <2>2 DEF Whole, Linked
<1>5. next \in [nodes -> nodes \cup {Null}]
  BY <1>2, LinksTyped
<1> QED
  BY <1>1, <1>2, <1>3, <1>4, <1>5, NodeRemoved

(* The predecessor is found, and gets the link of the node that goes.      *)
LEMMA InnerKeeps ==
  ASSUME TypeOK, CellInv, NEW s, Shape(s), pc = "before", next[prev] = trav,
         NEW to, op = "delete" => to = Null, op = "remove" => to = next[trav],
         data' = Without(data, trav), next' = Without([next EXCEPT ![prev] = to], trav),
         count' = count - 1, head' = head, ReturnNothing, result' = 1,
         \/ FreeCell(data[trav]) /\ lost' = lost
         \/ cell' = cell /\ lost' = lost \cup {data[trav]}
  PROVE  Kept /\ ValueStep
<1>1. /\ SeekingBefore(s) /\ Whole(s) /\ count \in Nat
      /\ key \in Values /\ List = Stored(s)
  BY BeforeAt
<1>2. PICK k \in 1 .. count : \E j \in 1 .. k - 1 :
        /\ trav = s[k] /\ cell[data[s[k]]] = key /\ NotBefore(s, k)
        /\ prev = s[j] /\ next[prev] = s[j + 1]
        /\ s[j + 1] = s[k] <=> j + 1 = k
        /\ s[j] \in nodes /\ s[j + 1] \in nodes /\ s[k] \in nodes
        /\ op = "delete" => k = count
  BY BeforeAt
<1>3. k > 1 /\ prev = s[k - 1] /\ s[k - 1] \in nodes /\ s[k] \in nodes
  <2>1. PICK j \in 1 .. k - 1 : prev = s[j] /\ j + 1 = k /\ s[j] \in nodes /\ s[k] \in nodes
    BY <1>2
  <2>2. j = k - 1 /\ k > 1
    BY <1>1, <2>1
  <2> QED
    BY <2>1, <2>2
<1>4. to = At(s, k + 1)
  <2>1. CASE op = "delete"
    BY <1>1, <1>2, <2>1 DEF At
  <2>2. CASE op = "remove"
    BY <1>1, <1>2, <2>2 DEF Whole, Linked
  <2> QED
    BY <1>1, <2>1, <2>2 DEF SeekingBefore
<1> DEFINE nx == [next EXCEPT ![prev] = to]
<1>5. nx \in [nodes -> nodes \cup {Null}]
  <2>1. next \in [nodes -> nodes \cup {Null}] /\ to \in nodes \cup {Null}
    BY <1>1, <1>4, LinksTyped, PointersTyped DEF Whole
  <2> QED
    BY <2>1
<1>6. nx[s[k - 1]] = At(s, k + 1)
  BY <1>3, <1>4 DEF TypeOK
<1>7. \A i \in 1 .. count : i # k /\ i + 1 # k => nx[s[i]] = next[s[i]]
  <2>1. ASSUME NEW i \in 1 .. count, i + 1 # k PROVE s[i] \in nodes /\ s[i] # s[k - 1]
    <3>1. k - 1 \in 1 .. count /\ i # k - 1
      BY <1>1, <1>3, <2>1
    <3> QED
      BY <1>1, <3>1 DEF Whole, Order
  <2> QED
    BY <1>3, <2>1 DEF TypeOK
<1>8. next' = Without(nx, s[k]) /\ data' = Without(data, s[k])
  BY <1>2
<1> HIDE DEF nx
<1>9. \/ FreeCell(data[s[k]]) /\ lost' = lost
      \/ cell' = cell /\ lost' = lost \cup {data[s[k]]}
  BY <1>2
<1>10. head' = IF k = 1 THEN At(s, 2) ELSE head
  BY <1>3
<1>11. cell[data[s[k]]] = key /\ NotBefore(s, k)
  BY <1>2
<1> QED
  BY <1>1, <1>5, <1>6, <1>7, <1>8, <1>9, <1>10, <1>11, NodeRemoved

LEMMA DeleteLastKeeps ==
  ASSUME TypeOK, CellInv, NEW s, Shape(s), DeleteLast
  PROVE  Kept /\ ValueStep
BY InnerKeeps DEF DeleteLast, Return

LEMMA RemoveInnerKeeps ==
  ASSUME TypeOK, CellInv, NEW s, Shape(s), RemoveInner
  PROVE  Kept /\ ValueStep
<1>1. /\ pc = "before" /\ op = "remove" /\ next[prev] = trav
      /\ data' = Without(data, trav)
      /\ next' = Without([next EXCEPT ![prev] = next[trav]], trav)
      /\ count' = count - 1 /\ lost' = lost \cup {data[trav]}
      /\ ReturnNothing /\ result' = 1 /\ head' = head /\ cell' = cell
  BY DEF RemoveInner, Return
<1> QED
  BY <1>1, InnerKeeps

(* The deletion by copying: the k-th node stays with the next one's cell,  *)
(* and it is the next node that goes.                                      *)
LEMMA DeleteInnerKeeps ==
  ASSUME TypeOK, CellInv, NEW s, Shape(s), DeleteInner
  PROVE  Kept /\ ValueStep
<1> DEFINE temp == next[trav]
           dt == [data EXCEPT ![trav] = data[temp]]
           nx == [next EXCEPT ![trav] = next[temp]]
<1>1. /\ Hit("delete") /\ temp # Null /\ FreeCell(data[trav])
      /\ data' = Without(dt, temp) /\ next' = Without(nx, temp)
      /\ count' = count - 1 /\ ReturnNothing /\ result' = 1
      /\ head' = head /\ lost' = lost
  BY DEF DeleteInner, Return
<1>2. Whole(s) /\ key \in Values /\ List = Stored(s) /\ count \in Nat
  BY <1>1, HitAt
<1>3. PICK k \in 1 .. count : /\ trav = s[k] /\ NotBefore(s, k) /\ cell[data[s[k]]] = key
  BY <1>1, HitAt
<1>4. k + 1 \in 1 .. count /\ temp = s[k + 1] /\ next[temp] = At(s, k + 2)
  <2>1. temp = At(s, k + 1)
    BY <1>2, <1>3 DEF Whole, Linked
  <2>2. k + 1 \in 1 .. count
    BY <1>1, <2>1 DEF At
  <2>3. next[s[k + 1]] = At(s, (k + 1) + 1) /\ (k + 1) + 1 = k + 2
    BY <1>2, <2>2 DEF Whole, Linked
  <2> QED
    BY <2>1, <2>2, <2>3 DEF At
<1>5. /\ \A i \in 1 .. count : s[i] \in nodes /\ data[s[i]] \in cells /\ data[s[i]] \notin lost
      /\ \A i \in 1 .. count : s[i] = trav <=> i = k
      /\ \A i \in 1 .. count : s[i] = temp <=> i = k + 1
      /\ trav \in nodes /\ temp \in nodes /\ trav # temp
      /\ next \in [nodes -> nodes \cup {Null}] /\ next[temp] \in nodes \cup {Null}
  <2>1. \A i \in 1 .. count : s[i] \in nodes /\ data[s[i]] \in cells /\ data[s[i]] \notin lost
    BY <1>2 DEF Whole, Order, CellInv
  <2>2. \A i \in 1 .. count : s[i] = trav <=> i = k
    BY <1>2, <1>3 DEF Whole, Order
  <2>3. \A i \in 1 .. count : s[i] = temp <=> i = k + 1
    BY <1>2, <1>4 DEF Whole, Order
  <2>4. trav \in nodes /\ temp \in nodes /\ trav # temp
    BY <1>2, <1>3, <1>4, <2>1, <2>2
  <2>5. next \in [nodes -> nodes \cup {Null}]
    BY <1>2, LinksTyped
  <2> QED
    BY <2>1, <2>2, <2>3, <2>4, <2>5
<1> HIDE DEF temp
<1>6. /\ nodes' = nodes \ {temp} /\ DOMAIN dt = nodes /\ DOMAIN nx = nodes
      /\ \A x \in nodes' : next'[x] = nx[x] /\ data'[x] = dt[x]
      /\ next' \in [nodes' -> nodes \cup {Null}] /\ data' \in [nodes' -> Cells]
  <2>1. dt \in [nodes -> Cells] /\ nx \in [nodes -> nodes \cup {Null}]
    BY <1>5 DEF TypeOK
  <2> HIDE DEF dt, nx
  <2>2. DOMAIN next' = nodes \ {temp} /\ \A x \in nodes \ {temp} : next'[x] = nx[x]
    BY <1>1, <2>1, WithoutOne
  <2>3. DOMAIN data' = nodes \ {temp} /\ \A x \in nodes \ {temp} : data'[x] = dt[x]
    BY <1>1, <2>1, WithoutOne
  <2>4. nodes' = nodes \ {temp}
    BY <2>2 DEF nodes
  <2>5. next' = [x \in nodes' |-> next'[x]] /\ data' = [x \in nodes' |-> data'[x]]
    BY <1>1, <2>1, <2>4 DEF Without, Restrict
  <2> QED
    BY <2>1, <2>2, <2>3, <2>4, <2>5
<1>7. /\ cells' = cells \ {data[trav]} /\ \A x \in cells' : cell'[x] = cell[x]
      /\ cell' \in [cells' -> Values]
  BY <1>1, <1>3, <1>5, CellFreed
<1>8. TypeOK'
  <2>1. cells' \subseteq cells /\ lost' \subseteq cells'
    BY <1>1, <1>3, <1>5, <1>7 DEF TypeOK
  <2>2. head' \in nodes \cup {Null} /\ count > 0
    BY <1>1, <1>2, <1>3, LinksTyped
  <2> QED
    BY <1>1, <1>2, <1>6, <1>7, <2>1, <2>2, RemovalTypes
<1>9. /\ data'[trav] = data[temp]
      /\ \A x \in nodes' : x # trav => data'[x] = data[x]
      /\ next'[trav] = next[temp]
      /\ \A x \in nodes' : x # trav => next'[x] = next[x]
  BY <1>5, <1>6 DEF TypeOK
<1>10. CellInv'
  <2>1. ASSUME NEW x \in nodes', NEW y \in nodes', data'[x] = data'[y] PROVE x = y
    BY <1>5, <1>6, <1>9, <2>1 DEF CellInv
  <2>2. ASSUME NEW x \in nodes' PROVE data'[x] \in cells' /\ data'[x] \notin lost'
    <3>1. data[x] \in cells /\ data[x] \notin lost /\ data[temp] \in cells /\ data[temp] \notin lost
      BY <1>5, <1>6 DEF CellInv
    <3>2. data[temp] # data[trav] /\ (x # trav => data[x] # data[trav])
      BY <1>5, <1>6 DEF CellInv
    <3> QED
      BY <1>1, <1>7, <1>9, <3>1, <3>2
  <2>3. ASSUME NEW c \in cells', c \notin lost' PROVE \E x \in nodes' : c = data'[x]
    <3>1. PICK m \in nodes : c = data[m]
      BY <1>1, <1>7, <2>3 DEF CellInv
    <3>2. m # trav
      BY <1>7, <3>1
    <3>3. m # temp => m \in nodes' /\ data'[m] = c
      BY <1>6, <1>9, <3>1, <3>2
    <3>4. m = temp => trav \in nodes' /\ data'[trav] = c
      BY <1>5, <1>6, <1>9, <3>1
    <3> QED
      BY <3>3, <3>4
  <2> QED
    BY <2>1, <2>2, <2>3 DEF CellInv
<1> DEFINE skip == Skipped(s, count, k + 1)
<1>11. PICK t : t = skip
  OBVIOUS
<1>12. Whole(t)'
  <2>1. k + 1 > 1 /\ (k + 1) - 1 = k /\ (k + 1) + 1 = k + 2 /\ k + 1 # 1
    BY <1>2
  <2>2. next'[s[k]] = At(s, k + 2)
    BY <1>3, <1>4, <1>9
  <2>3. ASSUME NEW i \in 1 .. count, i # k + 1, i + 1 # k + 1
        PROVE  next'[s[i]] = At(s, i + 1)
    <3>1. i # k
      BY <2>3
    <3>2. s[i] \in nodes' /\ s[i] # trav
      BY <1>5, <1>6, <2>3, <3>1
    <3> QED
      BY <1>2, <1>9, <3>2 DEF Whole, Linked
  <2>4. nodes' = nodes \ {s[k + 1]} /\ count' = count - 1 /\ head' = head
    BY <1>1, <1>4, <1>6
  <2>5. /\ k + 1 \in 1 .. count
        /\ head' = IF k + 1 = 1 THEN At(s, 2) ELSE head
        /\ k + 1 > 1 => next'[s[(k + 1) - 1]] = At(s, (k + 1) + 1)
    BY <1>4, <2>1, <2>2, <2>4
  <2> QED
    BY <1>2, <1>11, <2>3, <2>4, <2>5, ChainWithout
<1>13. ASSUME NEW i \in 1 .. count - 1
       PROVE  cell'[data'[t[i]]] = IF i < k THEN cell[data[s[i]]] ELSE cell[data[s[i + 1]]]
  <2>1. i \in 1 .. count /\ i + 1 \in 1 .. count /\ k \in Nat /\ i \in Nat
    BY <1>2
  <2>2. ASSUME NEW j \in 1 .. count, j # k, j # k + 1
        PROVE  cell'[data'[s[j]]] = cell[data[s[j]]]
    <3>1. s[j] \in nodes' /\ s[j] # trav /\ data'[s[j]] = data[s[j]]
      BY <1>5, <1>6, <1>9, <2>2
    <3>2. data[s[j]] \in cells'
      BY <1>5, <1>7, <3>1 DEF CellInv
    <3> QED
      BY <1>7, <3>1, <3>2
  <2>3. CASE i < k
    <3>1. t[i] = s[i] /\ i # k /\ i # k + 1
      BY <1>11, <2>1, <2>3 DEF Skipped
    <3> QED
      BY <2>1, <2>2, <2>3, <3>1
  <2>4. CASE i = k
    <3>1. t[i] = trav
      BY <1>3, <1>11, <2>1, <2>4 DEF Skipped
    <3>2. data'[t[i]] = data[s[i + 1]] /\ data[s[i + 1]] \in cells'
      BY <1>4, <1>5, <1>7, <1>9, <2>4, <3>1 DEF CellInv
    <3> QED
      BY <1>7, <2>1, <2>4, <3>2
  <2>5. CASE i > k
    <3>1. t[i] = s[i + 1] /\ i + 1 # k /\ i + 1 # k + 1 /\ ~(i < k)
      BY <1>11, <2>1, <2>5 DEF Skipped
    <3> QED
      BY <2>1, <2>2, <3>1
  <2> QED
    BY <2>1, <2>3, <2>4, <2>5
<1> QED
  BY <1>1, <1>2, <1>3, <1>8, <1>10, <1>12, <1>13, TakenOut
-----------------------------------------------------------------------------
(* A node in front of the list.                                            *)
LEMMA FrontOf ==
  ASSUME NEW v \in Values, NEW n \in Nat, NEW u \in [1 .. n -> Values]
  PROVE  <<v>> \o u = [i \in 1 .. n + 1 |-> IF i = 1 THEN v ELSE u[i - 1]]
<1>1. u \in Seq(Values) /\ Len(u) = n /\ <<v>> \in Seq(Values) /\ Len(<<v>>) = 1
  OBVIOUS
<1> DEFINE r == <<v>> \o u
<1>2. r \in Seq(Values) /\ Len(r) = n + 1 /\ r[1] = v
  BY <1>1
<1>3. ASSUME NEW i \in 1 .. n + 1, i # 1 PROVE r[i] = u[i - 1]
  BY <1>1, <1>3
<1> HIDE DEF r
<1>4. r = [i \in 1 .. n + 1 |-> r[i]]
  BY <1>2
<1>5. r = [i \in 1 .. n + 1 |-> IF i = 1 THEN v ELSE u[i - 1]]
  BY <1>2, <1>3, <1>4
<1> QED
  BY <1>5 DEF r

LEMMA AddKeeps ==
  ASSUME TypeOK, CellInv, NEW s, Shape(s), NEW v \in Values, Add(v)
  PROVE  Kept /\ ValueStep
<1>1. PICK n, c :
        /\ n = Fresh(Nodes \ nodes) /\ c = Fresh(Cells \ cells)
        /\ cell' = [b \in cells \cup {c} |-> IF b = c THEN v ELSE cell[b]]
        /\ data' = [m \in nodes \cup {n} |-> IF m = n THEN c ELSE data[m]]
        /\ next' = [m \in nodes \cup {n} |-> IF m = n THEN head ELSE next[m]]
        /\ head' = n /\ count' = count + 1
  BY DEF Add
<1>2. /\ pc = "idle" /\ nodes # Nodes /\ cells # Cells
      /\ UNCHANGED <<lost, pc, callVars, localVars, result>>
  BY DEF Add
<1>3. n \in Nodes \ nodes /\ c \in Cells \ cells
  <2>1. /\ Nodes \ nodes \in SUBSET Nat /\ Nodes \ nodes # {}
        /\ Cells \ cells \in SUBSET Nat /\ Cells \ cells # {}
    BY <1>2, ListAssumption DEF TypeOK
  <2> QED
    BY <1>1, <2>1, FreshIsFree
<1>4. Resting(s) /\ Whole(s) /\ List = Stored(s) /\ count \in Nat
  BY <1>2, Counts, ContentsInOrder DEF Shape, Resting, List
<1>5. count' \in 0 .. Cardinality(Nodes)
  <2>1. IsFiniteSet(Nodes) /\ nodes \subseteq Nodes /\ n \in Nodes \ nodes
    BY <1>3, ListAssumption DEF TypeOK
  <2>2. IsFiniteSet(nodes) /\ IsFiniteSet(nodes \cup {n})
    BY <2>1, FS_Subset
  <2>3. Cardinality(nodes \cup {n}) = count + 1
    BY <1>4, <2>1, <2>2, NodesCounted, FS_AddElement DEF Whole
  <2>4. nodes \cup {n} \subseteq Nodes
    BY <2>1
  <2>5. Cardinality(nodes \cup {n}) <= Cardinality(Nodes)
    BY <2>1, <2>4, FS_Subset
  <2> QED
    BY <1>1, <1>4, <2>3, <2>5, Counts
<1>6. /\ nodes' = nodes \cup {n} /\ cells' = cells \cup {c}
      /\ next'[n] = head /\ data'[n] = c /\ cell'[c] = v
      /\ \A m \in nodes : next'[m] = next[m] /\ data'[m] = data[m]
      /\ \A b \in cells : cell'[b] = cell[b]
  BY <1>1, <1>3 DEF nodes, cells
<1>7. TypeOK'
  <2>1. /\ next' \in [nodes' -> Nodes \cup {Null}] /\ data' \in [nodes' -> Cells]
        /\ cell' \in [cells' -> Values]
    <3>1. next' \in [nodes \cup {n} -> Nodes \cup {Null}]
      BY <1>1, <1>3 DEF TypeOK
    <3>2. data' \in [nodes \cup {n} -> Cells]
      BY <1>1, <1>3 DEF TypeOK
    <3>3. cell' \in [cells \cup {c} -> Values]
      BY <1>1, <1>3 DEF TypeOK
    <3> QED
      BY <1>6, <3>1, <3>2, <3>3
  <2>2. /\ nodes' \subseteq Nodes /\ cells' \subseteq Cells /\ lost' \subseteq cells'
        /\ head' \in Nodes \cup {Null}
    BY <1>1, <1>2, <1>3, <1>6 DEF TypeOK
  <2> QED
    BY <1>2, <1>5, <2>1, <2>2 DEF TypeOK
<1>8. CellInv'
  <2>1. \A m \in nodes : data[m] \in cells /\ data[m] \notin lost /\ data[m] # c
    BY <1>3 DEF CellInv
  <2>2. \A x, y \in nodes' : data'[x] = data'[y] => x = y
    BY <1>3, <1>6, <2>1 DEF CellInv
  <2>3. \A x \in nodes' : data'[x] \in cells' /\ data'[x] \notin lost'
    BY <1>2, <1>3, <1>6, <2>1 DEF TypeOK
  <2>4. ASSUME NEW b \in cells', b \notin lost' PROVE \E x \in nodes' : b = data'[x]
    <3>1. CASE b = c
      BY <1>6, <3>1
    <3>2. CASE b # c
      <4>1. PICK m \in nodes : b = data[m]
        BY <1>2, <1>6, <2>4, <3>2 DEF CellInv
      <4> QED
        BY <1>6, <4>1
    <3> QED
      BY <3>1, <3>2
  <2> QED
    BY <2>2, <2>3, <2>4 DEF CellInv
<1>9. PICK t : t = [i \in 1 .. count + 1 |-> IF i = 1 THEN n ELSE s[i - 1]]
  OBVIOUS
<1>10. /\ t[1] = n /\ \A i \in 1 .. count : t[i + 1] = s[i] /\ s[i] \in nodes
       /\ \A i \in 1 .. count + 1 : i = 1 \/ (i - 1 \in 1 .. count /\ t[i] = s[i - 1])
  BY <1>4, <1>9 DEF Whole, Order
<1>11. Whole(t)'
  <2>0. count' = count + 1 /\ head' = n /\ 1 \in 1 .. count + 1
    BY <1>1, <1>4
  <2>1. t \in [1 .. count' -> nodes']
    BY <1>6, <1>9, <1>10, <2>0
  <2>2. ASSUME NEW i \in 1 .. count', NEW j \in 1 .. count', t[i] = t[j] PROVE i = j
    <3>1. i \in 1 .. count + 1 /\ j \in 1 .. count + 1 /\ n \notin nodes
      BY <1>3, <2>0
    <3>2. i = 1 \/ (i - 1 \in 1 .. count /\ t[i] = s[i - 1] /\ s[i - 1] \in nodes)
      BY <1>10, <3>1
    <3>3. j = 1 \/ (j - 1 \in 1 .. count /\ t[j] = s[j - 1] /\ s[j - 1] \in nodes)
      BY <1>10, <3>1
    <3>4. CASE i = 1 \/ j = 1
      BY <1>10, <2>2, <3>1, <3>2, <3>3, <3>4
    <3>5. CASE i # 1 /\ j # 1
      <4>1. i - 1 = j - 1
        BY <1>4, <2>2, <3>2, <3>3, <3>5 DEF Whole, Order
      <4> QED
        BY <1>4, <3>1, <4>1
    <3> QED
      BY <3>4, <3>5
  <2>3. ASSUME NEW m \in nodes' PROVE \E i \in 1 .. count' : m = t[i]
    <3>1. CASE m = n
      BY <1>10, <2>0, <3>1
    <3>2. CASE m \in nodes
      <4>1. PICK i \in 1 .. count : m = s[i]
        BY <1>4, <3>2 DEF Whole, Order
      <4>2. i + 1 \in 1 .. count'
        BY <1>4, <2>0
      <4> QED
        BY <1>10, <4>1, <4>2
    <3> QED
      BY <1>6, <2>3, <3>1, <3>2
  <2>4. \A i : At(t, i)' = IF i \in 1 .. count + 1 THEN t[i] ELSE Null
    BY <2>0 DEF At
  <2>5. head' = At(t, 1)'
    BY <1>10, <2>0, <2>4
  <2>6. \A i \in 1 .. count + 1 : At(t, i + 1)' = At(s, i)
    <3>1. ASSUME NEW i \in 1 .. count + 1 PROVE i + 1 \in 1 .. count + 1 <=> i \in 1 .. count
      BY <1>4
    <3> QED
      BY <1>10, <2>4, <3>1 DEF At
  <2>7. ASSUME NEW i \in 1 .. count' PROVE next'[t[i]] = At(t, i + 1)'
    <3>1. CASE i = 1
      BY <1>4, <1>6, <1>10, <2>0, <2>6, <3>1 DEF Whole, Linked
    <3>2. CASE i # 1
      <4>1. i - 1 \in 1 .. count /\ t[i] = s[i - 1] /\ (i - 1) + 1 = i /\ s[i - 1] \in nodes
        BY <1>4, <1>10, <2>0, <3>2
      <4>2. next[s[i - 1]] = At(s, i)
        BY <1>4, <4>1 DEF Whole, Linked
      <4> QED
        BY <1>6, <2>0, <2>6, <4>1, <4>2
    <3> QED
      BY <3>1, <3>2
  <2> QED
    BY <2>1, <2>2, <2>3, <2>5, <2>7 DEF Whole, Order, Linked
<1>12. Shape(t)'
  BY <1>2, <1>4, <1>11 DEF Shape, Resting
<1>13. List' = <<v>> \o List
  <2>1. List' = Stored(t)'
    BY <1>2, <1>7, <1>11, ContentsNext DEF List
  <2>2. Stored(s) \in [1 .. count -> Values]
    BY <1>4, StoredTyped DEF Whole
  <2>3. ASSUME NEW i \in 1 .. count + 1
        PROVE  cell'[data'[t[i]]] = IF i = 1 THEN v ELSE Stored(s)[i - 1]
    <3>1. CASE i = 1
      BY <1>6, <1>10, <3>1
    <3>2. CASE i # 1
      <4>1. i - 1 \in 1 .. count /\ t[i] = s[i - 1] /\ s[i - 1] \in nodes
        BY <1>10, <3>2
      <4>2. cell'[data'[s[i - 1]]] = cell[data[s[i - 1]]]
        BY <1>6, <4>1 DEF CellInv
      <4> QED
        BY <3>2, <4>1, <4>2 DEF Stored
    <3> QED
      BY <3>1, <3>2
  <2>4. Stored(t)' = [i \in 1 .. count + 1 |-> IF i = 1 THEN v ELSE Stored(s)[i - 1]]
    <3>1. count' = count + 1
      BY <1>1
    <3> QED
      BY <2>3, <3>1 DEF Stored
  <2> QED
    BY <1>4, <2>1, <2>2, <2>4, FrontOf
<1>14. AsValues!Add(v)
  BY <1>2, <1>13 DEF AsValues!Add, List
<1> QED
  BY <1>7, <1>8, <1>12, <1>14 DEF Kept, ValueStep, AsValues!Next
-----------------------------------------------------------------------------
(* A step that changes links only: the order and the values stay.          *)
LEMMA LinksTurn ==
  ASSUME TypeOK, CellInv, UNCHANGED <<count, data, heapVars>>,
         next' \in [nodes -> Nodes \cup {Null}], NEW s
  PROVE  /\ nodes' = nodes /\ cells' = cells /\ CellInv'
         /\ Order(s)' <=> Order(s)
         /\ Stored(s)' = Stored(s)
         /\ \A i : At(s, i)' = At(s, i)
<1>1. nodes' = nodes /\ cells' = cells
  BY DEF nodes, cells
<1>2. CellInv'
  BY <1>1 DEF CellInv
<1>3. Order(s)' <=> Order(s)
  BY <1>1 DEF Order
<1>4. Stored(s)' = Stored(s)
  BY DEF Stored
<1>5. \A i : At(s, i)' = At(s, i)
  BY DEF At
<1> QED
  BY <1>1, <1>2, <1>3, <1>4, <1>5

LEMMA LinksTypes ==
  ASSUME TypeOK, CellInv, UNCHANGED <<count, data, heapVars>>,
         next' \in [nodes -> Nodes \cup {Null}], head' \in Nodes \cup {Null},
         pc' \in Places, op' \in Operations, key' \in Values \cup {Null},
         trav' \in nodes \cup {Null}, prev' \in nodes \cup {Null},
         stack' \in Seq(Nodes), before' \in Seq(Values), result' \in {0, 1}
  PROVE  TypeOK'
<1>1. nodes' = nodes /\ cells' = cells /\ nodes \subseteq Nodes
  BY DEF nodes, cells, TypeOK
<1>2. next' \in [nodes' -> Nodes \cup {Null}] /\ data' \in [nodes' -> Cells]
  BY <1>1 DEF TypeOK
<1> QED
  BY <1>1, <1>2 DEF TypeOK

LEMMA OneLink ==
  ASSUME NEW m \in nodes, NEW x \in Nodes \cup {Null},
         next \in [nodes -> Nodes \cup {Null}], next' = [next EXCEPT ![m] = x]
  PROVE  /\ next' \in [nodes -> Nodes \cup {Null}] /\ next'[m] = x
         /\ \A y \in nodes : y # m => next'[y] = next[y]
OBVIOUS

(* Every link is turned, and the head is the node that was the last.       *)
LEMMA TurnedRound ==
  ASSUME TypeOK, CellInv, NEW s, Order(s), before = Stored(s), pc # "idle", count > 1,
         UNCHANGED <<count, data, heapVars, result>>, ReturnNothing,
         next' \in [nodes -> Nodes \cup {Null}], head' = s[count],
         \A i \in 1 .. count : next'[s[i]] = At(s, i - 1)
  PROVE  Kept /\ ValueStep
<1>0. count \in Nat /\ count \in 1 .. count
  BY Counts
<1>1. PICK t : t = [i \in 1 .. count |-> s[(count - i) + 1]]
  OBVIOUS
<1>2. \A i \in 1 .. count : /\ (count - i) + 1 \in 1 .. count /\ t[i] = s[(count - i) + 1]
                            /\ s[i] \in nodes /\ t[(count - i) + 1] = s[i]
  <2>1. \A i \in 1 .. count : /\ (count - i) + 1 \in 1 .. count
                              /\ (count - ((count - i) + 1)) + 1 = i
    BY <1>0
  <2>2. \A i \in 1 .. count : t[i] = s[(count - i) + 1]
    BY <1>1
  <2> QED
    BY <2>1, <2>2 DEF Order
<1>3. /\ nodes' = nodes /\ CellInv' /\ Stored(s)' = Stored(s)
      /\ \A i : At(s, i)' = At(s, i)
  BY LinksTurn
<1>4. TypeOK'
  <2>1. head' \in Nodes \cup {Null}
    BY <1>0, <1>2 DEF TypeOK
  <2> QED
    BY <2>1, LinksTypes DEF TypeOK, ReturnNothing, Places, Operations
<1>5. Whole(t)'
  <2>1. t \in [1 .. count -> nodes]
    BY <1>1, <1>2
  <2>2. ASSUME NEW i \in 1 .. count, NEW j \in 1 .. count, t[i] = t[j] PROVE i = j
    <3>1. (count - i) + 1 = (count - j) + 1
      BY <1>2, <2>2 DEF Order
    <3> QED
      BY <1>0, <3>1
  <2>3. ASSUME NEW m \in nodes PROVE \E i \in 1 .. count : m = t[i]
    <3>1. PICK i \in 1 .. count : m = s[i]
      BY DEF Order
    <3> QED
      BY <1>2, <3>1
  <2>4. \A i : At(t, i)' = IF i \in 1 .. count THEN t[i] ELSE Null
    BY DEF At
  <2>5. head' = At(t, 1)'
    <3>1. 1 \in 1 .. count /\ (count - 1) + 1 = count
      BY <1>0
    <3>2. t[1] = s[count]
      BY <1>2, <3>1
    <3> QED
      BY <2>4, <3>1, <3>2
  <2>6. ASSUME NEW i \in 1 .. count PROVE next'[t[i]] = At(t, i + 1)'
    <3>1. next'[t[i]] = At(s, count - i)
      <4>1. ((count - i) + 1) - 1 = count - i
        BY <1>0
      <4> QED
        BY <1>2, <4>1
    <3>2. CASE i = count
      BY <1>0, <2>4, <3>1, <3>2 DEF At
    <3>3. CASE i # count
      <4>1. /\ i + 1 \in 1 .. count /\ count - i \in 1 .. count
            /\ (count - (i + 1)) + 1 = count - i
        BY <1>0, <3>3
      <4>2. t[i + 1] = s[count - i]
        BY <1>2, <4>1
      <4> QED
        BY <2>4, <3>1, <4>1, <4>2 DEF At
    <3> QED
      BY <3>2, <3>3
  <2> QED
    BY <1>3, <2>1, <2>2, <2>3, <2>5, <2>6 DEF Whole, Order, Linked
<1>6. Shape(t)'
  BY <1>5 DEF Shape, Resting, ReturnNothing
<1>7. List = Stored(s) /\ Len(Stored(s)) = count
  BY StoredTyped DEF List
<1>8. List' = AsValues!Reverse(List)
  <2>1. List' = Stored(t)'
    BY <1>4, <1>5, ContentsNext DEF List, ReturnNothing
  <2>2. Stored(t)' = [i \in 1 .. count |-> cell[data[t[i]]]]
    BY DEF Stored
  <2>3. \A i \in 1 .. count : cell[data[t[i]]] = Stored(s)[(count - i) + 1]
    BY <1>2 DEF Stored
  <2> QED
    BY <1>7, <2>1, <2>2, <2>3 DEF AsValues!Reverse
<1>9. AsValues!Turn
  BY <1>8 DEF AsValues!Turn, List
<1> QED
  BY <1>3, <1>4, <1>6, <1>9 DEF Kept, ValueStep, AsValues!Next

LEMMA TurnLoopBeginsKeeps ==
  ASSUME TypeOK, CellInv, NEW s, Shape(s), TurnLoopBegins
  PROVE  Kept /\ ValueStep
<1>1. /\ count > 1 /\ Enter("turn", Null, "turn") /\ prev' = head /\ trav' = next[head]
      /\ next' = [next EXCEPT ![head] = Null]
      /\ UNCHANGED <<llVars, data, heapVars, stack, result>>
      /\ pc' = "turn" /\ op' = "turn" /\ key' = Null
  BY DEF TurnLoopBegins, Enter
<1>2. /\ Whole(s) /\ stack = <<>>
      /\ before' = Stored(s) /\ before' \in Seq(Values) /\ List' = List
  BY <1>1, BeginsSame
<1>3. /\ count \in Nat /\ head = s[1] /\ head \in nodes /\ next[head] = s[2] /\ s[2] \in nodes
      /\ next \in [nodes -> Nodes \cup {Null}]
      /\ \A i \in 2 .. count : s[i] \in nodes /\ s[i] # s[1]
  <2>1. count \in Nat /\ 1 \in 1 .. count /\ 2 \in 1 .. count /\ 1 + 1 = 2
    BY <1>1, Counts
  <2>2. head = s[1] /\ s[1] \in nodes /\ next[s[1]] = s[2] /\ s[2] \in nodes
    BY <1>2, <2>1 DEF Whole, Linked, Order, At
  <2>3. \A i \in 2 .. count : s[i] \in nodes /\ s[i] # s[1]
    BY <1>2, <2>1 DEF Whole, Order
  <2> QED
    BY <1>2, <2>1, <2>2, <2>3 DEF TypeOK
<1>4. /\ next' \in [nodes -> Nodes \cup {Null}] /\ next'[s[1]] = Null
      /\ \A y \in nodes : y # s[1] => next'[y] = next[y]
  BY <1>1, <1>3, OneLink
<1>5. /\ CellInv' /\ Order(s)' /\ Stored(s)' = Stored(s)
      /\ \A i : At(s, i)' = At(s, i)
  BY <1>1, <1>2, <1>4, LinksTurn DEF Whole
<1>6. Turning(s)'
  <2>1. 2 \in 2 .. count
    BY <1>1, <1>3
  <2>2. ASSUME NEW i \in 1 .. 2 - 1 PROVE next'[s[i]] = At(s, i - 1)
    <3>1. i = 1 /\ i - 1 \notin 1 .. count
      OBVIOUS
    <3> QED
      BY <1>4, <3>1 DEF At
  <2>3. \A i \in 2 .. count : next'[s[i]] = At(s, i + 1)
    BY <1>2, <1>3, <1>4 DEF Whole, Linked
  <2>4. /\ prev' = s[2 - 1] /\ trav' = s[2] /\ count' = count
        /\ before' = Stored(s)' /\ stack' = <<>> /\ Order(s)'
    BY <1>1, <1>2, <1>3, <1>5
  <2> QED
    BY <1>5, <2>1, <2>2, <2>3, <2>4 DEF Turning
<1>7. Shape(s)'
  BY <1>1, <1>6 DEF Shape
<1>8. TypeOK'
  BY <1>1, <1>2, <1>3, <1>4, LinksTypes DEF TypeOK, Places, Operations
<1> QED
  BY <1>1, <1>2, <1>5, <1>7, <1>8 DEF Kept, ValueStep

(* The loop is at the k-th node, with the node before it behind.           *)
LEMMA TurningAt ==
  ASSUME TypeOK, NEW s, Shape(s), pc = "turn"
  PROVE  /\ Turning(s) /\ count \in Nat
         /\ next \in [nodes -> Nodes \cup {Null}]
         /\ \A i \in 1 .. count : s[i] \in nodes
         /\ \A i, j \in 1 .. count : s[i] = s[j] => i = j
<1>1. Turning(s) /\ count \in Nat
  BY Counts DEF Shape
<1>2. /\ \A i \in 1 .. count : s[i] \in nodes
      /\ \A i, j \in 1 .. count : s[i] = s[j] => i = j
  BY <1>1 DEF Turning, Order
<1> QED
  BY <1>1, <1>2 DEF TypeOK

LEMMA TurnLoopKeeps ==
  ASSUME TypeOK, CellInv, NEW s, Shape(s), TurnLoop
  PROVE  Kept /\ ValueStep
<1>1. /\ pc = "turn" /\ next[trav] # Null
      /\ next' = [next EXCEPT ![trav] = prev] /\ prev' = trav /\ trav' = next[trav]
      /\ UNCHANGED <<llVars, data, heapVars, callVars, pc, stack, result>>
  BY DEF TurnLoop
<1>2. /\ Turning(s) /\ count \in Nat /\ next \in [nodes -> Nodes \cup {Null}]
      /\ \A i \in 1 .. count : s[i] \in nodes
      /\ \A i, j \in 1 .. count : s[i] = s[j] => i = j
  BY <1>1, TurningAt
<1>3. PICK k \in 2 .. count :
        /\ prev = s[k - 1] /\ trav = s[k]
        /\ \A i \in 1 .. k - 1 : next[s[i]] = At(s, i - 1)
        /\ \A i \in k .. count : next[s[i]] = At(s, i + 1)
  BY <1>2 DEF Turning
<1>4. k - 1 \in 1 .. count /\ k \in 1 .. count
  BY <1>2
<1>5. k + 1 \in 2 .. count /\ trav' = s[k + 1] /\ s[k + 1] \in nodes
  <2>1. next[trav] = At(s, k + 1)
    BY <1>2, <1>3
  <2>2. k + 1 \in 1 .. count
    BY <1>1, <2>1 DEF At
  <2> QED
    BY <1>1, <1>2, <1>4, <2>1, <2>2 DEF At
<1>6. /\ next' \in [nodes -> Nodes \cup {Null}] /\ next'[s[k]] = s[k - 1]
      /\ \A y \in nodes : y # s[k] => next'[y] = next[y]
  <2>1. s[k] \in nodes /\ s[k - 1] \in Nodes /\ next' = [next EXCEPT ![s[k]] = s[k - 1]]
    BY <1>1, <1>2, <1>3, <1>4 DEF TypeOK
  <2> QED
    BY <1>2, <2>1, OneLink
<1>7. /\ CellInv' /\ Order(s)' /\ Stored(s)' = Stored(s)
      /\ \A i : At(s, i)' = At(s, i)
  BY <1>1, <1>2, <1>6, LinksTurn DEF Turning
<1>8. Turning(s)'
  <2>1. ASSUME NEW i \in 1 .. (k + 1) - 1 PROVE next'[s[i]] = At(s, i - 1)
    <3>1. CASE i = k
      BY <1>4, <1>6, <3>1 DEF At
    <3>2. CASE i # k
      <4>1. i \in 1 .. k - 1 /\ i \in 1 .. count
        BY <1>2, <3>2
      <4> QED
        BY <1>2, <1>3, <1>4, <1>6, <3>2, <4>1
    <3> QED
      BY <3>1, <3>2
  <2>2. ASSUME NEW i \in k + 1 .. count PROVE next'[s[i]] = At(s, i + 1)
    <3>1. i \in k .. count /\ i \in 1 .. count /\ i # k
      BY <1>2
    <3> QED
      BY <1>2, <1>3, <1>4, <1>6, <3>1
  <2>3. /\ prev' = s[(k + 1) - 1] /\ trav' = s[k + 1] /\ count' = count
        /\ before' = Stored(s)' /\ stack' = <<>>
    <3>1. (k + 1) - 1 = k
      BY <1>2
    <3> QED
      BY <1>1, <1>2, <1>3, <1>5, <1>7, <3>1 DEF Turning
  <2> QED
    BY <1>5, <1>7, <2>1, <2>2, <2>3 DEF Turning
<1>9. Shape(s)'
  BY <1>1, <1>8 DEF Shape
<1>10. TypeOK'
  <2>1. trav' \in nodes /\ prev' \in nodes
    BY <1>1, <1>2, <1>3, <1>4, <1>5
  <2> QED
    BY <1>1, <1>6, <2>1, LinksTypes DEF TypeOK
<1> QED
  BY <1>1, <1>7, <1>9, <1>10 DEF Kept, ValueStep, List

LEMMA TurnLoopEndsKeeps ==
  ASSUME TypeOK, CellInv, NEW s, Shape(s), TurnLoopEnds
  PROVE  Kept /\ ValueStep
<1>1. /\ pc = "turn" /\ next[trav] = Null /\ next' = [next EXCEPT ![trav] = prev]
      /\ head' = trav /\ ReturnNothing /\ UNCHANGED <<count, data, heapVars, result>>
  BY DEF TurnLoopEnds
<1>2. /\ Turning(s) /\ count \in Nat /\ next \in [nodes -> Nodes \cup {Null}]
      /\ \A i \in 1 .. count : s[i] \in nodes
      /\ \A i, j \in 1 .. count : s[i] = s[j] => i = j
  BY <1>1, TurningAt
<1>3. PICK k \in 2 .. count :
        /\ prev = s[k - 1] /\ trav = s[k]
        /\ \A i \in 1 .. k - 1 : next[s[i]] = At(s, i - 1)
        /\ \A i \in k .. count : next[s[i]] = At(s, i + 1)
  BY <1>2 DEF Turning
<1>4. k - 1 \in 1 .. count /\ k \in 1 .. count /\ k = count
  <2>1. k - 1 \in 1 .. count /\ k \in 1 .. count
    BY <1>2
  <2>2. next[trav] = At(s, k + 1) /\ Null \notin nodes
    BY <1>2, <1>3, Counts
  <2>3. k + 1 \notin 1 .. count
    BY <1>1, <1>2, <2>2 DEF At
  <2> QED
    BY <1>2, <2>1, <2>3
<1>5. /\ next' \in [nodes -> Nodes \cup {Null}] /\ next'[s[k]] = s[k - 1]
      /\ \A y \in nodes : y # s[k] => next'[y] = next[y]
  <2>1. s[k] \in nodes /\ s[k - 1] \in Nodes /\ next' = [next EXCEPT ![s[k]] = s[k - 1]]
    BY <1>1, <1>2, <1>3, <1>4 DEF TypeOK
  <2> QED
    BY <1>2, <2>1, OneLink
<1>6. ASSUME NEW i \in 1 .. count PROVE next'[s[i]] = At(s, i - 1)
  <2>1. CASE i = k
    BY <1>4, <1>5, <2>1 DEF At
  <2>2. CASE i # k
    <3>1. i \in 1 .. k - 1
      BY <1>2, <1>4, <2>2
    <3> QED
      BY <1>2, <1>3, <1>4, <1>5, <2>2, <3>1
  <2> QED
    BY <2>1, <2>2
<1>7. count > 1 /\ head' = s[count] /\ Order(s) /\ before = Stored(s)
  BY <1>1, <1>2, <1>3, <1>4 DEF Turning
<1> QED
  BY <1>1, <1>5, <1>6, <1>7, TurnedRound
-----------------------------------------------------------------------------
LEMMA TurnCallBeginsKeeps ==
  ASSUME TypeOK, CellInv, NEW s, Shape(s), NEW o \in {"turn2", "turn3"}, TurnCallBegins(o)
  PROVE  Kept /\ ValueStep
<1>1. /\ count > 1 /\ Enter(o, Null, "last") /\ trav' = head
      /\ UNCHANGED <<llVars, nodeVars, heapVars, prev, stack, result>>
      /\ pc' = "last" /\ op' = o /\ key' = Null
  BY DEF TurnCallBegins, Enter
<1>2. /\ Resting(s) /\ Whole(s) /\ prev = Null /\ stack = <<>>
      /\ before' = Stored(s) /\ before' \in Seq(Values) /\ List' = List
  BY <1>1, BeginsSame
<1>3. 1 \in 1 .. count /\ head = s[1] /\ head \in nodes
  <2>1. 1 \in 1 .. count
    BY <1>1, Counts
  <2> QED
    BY <1>2, <2>1 DEF Whole, Linked, Order, At
<1>4. SeekingLast(s)'
  <2>1. Whole(s)' /\ Stored(s)' = Stored(s) /\ count' = count
    BY <1>1, <1>2, HeapAlone
  <2> QED
    BY <1>1, <1>2, <1>3, <2>1 DEF SeekingLast
<1>5. Shape(s)'
  BY <1>1, <1>4 DEF Shape
<1>6. Kept
  BY <1>1, <1>2, <1>3, <1>5, QuietStep DEF Places, Operations, TypeOK
<1> QED
  BY <1>1, <1>2, <1>6 DEF ValueStep

LEMMA LastPassesKeeps ==
  ASSUME TypeOK, CellInv, NEW s, Shape(s), LastPasses
  PROVE  Kept /\ ValueStep
<1>1. /\ pc = "last" /\ next[trav] # Null /\ trav' = next[trav]
      /\ UNCHANGED <<llVars, nodeVars, heapVars, callVars, pc, prev, stack, result>>
  BY DEF LastPasses
<1>2. SeekingLast(s) /\ count \in Nat
  BY <1>1, Counts DEF Shape
<1>3. PICK k \in 1 .. count : trav = s[k]
  BY <1>2 DEF SeekingLast
<1>4. k + 1 \in 1 .. count /\ trav' = s[k + 1] /\ s[k + 1] \in nodes
  <2>1. next[trav] = At(s, k + 1)
    BY <1>2, <1>3 DEF SeekingLast, Whole, Linked
  <2>2. k + 1 \in 1 .. count
    BY <1>1, <2>1 DEF At
  <2> QED
    BY <1>1, <1>2, <2>1, <2>2 DEF At, SeekingLast, Whole, Order
<1>5. SeekingLast(s)'
  <2>1. Whole(s)' /\ Stored(s)' = Stored(s) /\ count' = count
    BY <1>1, <1>2, HeapAlone DEF SeekingLast
  <2> QED
    BY <1>1, <1>2, <1>4, <2>1 DEF SeekingLast
<1>6. Shape(s)'
  BY <1>1, <1>5 DEF Shape
<1>7. Kept
  BY <1>1, <1>2, <1>4, <1>6, QuietStep DEF TypeOK, SeekingLast
<1> QED
  BY <1>1, <1>7 DEF ValueStep, List

LEMMA TurnCallsKeeps ==
  ASSUME TypeOK, CellInv, NEW s, Shape(s), TurnCalls
  PROVE  Kept /\ ValueStep
<1>1. /\ pc = "last" /\ next[trav] = Null /\ pc' = "call" /\ stack' = <<head>>
      /\ UNCHANGED <<llVars, nodeVars, heapVars, callVars, trav, prev, result>>
  BY DEF TurnCalls
<1>2. SeekingLast(s) /\ count \in Nat /\ count > 1 /\ Null \notin nodes
  BY <1>1, Counts DEF Shape, SeekingLast
<1>3. PICK k \in 1 .. count : trav = s[k]
  BY <1>2 DEF SeekingLast
<1>4. k = count
  <2>1. next[trav] = At(s, k + 1)
    BY <1>2, <1>3 DEF SeekingLast, Whole, Linked
  <2>2. k + 1 \notin 1 .. count
    BY <1>1, <1>2, <2>1 DEF At, SeekingLast, Whole, Order
  <2> QED
    BY <1>2, <2>2
<1>5. head = s[1] /\ head \in nodes /\ trav \in nodes
  <2>1. 1 \in 1 .. count /\ count \in 1 .. count
    BY <1>2
  <2> QED
    BY <1>2, <1>3, <1>4, <2>1 DEF SeekingLast, Whole, Linked, Order, At
<1>6. Len(stack') = 1 /\ stack'[1] = s[1] /\ stack' \in Seq(Nodes)
  BY <1>1, <1>5 DEF TypeOK
<1>7. Calling(s)'
  <2>1. Whole(s)' /\ Stored(s)' = Stored(s) /\ count' = count
    BY <1>1, <1>2, HeapAlone DEF SeekingLast
  <2>2. Called(s)'
    BY <1>6 DEF Called
  <2>3. Len(stack') \in 1 .. count' /\ Len(stack') < count'
    BY <1>2, <1>6, <2>1
  <2> QED
    BY <1>1, <1>2, <1>3, <1>4, <2>1, <2>2, <2>3 DEF Calling, SeekingLast
<1>8. Shape(s)'
  BY <1>1, <1>7 DEF Shape
<1>9. Kept
  BY <1>1, <1>2, <1>5, <1>6, <1>8, QuietStep DEF TypeOK, SeekingLast, Places
<1> QED
  BY <1>1, <1>2, <1>9 DEF ValueStep, List

(* The innermost call is for the node as far down as the stack is high.    *)
LEMMA CallingAt ==
  ASSUME TypeOK, NEW s, Shape(s), pc = "call"
  PROVE  /\ Calling(s) /\ Whole(s) /\ count \in Nat /\ Null \notin nodes
         /\ Len(stack) \in 1 .. count
         /\ stack[1] = s[Len(stack)] /\ next[stack[1]] = At(s, Len(stack) + 1)
         /\ trav \in nodes
<1>1. Calling(s) /\ Whole(s) /\ count \in Nat /\ Null \notin nodes /\ Len(stack) \in 1 .. count
  BY Counts DEF Shape, Calling
<1>2. stack[1] = s[Len(stack)]
  <2>1. 1 \in 1 .. Len(stack) /\ (Len(stack) + 1) - 1 = Len(stack)
    BY <1>1
  <2>2. stack[1] = s[(Len(stack) + 1) - 1]
    BY <1>1, <2>1 DEF Calling, Called
  <2> QED
    BY <2>1, <2>2
<1>3. next[stack[1]] = At(s, Len(stack) + 1)
  BY <1>1, <1>2 DEF Whole, Linked
<1>4. trav \in nodes
  <2>1. count \in 1 .. count
    BY <1>1
  <2> QED
    BY <1>1, <2>1 DEF Calling, Whole, Order
<1> QED
  BY <1>1, <1>2, <1>3, <1>4

LEMMA TurnDescendsKeeps ==
  ASSUME TypeOK, CellInv, NEW s, Shape(s), TurnDescends
  PROVE  Kept /\ ValueStep
<1> DEFINE L == Len(stack)
<1>1. /\ pc = "call" /\ CallsAgain /\ stack' = <<next[stack[1]]>> \o stack
      /\ UNCHANGED <<llVars, nodeVars, heapVars, callVars, pc, trav, prev, result>>
  BY DEF TurnDescends
<1>2. /\ Calling(s) /\ Whole(s) /\ count \in Nat /\ Null \notin nodes /\ L \in 1 .. count
      /\ next[stack[1]] = At(s, L + 1) /\ trav \in nodes
  BY <1>1, CallingAt
<1>3. L + 1 \in 1 .. count /\ (op = "turn2" => L + 1 < count)
  <2>1. CASE op = "turn2"
    <3>1. next[next[stack[1]]] # Null /\ L < count
      BY <1>1, <1>2, <2>1 DEF CallsAgain, Calling
    <3>2. L + 1 \in 1 .. count /\ next[s[L + 1]] = At(s, (L + 1) + 1)
      BY <1>2, <3>1 DEF Whole, Linked
    <3>3. (L + 1) + 1 \in 1 .. count
      BY <1>2, <3>1, <3>2 DEF At
    <3> QED
      BY <1>2, <3>2, <3>3
  <2>2. CASE op # "turn2"
    BY <1>1, <1>2, <2>2 DEF CallsAgain, At
  <2> QED
    BY <2>1, <2>2
<1>4. next[stack[1]] = s[L + 1] /\ s[L + 1] \in Nodes
  BY <1>2, <1>3 DEF At, Whole, Order, TypeOK
<1>5. /\ stack' \in Seq(Nodes) /\ Len(stack') = L + 1 /\ stack'[1] = s[L + 1]
      /\ \A i \in 2 .. L + 1 : stack'[i] = stack[i - 1]
  <2>1. stack \in Seq(Nodes) /\ stack' = <<s[L + 1]>> \o stack
    BY <1>1, <1>4 DEF TypeOK
  <2> QED
    BY <1>4, <2>1
<1>6. Called(s)'
  <2>1. ASSUME NEW i \in 1 .. L + 1 PROVE stack'[i] = s[((L + 1) + 1) - i]
    <3>1. CASE i = 1
      <4>1. ((L + 1) + 1) - 1 = L + 1
        BY <1>2
      <4> QED
        BY <1>5, <3>1, <4>1
    <3>2. CASE i # 1
      <4>1. i \in 2 .. L + 1 /\ i - 1 \in 1 .. L /\ (L + 1) - (i - 1) = ((L + 1) + 1) - i
        BY <1>2, <3>2
      <4>2. stack[i - 1] = s[(L + 1) - (i - 1)]
        BY <1>2, <4>1 DEF Calling, Called
      <4> QED
        BY <1>5, <4>1, <4>2
    <3> QED
      BY <3>1, <3>2
  <2> QED
    BY <1>5, <2>1 DEF Called
<1>7. Calling(s)'
  <2>1. Whole(s)' /\ Stored(s)' = Stored(s) /\ count' = count
    BY <1>1, <1>2, HeapAlone
  <2>2. Len(stack') \in 1 .. count /\ (op = "turn2" => Len(stack') < count)
    BY <1>3, <1>5
  <2> QED
    BY <1>1, <1>2, <1>6, <2>1, <2>2 DEF Calling
<1>8. Shape(s)'
  BY <1>1, <1>7 DEF Shape
<1>9. Kept
  BY <1>1, <1>2, <1>5, <1>8, QuietStep DEF TypeOK, Calling
<1> QED
  BY <1>1, <1>9 DEF ValueStep, List

LEMMA TurnAscendsKeeps ==
  ASSUME TypeOK, CellInv, NEW s, Shape(s), TurnAscends
  PROVE  Kept /\ ValueStep
<1> DEFINE L == Len(stack)
<1>1. /\ pc = "call" /\ ~CallsAgain /\ pc' = "back"
      /\ UNCHANGED <<llVars, nodeVars, heapVars, callVars, localVars, result>>
  BY DEF TurnAscends
<1>2. /\ Calling(s) /\ Whole(s) /\ count \in Nat /\ Null \notin nodes /\ L \in 1 .. count
      /\ next[stack[1]] = At(s, L + 1) /\ trav \in nodes
  BY <1>1, CallingAt
<1>3. TurnedBehind(s)
  <2>1. CASE op = "turn2"
    <3>1. next[next[stack[1]]] = Null /\ L < count
      BY <1>1, <1>2, <2>1 DEF CallsAgain, Calling
    <3>2. L + 1 \in 1 .. count /\ next[s[L + 1]] = At(s, (L + 1) + 1)
      BY <1>2, <3>1 DEF Whole, Linked
    <3>3. (L + 1) + 1 \notin 1 .. count
      BY <1>2, <3>1, <3>2 DEF At, Whole, Order
    <3>4. L + 1 = count
      BY <1>2, <3>2, <3>3
    <3>5. \A i \in 1 .. L : next[s[i]] = s[i + 1]
      BY <1>2, <3>4 DEF Whole, Linked, At
    <3>6. \A i \in L + 2 .. count : next[s[i]] = s[i - 1]
      BY <1>2, <3>4
    <3> QED
      BY <2>1, <3>1, <3>5, <3>6 DEF TurnedBehind
  <2>2. CASE op # "turn2"
    <3>1. next[stack[1]] = Null
      BY <1>1, <2>2 DEF CallsAgain
    <3>2. L + 1 \notin 1 .. count
      BY <1>2, <3>1 DEF At, Whole, Order
    <3>3. L = count
      BY <1>2, <3>2
    <3> QED
      BY <1>2, <2>2, <3>3 DEF TurnedBehind
  <2> QED
    BY <2>1, <2>2
<1>4. Returning(s)
  <2>1. 1 \in 1 .. count
    BY <1>2
  <2>2. head = s[1]
    BY <1>2, <2>1 DEF Whole, Linked, At
  <2> QED
    BY <1>2, <1>3, <2>2 DEF Returning, Calling, Whole
<1>5. Returning(s)'
  <2>1. /\ Order(s)' /\ Stored(s)' = Stored(s) /\ count' = count
        /\ \A i : At(s, i)' = At(s, i)
    BY <1>1, <1>4, HeapAlone DEF Returning
  <2>2. TurnedBehind(s)' <=> TurnedBehind(s)
    BY <1>1, <2>1 DEF TurnedBehind
  <2>3. Called(s)' <=> Called(s)
    BY <1>1 DEF Called
  <2> QED
    BY <1>1, <1>4, <2>1, <2>2, <2>3 DEF Returning
<1>6. Shape(s)'
  BY <1>1, <1>5 DEF Shape
<1>7. Kept
  BY <1>1, <1>2, <1>6, QuietStep DEF TypeOK, Calling, Places
<1> QED
  BY <1>1, <1>7 DEF ValueStep, List
(* The calls return: the innermost is for the node s[Len(stack)].          *)
LEMMA ReturningAt ==
  ASSUME TypeOK, NEW s, Shape(s), pc = "back"
  PROVE  /\ Returning(s) /\ Order(s) /\ before = Stored(s) /\ before \in Seq(Values)
         /\ count \in Nat /\ count > 1 /\ Len(stack) \in 0 .. count
         /\ \A i \in 1 .. count : s[i] \in nodes /\ s[i] \in Nodes
         /\ \A i, j \in 1 .. count : s[i] = s[j] => i = j
         /\ head = s[1] /\ trav = s[count] /\ trav \in nodes /\ prev = Null
<1>1. Returning(s) /\ count \in Nat
  BY Counts DEF Shape
<1>2. /\ \A i \in 1 .. count : s[i] \in nodes /\ s[i] \in Nodes
      /\ \A i, j \in 1 .. count : s[i] = s[j] => i = j
  BY <1>1 DEF Returning, Order, TypeOK
<1>3. Len(stack) \in 0 .. count
  BY <1>1 DEF Returning, TypeOK
<1>4. count \in 1 .. count
  BY <1>1 DEF Returning
<1> QED
  BY <1>1, <1>2, <1>3, <1>4 DEF Returning, TypeOK

(* A call that has turned a link returns to the one above it.              *)
LEMMA LinkTurned ==
  ASSUME TypeOK, CellInv, NEW s, Shape(s), pc = "back", stack # <<>>,
         next' \in [nodes -> Nodes \cup {Null}], stack' = Tail(stack),
         UNCHANGED <<llVars, data, heapVars, callVars, pc, trav, prev, result>>,
         TurnedBehind(s)'
  PROVE  Kept /\ ValueStep
<1> DEFINE L == Len(stack)
<1>1. /\ Returning(s) /\ Order(s) /\ before = Stored(s) /\ before \in Seq(Values)
      /\ count \in Nat /\ count > 1 /\ L \in 0 .. count
      /\ head = s[1] /\ trav = s[count] /\ trav \in nodes /\ prev = Null
  BY ReturningAt
<1>2. /\ CellInv' /\ Order(s)' /\ Stored(s)' = Stored(s)
  BY <1>1, LinksTurn
<1>3. /\ L \in 1 .. count /\ Len(stack') = L - 1 /\ stack' \in Seq(Nodes)
      /\ \A i \in 1 .. L - 1 : stack'[i] = stack[i + 1]
  <2>1. stack \in Seq(Nodes)
    BY DEF TypeOK
  <2>2. L # 0
    BY <2>1
  <2> QED
    BY <1>1, <2>1, <2>2
<1>4. Called(s)'
  <2>1. ASSUME NEW i \in 1 .. L - 1 PROVE stack'[i] = s[((L - 1) + 1) - i]
    <3>1. i + 1 \in 1 .. L /\ (L + 1) - (i + 1) = ((L - 1) + 1) - i
      BY <1>1
    <3>2. stack[i + 1] = s[(L + 1) - (i + 1)]
      BY <1>1, <3>1 DEF Returning, Called
    <3> QED
      BY <1>3, <3>1, <3>2
  <2> QED
    BY <1>3, <2>1 DEF Called
<1>5. Returning(s)'
  <2>1. Len(stack') <= count'
    BY <1>1, <1>3
  <2> QED
    BY <1>1, <1>2, <1>4, <2>1 DEF Returning
<1>6. Shape(s)'
  BY <1>5 DEF Shape
<1>7. TypeOK'
  BY <1>1, <1>3, LinksTypes DEF TypeOK
<1> QED
  BY <1>2, <1>6, <1>7 DEF Kept, ValueStep, List

LEMMA Turn2LinksKeeps ==
  ASSUME TypeOK, CellInv, NEW s, Shape(s), Turn2Links
  PROVE  Kept /\ ValueStep
<1> DEFINE L == Len(stack)
<1>1. /\ pc = "back" /\ op = "turn2" /\ stack # <<>>
      /\ next' = [next EXCEPT ![next[stack[1]]] = stack[1]]
      /\ stack' = Tail(stack)
      /\ UNCHANGED <<llVars, data, heapVars, callVars, pc, trav, prev, result>>
  BY DEF Turn2Links
<1>2. /\ Returning(s) /\ Order(s) /\ count \in Nat /\ L \in 0 .. count
      /\ \A i \in 1 .. count : s[i] \in nodes /\ s[i] \in Nodes
      /\ \A i, j \in 1 .. count : s[i] = s[j] => i = j
  BY <1>1, ReturningAt
<1>3. /\ L < count /\ L \in 1 .. count /\ L + 1 \in 1 .. count
      /\ Len(stack') = L - 1 /\ stack[1] = s[L]
      /\ \A i \in 1 .. L : next[s[i]] = s[i + 1]
      /\ \A i \in L + 2 .. count : next[s[i]] = s[i - 1]
  <2>1. /\ L < count
        /\ \A i \in 1 .. L : next[s[i]] = s[i + 1]
        /\ \A i \in L + 2 .. count : next[s[i]] = s[i - 1]
    BY <1>1, <1>2 DEF Returning, TurnedBehind
  <2>2. L # 0 /\ Len(stack') = L - 1
    BY <1>1 DEF TypeOK
  <2>3. 1 \in 1 .. L /\ (L + 1) - 1 = L
    BY <1>2, <2>2
  <2>4. stack[1] = s[(L + 1) - 1]
    BY <1>2, <2>3 DEF Returning, Called
  <2> QED
    BY <1>2, <2>1, <2>2, <2>3, <2>4
<1>4. /\ next' \in [nodes -> Nodes \cup {Null}] /\ next'[s[L + 1]] = s[L]
      /\ \A y \in nodes : y # s[L + 1] => next'[y] = next[y]
  <2>1. stack[1] = s[L] /\ next[s[L]] = s[L + 1]
    <3>1. L \in 1 .. L
      BY <1>2, <1>3
    <3> QED
      BY <1>3, <3>1
  <2>2. next' = [next EXCEPT ![s[L + 1]] = s[L]] /\ s[L + 1] \in nodes /\ s[L] \in Nodes
    BY <1>1, <1>2, <1>3, <2>1
  <2> QED
    BY <2>2, OneLink DEF TypeOK
<1>5. TurnedBehind(s)'
  <2>1. ASSUME NEW i \in 1 .. L - 1 PROVE next'[s[i]] = s[i + 1]
    <3>1. i \in 1 .. L /\ i \in 1 .. count /\ i # L + 1
      BY <1>2, <1>3
    <3> QED
      BY <1>2, <1>3, <1>4, <3>1
  <2>2. ASSUME NEW i \in L + 1 .. count PROVE next'[s[i]] = s[i - 1]
    <3>1. CASE i = L + 1
      <4>1. i - 1 = L
        BY <1>2, <3>1
      <4> QED
        BY <1>4, <3>1, <4>1
    <3>2. CASE i # L + 1
      <4>1. i \in L + 2 .. count /\ i \in 1 .. count
        BY <1>2, <3>2
      <4> QED
        BY <1>2, <1>3, <1>4, <3>2, <4>1
    <3> QED
      BY <3>1, <3>2
  <2>3. Len(stack') < count' /\ Len(stack') + 2 = L + 1 /\ op' = "turn2" /\ count' = count
    BY <1>1, <1>2, <1>3
  <2> QED
    BY <1>3, <2>1, <2>2, <2>3 DEF TurnedBehind
<1> QED
  BY <1>1, <1>4, <1>5, LinkTurned

LEMMA Turn3LinksKeeps ==
  ASSUME TypeOK, CellInv, NEW s, Shape(s), Turn3Links
  PROVE  Kept /\ ValueStep
<1> DEFINE L == Len(stack)
<1>1. /\ pc = "back" /\ op = "turn3" /\ stack # <<>>
      /\ next' = [next EXCEPT ![stack[1]] = IF L = 1 THEN Null ELSE stack[2]]
      /\ stack' = Tail(stack)
      /\ UNCHANGED <<llVars, data, heapVars, callVars, pc, trav, prev, result>>
  BY DEF Turn3Links
<1>2. /\ Returning(s) /\ Order(s) /\ count \in Nat /\ L \in 0 .. count
      /\ \A i \in 1 .. count : s[i] \in nodes /\ s[i] \in Nodes
      /\ \A i, j \in 1 .. count : s[i] = s[j] => i = j
  BY <1>1, ReturningAt
<1>3. /\ L \in 1 .. count /\ Len(stack') = L - 1 /\ stack[1] = s[L]
      /\ L # 1 => L - 1 \in 1 .. count /\ stack[2] = s[L - 1]
      /\ \A i \in L + 1 .. count : next[s[i]] = At(s, i - 1)
  <2>1. \A i \in L + 1 .. count : next[s[i]] = At(s, i - 1)
    BY <1>1, <1>2 DEF Returning, TurnedBehind
  <2>2. L # 0 /\ Len(stack') = L - 1
    BY <1>1 DEF TypeOK
  <2>3. 1 \in 1 .. L /\ (L + 1) - 1 = L /\ (L # 1 => 2 \in 1 .. L /\ (L + 1) - 2 = L - 1)
    BY <1>2, <2>2
  <2>4. stack[1] = s[(L + 1) - 1] /\ (L # 1 => stack[2] = s[(L + 1) - 2])
    BY <1>2, <2>3 DEF Returning, Called
  <2> QED
    BY <1>2, <2>1, <2>2, <2>3, <2>4
<1>4. /\ next' \in [nodes -> Nodes \cup {Null}] /\ next'[s[L]] = At(s, L - 1)
      /\ \A y \in nodes : y # s[L] => next'[y] = next[y]
  <2>1. At(s, L - 1) = IF L = 1 THEN Null ELSE stack[2]
    BY <1>2, <1>3 DEF At
  <2>2. s[L] \in nodes /\ At(s, L - 1) \in Nodes \cup {Null}
    BY <1>2, <1>3 DEF At
  <2>3. next' = [next EXCEPT ![s[L]] = At(s, L - 1)]
    BY <1>1, <1>3, <2>1
  <2> QED
    BY <2>2, <2>3, OneLink DEF TypeOK
<1>5. TurnedBehind(s)'
  <2>1. ASSUME NEW i \in L .. count PROVE next'[s[i]] = At(s, i - 1)
    <3>1. CASE i = L
      BY <1>4, <3>1
    <3>2. CASE i # L
      <4>1. i \in L + 1 .. count /\ i \in 1 .. count
        BY <1>2, <3>2
      <4> QED
        BY <1>2, <1>3, <1>4, <3>2, <4>1
    <3> QED
      BY <3>1, <3>2
  <2>2. Len(stack') + 1 = L /\ op' # "turn2" /\ count' = count
    BY <1>1, <1>2, <1>3
  <2>3. \A i : At(s, i)' = At(s, i)
    BY <2>2 DEF At
  <2> QED
    BY <2>1, <2>2, <2>3 DEF TurnedBehind
<1> QED
  BY <1>1, <1>4, <1>5, LinkTurned

LEMMA TurnCallEndsKeeps ==
  ASSUME TypeOK, CellInv, NEW s, Shape(s), TurnCallEnds
  PROVE  Kept /\ ValueStep
<1>1. /\ pc = "back" /\ stack = <<>>
      /\ next' = IF op = "turn2" THEN [next EXCEPT ![head] = Null] ELSE next
      /\ head' = trav /\ ReturnNothing /\ UNCHANGED <<count, data, heapVars, result>>
  BY DEF TurnCallEnds
<1>2. /\ Returning(s) /\ Order(s) /\ before = Stored(s) /\ count \in Nat /\ count > 1
      /\ \A i \in 1 .. count : s[i] \in nodes /\ s[i] \in Nodes
      /\ \A i, j \in 1 .. count : s[i] = s[j] => i = j
      /\ head = s[1] /\ trav = s[count]
  BY <1>1, ReturningAt
<1>3. next' \in [nodes -> Nodes \cup {Null}] /\ \A i \in 1 .. count : next'[s[i]] = At(s, i - 1)
  <2>0. Len(stack) = 0
    BY <1>1
  <2>1. CASE op = "turn2"
    <3>1. \A i \in 2 .. count : next[s[i]] = s[i - 1]
      BY <1>2, <2>0, <2>1 DEF Returning, TurnedBehind
    <3>2. head \in nodes
      BY <1>2
    <3>3. /\ next' \in [nodes -> Nodes \cup {Null}] /\ next'[s[1]] = Null
          /\ \A y \in nodes : y # s[1] => next'[y] = next[y]
      BY <1>1, <1>2, <2>1, <3>2, OneLink DEF TypeOK
    <3>4. ASSUME NEW i \in 1 .. count PROVE next'[s[i]] = At(s, i - 1)
      <4>1. CASE i = 1
        BY <3>3, <4>1 DEF At
      <4>2. CASE i # 1
        <5>1. i \in 2 .. count /\ i - 1 \in 1 .. count /\ s[i] # s[1] /\ s[i] \in nodes
          BY <1>2, <4>2
        <5> QED
          BY <3>1, <3>3, <5>1 DEF At
      <4> QED
        BY <4>1, <4>2
    <3> QED
      BY <3>3, <3>4
  <2>2. CASE op # "turn2"
    BY <1>1, <1>2, <2>0, <2>2 DEF Returning, TurnedBehind, TypeOK
  <2> QED
    BY <2>1, <2>2
<1> QED
  BY <1>1, <1>2, <1>3, TurnedRound
-----------------------------------------------------------------------------
LEMMA ClearBeginsKeeps ==
  ASSUME TypeOK, CellInv, NEW s, Shape(s), ClearBegins
  PROVE  Kept /\ ValueStep
<1>1. /\ count # 0 /\ Enter("clear", Null, "free") /\ trav' = head /\ prev' = next[head]
      /\ UNCHANGED <<llVars, nodeVars, heapVars, stack, result>>
      /\ pc' = "free" /\ op' = "clear" /\ key' = Null
  BY DEF ClearBegins, Enter
<1>2. /\ Whole(s) /\ stack = <<>>
      /\ before' = Stored(s) /\ before' \in Seq(Values) /\ List' = List
  BY <1>1, BeginsSame
<1>3. /\ count \in Nat /\ 1 \in 1 .. count /\ trav' = At(s, 1) /\ prev' = At(s, 2)
  <2>1. count \in Nat /\ 1 \in 1 .. count
    BY <1>1, Counts
  <2>2. head = At(s, 1) /\ head = s[1] /\ next[s[1]] = At(s, 1 + 1) /\ 1 + 1 = 2
    BY <1>2, <2>1 DEF Whole, Linked, At
  <2> QED
    BY <1>1, <2>1, <2>2
<1>4. /\ \A i : At(s, i)' = At(s, i)
      /\ nodes' = nodes /\ count' = count
  BY <1>1, HeapAlone
<1>5. Freeing(s)'
  <2>1. /\ s \in [1 .. count -> Nodes] /\ \A i, j \in 1 .. count : s[i] = s[j] => i = j
        /\ \A i \in 1 .. count : s[i] \in nodes /\ next[s[i]] = At(s, i + 1)
        /\ \A m \in nodes : \E i \in 1 .. count : m = s[i]
    BY <1>2 DEF Whole, Order, Linked, TypeOK
  <2>2. 1 \in 1 .. count + 1 /\ 1 + 1 = 2
    BY <1>3
  <2>3. next' = next
    BY <1>1
  <2> QED
    BY <1>1, <1>2, <1>3, <1>4, <2>1, <2>2, <2>3 DEF Freeing
<1>6. Shape(s)'
  BY <1>1, <1>5 DEF Shape
<1>7. trav' \in nodes \cup {Null} /\ prev' \in nodes \cup {Null}
  BY <1>2, <1>3, PointersTyped DEF Whole
<1>8. Kept
  BY <1>1, <1>2, <1>6, <1>7, QuietStep DEF Places, Operations, TypeOK
<1> QED
  BY <1>1, <1>2, <1>8 DEF ValueStep

LEMMA ClearFreesKeeps ==
  ASSUME TypeOK, CellInv, NEW s, Shape(s), ClearFrees
  PROVE  Kept /\ ValueStep
<1>1. /\ pc = "free" /\ trav # Null /\ FreeCell(data[trav])
      /\ data' = Without(data, trav) /\ next' = Without(next, trav)
      /\ trav' = prev /\ prev' = IF prev = Null THEN Null ELSE next[prev]
      /\ UNCHANGED <<llVars, lost, callVars, pc, stack, result>>
  BY DEF ClearFrees
<1>2. Freeing(s) /\ count \in Nat /\ Null \notin nodes
  BY <1>1, Counts DEF Shape
<1>3. PICK k \in 1 .. count + 1 :
        /\ trav = At(s, k) /\ prev = At(s, k + 1)
        /\ \A i \in k .. count : s[i] \in nodes /\ next[s[i]] = At(s, i + 1)
        /\ \A m \in nodes : \E i \in k .. count : m = s[i]
  BY <1>2 DEF Freeing
<1>4. k \in 1 .. count /\ k \in k .. count /\ trav = s[k] /\ trav \in nodes
  <2>1. k \in 1 .. count
    BY <1>1, <1>3 DEF At
  <2> QED
    BY <1>3, <2>1 DEF At
<1>5. \A i \in k .. count : i \in 1 .. count /\ (s[i] = s[k] <=> i = k)
  BY <1>2, <1>4 DEF Freeing
<1>6. next \in [nodes -> nodes \cup {Null}]
  <2>1. ASSUME NEW m \in nodes PROVE next[m] \in nodes \cup {Null}
    <3>1. PICK i \in k .. count : m = s[i]
      BY <1>3
    <3>2. next[m] = At(s, i + 1) /\ (i + 1 \in 1 .. count => i + 1 \in k .. count)
      BY <1>2, <1>3, <3>1
    <3> QED
      BY <1>3, <3>2 DEF At
  <2> QED
    BY <2>1 DEF TypeOK
<1>7. /\ nodes' = nodes \ {s[k]}
      /\ \A x \in nodes' : next'[x] = next[x] /\ data'[x] = data[x]
      /\ next' \in [nodes' -> nodes \cup {Null}] /\ data' \in [nodes' -> Cells]
  BY <1>1, <1>4, <1>6, NodeGone
<1>8. /\ cells' = cells \ {data[s[k]]} /\ cell' \in [cells' -> Values]
      /\ data[s[k]] \notin lost
  BY <1>1, <1>4, CellFreed DEF CellInv
<1>9. CellInv'
  BY <1>1, <1>4, <1>7, <1>8, RemovalCells
<1>10. /\ trav' = At(s, k + 1) /\ prev' = At(s, k + 2)
       /\ trav' \in Nodes \cup {Null} /\ prev' \in Nodes \cup {Null}
  <2>1. \A i : At(s, i) \in Nodes \cup {Null}
    BY <1>2 DEF Freeing, At
  <2>2. CASE prev = Null
    <3>1. k + 1 \notin 1 .. count
      BY <1>2, <1>3, <1>4, <2>2 DEF At
    <3>2. k + 2 \notin 1 .. count
      BY <1>2, <1>4, <3>1
    <3> QED
      BY <1>1, <1>3, <2>1, <2>2, <3>2 DEF At
  <2>3. CASE prev # Null
    <3>1. k + 1 \in 1 .. count /\ prev = s[k + 1]
      BY <1>3, <2>3 DEF At
    <3>2. k + 1 \in k .. count /\ (k + 1) + 1 = k + 2
      BY <1>2, <1>4, <3>1
    <3>3. next[prev] = At(s, k + 2)
      BY <1>3, <3>1, <3>2
    <3> QED
      BY <1>1, <1>3, <2>1, <2>3, <3>3
  <2> QED
    BY <2>2, <2>3
<1>11. Freeing(s)'
  <2>1. count' = count /\ \A i : At(s, i)' = At(s, i)
    BY <1>1 DEF At
  <2>2. ASSUME NEW i \in k + 1 .. count
        PROVE  s[i] \in nodes' /\ next'[s[i]] = At(s, i + 1)
    <3>1. i \in k .. count /\ i # k
      BY <1>2, <1>4
    <3> QED
      BY <1>3, <1>5, <1>7, <3>1
  <2>3. ASSUME NEW m \in nodes' PROVE \E i \in k + 1 .. count : m = s[i]
    <3>1. PICK i \in k .. count : m = s[i]
      BY <1>3, <1>7
    <3>2. i # k
      BY <1>7, <3>1
    <3>3. i \in k + 1 .. count
      BY <1>2, <1>4, <3>1, <3>2
    <3> QED
      BY <3>1, <3>3
  <2>4. k + 1 \in 1 .. count + 1 /\ (k + 1) + 1 = k + 2
    BY <1>2, <1>4
  <2>5. stack' = <<>> /\ s \in [1 .. count -> Nodes] /\ \A i, j \in 1 .. count : s[i] = s[j] => i = j
    BY <1>1, <1>2 DEF Freeing
  <2> QED
    BY <1>10, <2>1, <2>2, <2>3, <2>4, <2>5 DEF Freeing
<1>12. Shape(s)'
  BY <1>1, <1>11 DEF Shape
<1>13. TypeOK'
  <2>1. /\ nodes' \subseteq Nodes /\ cells' \subseteq Cells /\ lost' \subseteq cells'
        /\ next' \in [nodes' -> Nodes \cup {Null}]
    BY <1>1, <1>7, <1>8 DEF TypeOK
  <2> QED
    BY <1>1, <1>7, <1>8, <1>10, <2>1 DEF TypeOK
<1> QED
  BY <1>1, <1>9, <1>12, <1>13 DEF Kept, ValueStep, List

LEMMA ClearEndsKeeps ==
  ASSUME TypeOK, CellInv, NEW s, Shape(s), ClearEnds
  PROVE  Kept /\ ValueStep
<1>1. /\ pc = "free" /\ trav = Null /\ head' = Null /\ count' = 0
      /\ ReturnNothing /\ UNCHANGED <<nodeVars, heapVars, result>>
  BY DEF ClearEnds
<1>2. Freeing(s) /\ count \in Nat /\ Null \notin nodes
  BY <1>1, Counts DEF Shape
<1>3. nodes = {}
  <2>1. PICK k \in 1 .. count + 1 :
          /\ trav = At(s, k) /\ \A i \in k .. count : s[i] \in nodes
          /\ \A m \in nodes : \E i \in k .. count : m = s[i]
    BY <1>2 DEF Freeing
  <2>2. k \notin k .. count
    BY <1>1, <1>2, <2>1 DEF At
  <2>3. \A i \in k .. count : FALSE
    BY <1>2, <2>2
  <2> QED
    BY <2>1, <2>3
<1>4. nodes' = {} /\ cells' = cells
  BY <1>1, <1>3 DEF nodes, cells
<1>5. TypeOK'
  <2>1. count' \in 0 .. Cardinality(Nodes)
    BY <1>1, Counts
  <2> QED
    BY <1>1, <1>4, <2>1 DEF TypeOK, ReturnNothing, Places, Operations, nodes
<1>6. CellInv'
  BY <1>1, <1>3, <1>4 DEF CellInv
<1>7. PICK t : t = [i \in 1 .. 0 |-> Null]
  OBVIOUS
<1>8. Whole(t)'
  BY <1>1, <1>4, <1>7 DEF Whole, Order, Linked, At
<1>9. Shape(t)'
  BY <1>1, <1>8 DEF Shape, Resting, ReturnNothing
<1>10. List' = <<>>
  <2>1. List' = Stored(t)'
    BY <1>1, <1>5, <1>8, ContentsNext DEF List, ReturnNothing
  <2>2. Stored(t)' = [i \in 1 .. 0 |-> cell'[data'[t[i]]]]
    BY <1>1 DEF Stored
  <2> QED
    BY <2>1, <2>2
<1>11. AsValues!Clear
  BY <1>1, <1>10 DEF AsValues!Clear, List
<1> QED
  BY <1>5, <1>6, <1>9, <1>11 DEF Kept, ValueStep, AsValues!Next
-----------------------------------------------------------------------------
LEMMA StepKeeps ==
  ASSUME TypeOK, CellInv, NEW s, Shape(s), Next
  PROVE  Kept /\ ValueStep
<1>1. CASE Begin
  <2>1. ASSUME NEW v \in Values, Add(v) PROVE Kept /\ ValueStep
    BY <2>1, AddKeeps
  <2>2. ASSUME NEW v \in Values, NEW o \in {"find", "delete", "remove"}, SearchBegins(o, v)
        PROVE  Kept /\ ValueStep
    BY <2>2, SearchBeginsKeeps
  <2>3. ASSUME NEW o \in {"turn2", "turn3"}, TurnCallBegins(o) PROVE Kept /\ ValueStep
    BY <2>3, TurnCallBeginsKeeps
  <2>4. CASE SearchNothing \/ TurnLoopBegins \/ ClearBegins
    BY <2>4, SearchNothingKeeps, TurnLoopBeginsKeeps, ClearBeginsKeeps
  <2> QED
    BY <1>1, <2>1, <2>2, <2>3, <2>4 DEF Begin
<1>2. CASE SeekPasses \/ SeekEnds \/ FindHits
  BY <1>2, SeekPassesKeeps, SeekEndsKeeps, FindHitsKeeps
<1>3. CASE DeleteInner \/ DeleteOnly \/ DeleteLast
  BY <1>3, DeleteInnerKeeps, DeleteOnlyKeeps, DeleteLastKeeps
<1>4. CASE DeleteLastBegins \/ RemoveInnerBegins \/ BeforePasses
  BY <1>4, BeforeBeginsKeeps, BeforePassesKeeps
<1>5. CASE RemoveHead \/ RemoveInner
  BY <1>5, RemoveHeadKeeps, RemoveInnerKeeps
<1>6. CASE TurnLoop \/ TurnLoopEnds
  BY <1>6, TurnLoopKeeps, TurnLoopEndsKeeps
<1>7. CASE LastPasses \/ TurnCalls \/ TurnDescends \/ TurnAscends
  BY <1>7, LastPassesKeeps, TurnCallsKeeps, TurnDescendsKeeps, TurnAscendsKeeps
<1>8. CASE Turn2Links \/ Turn3Links \/ TurnCallEnds
  BY <1>8, Turn2LinksKeeps, Turn3LinksKeeps, TurnCallEndsKeeps
<1>9. CASE ClearFrees \/ ClearEnds
  BY <1>9, ClearFreesKeeps, ClearEndsKeeps
<1> QED
  BY <1>1, <1>2, <1>3, <1>4, <1>5, <1>6, <1>7, <1>8, <1>9 DEF Next, Step

LEMMA StutterKeeps ==
  ASSUME TypeOK, CellInv, NEW s, Shape(s), UNCHANGED vars
  PROVE  Kept /\ ValueStep
<1>1. /\ UNCHANGED <<llVars, nodeVars, heapVars, callVars, localVars>>
      /\ UNCHANGED <<pc, result>>
  BY DEF vars
<1>2. /\ Order(s)' <=> Order(s)
      /\ Whole(s)' <=> Whole(s)
      /\ Stored(s)' = Stored(s) /\ CellInv'
      /\ count' = count /\ nodes' = nodes /\ \A i : At(s, i)' = At(s, i)
  BY <1>1, HeapAlone
<1>3. TypeOK'
  BY <1>1 DEF TypeOK, nodes, cells
<1>4. Called(s)' <=> Called(s)
  BY <1>1 DEF Called
<1>5. TurnedBehind(s)' <=> TurnedBehind(s)
  BY <1>1, <1>2 DEF TurnedBehind
<1>6. \A k : NotBefore(s, k)' <=> NotBefore(s, k)
  BY <1>1 DEF NotBefore
<1>7. /\ Resting(s) => Resting(s)'
      /\ Seeking(s) => Seeking(s)'
      /\ SeekingBefore(s) => SeekingBefore(s)'
  BY <1>1, <1>2, <1>6 DEF Resting, Seeking, SeekingBefore
<1>8. /\ Turning(s) => Turning(s)'
      /\ Freeing(s) => Freeing(s)'
  BY <1>1, <1>2 DEF Turning, Freeing
<1>9. /\ SeekingLast(s) => SeekingLast(s)'
      /\ Calling(s) => Calling(s)'
      /\ Returning(s) => Returning(s)'
  BY <1>1, <1>2, <1>4, <1>5 DEF SeekingLast, Calling, Returning
<1>10. Shape(s)'
  BY <1>1, <1>7, <1>8, <1>9 DEF Shape
<1>11. List' = List
  <2>1. CASE pc = "idle"
    <3>1. Whole(s) /\ Whole(s)'
      BY <1>2, <2>1 DEF Shape, Resting
    <3>2. Contents = Stored(s) /\ Contents' = Stored(s)'
      BY <1>3, <3>1, ContentsInOrder, ContentsNext
    <3> QED
      BY <1>1, <1>2, <2>1, <3>2 DEF List
  <2>2. CASE pc # "idle"
    BY <1>1, <2>2 DEF List
  <2> QED
    BY <2>1, <2>2
<1> QED
  BY <1>1, <1>2, <1>3, <1>10, <1>11 DEF Kept, ValueStep

LEMMA InitShape == Init => ListInv /\ AsValues!Init
<1> SUFFICES ASSUME Init PROVE ListInv /\ AsValues!Init
  OBVIOUS
<1>1. /\ head = Null /\ count = 0 /\ pc = "idle" /\ result = 0
      /\ trav = Null /\ prev = Null /\ stack = <<>>
      /\ nodes = {} /\ cells = {} /\ lost = {}
  BY DEF Init, nodes, cells
<1>2. TypeOK
  <2>1. 0 \in 0 .. Cardinality(Nodes)
    BY ListAssumption, FS_CardinalityType
  <2>2. /\ next \in [nodes -> Nodes \cup {Null}] /\ data \in [nodes -> Cells]
        /\ cell \in [cells -> Values]
    BY <1>1 DEF Init
  <2> QED
    BY <1>1, <2>1, <2>2 DEF Init, TypeOK, Places, Operations
<1>3. CellInv
  BY <1>1 DEF CellInv
<1>4. PICK t : t = [i \in 1 .. 0 |-> Null]
  OBVIOUS
<1>5. Whole(t)
  BY <1>1, <1>4 DEF Whole, Order, Linked, At
<1>6. Shape(t)
  BY <1>1, <1>5 DEF Shape, Resting
<1>7. Contents = <<>>
  <2>1. Contents = Stored(t)
    BY <1>2, <1>5, ContentsInOrder
  <2> QED
    BY <1>1, <2>1 DEF Stored
<1> QED
  BY <1>1, <1>2, <1>3, <1>6, <1>7 DEF ListInv, AsValues!Init

LEMMA ListInvariant == Spec => []ListInv
<1>1. ListInv /\ [Next]_vars => ListInv'
  <2> SUFFICES ASSUME ListInv, [Next]_vars PROVE ListInv'
    OBVIOUS
  <2>1. PICK s : Shape(s)
    BY DEF ListInv
  <2>2. Kept
    BY <2>1, StepKeeps, StutterKeeps DEF ListInv
  <2> QED
    BY <2>2 DEF Kept, ListInv
<1> QED
  BY <1>1, InitShape, PTL DEF Spec

(* The pointers, the count and the cells have their types: the count never *)
(* leaves the memory's size nor goes below zero (LinkedListApi.c:28-56).   *)
THEOREM ListTyped == Spec => []TypeOK
<1>1. ListInv => TypeOK
  BY DEF ListInv
<1> QED
  BY <1>1, ListInvariant, PTL

(* Between operations the nodes of the list, and no others, are allocated, *)
(* each with a cell of its own, and the only cells besides are those that  *)
(* singly_ll_remove_node_by_value left behind (LinkedListApi.c:154-174).   *)
THEOREM HeapIsSound == Spec => []HeapSound
<1>1. ListInv => HeapSound
  <2> SUFFICES ASSUME ListInv, pc = "idle"
               PROVE  /\ nodes = {NodeAt[k] : k \in 0 .. count - 1}
                      /\ Cardinality(nodes) = count
                      /\ IF count = 0 THEN head = Null ELSE next[NodeAt[count - 1]] = Null
                      /\ \A m, n \in nodes : data[m] = data[n] => m = n
                      /\ cells = {data[n] : n \in nodes} \cup lost
                      /\ \A n \in nodes : data[n] \notin lost
    BY DEF HeapSound
  <2>1. PICK s : Whole(s)
    BY DEF ListInv, Shape, Resting
  <2>2. TypeOK /\ CellInv /\ count \in Nat
    BY Counts DEF ListInv
  <2>3. \A k \in 0 .. count - 1 : NodeAt[k] = s[k + 1]
    BY <2>1, <2>2, NodesInOrder
  <2>4. nodes = {NodeAt[k] : k \in 0 .. count - 1}
    <3>1. ASSUME NEW k \in 0 .. count - 1 PROVE NodeAt[k] \in nodes
      <4>1. k + 1 \in 1 .. count
        BY <2>2
      <4> QED
        BY <2>1, <2>3, <4>1 DEF Whole, Order
    <3>2. ASSUME NEW m \in nodes PROVE \E k \in 0 .. count - 1 : m = NodeAt[k]
      <4>1. PICK i \in 1 .. count : m = s[i]
        BY <2>1 DEF Whole, Order
      <4>2. i - 1 \in 0 .. count - 1 /\ (i - 1) + 1 = i
        BY <2>2
      <4>3. NodeAt[i - 1] = s[i]
        BY <2>3, <4>2
      <4> QED
        BY <4>1, <4>2, <4>3
    <3> QED
      BY <3>1, <3>2
  <2>5. Cardinality(nodes) = count
    BY <2>1, <2>2, NodesCounted DEF Whole
  <2>6. IF count = 0 THEN head = Null ELSE next[NodeAt[count - 1]] = Null
    <3>1. CASE count = 0
      BY <2>1, <3>1 DEF Whole, Linked, At
    <3>2. CASE count # 0
      <4>1. count - 1 \in 0 .. count - 1 /\ (count - 1) + 1 = count
        BY <2>2, <3>2
      <4>2. NodeAt[count - 1] = s[count] /\ count \in 1 .. count /\ count + 1 \notin 1 .. count
        BY <2>2, <2>3, <3>2, <4>1
      <4> QED
        BY <2>1, <3>2, <4>2 DEF Whole, Linked, At
    <3> QED
      BY <3>1, <3>2
  <2>7. cells = {data[n] : n \in nodes} \cup lost
    <3>1. lost \subseteq cells
      BY <2>2 DEF TypeOK
    <3> QED
      BY <2>2, <3>1 DEF CellInv
  <2> QED
    BY <2>2, <2>4, <2>5, <2>6, <2>7 DEF CellInv
<1> QED
  BY <1>1, ListInvariant, PTL

(* Every pointer a loop or a recursion follows leads to a node that is     *)
(* still there (LinkedListApi.c:48, 225-231, 239-242, 311-321).            *)
THEOREM PointersLive == Spec => []CursorsLive
<1>1. ListInv => CursorsLive
  <2> SUFFICES ASSUME ListInv PROVE CursorsLive
    OBVIOUS
  <2>1. PICK s : Shape(s)
    BY DEF ListInv
  <2>2. TypeOK /\ count \in Nat /\ Null \notin nodes
    BY Counts DEF ListInv
  <2>3. CASE pc = "idle"
    BY <2>1, <2>3 DEF Shape, Resting, CursorsLive
  <2>4. CASE pc = "seek"
    <3>1. Seeking(s)
      BY <2>1, <2>4 DEF Shape
    <3>2. trav \in nodes \cup {Null}
      BY <3>1, PointersTyped DEF Seeking, Whole
    <3> QED
      BY <2>4, <3>1, <3>2 DEF Seeking, CursorsLive
  <2>5. CASE pc = "before"
    <3>1. SeekingBefore(s)
      BY <2>1, <2>5 DEF Shape
    <3>2. trav \in nodes /\ prev \in nodes
      BY <2>2, <3>1 DEF SeekingBefore, Whole, Order
    <3> QED
      BY <2>2, <2>5, <3>1, <3>2 DEF SeekingBefore, CursorsLive
  <2>6. CASE pc = "turn"
    <3>1. Turning(s)
      BY <2>1, <2>6 DEF Shape
    <3>2. trav \in nodes /\ prev \in nodes
      BY <2>2, <3>1 DEF Turning, Order
    <3> QED
      BY <2>2, <2>6, <3>1, <3>2 DEF Turning, CursorsLive
  <2>7. CASE pc = "last"
    <3>1. SeekingLast(s)
      BY <2>1, <2>7 DEF Shape
    <3>2. trav \in nodes
      BY <3>1 DEF SeekingLast, Whole, Order
    <3> QED
      BY <2>2, <2>7, <3>1, <3>2 DEF SeekingLast, CursorsLive
  <2>8. CASE pc \in {"call", "back"}
    <3>1. /\ Order(s) /\ Called(s) /\ Len(stack) <= count /\ prev = Null
          /\ count > 1 /\ trav = s[count]
      BY <2>1, <2>2, <2>8 DEF Shape, Calling, Returning, Whole
    <3>2. trav \in nodes
      <4>1. count \in 1 .. count
        BY <2>2, <3>1
      <4> QED
        BY <3>1, <4>1 DEF Order
    <3>3. ASSUME NEW i \in 1 .. Len(stack) PROVE stack[i] \in nodes
      <4>1. Len(stack) \in Nat
        BY <2>2 DEF TypeOK
      <4>2. Len(stack) + 1 - i \in 1 .. count
        BY <2>2, <3>1, <4>1
      <4> QED
        BY <3>1, <4>2 DEF Order, Called
    <3> QED
      BY <2>8, <3>1, <3>2, <3>3 DEF CursorsLive
  <2>9. CASE pc = "free"
    <3>1. Freeing(s)
      BY <2>1, <2>9 DEF Shape
    <3>2. PICK k \in 1 .. count + 1 : /\ trav = At(s, k) /\ prev = At(s, k + 1)
                                      /\ \A i \in k .. count : s[i] \in nodes
      BY <3>1 DEF Freeing
    <3>3. trav \in nodes \cup {Null} /\ prev \in nodes \cup {Null}
      BY <2>2, <3>2 DEF At
    <3> QED
      BY <2>9, <3>1, <3>3 DEF Freeing, CursorsLive
  <2> QED
    BY <2>2, <2>3, <2>4, <2>5, <2>6, <2>7, <2>8, <2>9 DEF TypeOK, Places
<1> QED
  BY <1>1, ListInvariant, PTL

(* The list implements the sequence of values its callers see: each of the *)
(* functions of LinkedListApi.c, whatever its steps, does to the sequence, *)
(* and answers, what ValueList says, when it returns.                      *)
THEOREM ListImplements == Spec => ValueListSpec
<1>1. ListInv /\ [Next]_vars => [AsValues!Next]_(AsValues!vars)
  <2> SUFFICES ASSUME ListInv, [Next]_vars PROVE [AsValues!Next]_(AsValues!vars)
    OBVIOUS
  <2>1. PICK s : Shape(s)
    BY DEF ListInv
  <2>2. ValueStep
    BY <2>1, StepKeeps, StutterKeeps DEF ListInv
  <2> QED
    BY <2>2 DEF ValueStep, List, AsValues!vars
<1> QED
  BY <1>1, InitShape, ListInvariant, PTL DEF Spec, ValueListSpec, AsValues!Spec
=============================================================================
