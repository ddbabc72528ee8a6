----------------------------- MODULE LinkedList -----------------------------
(***************************************************************************)
(* common/LinkedListApi.c: one list on the heap.  A node points to a cell  *)
(* with a value, which it owns, and to the next node.  Each turn of a loop *)
(* and each level of a recursion is a step; an operation is under way      *)
(* while pc is not "idle".  The callers' locks keep operations apart.      *)
(***************************************************************************)
EXTENDS Naturals, Sequences, FiniteSets, Functions

CONSTANTS Nodes,     \* addresses of nodes
          Cells,     \* addresses of what they point to
          Values,    \* what is stored
          Null       \* the NULL pointer

ASSUME ListAssumption == /\ Nodes \subseteq Nat /\ Cells \subseteq Nat
                         /\ IsFiniteSet(Nodes) /\ IsFiniteSet(Cells)
                         /\ Null \notin Nodes \cup Cells \cup Values
                         /\ Values # {}

VARIABLES head, count,   \* of the list
          next, data,    \* the fields of the allocated nodes
          cell,          \* the values in the allocated cells
          pc,            \* where the operation is
          op, key,       \* which it is, and the value it looks for
          trav, prev,    \* its local pointers
          stack,         \* nodes of the calls of a recursion, innermost first
          result,        \* what the last search or removal answered
          lost,          \* history: cells that have no owner any more
          before         \* history: the values when the operation began

llVars == <<head, count>>
nodeVars == <<next, data>>
heapVars == <<cell, lost>>
callVars == <<op, key, before>>
localVars == <<trav, prev, stack>>
vars == <<llVars, nodeVars, heapVars, callVars, localVars, pc, result>>

Init == /\ head = Null /\ count = 0
        /\ next = <<>> /\ data = <<>> /\ cell = <<>> /\ lost = {}
        /\ pc = "idle" /\ op = "none" /\ key = Null
        /\ trav = Null /\ prev = Null /\ stack = <<>>
        /\ result = 0 /\ before = <<>>
-----------------------------------------------------------------------------
nodes == DOMAIN next
cells == DOMAIN cell

(* The node reached by k links from the head, and the values in order.     *)
NodeAt[k \in 0 .. Cardinality(Nodes)] ==
    IF k = 0 THEN head
    ELSE IF NodeAt[k - 1] = Null THEN Null ELSE next[NodeAt[k - 1]]

Contents == [i \in 1 .. count |-> cell[data[NodeAt[i - 1]]]]

(* Which free address kmalloc answers is immaterial.                       *)
Fresh(free) == CHOOSE a \in free : \A b \in free : a <= b

Enter(o, v, at) == /\ pc = "idle"
                   /\ pc' = at /\ op' = o /\ key' = v /\ before' = Contents

ReturnNothing == /\ pc' = "idle" /\ op' = "none" /\ key' = Null /\ before' = <<>>
                 /\ trav' = Null /\ prev' = Null /\ stack' = <<>>

Return(r) == ReturnNothing /\ result' = r

(* kfree of a node, whose fields are those of f, and of a cell.            *)
Without(f, a) == Restrict(f, DOMAIN f \ {a})

FreeCell(c) == cell' = Without(cell, c)
-----------------------------------------------------------------------------
(* singly_ll_add_node_by_val, which calls singly_ll_add_node.              *)
Add(v) ==
    /\ pc = "idle"
    /\ nodes # Nodes /\ cells # Cells
    /\ LET n == Fresh(Nodes \ nodes)
           c == Fresh(Cells \ cells)
       IN /\ cell' = [b \in cells \cup {c} |-> IF b = c THEN v ELSE cell[b]]
          /\ data' = [m \in nodes \cup {n} |-> IF m = n THEN c ELSE data[m]]
          /\ next' = [m \in nodes \cup {n} |-> IF m = n THEN head ELSE next[m]]
          /\ head' = n /\ count' = count + 1
    /\ UNCHANGED <<lost, pc, callVars, localVars, result>>

(* The loop over values that singly_ll_is_value_present and the two        *)
(* functions that take out a value share.                                  *)
SearchNothing ==
    /\ pc = "idle" /\ head = Null
    /\ Return(0)
    /\ UNCHANGED <<llVars, nodeVars, heapVars>>

SearchBegins(o, v) ==
    /\ head # Null
    /\ Enter(o, v, "seek")
    /\ trav' = head
    /\ UNCHANGED <<llVars, nodeVars, heapVars, prev, stack, result>>

SeekPasses ==
    /\ pc = "seek" /\ trav # Null
    /\ cell[data[trav]] # key
    /\ trav' = next[trav]
    /\ UNCHANGED <<llVars, nodeVars, heapVars, callVars, pc, prev, stack, result>>

SeekEnds ==
    /\ pc = "seek" /\ trav = Null
    /\ Return(0)
    /\ UNCHANGED <<llVars, nodeVars, heapVars>>

Hit(o) == /\ pc = "seek" /\ op = o
          /\ trav # Null
          /\ cell[data[trav]] = key

FindHits ==
    /\ Hit("find")
    /\ Return(1)
    /\ UNCHANGED <<llVars, nodeVars, heapVars>>
-----------------------------------------------------------------------------
(* Faults: the cell is not taken over, or the next node is not freed.      *)
DeleteInnerCopiesNothing ==
    /\ Hit("delete")
    /\ next[trav] # Null
    /\ LET temp == next[trav]
       IN /\ FreeCell(data[temp])
          /\ data' = Without(data, temp)
          /\ next' = Without([next EXCEPT ![trav] = next[temp]], temp)
    /\ count' = count - 1
    /\ Return(1)
    /\ UNCHANGED <<head, lost>>

DeleteInnerKeepsNode ==
    /\ Hit("delete")
    /\ next[trav] # Null
    /\ LET temp == next[trav]
       IN /\ FreeCell(data[trav])
          /\ data' = [data EXCEPT ![trav] = data[temp]]
          /\ next' = [next EXCEPT ![trav] = next[temp]]
    /\ count' = count - 1
    /\ Return(1)
    /\ UNCHANGED <<head, lost>>

(* singly_ll_delete_node.  A node that is not the last takes over the cell *)
(* of the next one, and that one is freed in its place.                    *)
DeleteInner ==
    /\ Hit("delete")
    /\ next[trav] # Null
    /\ LET temp == next[trav]
       IN /\ FreeCell(data[trav])
          /\ data' = Without([data EXCEPT ![trav] = data[temp]], temp)
          /\ next' = Without([next EXCEPT ![trav] = next[temp]], temp)
    /\ count' = count - 1
    /\ Return(1)
    /\ UNCHANGED <<head, lost>>

(* Fault: the only node is not recognised.                                 *)
OnlyNodeMiscounted == count = 0 /\ head = trav

OnlyNode == count = 1 /\ head = trav

DeleteOnly ==
    /\ Hit("delete")
    /\ next[trav] = Null /\ OnlyNode
    /\ FreeCell(data[trav])
    /\ data' = Without(data, trav) /\ next' = Without(next, trav)
    /\ head' = Null /\ count' = count - 1
    /\ Return(1)
    /\ UNCHANGED lost

(* The last node: its predecessor is looked for from the head.             *)
DeleteLastBegins ==
    /\ Hit("delete")
    /\ next[trav] = Null /\ ~OnlyNode
    /\ prev' = head /\ pc' = "before"
    /\ UNCHANGED <<llVars, nodeVars, heapVars, callVars, trav, stack, result>>

(* Fault: the loop does not get beyond the head.                           *)
BeforeStartsOver ==
    /\ pc = "before" /\ next[prev] # trav
    /\ prev' = head
    /\ UNCHANGED <<llVars, nodeVars, heapVars, callVars, pc, trav, stack, result>>

BeforePasses ==
    /\ pc = "before" /\ next[prev] # trav
    /\ prev' = next[prev]
    /\ UNCHANGED <<llVars, nodeVars, heapVars, callVars, pc, trav, stack, result>>

DeleteLast ==
    /\ pc = "before" /\ op = "delete" /\ next[prev] = trav
    /\ FreeCell(data[trav])
    /\ data' = Without(data, trav)
    /\ next' = Without([next EXCEPT ![prev] = Null], trav)
    /\ count' = count - 1
    /\ Return(1)
    /\ UNCHANGED <<head, lost>>

(* Fault: both functions count the removal.                                *)
RemoveHeadCountsTwice ==
    /\ Hit("remove")
    /\ head = trav
    /\ head' = next[trav] /\ count' = count - 2
    /\ data' = Without(data, trav) /\ next' = Without(next, trav)
    /\ lost' = lost \cup {data[trav]}
    /\ Return(1)
    /\ UNCHANGED cell

(* singly_ll_remove_node_by_value: singly_ll_remove_node, then the node is *)
(* freed but not its cell.  The loop for the predecessor counts too, but   *)
(* the node found is in the list.                                          *)
RemoveHead ==
    /\ Hit("remove")
    /\ head = trav
    /\ head' = next[trav] /\ count' = count - 1
    /\ data' = Without(data, trav) /\ next' = Without(next, trav)
    /\ lost' = lost \cup {data[trav]}
    /\ Return(1)
    /\ UNCHANGED cell

RemoveInnerBegins ==
    /\ Hit("remove")
    /\ head # trav
    /\ prev' = head /\ pc' = "before"
    /\ UNCHANGED <<llVars, nodeVars, heapVars, callVars, trav, stack, result>>

RemoveInner ==
    /\ pc = "before" /\ op = "remove" /\ next[prev] = trav
    /\ data' = Without(data, trav)
    /\ next' = Without([next EXCEPT ![prev] = next[trav]], trav)
    /\ count' = count - 1
    /\ lost' = lost \cup {data[trav]}
    /\ Return(1)
    /\ UNCHANGED <<head, cell>>
-----------------------------------------------------------------------------
(* The three reversals return at once from a list of less than two nodes.  *)

(* reverse_singly_ll, a loop with p1 = prev and p2 = trav.                 *)
TurnLoopBegins ==
    /\ count > 1
    /\ Enter("turn", Null, "turn")
    /\ prev' = head /\ trav' = next[head]
    /\ next' = [next EXCEPT ![head] = Null]
    /\ UNCHANGED <<llVars, data, heapVars, stack, result>>

TurnLoop ==
    /\ pc = "turn" /\ next[trav] # Null
    /\ next' = [next EXCEPT ![trav] = prev]
    /\ prev' = trav /\ trav' = next[trav]
    /\ UNCHANGED <<llVars, data, heapVars, callVars, pc, stack, result>>

TurnLoopEnds ==
    /\ pc = "turn" /\ next[trav] = Null
    /\ next' = [next EXCEPT ![trav] = prev]
    /\ head' = trav
    /\ ReturnNothing
    /\ UNCHANGED <<count, data, heapVars, result>>

(* reverse_singly_ll2 and reverse_singly_ll3 find the last node, then      *)
(* recur: the calls are made first, the links are turned on the way back.  *)
TurnCallBegins(o) ==
    /\ count > 1
    /\ Enter(o, Null, "last")
    /\ trav' = head
    /\ UNCHANGED <<llVars, nodeVars, heapVars, prev, stack, result>>

LastPasses ==
    /\ pc = "last" /\ next[trav] # Null
    /\ trav' = next[trav]
    /\ UNCHANGED <<llVars, nodeVars, heapVars, callVars, pc, prev, stack, result>>

TurnCalls ==
    /\ pc = "last" /\ next[trav] = Null
    /\ pc' = "call" /\ stack' = <<head>>
    /\ UNCHANGED <<llVars, nodeVars, heapVars, callVars, trav, prev, result>>

CallsAgain == LET n == next[stack[1]]
              IN IF op = "turn2" THEN next[n] # Null ELSE n # Null

TurnDescends ==
    /\ pc = "call" /\ CallsAgain
    /\ stack' = <<next[stack[1]]>> \o stack
    /\ UNCHANGED <<llVars, nodeVars, heapVars, callVars, pc, trav, prev, result>>

TurnAscends ==
    /\ pc = "call" /\ ~CallsAgain
    /\ pc' = "back"
    /\ UNCHANGED <<llVars, nodeVars, heapVars, callVars, localVars, result>>

(* _reverse_singly_ll2: the successor is linked back to this node.         *)
Turn2Links ==
    /\ pc = "back" /\ op = "turn2" /\ stack # <<>>
    /\ next' = [next EXCEPT ![next[stack[1]]] = stack[1]]
    /\ stack' = Tail(stack)
    /\ UNCHANGED <<llVars, data, heapVars, callVars, pc, trav, prev, result>>

(* _reverse_singly_ll3: this node is linked to that of the calling level.  *)
Turn3Links ==
    /\ pc = "back" /\ op = "turn3" /\ stack # <<>>
    /\ next' = [next EXCEPT ![stack[1]] = IF Len(stack) = 1 THEN Null ELSE stack[2]]
    /\ stack' = Tail(stack)
    /\ UNCHANGED <<llVars, data, heapVars, callVars, pc, trav, prev, result>>

TurnCallEnds ==
    /\ pc = "back" /\ stack = <<>>
    /\ next' = IF op = "turn2" THEN [next EXCEPT ![head] = Null] ELSE next
    /\ head' = trav
    /\ ReturnNothing
    /\ UNCHANGED <<count, data, heapVars, result>>
-----------------------------------------------------------------------------
(* delete_singly_ll, with head = trav and next = prev: the successor is    *)
(* read before the node goes.                                              *)
ClearBegins ==
    /\ count # 0
    /\ Enter("clear", Null, "free")
    /\ trav' = head /\ prev' = next[head]
    /\ UNCHANGED <<llVars, nodeVars, heapVars, stack, result>>

ClearFrees ==
    /\ pc = "free" /\ trav # Null
    /\ FreeCell(data[trav])
    /\ data' = Without(data, trav) /\ next' = Without(next, trav)
    /\ trav' = prev
    /\ prev' = IF prev = Null THEN Null ELSE next[prev]
    /\ UNCHANGED <<llVars, lost, callVars, pc, stack, result>>

ClearEnds ==
    /\ pc = "free" /\ trav = Null
    /\ head' = Null /\ count' = 0
    /\ ReturnNothing
    /\ UNCHANGED <<nodeVars, heapVars, result>>
-----------------------------------------------------------------------------
Begin == \/ \E v \in Values : \/ Add(v)
                              \/ \E o \in {"find", "delete", "remove"} :
                                    SearchBegins(o, v)
         \/ SearchNothing \/ TurnLoopBegins \/ ClearBegins
         \/ \E o \in {"turn2", "turn3"} : TurnCallBegins(o)

Step == \/ SeekPasses \/ SeekEnds \/ FindHits
        \/ DeleteInner \/ DeleteOnly \/ DeleteLastBegins \/ DeleteLast
        \/ BeforePasses \/ RemoveHead \/ RemoveInnerBegins \/ RemoveInner
        \/ TurnLoop \/ TurnLoopEnds
        \/ LastPasses \/ TurnCalls \/ TurnDescends \/ TurnAscends
        \/ Turn2Links \/ Turn3Links \/ TurnCallEnds
        \/ ClearFrees \/ ClearEnds

Next == Begin \/ Step

Spec == Init /\ [][Next]_vars

(* An operation that has begun goes on.                                    *)
FairSpec == Spec /\ WF_vars(Step)
-----------------------------------------------------------------------------
Places == {"idle", "seek", "before", "turn", "last", "call", "back", "free"}
Operations == {"none", "find", "delete", "remove", "turn", "turn2", "turn3", "clear"}

(* Pointers point to nodes and cells, and the count fits the memory.       *)
TypeOK == /\ head \in Nodes \cup {Null} /\ count \in 0 .. Cardinality(Nodes)
          /\ nodes \subseteq Nodes /\ cells \subseteq Cells /\ lost \subseteq cells
          /\ next \in [nodes -> Nodes \cup {Null}]
          /\ data \in [nodes -> Cells] /\ cell \in [cells -> Values]
          /\ pc \in Places /\ op \in Operations /\ key \in Values \cup {Null}
          /\ trav \in Nodes \cup {Null} /\ prev \in Nodes \cup {Null}
          /\ stack \in Seq(Nodes) /\ before \in Seq(Values) /\ result \in {0, 1}

(* Between operations exactly the nodes of the list are allocated, as many *)
(* as node_count says, the last has no successor, and each owns a cell of  *)
(* its own; only singly_ll_remove_node_by_value (LinkedListApi.c:170)      *)
(* leaves cells behind, and the deletion by copying frees the right ones.  *)
HeapSound ==
    pc = "idle" =>
        /\ nodes = {NodeAt[k] : k \in 0 .. count - 1}
        /\ Cardinality(nodes) = count
        /\ IF count = 0 THEN head = Null ELSE next[NodeAt[count - 1]] = Null
        /\ \A m, n \in nodes : data[m] = data[n] => m = n
        /\ cells = {data[n] : n \in nodes} \cup lost
        /\ \A n \in nodes : data[n] \notin lost

(* No loop and no recursion follows a pointer to a node that is freed, or  *)
(* the NULL pointer (LinkedListApi.c:48, 225, 239, 311-314).               *)
CursorsLive ==
    /\ {trav, prev} \subseteq nodes \cup {Null}
    /\ \A i \in 1 .. Len(stack) : stack[i] \in nodes
    /\ pc = "before" => prev # Null
    /\ pc \in {"turn", "last"} => trav # Null

(* To the callers an operation happens when it returns.                    *)
AsValues == INSTANCE ValueList
             WITH list <- IF pc = "idle" THEN Contents ELSE before

(* Whatever is added, deleted, removed, reversed and cleared in whatever   *)
(* order, the list is the sequence of values the callers expect, and a     *)
(* search or removal answers what it should.                               *)
ValueListSpec == AsValues!Spec

(* No operation loops for ever (LinkedListApi.c:48, 67, 138, 229, 256).    *)
EachReturns == pc # "idle" ~> pc = "idle"
=============================================================================
