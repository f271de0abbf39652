---------------------------- MODULE CandidateSet ----------------------------
(* CANDIDATE_SET of src/src/query/yappo_query_v2.c: the best `capacity`      *)
(* candidates by score, one per id.  The items sit in an array; a heap of    *)
(* array indices has the worst one at its root; an open-addressing hash with *)
(* deleted markers finds the item of an id.                                  *)
EXTENDS Integers, Sequences, FiniteSets, FiniteSetsExt

CONSTANT Hash(_)        \* bytes_hash of an id

Empty == [state |-> "empty", item |-> 0]

(* candidate_better: the higher score, then the smaller id.                  *)
Better(a, b) == a.score > b.score \/ (a.score = b.score /\ a.id < b.id)

(* The smallest power of two that is at least twice the capacity.            *)
HashCapacity(capacity) == Min({c \in {2 ^ k : k \in 0..(capacity + 1)} : c >= 2 * capacity})

(* candidate_set_init.                                                       *)
NewSet(capacity) ==
  [capacity |-> capacity, items |-> <<>>, heap |-> <<>>, at |-> <<>>,
   hash |-> [i \in 0..(HashCapacity(capacity) - 1) |-> Empty]]

(* candidate_hash_slot: probe from the id's home to an empty slot, the id's  *)
(* own slot or once around; without the id, the first deleted slot passed.   *)
HashSlot(set, id) ==
  LET n == Cardinality(DOMAIN set.hash)
      slot(i) == (Hash(id) + i) % n
      own(i) == /\ set.hash[slot(i)].state = "used"
                /\ set.items[set.hash[slot(i)].item].id = id
      stops == {i \in 0..(n - 1) : set.hash[slot(i)].state = "empty" \/ own(i)}
      last == IF stops = {} THEN n ELSE Min(stops)
      deleted == {i \in 0..(last - 1) : set.hash[slot(i)].state = "deleted"}
      found == last < n /\ own(last)
  IN [found |-> found,
      slot |-> slot(IF found \/ deleted = {} THEN last ELSE Min(deleted))]

HashInsert(set, item) ==
  [set EXCEPT !.hash[HashSlot(set, set.items[item].id).slot] =
     [state |-> "used", item |-> item]]

(* Mutant: removal leaves an empty slot.                                     *)
HashRemoveEmpty(set, id) ==
  IF HashSlot(set, id).found
  THEN [set EXCEPT !.hash[HashSlot(set, id).slot] = Empty] ELSE set

HashRemove(set, id) ==
  IF HashSlot(set, id).found
  THEN [set EXCEPT !.hash[HashSlot(set, id).slot].state = "deleted"] ELSE set

(* Heap positions count from 1, so the children of i are 2i and 2i + 1.      *)
HeapSwap(set, i, j) ==
  [set EXCEPT !.heap[i] = set.heap[j], !.heap[j] = set.heap[i],
              !.at[set.heap[j]] = i, !.at[set.heap[i]] = j]

Worse(set, i, j) == Better(set.items[set.heap[j]], set.items[set.heap[i]])

RECURSIVE HeapUp(_, _)
HeapUp(set, i) ==
  IF i > 1 /\ Worse(set, i, i \div 2) THEN HeapUp(HeapSwap(set, i, i \div 2), i \div 2)
  ELSE set

RECURSIVE HeapDown(_, _)
HeapDown(set, i) ==
  LET near == {i, 2 * i, 2 * i + 1} \cap 1..Len(set.heap)
      worst == CHOOSE j \in near : \A k \in near \ {j} : Worse(set, j, k)
  IN IF worst = i THEN set ELSE HeapDown(HeapSwap(set, i, worst), worst)

(* The three outcomes of candidate_set_add: a better score for a known id,   *)
(* a free place, the worst item replaced.                                    *)
Improve(set, c) ==
  LET item == set.hash[HashSlot(set, c.id).slot].item IN
  IF Better(c, set.items[item])
  THEN HeapDown([set EXCEPT !.items[item] = c], set.at[item]) ELSE set

Append1(set, c) ==
  LET item == Len(set.items) + 1 IN
  HeapUp(HashInsert([set EXCEPT !.items = Append(@, c), !.heap = Append(@, item),
                                !.at = Append(@, item)], item), item)

Replace(set, c) ==
  LET root == set.heap[1]
      gone == HashRemove(set, set.items[root].id)
  IN IF Better(c, set.items[root])
     THEN HeapDown(HashInsert([gone EXCEPT !.items[root] = c], root), 1) ELSE set

CandidateAdd(set, c) ==
  IF HashSlot(set, c.id).found THEN Improve(set, c)
  ELSE IF Len(set.items) < set.capacity THEN Append1(set, c)
  ELSE Replace(set, c)

CandidateIds(set) == {set.items[i].id : i \in 1..Len(set.items)}

(* The structure a set keeps through every sequence of additions: the heap   *)
(* and its inverse, the heap order, one item per id, and a hash that finds   *)
(* exactly the items.                                                        *)
SetConsistent(set) ==
  /\ Len(set.items) <= set.capacity
  /\ Len(set.heap) = Len(set.items) /\ Len(set.at) = Len(set.items)
  /\ \A i \in 1..Len(set.items) : set.heap[set.at[i]] = i
  /\ \A i \in 2..Len(set.heap) : ~Worse(set, i, i \div 2)
  /\ Cardinality(CandidateIds(set)) = Len(set.items)
  /\ \A i \in 1..Len(set.items) : LET h == HashSlot(set, set.items[i].id) IN
       h.found /\ set.hash[h.slot].item = i
  /\ Cardinality({s \in DOMAIN set.hash : set.hash[s].state = "used"}) = Len(set.items)
============================================================================
