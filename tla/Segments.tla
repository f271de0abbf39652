------------------------------ MODULE Segments ------------------------------
(***************************************************************************)
(* Segments of a yappod2 index and what a list of them means.              *)
(*                                                                         *)
(* A segment holds at most one event per document id: a document (its      *)
(* value), a tombstone, or nothing.  Documents, passages, postings and     *)
(* vectors of one id travel together, so one value stands for all of them. *)
(* A manifest lists segments oldest first, and the latest event of an id   *)
(* decides whether, and with which value, the id is visible.               *)
(***************************************************************************)
EXTENDS Integers, Sequences, FiniteSets

CONSTANTS Ids,      \* document ids
          Values,   \* document contents
          Tomb,     \* the event of a deleted id
          NoEvent   \* a segment says nothing of the id

ASSUME SegmentsAssumption == /\ Tomb \notin Values
                             /\ NoEvent \notin Values
                             /\ Tomb # NoEvent

Event  == Values \cup {Tomb, NoEvent}
Events == [Ids -> Event]

EmptyEvents == [id \in Ids |-> NoEvent]

Touched(ev) == {id \in Ids : ev[id] # NoEvent}

-----------------------------------------------------------------------------
(* A segment descriptor: the directory name (prefix, generation, suffix    *)
(* chosen by mkdtemp) and the events its components hold.                  *)

Kinds == {"seg", "compact"}

Descriptor == [kind: Kinds, gen: Nat, suffix: Nat, ev: Events]

SegmentName(d) == <<d.kind, d.gen, d.suffix>>

Names(D) == {SegmentName(d) : d \in D}

(* The suffix mkdtemp settles on: it is random, so it names none of the    *)
(* directories D; the least such suffix stands for all of them.            *)
FreshSuffixes(D, kind, gen) ==
    {n \in 1..(Cardinality(D) + 1) :
        /\ <<kind, gen, n>> \notin Names(D)
        /\ \A m \in 1..(n - 1) : <<kind, gen, m>> \in Names(D)}

Segment(kind, gen, n, ev) ==
    [kind |-> kind, gen |-> gen, suffix |-> n, ev |-> ev]

SegSet(segs) == {segs[i] : i \in 1..Len(segs)}

(* manifest_add_segment refuses a segment id that is already listed.       *)
DistinctNames(segs) ==
    \A i, j \in 1..Len(segs) :
        SegmentName(segs[i]) = SegmentName(segs[j]) => i = j

-----------------------------------------------------------------------------
(* What a list of segments means.                                          *)

(* The position of the latest event of id, 0 when there is none.           *)
LastTouch(segs, id) ==
    LET at == {i \in 1..Len(segs) : segs[i].ev[id] # NoEvent}
    IN  IF at = {} THEN 0 ELSE CHOOSE i \in at : \A j \in at : j <= i

Latest(segs, id) ==
    IF LastTouch(segs, id) = 0 THEN NoEvent ELSE segs[LastTouch(segs, id)].ev[id]

(* The value searches find under id; NoEvent when it is absent or deleted. *)
Visible(segs, id) ==
    IF Latest(segs, id) = Tomb THEN NoEvent ELSE Latest(segs, id)

-----------------------------------------------------------------------------
(* Compaction of a contiguous range and the segment planner.               *)

(* collect_range: the latest event of every id, tombstones left out when   *)
(* drop is set.                                                            *)
CollectRange(segs, drop) ==
    [id \in Ids |-> IF drop THEN Visible(segs, id) ELSE Latest(segs, id)]

Slice(ev, S) == [id \in Ids |-> IF id \in S THEN ev[id] ELSE NoEvent]

(* The slices the planner may cut a batch into: byte sizes are abstracted, *)
(* so any split of the touched ids in up to MaxSlices nonempty slices, and *)
(* one empty slice when there is nothing to write.                         *)
Plans(ev, MaxSlices) ==
    IF Touched(ev) = {} THEN {<<EmptyEvents>>}
    ELSE UNION {
        LET cuts == {c \in [Touched(ev) -> 1..n] :
                        \A k \in 1..n : \E id \in Touched(ev) : c[id] = k}
        IN  {[k \in 1..n |-> Slice(ev, {id \in Touched(ev) : c[id] = k})] : c \in cuts}
        : n \in 1..MaxSlices}

(* plan_bisect: slice k is replaced by its two halves.                     *)
Bisections(plan, k) ==
    LET t == Touched(plan[k])
    IN  {SubSeq(plan, 1, k - 1)
           \o <<Slice(plan[k], left), Slice(plan[k], t \ left)>>
           \o SubSeq(plan, k + 1, Len(plan))
         : left \in {s \in SUBSET t : Cardinality(s) = Cardinality(t) \div 2}}
=============================================================================
