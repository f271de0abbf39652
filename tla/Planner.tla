------------------------------ MODULE Planner ------------------------------
(* How a batch of documents and tombstones is cut into segments: the byte    *)
(* sizes predicted for every file of a segment, the cut at the target size,  *)
(* and the merge of a small tail                                             *)
(* (src/src/indexing/yappo_segment_planner_v2.c).                            *)
EXTENDS SegmentFiles

CONSTANT MaxSegments    \* YAP_V2_MAX_SEGMENTS

(* A unit is [document |-> d] or [tombstone |-> id].                         *)
IsDocument(unit) == "document" \in DOMAIN unit

(* prepare_unit: the record bytes of a document and its passages.            *)
DocumentBytes(d) ==
  16 + 5 * 4 + Widths.id + Widths.url + Len(d.title) + Len(d.body) + Widths.metadata

PassageBytes(d) ==
  SumOver(Len(d.passages), LAMBDA p :
    20 + 3 * 4 + Widths.passageId + Widths.id + Len(d.passages[p].text))

(* scalar_size and value_size: the planner's own count of the entries.       *)
ScalarSize(v) ==
  CASE v.type = "null" -> 20
    [] v.type \in {"bool", "string"} -> 20 + 1
    [] v.type = "number" -> 20 + (IF v.value > 9 THEN 2 ELSE 1)
    [] OTHER -> 0

MetadataSize(d) ==
  SumOver(Len(FilterFields), LAMBDA f :
    LET values == FieldValues(d.meta, FilterFields[f]) IN
    SumOver(Len(values), LAMBDA v : ScalarSize(values[v])))

(* The unit's term map: occurrences and postings of every term.              *)
UnitTerms(d) ==
  LET objs == Objects(<<d>>) IN
  [t \in UNION {TermsIn(objs[k]) : k \in 1..Len(objs)} |->
     [occurrences |-> SumOver(Len(objs), LAMBDA k : Occurrences(objs[k], t)),
      postings |-> Cardinality({k \in 1..Len(objs) : t \in TermsIn(objs[k])})]]

NewSizer ==
  [documents |-> 0, passages |-> 0, tombstones |-> 0, document |-> 0, term |-> 0,
   posting |-> 0, position |-> 0, metadata |-> 0, vectorIds |-> 0, tombstone |-> 0,
   terms |-> <<>>]

AddTombstone(z) ==
  [z EXCEPT !.tombstones = @ + 1,
            !.tombstone = (IF z.tombstones = 0 THEN 12 ELSE @) + 4 + Widths.id]

KnownPostings(z, t) == IF t \in DOMAIN z.terms THEN z.terms[t].postings ELSE 0

(* Mutant: counts the blocks of the unit's own postings.                     *)
PostingGrowthOwnBlocks(z, t, u) ==
  (IF t \in DOMAIN z.terms THEN 0 ELSE 20) + 48 * u.postings + 16 * BlockCount(u.postings)

(* What a unit's term adds to postings.yap2: a list header for a new term,   *)
(* the postings, and the blocks they begin.                                  *)
PostingGrowth(z, t, u) ==
  (IF t \in DOMAIN z.terms THEN 0 ELSE 20) + 48 * u.postings +
  16 * (BlockCount(KnownPostings(z, t) + u.postings) - BlockCount(KnownPostings(z, t)))

AddDocument(z, d, u, new, first) ==
  [z EXCEPT
     !.documents = @ + 1, !.passages = @ + Len(d.passages),
     !.document = @ + DocumentBytes(d) + PassageBytes(d),
     !.metadata = @ + MetadataSize(d),
     !.vectorIds = @ + Len(d.passages) * Widths.passageId,
     !.term = (IF first THEN 12 ELSE @) +
             MapThenSumSet(LAMBDA t : 44 + TermBytes(t), new),
     !.posting = (IF first THEN 56 ELSE @) +
                 MapThenSumSet(LAMBDA t : PostingGrowth(z, t, u[t]), DOMAIN u),
     !.position = (IF first THEN 12 ELSE @) + 16 * Cardinality(new) +
                  8 * MapThenSumSet(LAMBDA t : u[t].occurrences, DOMAIN u),
     !.terms = [t \in DOMAIN z.terms \cup DOMAIN u |->
                 [postings |-> KnownPostings(z, t) +
                               (IF t \in DOMAIN u THEN u[t].postings ELSE 0)]]]

AddDocumentTerms(z, d, u) == AddDocument(z, d, u, DOMAIN u \ DOMAIN z.terms, z.documents = 0)

(* sizer_add.                                                                *)
SizerAdd(z, unit) ==
  IF IsDocument(unit) THEN AddDocumentTerms(z, unit.document, UnitTerms(unit.document))
  ELSE AddTombstone(z)

(* component_sizes: documents, terms, postings, positions, metadata, vectors *)
(* (ids padded to the alignment of a float) and tombstones.                  *)
ComponentSizes(z) ==
  LET some == z.documents > 0
      ids == 40 + Widths.model + 16 * z.passages + z.vectorIds IN
  << 24 + Widths.segment + z.document,
     IF some THEN z.term ELSE 0,
     IF some THEN z.posting ELSE 0,
     IF some THEN z.position ELSE 0,
     IF some THEN 24 + (4 + FieldBytes) * Len(FilterFields) + z.metadata ELSE 0,
     IF z.passages > 0
     THEN ((ids + 3) \div 4) * 4 + 4 * z.passages * Widths.dimensions ELSE 0,
     IF z.tombstones > 0 THEN z.tombstone ELSE 0 >>

Largest(sizes) == Max(Range(sizes))

WithinLimits(z, limit) ==
  /\ z.documents <= MaxSegmentDocuments
  /\ z.passages <= MaxSegmentPassages
  /\ Largest(ComponentSizes(z)) <= limit

(* projected_fits: the sizer with one more unit, against a limit.            *)
ProjectedFits(z, unit, limit) == WithinLimits(SizerAdd(z, unit), limit)

Slice(first, count, z) == [first |-> first, count |-> count, bytes |-> ComponentSizes(z)]

(* plan_add.                                                                 *)
PlanAdd(plan, last) ==
  IF Len(plan.slices) >= MaxSegments THEN [plan EXCEPT !.status = "out_of_range"]
  ELSE [plan EXCEPT
          !.slices = Append(@, Slice(plan.first, last - plan.first + 1, plan.sizer)),
          !.first = last + 1, !.sizer = NewSizer]

(* One turn of plan_with_policy's loop: cut before the unit when it does not *)
(* fit the target, then take it at the target or, alone, up to the hard      *)
(* limit.                                                                    *)
CutBefore(plan, units, i, policy) ==
  IF i > plan.first /\ ~ProjectedFits(plan.sizer, units[i], policy.target)
  THEN PlanAdd(plan, i - 1) ELSE plan

TakeUnit(plan, unit, policy) ==
  IF plan.status # "ok" THEN plan
  ELSE IF \/ ProjectedFits(plan.sizer, unit, policy.target)
          \/ ProjectedFits(plan.sizer, unit, policy.hard)
  THEN [plan EXCEPT !.sizer = SizerAdd(@, unit)]
  ELSE [plan EXCEPT !.status = "capacity_exceeded"]

PlanUnit(plan, units, i, policy) ==
  IF plan.status # "ok" THEN plan
  ELSE TakeUnit(CutBefore(plan, units, i, policy), units[i], policy)

(* range_slice and merge_small_tail: a tail below half the target joins the  *)
(* slice before it when every prefix of the two fits the soft limit.         *)
SizerOf(units, first, count) ==
  FoldLeft(LAMBDA z, u : SizerAdd(z, u), NewSizer, SubSeq(units, first, first + count - 1))

MergeSmallTail(plan, units, policy) ==
  LET n == Len(plan.slices)
      before == plan.slices[n - 1]
      tail == plan.slices[n]
      count == before.count + tail.count
      fits == \A k \in 0..(count - 1) :
                ProjectedFits(SizerOf(units, before.first, k),
                              units[before.first + k], policy.soft)
  IN IF plan.status = "ok" /\ n >= 2 /\ Largest(tail.bytes) < policy.target \div 2 /\ fits
     THEN [plan EXCEPT !.slices = Append(SubSeq(@, 1, n - 2),
             Slice(before.first, count, SizerOf(units, before.first, count)))]
     ELSE plan

(* segment_plan_with_policy.                                                 *)
ScanUnits(units, policy) ==
  FoldLeft(LAMBDA plan, i : PlanUnit(plan, units, i, policy),
           [status |-> "ok", first |-> 1, sizer |-> NewSizer, slices |-> <<>>],
           [i \in 1..Len(units) |-> i])

ClosePlan(plan, units) == IF plan.status = "ok" THEN PlanAdd(plan, Len(units)) ELSE plan

SegmentPlan(units, policy) ==
  MergeSmallTail(ClosePlan(ScanUnits(units, policy), units), units, policy)

(* segment_slice_write: the documents and tombstones of a slice, in order.   *)
SliceDocuments(units, slice) ==
  LET mine == SelectSeq(SubSeq(units, slice.first, slice.first + slice.count - 1), IsDocument)
  IN [i \in 1..Len(mine) |-> mine[i].document]

SliceTombstones(units, slice) ==
  LET mine == SelectSeq(SubSeq(units, slice.first, slice.first + slice.count - 1),
                        LAMBDA u : ~IsDocument(u))
  IN [i \in 1..Len(mine) |-> mine[i].tombstone]

SliceWritable(units, slice) ==
  Writable(SliceDocuments(units, slice), SliceTombstones(units, slice))

SliceWrite(units, slice, name) ==
  WriteSegment(name, SliceDocuments(units, slice), SliceTombstones(units, slice))
============================================================================
