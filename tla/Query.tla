------------------------------- MODULE Query -------------------------------
(* query_execute_with_ann (src/src/query/yappo_query_v2.c) over one          *)
(* snapshot: the lexical search of every segment, the vector search of the   *)
(* shared ANN corpus and of the segments it does not cover, and the          *)
(* reciprocal rank fusion of the two rankings.  The loops of the code are    *)
(* steps here: one posting alignment, one scored object, one ANN call.       *)
EXTENDS Planner, CandidateSet

CONSTANT NoFilter

VARIABLES
  segs,      \* the snapshot: segments as WriteSegment makes them, oldest first
  corpus,    \* the ANN base corpus: [names, keys], built at some generation
  req,       \* the request
  topK,      \* request->top_k of this execution
  candK,     \* request->candidate_k of this execution
  stage,     \* what query_execute is doing
  seg,       \* the segment the current loop is at
  scan,      \* the term states and hits of lexical_search_prepared
  want,      \* request_count of the current ANN loop, 0 outside one
  local,     \* base_candidates or segment_candidates of that loop
  lexical,   \* the candidate set of collect_lexical
  vector,    \* the candidate set of collect_vector
  hits       \* the fused hits

queryVars == <<topK, candK, stage, seg, scan, want, local, lexical, vector, hits>>

NoScan == [at |-> <<>>, hits |-> {}]

----------------------------------------------------------------------------
(* The snapshot.                                                             *)

DocumentIds(s) == {segs[s].docs[i].id : i \in 1..Len(segs[s].docs)}

(* The visibility table holds, per id, the last segment that has the id as   *)
(* a document or as a tombstone; within a segment a document wins.           *)
VisibleIn(id, s) ==
  /\ id \in DocumentIds(s)
  /\ \A r \in (s + 1)..Len(segs) : id \notin DocumentIds(r) \cup Range(segs[r].tombstones)

DocumentOrdinal(id, s) == CHOOSE i \in 1..Len(segs[s].docs) : segs[s].docs[i].id = id

(* The filter is compiled for every segment it is applied to.                *)
FilterUsable(s) == req.filter # NoFilter => FilterCompiles(segs[s].meta, req.filter)

(* filter_matches: passages have the metadata of their document.             *)
FilterMatches(s, o) ==
  req.filter # NoFilter => Evaluate(segs[s].meta, req.filter, DocumentOrdinal(o.parent, s))

(* lexical_accept, and the same two tests in both vector loops.              *)
Accept(s, o) == VisibleIn(o.parent, s) /\ FilterMatches(s, o)

Lexes == [s \in 1..Len(segs) |-> segs[s].lex]

Candidate(o, s, ordinal, score) ==
  [id |-> o.id, parent |-> o.parent, segment |-> s, ordinal |-> ordinal, score |-> score]

AddAll(set, candidates) == FoldLeft(LAMBDA c, x : CandidateAdd(c, x), set, candidates)

----------------------------------------------------------------------------
(* collect_lexical.                                                          *)

ObjectType == IF req.scope = "documents" THEN Document ELSE Passage

LocalLimit(s) ==
  Min({candK, IF req.scope = "documents" THEN segs[s].lex.documents ELSE segs[s].lex.passages})

Conjunctive == req.operator = "and" \/ req.phrase

(* query_plan_prepare: the distinct tokens; a query may have none.           *)
Tokens == Words(req.query)

Terms == Range(Tokens)

Present(s) == {t \in Terms : TermFind(segs[s].lex, t) # 0}

Entry(t) == segs[seg].lex.terms[TermFind(segs[seg].lex, t)]

Frequency(t) == BoundFrequency(Lexes, t, ObjectType)

(* Nothing to scan: no object of the scope, no token, no term of the query   *)
(* here, or a term missing that the operator asks for.                       *)
NothingToScan(s) ==
  \/ LocalLimit(s) = 0
  \/ Present(s) = {}
  \/ Conjunctive /\ Present(s) # Terms

LexicalSkipSegment ==
  /\ stage = "lexical" /\ seg <= Len(segs)
  /\ NothingToScan(seg) /\ (LocalLimit(seg) = 0 \/ FilterUsable(seg))
  /\ seg' = seg + 1
  /\ UNCHANGED <<segs, corpus, req, topK, candK, stage, scan, want, local, lexical, vector, hits>>

(* A filter that does not compile ends the query.                            *)
Failed ==
  /\ stage' = "failed"
  /\ UNCHANGED <<segs, corpus, req, topK, candK, seg, scan, want, local, lexical, vector, hits>>

LexicalRefuse ==
  /\ stage = "lexical" /\ seg <= Len(segs)
  /\ LocalLimit(seg) # 0 /\ ~FilterUsable(seg)
  /\ Failed

LexicalOpen ==
  /\ stage = "lexical" /\ seg <= Len(segs)
  /\ ~NothingToScan(seg) /\ FilterUsable(seg)
  /\ scan' = [at |-> [t \in Present(seg) |-> SkipType(Entry(t).postings, 1, ObjectType)],
              hits |-> {}]
  /\ stage' = "scan"
  /\ UNCHANGED <<segs, corpus, req, topK, candK, seg, want, local, lexical, vector, hits>>

Active == {t \in DOMAIN scan.at : scan.at[t] <= Entry(t).df}

KeyOf(t) == Entry(t).postings[scan.at[t]].key

Scanning ==
  /\ stage = "scan"
  /\ Active # {}
  /\ Conjunctive => Active = DOMAIN scan.at

(* qsort by key: terms at the same key come in any order.                    *)
SortedActive ==
  {order \in [1..Cardinality(Active) -> Active] :
     /\ \A i, j \in DOMAIN order : i # j => order[i] # order[j]
     /\ \A i \in 2..Cardinality(Active) : KeyOf(order[i - 1]) <= KeyOf(order[i])}

Advanced(moved, key) ==
  [t \in DOMAIN scan.at |->
     IF t \in moved THEN AdvanceTo(Entry(t).postings, scan.at[t], key, ObjectType)
     ELSE scan.at[t]]

ScanUnchanged ==
  UNCHANGED <<segs, corpus, req, topK, candK, stage, seg, want, local, lexical, vector, hits>>

(* AND and phrase: bring every term to the largest key.                      *)
LexicalAlign ==
  /\ Scanning /\ Conjunctive
  /\ LET last == Max({KeyOf(t) : t \in Active})
         behind == {t \in Active : KeyOf(t) < last} IN
     /\ behind # {}
     /\ scan' = [scan EXCEPT !.at = Advanced(behind, last)]
  /\ ScanUnchanged

UpperBound(t) ==
  BlockUpperBound(CorpusStats(Lexes), Frequency(t), Entry(t), scan.at[t], ObjectType)

(* OR: the first term at which the bounds of the current blocks add up to    *)
(* the threshold; 0 when they never do.                                      *)
Pivot(order) ==
  LET bound(p) == SumOver(p, LAMBDA i : UpperBound(order[i]))
      enough == {p \in 1..Len(order) :
                   bound(p) >= HitThreshold(scan.hits, LocalLimit(seg)) /\ bound(p) > 0}
  IN IF enough = {} THEN 0 ELSE Min(enough)

(* No pivot: drop one posting of the first term.                             *)
LexicalDrop ==
  /\ Scanning /\ ~Conjunctive
  /\ \E order \in SortedActive :
       /\ Pivot(order) = 0
       /\ scan' = [scan EXCEPT !.at = Advanced({order[1]}, 0)]
  /\ ScanUnchanged

(* The pivot lies ahead: the terms before it move on to its key.             *)
LexicalSkip ==
  /\ Scanning /\ ~Conjunctive
  /\ \E order \in SortedActive : LET p == Pivot(order) IN
       /\ p # 0 /\ KeyOf(order[1]) # KeyOf(order[p])
       /\ scan' = [scan EXCEPT
            !.at = Advanced({order[i] : i \in 1..(p - 1)}, KeyOf(order[p]))]
  /\ ScanUnchanged

(* The first terms stand at the pivot: score the object, move every term     *)
(* that stands there, keep the hit if it passes.                             *)
LexicalScore ==
  /\ Scanning
  /\ \E order \in SortedActive :
       LET p == IF Conjunctive THEN Len(order) ELSE Pivot(order)
           key == KeyOf(order[1])
           there == {t \in Active : KeyOf(t) = key}
           score == MapThenSumSet(LAMBDA t : PostingScore(CorpusStats(Lexes), Frequency(t),
                                               Entry(t).postings[scan.at[t]]), there)
           passes == /\ req.phrase => PhraseMatches(segs[seg].lex, Tokens, scan.at, key)
                     /\ req.operator = "and" => there = DOMAIN scan.at
                     /\ Accept(seg, Objects(segs[seg].docs)[key])
                     /\ score > 0
       IN /\ p # 0 /\ KeyOf(order[p]) = key
          /\ scan' = [at |-> Advanced(there, key + 1),
                      hits |-> IF passes
                               THEN AddHit(scan.hits, LocalLimit(seg), [key |-> key, score |-> score])
                               ELSE scan.hits]
  /\ ScanUnchanged

(* The scan is over: its hits, best first, go to the candidates.             *)
LexicalClose ==
  /\ stage = "scan" /\ ~Scanning
  /\ LET objs == Objects(segs[seg].docs)
         order == Ordered(scan.hits, HitBefore)
         ordinal(key) == IF key <= Len(segs[seg].docs) THEN key ELSE key - Len(segs[seg].docs)
         found == [i \in 1..Len(order) |->
                     Candidate(objs[order[i].key], seg, ordinal(order[i].key), order[i].score)]
     IN lexical' = AddAll(lexical, found)
  /\ stage' = "lexical" /\ seg' = seg + 1 /\ scan' = NoScan
  /\ UNCHANGED <<segs, corpus, req, topK, candK, want, local, vector, hits>>

LexicalDone ==
  /\ stage = "lexical" /\ seg > Len(segs)
  /\ stage' = IF req.mode = "hybrid" THEN "base" ELSE "fuse"
  /\ seg' = 1
  /\ UNCHANGED <<segs, corpus, req, topK, candK, scan, want, local, lexical, vector, hits>>

----------------------------------------------------------------------------
(* The ANN corpus and the query plan.                                        *)

(* ann_corpus_build: the vectors of the documents visible when it is built.  *)
VisiblePassages(s) ==
  LET ps == Passages(segs[s].docs) IN {p \in 1..Len(ps) : VisibleIn(ps[p].parent, s)}

BuildCorpus ==
  [names |-> {segs[s].name : s \in 1..Len(segs)},
   keys |-> UNION {{[name |-> segs[s].name, ordinal |-> p,
                     sim |-> segs[s].vectors.records[p].sim] : p \in VisiblePassages(s)}
                   : s \in 1..Len(segs)}]

(* ann_query_plan_build: where a base segment is now (0 when compaction has  *)
(* removed it), and the segments the base does not cover.                    *)
BaseToCurrent(name) ==
  LET now == {s \in 1..Len(segs) : segs[s].name = name} IN
  IF now = {} THEN 0 ELSE CHOOSE s \in now : TRUE

IsDelta(s) == segs[s].name \notin corpus.names

(* USearch (external): the n nearest keys; nearest first up to the precision *)
(* of the stored vectors, so the order is not relied on.  HNSW is            *)
(* approximate; that a call misses none of the n nearest is assumed.         *)
Nearest(keys, n) ==
  LET nearer(a, b) == \/ a.sim > b.sim
                      \/ a.sim = b.sim /\ a.name < b.name
                      \/ a.sim = b.sim /\ a.name = b.name /\ a.ordinal < b.ordinal
      near == SubSeq(Ordered(keys, nearer), 1, n)
  IN {near, Reverse(near)}

(* The candidate a key stands for, or none.                                  *)
VectorCandidate(s, ordinal) ==
  LET o == Passages(segs[s].docs)[ordinal]
      score == segs[s].vectors.records[ordinal].sim IN
  IF req.scope = "documents"
  THEN [Candidate(o, s, DocumentOrdinal(o.parent, s), score) EXCEPT !.id = o.parent]
  ELSE Candidate(o, s, ordinal, score)

KeyAccepted(key) ==
  LET s == BaseToCurrent(key.name) IN
  s # 0 /\ Accept(s, Passages(segs[s].docs)[key.ordinal])

Examine(keys) ==
  LET kept == SelectSeq(keys, KeyAccepted) IN
  AddAll(NewSet(candK),
         [i \in 1..Len(kept) |-> VectorCandidate(BaseToCurrent(kept[i].name), kept[i].ordinal)])

(* Mutant: past half of the vectors the request does not grow.               *)
EnlargedToHalf(count) == IF want > count \div 2 THEN want ELSE want * 2

Enlarged(count) == IF want > count \div 2 THEN count ELSE want * 2

SegmentKeys(s) ==
  {[name |-> segs[s].name, ordinal |-> p, sim |-> segs[s].vectors.records[p].sim]
   : p \in 1..segs[s].vectors.count}

(* Mutant: takes what the first call gives.                                  *)
AttemptOnce(keys, nextStage, nextSeg) ==
  \E found \in Nearest(keys, want) :
    /\ vector' = AddAll(vector, Examine(found).items)
    /\ want' = 0 /\ stage' = nextStage /\ seg' = nextSeg /\ local' = NewSet(candK)

(* One ANN call of either loop: examine what it returns; with too few        *)
(* candidates and more vectors, ask again for twice as many.                 *)
Attempt(keys, nextStage, nextSeg) ==
  LET count == Cardinality(keys) IN
  \E found \in Nearest(keys, want) :
    \E set \in {Examine(found)} :
    IF Len(set.items) >= candK \/ want = count
    THEN /\ vector' = AddAll(vector, set.items)
         /\ want' = 0 /\ stage' = nextStage /\ seg' = nextSeg /\ local' = NewSet(candK)
    ELSE /\ want' = Enlarged(count) /\ local' = set
         /\ UNCHANGED <<vector, stage, seg>>

VectorUnchanged == UNCHANGED <<segs, corpus, req, topK, candK, scan, lexical, hits>>

BaseStart ==
  /\ stage = "base" /\ want = 0
  /\ want' = Min({4 * candK, Cardinality(corpus.keys)})
  /\ stage' = IF corpus.keys = {} THEN "delta" ELSE "base"
  /\ UNCHANGED <<seg, local, vector>> /\ VectorUnchanged

(* The first visible passage asks for the filter of its segment.             *)
AsksForBadFilter(keys) ==
  \E i \in 1..Len(keys) : LET s == BaseToCurrent(keys[i].name) IN
    s # 0 /\ ~FilterUsable(s) /\ VisibleIn(Passages(segs[s].docs)[keys[i].ordinal].parent, s)

BaseRefuse ==
  /\ stage = "base" /\ want # 0
  /\ \E found \in Nearest(corpus.keys, want) : AsksForBadFilter(found)
  /\ Failed

BaseAttempt ==
  /\ stage = "base" /\ want # 0
  /\ \A found \in Nearest(corpus.keys, want) : ~AsksForBadFilter(found)
  /\ Attempt(corpus.keys, "delta", 1)
  /\ VectorUnchanged

DeltaSkip ==
  /\ stage = "delta" /\ want = 0 /\ seg <= Len(segs)
  /\ ~IsDelta(seg) \/ SegmentKeys(seg) = {}
  /\ seg' = seg + 1
  /\ UNCHANGED <<stage, want, local, vector>> /\ VectorUnchanged

DeltaRefuse ==
  /\ stage = "delta" /\ want = 0 /\ seg <= Len(segs)
  /\ IsDelta(seg) /\ SegmentKeys(seg) # {} /\ ~FilterUsable(seg)
  /\ Failed

DeltaStart ==
  /\ stage = "delta" /\ want = 0 /\ seg <= Len(segs)
  /\ IsDelta(seg) /\ SegmentKeys(seg) # {} /\ FilterUsable(seg)
  /\ want' = Min({4 * candK, Cardinality(SegmentKeys(seg))})
  /\ UNCHANGED <<stage, seg, local, vector>> /\ VectorUnchanged

DeltaAttempt ==
  /\ stage = "delta" /\ want # 0
  /\ Attempt(SegmentKeys(seg), "delta", seg + 1)
  /\ VectorUnchanged

VectorDone ==
  /\ stage = "delta" /\ want = 0 /\ seg > Len(segs)
  /\ stage' = "fuse" /\ seg' = 1
  /\ UNCHANGED <<want, local, vector>> /\ VectorUnchanged

----------------------------------------------------------------------------
(* Hybrid_fuse_rrf: scores are fractions num/den.                            *)

RrfK == 60

Ranking(set) == Ordered(Range(set.items), Better)

Merged(ranked, c, rank, side) ==
  LET same == {i \in 1..Len(ranked) : ranked[i].id = c.id}
      fresh == [id |-> c.id, parent |-> c.parent, segment |-> c.segment, ordinal |-> c.ordinal,
                num |-> 1, den |-> RrfK + rank, sides |-> {side}] IN
  IF same = {} THEN Append(ranked, fresh)
  ELSE LET i == CHOOSE j \in same : TRUE IN
       IF side \in ranked[i].sides THEN ranked
       ELSE [ranked EXCEPT ![i].num = @ * (RrfK + rank) + ranked[i].den,
                           ![i].den = @ * (RrfK + rank),
                           ![i].sides = @ \cup {side}]

MergeAll(ranked, ranking, side) ==
  FoldLeft(LAMBDA m, r : Merged(m, ranking[r], r, side), ranked, [r \in 1..Len(ranking) |-> r])

FusedBefore(ranked, i, j) ==
  LET a == ranked[i].num * ranked[j].den
      b == ranked[j].num * ranked[i].den
  IN a > b \/ (a = b /\ i < j)

FuseRrf(l, v) ==
  LET ranked == MergeAll(MergeAll(<<>>, l, "lexical"), v, "vector")
      order == Ordered(1..Len(ranked), LAMBDA i, j : FusedBefore(ranked, i, j))
  IN [i \in 1..Min({topK, Len(ranked)}) |-> ranked[order[i]]]

Fuse ==
  /\ stage = "fuse"
  /\ hits' = FuseRrf(Ranking(lexical), Ranking(vector))
  /\ stage' = "page"
  /\ UNCHANGED <<segs, corpus, req, topK, candK, seg, scan, want, local, lexical, vector>>

QueryStep ==
  \/ LexicalSkipSegment \/ LexicalRefuse \/ LexicalOpen \/ LexicalAlign \/ LexicalDrop \/ LexicalSkip
  \/ LexicalScore \/ LexicalClose \/ LexicalDone
  \/ BaseStart \/ BaseRefuse \/ BaseAttempt
  \/ DeltaSkip \/ DeltaRefuse \/ DeltaStart \/ DeltaAttempt \/ VectorDone
  \/ Fuse
============================================================================
