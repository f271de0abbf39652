------------------------------- MODULE Search -------------------------------
(* A small index and a client that pages through one search of it.  Batches  *)
(* become segments, compaction rewrites them, the ANN corpus is rebuilt, and *)
(* between any two of those the client's request runs to its answer          *)
(* (http_execute_loaded of src/src/server/yappo_http_v2.c).  How the index   *)
(* is published, locked and recovered is the subject of IndexStore; here a   *)
(* batch is one step, and what is checked is what searches return.           *)
EXTENDS Query

CONSTANTS
  Scenarios,        \* [batches, policy, request, rebuilds, compactions]
  CandidateFloor,   \* the 100 candidates a query looks at at least
  CursorMaxOffset,  \* YAP_V2_CURSOR_MAX_OFFSET
  MaxLimit,         \* the largest limit a request may ask for
  Separator         \* bytes between two passages of a context

VARIABLES
  batches,   \* the batches still to be indexed
  policy,    \* the segment size policy
  budget,    \* [rebuilds, compactions] still allowed
  generation,
  planned,   \* ghost: the units and slices of the last plan, the names before it
  names,     \* segment names given out
  offset,    \* where the current page starts
  cursor,    \* next_cursor of the last page, or NoCursor
  asked,     \* whether the client has sent its request
  pages,     \* ghost: the ids of the pages received so far
  answer,    \* the last answer
  tick       \* ghost: flips with every step of the thread that runs the request

indexVars == <<batches, policy, budget, generation, planned, names>>
clientVars == <<offset, cursor, asked, pages, answer>>
vars == <<segs, corpus, req, queryVars, indexVars, clientVars, tick>>

NoCursor == [generation |-> 0, offset |-> 0]
NoPlan == [units |-> <<>>, slices |-> <<>>, names |-> 0]

Init ==
  \E scenario \in Scenarios :
    /\ batches = scenario.batches /\ policy = scenario.policy
    /\ budget = [rebuilds |-> scenario.rebuilds, compactions |-> scenario.compactions]
    /\ req = scenario.request
    /\ segs = <<>> /\ corpus = [names |-> {}, keys |-> {}]
    /\ generation = 0 /\ planned = NoPlan /\ names = 0
    /\ topK = 0 /\ candK = 1 /\ stage = "idle" /\ seg = 1 /\ scan = NoScan /\ want = 0
    /\ local = NewSet(1) /\ lexical = NewSet(1) /\ vector = NewSet(1) /\ hits = <<>>
    /\ offset = 0 /\ cursor = NoCursor /\ asked = FALSE /\ pages = <<>>
    /\ answer = [kind |-> "none"] /\ tick = 0

----------------------------------------------------------------------------
(* The index.                                                                *)

(* validate_unique_ids and the vectors an operation must bring: one for      *)
(* every passage its body is chunked into.                                   *)
OperationId(op) == IF IsDocument(op) THEN op.document.id ELSE op.tombstone

BatchValid(ops) ==
  /\ Distinct([i \in 1..Len(ops) |-> OperationId(ops[i])])
  /\ \A i \in 1..Len(ops) : IsDocument(ops[i]) =>
       Len(ops[i].document.sims) = Len(Chunk(ops[i].document.id, ops[i].document.body))

(* The unit of an operation: the document with its chunks and their vectors. *)
Unit(op) ==
  LET d == op.document
      chunks == Chunk(d.id, d.body) IN
  IF ~IsDocument(op) THEN op
  ELSE [document |->
         [id |-> d.id, title |-> d.title, body |-> d.body, meta |-> d.meta,
          passages |-> [p \in 1..Len(chunks) |-> [sim |-> d.sims[p]] @@ chunks[p]]]]

WriteSlices(units, slices) ==
  [i \in 1..Len(slices) |-> SliceWrite(units, slices[i], names + i)]

(* A plan whose slices the segment writers take and the manifest has room    *)
(* for beside `others` segments.                                             *)
Publishable(units, plan, others) ==
  /\ plan.status = "ok"
  /\ others + Len(plan.slices) <= MaxSegments
  /\ \A i \in 1..Len(plan.slices) : SliceWritable(units, plan.slices[i])

(* An update: chunk and plan the batch, write its slices, publish a          *)
(* generation; or refuse the batch.  The first generation is opened by a     *)
(* server, which builds its ANN corpus.                                      *)
IndexBatch ==
  /\ stage = "idle" /\ batches # <<>>
  /\ batches' = Tail(batches)
  /\ \E ops \in {Head(batches)} :
     IF ~BatchValid(ops) THEN UNCHANGED <<segs, planned, generation, names, corpus>>
     ELSE
     \E units \in {[i \in 1..Len(ops) |-> Unit(ops[i])]} :
     \E plan \in {SegmentPlan(units, policy)} :
     IF Publishable(units, plan, Len(segs))
     THEN /\ segs' = segs \o WriteSlices(units, plan.slices)
          /\ planned' = [units |-> units, slices |-> plan.slices, names |-> names]
          /\ generation' = generation + 1 /\ names' = names + Len(plan.slices)
          /\ corpus' = IF segs = <<>> THEN BuildCorpus' ELSE corpus
     ELSE UNCHANGED <<segs, planned, generation, names, corpus>>
  /\ UNCHANGED <<policy, budget, req, queryVars, clientVars, tick>>

(* A server answers from a manifest all of whose segments it can load; with  *)
(* any other it stays at an older generation, which is not followed here.    *)
Unloadable == {s \in 1..Len(segs) : ~SegmentLoads(segs[s])}

Servable == segs # <<>> /\ Unloadable = {}

(* collect_range: the latest document or tombstone of every id within the    *)
(* range, tombstones first; tombstones go when nothing is left outside.  It  *)
(* reads the segments of the range with the readers of a server.             *)
LatestInRange(id, s, last) ==
  \A r \in (s + 1)..last : id \notin DocumentIds(r) \cup Range(segs[r].tombstones)

RangeUnits(first, last) ==
  LET all == first = 1 /\ last = Len(segs)
      dead(s) == SelectSeq(segs[s].tombstones, LAMBDA id :
                   ~all /\ id \notin DocumentIds(s) /\ LatestInRange(id, s, last))
      tombs(s) == [i \in 1..Len(dead(s)) |-> [tombstone |-> dead(s)[i]]]
      kept(s) == SelectSeq(segs[s].docs, LAMBDA d : LatestInRange(d.id, s, last))
      docs(s) == [i \in 1..Len(kept(s)) |-> [document |-> kept(s)[i]]]
  IN FlattenSeq([k \in 1..(last - first + 1) |-> tombs(first + k - 1) \o docs(first + k - 1)])

Compact ==
  /\ stage = "idle" /\ budget.compactions > 0
  /\ \E first, last \in 1..Len(segs) :
       /\ first < last
       /\ Unloadable \cap (first..last) = {}
       /\ \E units \in {RangeUnits(first, last)} :
          \E plan \in {SegmentPlan(units, policy)} :
          /\ Publishable(units, plan, Len(segs) - (last - first + 1))
          /\ segs' = SubSeq(segs, 1, first - 1) \o WriteSlices(units, plan.slices)
                     \o SubSeq(segs, last + 1, Len(segs))
          /\ planned' = [units |-> units, slices |-> plan.slices, names |-> names]
          /\ names' = names + Len(plan.slices)
  /\ generation' = generation + 1
  /\ budget' = [budget EXCEPT !.compactions = @ - 1]
  /\ UNCHANGED <<batches, policy, corpus, req, queryVars, clientVars, tick>>

(* The maintenance thread replaces the base corpus.                          *)
RebuildCorpus ==
  /\ stage = "idle" /\ budget.rebuilds > 0 /\ Servable
  /\ corpus' = BuildCorpus
  /\ budget' = [budget EXCEPT !.rebuilds = @ - 1]
  /\ UNCHANGED <<batches, policy, generation, planned, names, segs, req, queryVars, clientVars, tick>>

----------------------------------------------------------------------------
(* The request.                                                              *)

(* parse_request: what the mode needs, and the limits.  A retrieve searches  *)
(* passages and takes no cursor; max_passages_per_document is 3 when it is   *)
(* not given (0 here), whatever the limit.                                   *)
PerDocument == IF req.perDocument = 0 THEN 3 ELSE req.perDocument

RequestValid ==
  /\ req.mode # "vector" => req.text
  /\ req.mode # "lexical" => req.embedding
  /\ req.limit \in 1..MaxLimit
  /\ req.perDocument \in 0..req.limit
  /\ req.maxBytes > 0

Refuse ==
  /\ answer' = [kind |-> "bad_request"]
  /\ cursor' = NoCursor
  /\ UNCHANGED <<queryVars, offset, pages>>

(* query_execute's start: room for one hit more than the page, and at least  *)
(* CandidateFloor candidates.                                                *)
Execute(from) ==
  LET k == IF req.op = "search" THEN from + req.limit + 1 ELSE req.limit
      c == Max({k, CandidateFloor}) IN
  /\ offset' = from /\ topK' = k /\ candK' = c
  /\ lexical' = NewSet(c) /\ vector' = NewSet(c) /\ local' = NewSet(c)
  /\ stage' = IF req.mode = "vector" THEN "base" ELSE "lexical"
  /\ seg' = 1 /\ scan' = NoScan /\ want' = 0 /\ hits' = <<>>
  /\ answer' = [kind |-> "none"]
  /\ UNCHANGED <<cursor, pages>>

Submit ==
  /\ stage = "idle" /\ Servable /\ ~asked
  /\ asked' = TRUE
  /\ IF RequestValid THEN Execute(0) ELSE Refuse
  /\ UNCHANGED <<segs, corpus, req, indexVars, tick>>

(* Mutant: any generation's cursor goes on.                                  *)
FollowAnyCursor ==
  /\ stage = "idle" /\ cursor # NoCursor /\ Servable
  /\ IF cursor.offset <= CursorMaxOffset THEN Execute(cursor.offset) ELSE Refuse
  /\ UNCHANGED <<segs, corpus, req, indexVars, asked, tick>>

(* cursor_decode: a cursor of another generation or beyond the last offset   *)
(* is refused.  The client sends the same request, so the digest agrees.     *)
FollowCursor ==
  /\ stage = "idle" /\ cursor # NoCursor /\ Servable
  /\ IF cursor.generation = generation /\ cursor.offset <= CursorMaxOffset
     THEN Execute(cursor.offset) ELSE Refuse
  /\ UNCHANGED <<segs, corpus, req, indexVars, asked, tick>>

(* The page of a search and its next_cursor.                                 *)
Page ==
  /\ stage = "page" /\ req.op = "search"
  /\ LET count == Min({Len(hits) - offset, req.limit}) IN
     IF offset > Len(hits)
     THEN /\ answer' = [kind |-> "bad_request"] /\ cursor' = NoCursor /\ UNCHANGED pages
     ELSE /\ pages' = pages \o [i \in 1..count |-> hits[offset + i].id]
          /\ cursor' = IF Len(hits) > offset + count
                       THEN [generation |-> generation, offset |-> offset + count] ELSE NoCursor
          /\ answer' = [kind |-> "page", generation |-> generation]
  /\ stage' = "idle" /\ tick' = 1 - tick
  /\ UNCHANGED <<segs, corpus, req, indexVars, asked, offset, topK, candK, seg, scan, want,
                 local, lexical, vector, hits>>

(* retrieve_context: passages in rank order that respect both limits.        *)
PassageText(h) == Passages(segs[h.segment].docs)[h.ordinal].text

(* Mutant: forgets the documents already cited.                              *)
CiteAnyDocument(context, h) ==
  LET start == IF context.citations = <<>> THEN 0 ELSE context.used + Separator
      end == start + Len(PassageText(h)) IN
  IF Len(context.citations) >= req.limit \/ end > req.maxBytes THEN context
  ELSE [used |-> end,
        citations |-> Append(context.citations,
          [passage |-> h.id, document |-> h.parent, start |-> start, end |-> end])]

Cite(context, h) ==
  LET sep == IF context.citations = <<>> THEN 0 ELSE Separator
      same == {i \in 1..Len(context.citations) : context.citations[i].document = h.parent}
      twice == \E i \in 1..Len(context.citations) : context.citations[i].passage = h.id
      start == context.used + sep
      end == start + Len(PassageText(h)) IN
  IF \/ Len(context.citations) >= req.limit
     \/ ~VisibleIn(h.parent, h.segment)
     \/ twice \/ Cardinality(same) >= PerDocument
     \/ end > req.maxBytes
  THEN context
  ELSE [used |-> end,
        citations |-> Append(context.citations,
          [passage |-> h.id, document |-> h.parent, start |-> start, end |-> end])]

RetrieveContext ==
  FoldLeft(LAMBDA c, h : Cite(c, h), [used |-> 0, citations |-> <<>>], hits)

Retrieve ==
  /\ stage = "page" /\ req.op = "retrieve"
  /\ answer' = [kind |-> "context", generation |-> generation, context |-> RetrieveContext]
  /\ stage' = "idle" /\ tick' = 1 - tick
  /\ UNCHANGED <<segs, corpus, req, indexVars, topK, candK, seg, scan, want, local, lexical,
                 vector, hits, offset, cursor, asked, pages>>

(* A query that ended with INVALID_FORMAT is answered as a bad request.      *)
AnswerFailed ==
  /\ stage = "failed"
  /\ answer' = [kind |-> "bad_request"] /\ cursor' = NoCursor
  /\ stage' = "idle" /\ tick' = 1 - tick
  /\ UNCHANGED <<segs, corpus, req, indexVars, topK, candK, seg, scan, want, local, lexical,
                 vector, hits, offset, asked, pages>>

Running == QueryStep /\ tick' = 1 - tick /\ UNCHANGED <<indexVars, clientVars>>

(* Clients and writers may stop; a request that is being executed may not:   *)
(* a state in the middle of one without a successor is a deadlock.           *)
Rest == stage = "idle" /\ UNCHANGED vars

Next ==
  \/ IndexBatch \/ Compact \/ RebuildCorpus
  \/ Submit \/ FollowCursor \/ Page \/ Retrieve \/ AnswerFailed
  \/ Running \/ Rest

(* The server thread that executes a request is not stopped by anyone.  Its  *)
(* steps are the ones that flip tick.                                        *)
Works == stage # "idle" /\ tick' = 1 - tick

Spec == Init /\ [][Next]_vars /\ WF_tick(Works)

----------------------------------------------------------------------------
(* What the answers are compared with: definitions over the documents        *)
(* themselves, without postings, blocks, heaps or ANN calls.                 *)

ObjectsAt(s) == Range(Objects(segs[s].docs))

ScopeObjects ==
  UNION {{<<s, k>> : k \in {i \in 1..Len(Objects(segs[s].docs)) :
                              Objects(segs[s].docs)[i].type = ObjectType}} : s \in 1..Len(segs)}

ObjectOf(x) == Objects(segs[x[1]].docs)[x[2]]

(* The object belongs to the current version of its document, and that       *)
(* version's own metadata satisfy the filter.                                *)
Wanted(s, o) ==
  /\ VisibleIn(o.parent, s)
  /\ req.filter = NoFilter
     \/ MetaSatisfies(segs[s].docs[DocumentOrdinal(o.parent, s)].meta, req.filter)

TrueStats ==
  [documents |-> SumOver(Len(segs), LAMBDA s : Len(segs[s].docs)),
   passages |-> SumOver(Len(segs), LAMBDA s : Len(Passages(segs[s].docs))),
   tokens |-> [f \in Fields |-> SumOver(Len(segs), LAMBDA s : FieldTotals(Objects(segs[s].docs))[f])]]

TrueFrequency(t) == Cardinality({x \in ScopeObjects : t \in TermsIn(ObjectOf(x))})

TrueScore(o) ==
  MapThenSumSet(LAMBDA t : PostingScore(TrueStats, TrueFrequency(t),
      [type |-> o.type, tf |-> [f \in Fields |-> Cardinality(Places(o, f, t))],
       length |-> [f \in Fields |-> Len(o.fields[f])]]),
    Terms \cap TermsIn(o))

HasPhrase(o) ==
  \E f \in Fields : \E p \in 0..(Len(o.fields[f]) - Len(Tokens)) :
    SubSeq(o.fields[f], p + 1, p + Len(Tokens)) = Tokens

Matches(o) ==
  /\ Terms # {}
  /\ IF req.phrase THEN HasPhrase(o)
     ELSE IF req.operator = "and" THEN Terms \subseteq TermsIn(o)
     ELSE Terms \cap TermsIn(o) # {}

TrueLexical ==
  IF req.mode = "vector" THEN {}
  ELSE {[id |-> ObjectOf(x).id, score |-> TrueScore(ObjectOf(x))] :
          x \in {y \in ScopeObjects : Wanted(y[1], ObjectOf(y)) /\ Matches(ObjectOf(y))}}

(* The best similarity of every visible passage, or of every document that   *)
(* has one.                                                                  *)
TrueVector ==
  LET seen == UNION {{[id |-> IF req.scope = "documents" THEN o.parent ELSE o.id, score |-> o.sim]
                      : o \in {p \in ObjectsAt(s) : p.type = Passage /\ Wanted(s, p)}}
                     : s \in 1..Len(segs)}
  IN IF req.mode = "lexical" THEN {}
     ELSE {c \in seen : \A d \in seen : d.id = c.id => d.score <= c.score}

(* A candidate set holds k best elements of a reference ranking; which of    *)
(* several equal scores it holds is left open.                               *)
HoldsBest(set, reference, k) ==
  LET held == {[id |-> c.id, score |-> c.score] : c \in Range(set.items)} IN
  /\ held \subseteq reference
  /\ Cardinality(held) = Min({k, Cardinality(reference)})
  /\ \A r \in reference \ held : \A c \in held : r.score <= c.score

(* The searches for which no segment has more objects than the search keeps, *)
(* or that skip no block.                                                    *)
NothingPruned(k) ==
  \/ Conjunctive
  \/ Cardinality(Terms) <= 1
  \/ \A s \in 1..Len(segs) :
       k >= IF req.scope = "documents" THEN Len(segs[s].docs) ELSE Len(Passages(segs[s].docs))

(* lexical_search_prepared with its postings, blocks and cursors finds what  *)
(* a scan of the visible documents finds, for AND and phrase queries, for    *)
(* single terms, and for OR whenever a segment has no more objects than the  *)
(* search keeps.                                                             *)
LexicalExact ==
  stage = "fuse" /\ req.mode # "vector" /\ NothingPruned(candK)
    => HoldsBest(lexical, TrueLexical, candK)

(* Block-Max WAND skips only blocks that cannot reach the current top k:     *)
(* every OR search holds the best matches with their full scores             *)
(* (docs/search.md).                                                         *)
OrKeepsTopHits ==
  stage = "fuse" /\ req.mode = "lexical" => HoldsBest(lexical, TrueLexical, candK)

(* collect_vector over a base corpus of an older generation and the segments *)
(* published or rewritten since finds the nearest visible passages: nothing  *)
(* superseded, deleted, filtered out or counted twice, nothing missed        *)
(* because the first ANN calls returned only such keys.  It is a statement   *)
(* about the loops around the ANN index, whose own answers are assumed to be *)
(* exact although HNSW is approximate (docs/search.md).                      *)
VectorExact ==
  stage = "fuse" /\ req.mode # "lexical" => HoldsBest(vector, TrueVector, candK)

(* Heap, hash and array of every candidate set stay consistent through       *)
(* improvements and evictions, deleted hash slots included.                  *)
CandidateSetsConsistent ==
  SetConsistent(lexical) /\ SetConsistent(vector) /\ SetConsistent(local)

(* The plan covers the units in order, keeps every file within its limit     *)
(* (only a unit alone in its segment may pass the soft one), and predicts    *)
(* for every file the bytes its writer writes.                               *)
PlanMatchesSegments ==
  LET slices == planned.slices
      ends(i) == slices[i].first + slices[i].count - 1 IN
  \A i \in 1..Len(slices) :
    /\ slices[i].first = IF i = 1 THEN 1 ELSE ends(i - 1) + 1
    /\ i = Len(slices) => ends(i) = Len(planned.units)
    /\ Largest(slices[i].bytes) <= policy.hard
    /\ slices[i].count > 1 => Largest(slices[i].bytes) <= policy.soft
    /\ \E s \in 1..Len(segs) :
         segs[s].name = planned.names + i /\ FileBytes(segs[s]) = slices[i].bytes

(* Which published segments a server can load: the readers of all files      *)
(* accept what the writers wrote, and the descriptor counts what is there,   *)
(* exactly when the tombstones, which neither planner nor writer limits and  *)
(* a compaction gathers, are no more than tombstones_read takes.  The        *)
(* passages of a document are sound chunks of its body.                      *)
SegmentsLoad ==
  \A s \in 1..Len(segs) :
    /\ SegmentLoads(segs[s]) <=> Len(segs[s].tombstones) <= MaxSegmentDocuments
    /\ \A i \in 1..Len(segs[s].docs) :
         ChunksSound(segs[s].docs[i].passages, segs[s].docs[i].body)

----------------------------------------------------------------------------
RankIn(ranking, id) ==
  LET at == {i \in 1..Len(ranking) : ranking[i].id = id} IN
  IF at = {} THEN 0 ELSE Min(at)

(* The ranking a client is entitled to: all matches by fused score.          *)
TrueRanking ==
  LET l == Ordered(TrueLexical, Better)
      v == Ordered(TrueVector, Better)
      ids == {c.id : c \in TrueLexical \cup TrueVector}
      part(r) == IF r = 0 THEN 0 ELSE 1000000 \div (RrfK + r)
      score(id) == part(RankIn(l, id)) + part(RankIn(v, id))
      place(id) == IF RankIn(l, id) # 0 THEN RankIn(l, id) ELSE Len(l) + RankIn(v, id)
      before(a, b) == score(a) > score(b) \/ (score(a) = score(b) /\ place(a) < place(b))
  IN Ordered(ids, before)

Untied(reference) == \A a, b \in reference : a.score = b.score => a = b

(* Searches whose ranking does not depend on how many candidates a page      *)
(* asks for.                                                                 *)
StableRanking ==
  /\ NothingPruned(CandidateFloor)
  /\ \/ /\ Cardinality(TrueLexical) <= CandidateFloor
        /\ Cardinality(TrueVector) <= CandidateFloor
     \/ req.mode # "hybrid" /\ Untied(TrueLexical) /\ Untied(TrueVector)

(* The pages a client gets by following cursors are consecutive parts of the *)
(* one ranking: no hit twice, none left out, and no cursor at the end; a     *)
(* cursor never continues in another generation's ranking.                   *)
PagesFollowRanking ==
  stage = "idle" /\ answer.kind = "page" /\ answer.generation = generation /\ StableRanking
    => LET count == IF cursor = NoCursor THEN Cardinality(Range(TrueRanking)) ELSE cursor.offset
       IN pages = SubSeq(TrueRanking, 1, count)

(* A context stays within its bytes, passages and passages per document, its *)
(* citations point at their texts, and a ranked passage is left out only if  *)
(* it did not fit behind the ones cited before it.                           *)
ContextRespectsLimits ==
  stage = "idle" /\ answer.kind = "context" /\ answer.generation = generation
    => LET cited == answer.context.citations
           end(j) == IF j = 0 THEN 0 ELSE cited[j].end
           start(j) == IF j = 1 THEN 0 ELSE end(j - 1) + Separator
           rank(j) == RankIn(hits, cited[j].passage)
           before(i) == {j \in 1..Len(cited) : rank(j) < i}
           siblings(i) == {j \in before(i) : cited[j].document = hits[i].parent} IN
       /\ Len(cited) <= req.limit
       /\ \A j \in 1..Len(cited) :
            /\ cited[j].start = start(j) /\ cited[j].end <= req.maxBytes
            /\ rank(j) # 0 /\ (j > 1 => rank(j - 1) < rank(j))
            /\ cited[j].end - cited[j].start = Len(PassageText(hits[rank(j)]))
            /\ Cardinality(siblings(rank(j))) < PerDocument
       /\ \A i \in 1..Len(hits) :
            \/ \E j \in 1..Len(cited) : rank(j) = i
            \/ Cardinality(siblings(i)) = PerDocument
            \/ LET n == Cardinality(before(i)) IN
               n = req.limit \/ start(n + 1) + Len(PassageText(hits[i])) > req.maxBytes

(* A filter over a field that is not registered, nested too deep or of too   *)
(* many nodes refuses the request whenever there is an object it could be    *)
(* applied to, and not only when an object is reached that it decides.       *)
InvalidFilterRefused ==
  stage = "idle" /\ answer.kind \in {"page", "context"} /\ answer.generation = generation
    => LET type == IF req.mode = "vector" THEN Passage ELSE ObjectType IN
       \A s \in 1..Len(segs) : \A o \in ObjectsAt(s) :
         o.type = type /\ VisibleIn(o.parent, s) /\ req.filter # NoFilter => Admissible(req.filter)

(* Every request the server takes up is answered: neither the posting scan   *)
(* nor the loop that asks the ANN index for more keys runs for ever.         *)
Answered == (stage # "idle") ~> (stage = "idle")
============================================================================
