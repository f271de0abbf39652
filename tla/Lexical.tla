------------------------------ MODULE Lexical ------------------------------
(* The inverted index of one segment: what the writer puts into             *)
(* terms.yap2, postings.yap2 and positions.yap2, what the reader insists on  *)
(* when it opens them, and how a query is planned and scored over them       *)
(* (src/src/components/yappo_lexical_v2.c, yappo_lexical_reader_v2.c,        *)
(* src/src/query/yappo_lexical_search_v2.c).                                 *)
(*                                                                          *)
(* The words of a text are its tokens.  An object is a document or a         *)
(* passage; its key is its place in the segment, documents before passages,  *)
(* which orders objects as posting_key does.  Scores are integers: the BM25  *)
(* terms keep their monotony in frequency, length, document frequency and    *)
(* boost, not their fractions.                                               *)
EXTENDS Chunker

CONSTANT BlockSize      \* YAP_V2_POSTINGS_BLOCK_SIZE

ASSUME BlockSizeAssumption == BlockSize \in Nat \ {0}

Fields == 1..3          \* title, body, passage
Document == 1
Passage == 2

(* The elements of S in the order of Before, by rank (TLC would enumerate    *)
(* all permutations for SetToSortSeq).                                       *)
Ordered(S, Before(_, _)) ==
  [i \in 1..Cardinality(S) |->
     CHOOSE x \in S : Cardinality({y \in S : Before(y, x)}) = i - 1]

SumOver(n, f(_)) == MapThenSumSet(f, 1..n)

----------------------------------------------------------------------------
(* The objects of a segment: its documents, then their passages.             *)

PassagesOf(d) ==
  [p \in 1..Len(d.passages) |->
     [type |-> Passage, parent |-> d.id,
      fields |-> << <<>>, <<>>, Words(d.passages[p].text) >>] @@ d.passages[p]]

DocumentObject(d) ==
  [type |-> Document, id |-> d.id, parent |-> d.id,
   fields |-> << Words(d.title), Words(d.body), <<>> >>]

Passages(docs) == FlattenSeq([i \in 1..Len(docs) |-> PassagesOf(docs[i])])

Objects(docs) == [i \in 1..Len(docs) |-> DocumentObject(docs[i])] \o Passages(docs)

----------------------------------------------------------------------------
(* The writer.                                                               *)

Places(o, f, t) == {p \in 1..Len(o.fields[f]) : o.fields[f][p] = t}

TermsIn(o) == UNION {Range(o.fields[f]) : f \in Fields}

Occurrences(o, t) == SumOver(3, LAMBDA f : Cardinality(Places(o, f, t)))

FieldTotals(objs) ==
  [f \in Fields |-> SumOver(Len(objs), LAMBDA k : Len(objs[k].fields[f]))]

(* The posting of term t in the object with key k; the field length is       *)
(* recorded only for fields the term occurs in.                              *)
WritePosting(objs, keys, t, i) ==
  LET o == objs[keys[i]] IN
  [key |-> keys[i], type |-> o.type,
   tf |-> [f \in Fields |-> Cardinality(Places(o, f, t))],
   length |-> [f \in Fields |-> IF Places(o, f, t) = {} THEN 0 ELSE Len(o.fields[f])],
   offset |-> SumOver(i - 1, LAMBDA j : Occurrences(objs[keys[j]], t)),
   count |-> Occurrences(o, t)]

WritePositions(o, t) ==
  Ordered(UNION {{<<f, p - 1>> : p \in Places(o, f, t)} : f \in Fields},
          LAMBDA a, b : a[1] < b[1] \/ (a[1] = b[1] /\ a[2] < b[2]))

(* The shortest field of the posting's object the term occurs in.            *)
ShortestField(posting) == Min({posting.length[f] : f \in {g \in Fields : posting.tf[g] > 0}})

TotalFrequency(posting) == SumOver(3, LAMBDA f : posting.tf[f])

BlockOf(postings, b) ==
  LET members == {i \in 1..Len(postings) : (i - 1) \div BlockSize = b - 1} IN
  [first |-> (b - 1) * BlockSize, count |-> Cardinality(members),
   maxTf |-> Max({TotalFrequency(postings[i]) : i \in members}),
   minLength |-> Min({ShortestField(postings[i]) : i \in members})]

BlockCount(n) == (n + BlockSize - 1) \div BlockSize

WriteTerm(objs, t) ==
  LET keys == Ordered({k \in 1..Len(objs) : t \in TermsIn(objs[k])}, <)
      postings == [i \in 1..Len(keys) |-> WritePosting(objs, keys, t, i)] IN
  [term |-> t, df |-> Len(keys), postings |-> postings,
   positions |-> FlattenSeq([i \in 1..Len(keys) |-> WritePositions(objs[keys[i]], t)]),
   blocks |-> [b \in 1..BlockCount(Len(keys)) |-> BlockOf(postings, b)]]

PostingsBytes(e) == 20 + 48 * Len(e.postings) + 16 * Len(e.blocks)
PositionsBytes(e) == 16 + 8 * Len(e.positions)

(* lexical_write_prepared: the three files of the segment that holds docs.   *)
WriteLexical(docs) ==
  LET objs == Objects(docs)
      order == Ordered(UNION {TermsIn(objs[k]) : k \in 1..Len(objs)}, <)
      entries == [i \in 1..Len(order) |-> WriteTerm(objs, order[i])] IN
  [documents |-> Len(docs), passages |-> Len(objs) - Len(docs),
   tokens |-> FieldTotals(objs),
   terms |-> [i \in 1..Len(order) |->
     entries[i] @@
       [postingsOffset |-> 56 + SumOver(i - 1, LAMBDA j : PostingsBytes(entries[j])),
        postingsBytes |-> PostingsBytes(entries[i]),
        positionsOffset |-> 12 + SumOver(i - 1, LAMBDA j : PositionsBytes(entries[j])),
        positionsBytes |-> PositionsBytes(entries[i])]]]

(* The payload bytes of terms.yap2, postings.yap2 and positions.yap2.        *)
LexicalBytes(lex) ==
  << 12 + SumOver(Len(lex.terms), LAMBDA i : 44 + TermBytes(lex.terms[i].term)),
     56 + SumOver(Len(lex.terms), LAMBDA i : lex.terms[i].postingsBytes),
     12 + SumOver(Len(lex.terms), LAMBDA i : lex.terms[i].positionsBytes) >>

----------------------------------------------------------------------------
(* The reader.                                                               *)

(* validate_term_stream: no empty term, terms strictly ascending.  (Its      *)
(* limit on their number lies beyond what a file has room for.)              *)
TermStreamValid(lex) ==
  \A i \in 1..Len(lex.terms) :
    /\ lex.terms[i].df # 0
    /\ i > 1 => lex.terms[i - 1].term < lex.terms[i].term

PostingValid(lex, e, i) ==
  LET p == e.postings[i]
      at == {q \in 1..p.count : e.positions[p.offset + q][1] \in Fields} IN
  /\ p.key \in 1..(lex.documents + lex.passages)
  /\ (p.type = Document) = (p.key <= lex.documents)
  /\ TotalFrequency(p) = p.count /\ p.count # 0
  /\ p.offset + p.count <= Len(e.positions)
  /\ i > 1 => e.postings[i - 1].key < p.key
  /\ \A f \in Fields : Cardinality({q \in at : e.positions[p.offset + q][1] = f}) = p.tf[f]
  /\ \A q \in 1..p.count : LET x == e.positions[p.offset + q] IN
       /\ x[1] \in Fields /\ x[2] < p.length[x[1]]
       /\ \A r \in 1..(q - 1) : LET y == e.positions[p.offset + r] IN
            y[1] = x[1] => y[2] < x[2]

(* validate_payloads: each list starts where the one before ends, has the    *)
(* size its counts give, and stores the true maxima of every block.          *)
PayloadsValid(lex) ==
  \A i \in 1..Len(lex.terms) : LET e == lex.terms[i] IN
    /\ e.postingsOffset = 56 + SumOver(i - 1, LAMBDA j : lex.terms[j].postingsBytes)
    /\ e.positionsOffset = 12 + SumOver(i - 1, LAMBDA j : lex.terms[j].positionsBytes)
    /\ Len(e.blocks) = BlockCount(e.df)
    /\ e.postingsBytes = 20 + 48 * e.df + 16 * Len(e.blocks)
    /\ e.positionsBytes = 16 + 8 * Len(e.positions)
    /\ \A k \in 1..e.df : PostingValid(lex, e, k)
    /\ \A b \in 1..Len(e.blocks) : e.blocks[b] = BlockOf(e.postings, b)

(* lexical_segment_open.                                                     *)
SegmentOpens(lex) == TermStreamValid(lex) /\ PayloadsValid(lex)

(* lexical_term_find; 0 when the segment does not have the term.             *)
TermFind(lex, t) ==
  LET found == {i \in 1..Len(lex.terms) : lex.terms[i].term = t} IN
  IF found = {} THEN 0 ELSE CHOOSE i \in found : TRUE

(* lexical_term_type_frequency.                                              *)
TypeFrequency(lex, t, type) ==
  IF TermFind(lex, t) = 0 THEN 0
  ELSE Cardinality({i \in 1..lex.terms[TermFind(lex, t)].df :
                      lex.terms[TermFind(lex, t)].postings[i].type = type})

----------------------------------------------------------------------------
(* The query plan and the scores.                                            *)

(* query_plan_bind: document frequencies over all segments.                  *)
BoundFrequency(lexes, t, type) ==
  SumOver(Len(lexes), LAMBDA s : TypeFrequency(lexes[s], t, type))

(* query_corpus_stats_build.                                                 *)
CorpusStats(lexes) ==
  [documents |-> SumOver(Len(lexes), LAMBDA s : lexes[s].documents),
   passages |-> SumOver(Len(lexes), LAMBDA s : lexes[s].passages),
   tokens |-> [f \in Fields |-> SumOver(Len(lexes), LAMBDA s : lexes[s].tokens[f])]]

Boost == <<2, 1, 1>>

ObjectCount(stats, type) == IF type = Document THEN stats.documents ELSE stats.passages

(* boost / (1 - b + b * length / average) in hundredths, b = 0.75; the       *)
(* average is 1 for a field the type does not have or that is empty.         *)
FieldWeight(stats, type, f, length) ==
  LET own == (f = 3) = (type = Passage)
      one == ~own \/ ObjectCount(stats, type) = 0 \/ stats.tokens[f] = 0
      total == IF one THEN 1 ELSE stats.tokens[f]
      count == IF one THEN 1 ELSE ObjectCount(stats, type)
  IN (400 * Boost[f] * total) \div (total + 3 * length * count)

(* w * (k1 + 1) / (k1 + w), k1 = 1.2.                                        *)
Saturate(w) == (2200 * w) \div (1200 + 10 * w)

(* Decreasing in the frequency, zero outside 1..count like idf_value.        *)
Idf(frequency, count) == IF frequency \in 1..count THEN count - frequency + 1 ELSE 0

PostingScore(stats, frequency, posting) ==
  LET w == SumOver(3, LAMBDA f : IF posting.tf[f] = 0 THEN 0
             ELSE posting.tf[f] * FieldWeight(stats, posting.type, f, posting.length[f]))
  IN Idf(frequency, ObjectCount(stats, posting.type)) * Saturate(w)

(* block_upper_bound: the best score the block's maxima allow.               *)
BlockUpperBound(stats, frequency, entry, index, type) ==
  LET block == entry.blocks[(index - 1) \div BlockSize + 1]
      best == Max({FieldWeight(stats, type, f, block.minLength) : f \in Fields})
  IN Idf(frequency, ObjectCount(stats, type)) * Saturate(best * block.maxTf)

(* state_skip_type and state_advance_to: the next posting of the type, and   *)
(* the next one after index whose key is at least key.                       *)
SkipType(postings, index, type) ==
  Min({j \in index..(Len(postings) + 1) : j > Len(postings) \/ postings[j].type = type})

AdvanceTo(postings, index, key, type) ==
  Min({j \in (index + 1)..(Len(postings) + 1) :
         j > Len(postings) \/ (postings[j].type = type /\ postings[j].key >= key)})

(* phrase_matches: some occurrence of the first token with every later       *)
(* token at its distance in the same field.                                  *)
PhraseMatches(lex, tokens, at, key) ==
  LET entry(q) == lex.terms[TermFind(lex, tokens[q])]
      posting(q) == entry(q).postings[at[tokens[q]]]
      places(q) == {entry(q).positions[posting(q).offset + p] : p \in 1..posting(q).count} IN
  /\ \A q \in 1..Len(tokens) : at[tokens[q]] <= entry(q).df /\ posting(q).key = key
  /\ \E base \in places(1) :
       \A q \in 2..Len(tokens) : <<base[1], base[2] + q - 1>> \in places(q)

(* hit_compare, hit_threshold and add_hit over hits [key, score].            *)
HitBefore(a, b) == a.score > b.score \/ (a.score = b.score /\ a.key < b.key)

HitThreshold(hits, topK) ==
  IF Cardinality(hits) < topK THEN 0 ELSE Min({h.score : h \in hits})

(* Mutant: a full list keeps what it has.                                    *)
AddHitWhileFree(hits, topK, hit) ==
  IF Cardinality(hits) < topK THEN hits \cup {hit} ELSE hits

AddHit(hits, topK, hit) ==
  LET worst == CHOOSE h \in hits : \A g \in hits \ {h} : HitBefore(g, h) IN
  IF Cardinality(hits) < topK THEN hits \cup {hit}
  ELSE IF HitBefore(hit, worst) THEN (hits \ {worst}) \cup {hit} ELSE hits
============================================================================
