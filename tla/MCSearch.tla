------------------------------ MODULE MCSearch ------------------------------
(* Small indexes and requests for Search.  Every scenario is a history of    *)
(* batches and one client request; TLC takes the batches, compactions, ANN   *)
(* rebuilds, the request and its pages in every order.                       *)
EXTENDS Search

MCHash(id) == id % 5

MCWidths == [id |-> 1, passageId |-> 2, segment |-> 35, url |-> 4, metadata |-> 2,
             model |-> 5, dimensions |-> 2]

MCFields == <<"f", "g">>

Num(n) == [type |-> "number", value |-> n]
Str(n) == [type |-> "string", value |-> n]
Null == [type |-> "null", value |-> 0]
Object == [type |-> "other", value |-> 0]

(* Metadata: one number; an array of mixed values beside a second field; a   *)
(* value that is no scalar, under a field that is registered.                *)
One == [f |-> <<Num(1)>>]
Many == [f |-> <<Num(12), Str(1), Null>>, g |-> <<Num(1)>>]
Odd == [g |-> <<Object>>, h |-> <<Num(1)>>]

Eq(field, v) == [op |-> "eq", field |-> field, value |-> v]
Not(node) == [op |-> "not", args |-> <<node>>]
IsOne == Eq("f", Num(1))
OneOrString == [op |-> "or", args |-> << Eq("f", Str(1)), [op |-> "in", field |-> "f", values |-> <<Null, Num(1)>>] >>]
Ranged == [op |-> "and", args |-> << [op |-> "range", field |-> "f", bounds |-> [gt |-> 1, lte |-> 12]],
                                     Not([op |-> "exists", field |-> "g"]) >>]
NoF == Not([op |-> "exists", field |-> "f"])
Between == [op |-> "range", field |-> "f", bounds |-> [gte |-> 2, lt |-> 13]]
Unregistered == [op |-> "or", args |-> <<IsOne, Eq("h", Num(1))>>]
NoG == Not([op |-> "exists", field |-> "g"])
TooDeep == Not(Not(Not(IsOne)))
TooMany == [op |-> "and", args |-> <<IsOne, IsOne, IsOne, IsOne>>]

(* A document for the index; one similarity per passage of its body.         *)
Doc(id, title, body, sims, meta) ==
  [id |-> id, title |-> title, body |-> body, sims |-> sims, meta |-> meta]
Put(d) == [document |-> d]
Del(id) == [tombstone |-> id]

(* Similarities for however many passages the body has.                      *)
AnySims(id, body) == [p \in 1..Len(Chunk(id, body)) |-> p]

Roomy == [target |-> 5000, soft |-> 7000, hard |-> 9000]
Tight == [target |-> 380, soft |-> 450, hard |-> 2000]

Base == [op |-> "search", mode |-> "lexical", scope |-> "documents", operator |-> "or",
         phrase |-> FALSE, query |-> <<1, 2>>, text |-> TRUE, embedding |-> TRUE,
         filter |-> NoFilter, limit |-> 1, perDocument |-> 0, maxBytes |-> 9]

Scenario(bs, p, r, rebuilds, compactions) ==
  [batches |-> bs, policy |-> p, request |-> r, rebuilds |-> rebuilds,
   compactions |-> compactions]

(* Three documents in one segment with every choice of these bodies: ties,   *)
(* repeated terms, both orders of a phrase, a term in the title.             *)
Bodies == {<<1>>, <<2, 1>>, <<1, 2, 2>>, <<2, 3>>}
LexicalRequests ==
  {Base, [Base EXCEPT !.operator = "and", !.limit = 2], [Base EXCEPT !.phrase = TRUE],
   [Base EXCEPT !.query = <<1>>],
   [Base EXCEPT !.phrase = TRUE, !.query = <<2, 1>>, !.operator = "and"],
   [Base EXCEPT !.query = <<2, 3, 2>>, !.limit = 2], [Base EXCEPT !.filter = IsOne, !.limit = 2]}
Lexicals ==
  {Scenario(<< << Put(Doc(1, <<>>, a, <<1>>, One)), Put(Doc(2, <<2>>, b, <<2>>, Many)),
                  Put(Doc(3, <<>>, c, <<3>>, One)) >> >>, Roomy, r, 0, 0)
   : a, b, c \in Bodies, r \in LexicalRequests}

(* More passages than the search keeps: whole blocks fall below the           *)
(* threshold and the scan skips ahead to the pivot.                          *)
Skips ==
  {Scenario(<< << Put(Doc(1, <<>>, a, <<1>>, One)), Put(Doc(2, <<>>, b, <<2>>, One)),
                  Put(Doc(3, <<>>, c, <<3, 2, 1>>, One)) >> >>, Roomy,
            [Base EXCEPT !.scope = "passages"], 0, 0)
   : a, b \in {<<2, 2, 2>>, <<1, 2, 2>>, <<1, 1, 1>>},
     c \in {<<1, 3, 3, 2, 2, 3, 3>>, <<3, 3, 1, 3, 3, 2, 2>>, <<1, 3, 3, 3, 2, 2, 1>>}}

(* Documents of one and of two passages, across a sentence end and across    *)
(* the passage length, updated or deleted by a second batch.                 *)
Old == << Put(Doc(1, <<>>, <<1, 2, Blank, 2>>, <<5, 3>>, One)),
          Put(Doc(2, <<1>>, <<2>>, <<4>>, Many)),
          Put(Doc(3, <<>>, <<2, 1, 1, 2>>, <<1, 2>>, One)) >>
Change == << Del(1), Put(Doc(2, <<>>, <<1, 1>>, <<6>>, One)) >>
Changes ==
  {Change,
   << Put(Doc(1, <<2>>, <<2>>, <<1>>, Odd)), Del(3) >>,
   << Put(Doc(4, <<>>, <<2, 1>>, <<5>>, One)), Put(Doc(3, <<1>>, <<>>, <<>>, Many)) >>,
   << Del(1), Del(2), Del(3) >>}
MixedRequests ==
  {[Base EXCEPT !.mode = "vector"],
   [Base EXCEPT !.mode = "hybrid", !.limit = 2],
   [Base EXCEPT !.mode = "hybrid", !.scope = "passages", !.operator = "and", !.limit = 2],
   [Base EXCEPT !.mode = "vector", !.scope = "passages", !.filter = IsOne, !.limit = 2],
   [Base EXCEPT !.op = "retrieve", !.mode = "vector", !.scope = "passages", !.limit = 3,
                !.perDocument = 1, !.maxBytes = 12],
   [Base EXCEPT !.op = "retrieve", !.mode = "hybrid", !.scope = "passages", !.limit = 3,
                !.perDocument = 2, !.maxBytes = 7],
   [Base EXCEPT !.op = "retrieve", !.mode = "lexical", !.scope = "passages", !.limit = 3]}
Mixed == {Scenario(<<Old, change>>, Roomy, r, 1, 1) : change \in Changes, r \in MixedRequests}
         \cup {Scenario(<<Old, Change>>, Tight, r, 1, 1) : r \in MixedRequests}

(* Every kind of filter, over documents that move between segments; some do  *)
(* not compile.                                                              *)
Filters == {OneOrString, Ranged, NoF, Between, Unregistered, TooDeep, TooMany}
Filtered ==
  {Scenario(<<Old, Change>>, Roomy, [Base EXCEPT !.filter = f, !.mode = m, !.limit = 2], 0, 1)
   : f \in Filters, m \in {"lexical", "vector"}}
  \cup {Scenario(<<Old, << Put(Doc(1, <<2>>, <<2>>, <<1>>, Odd)) >> >>, Roomy,
                 [Base EXCEPT !.filter = NoG, !.limit = 2], 0, 1)}

(* Nine near passages of a document that a later batch replaces: the first   *)
(* ANN call on the base, or on the segment, sees only superseded keys.       *)
Crowded ==
  << Put(Doc(1, <<>>, [i \in 1..19 |-> 1], [p \in 1..9 |-> 20 - p], One)),
     Put(Doc(2, <<>>, <<2, 2, 2, 1>>, <<3, 2>>, One)) >>
Superseded ==
  {Scenario(first \o <<Crowded, << Put(Doc(1, <<>>, <<1>>, <<1>>, One)) >> >>, Roomy, r, 1, 0)
   : first \in {<<>>, << << Put(Doc(3, <<>>, <<1>>, <<1>>, One)) >> >>},
     r \in {[Base EXCEPT !.mode = "vector"],
            [Base EXCEPT !.mode = "vector", !.scope = "passages"]}}

(* Size policies that cut the batch everywhere, merge its tail, leave a unit *)
(* alone between target and hard limit, or refuse one.                       *)
Units ==
  << Del(4), Put(Doc(1, <<1>>, <<1, 2>>, <<1>>, Many)), Put(Doc(2, <<3>>, <<>>, <<>>, Odd)),
     Put(Doc(3, <<2>>, <<Blank, 1, Blank, 3>>, <<2, 3>>, One)), Del(5) >>
Policies == {[target |-> t, soft |-> t + s, hard |-> t + s + h] :
               t \in {210 + 45 * n : n \in 0..13}, s \in {0, 60, 200}, h \in {0, 150}}
Plans == {Scenario(<<Units>>, p, [Base EXCEPT !.limit = 3], 0, 0) : p \in Policies}

(* Requests and batches the server refuses: a document twice in a batch, a   *)
(* vector too many.                                                          *)
Refused ==
  {Scenario(<<Old>>, Roomy, r, 0, 0)
   : r \in {[Base EXCEPT !.mode = "hybrid", !.embedding = FALSE], [Base EXCEPT !.text = FALSE],
            [Base EXCEPT !.limit = 0], [Base EXCEPT !.limit = 4],
            [Base EXCEPT !.op = "retrieve", !.scope = "passages", !.perDocument = 2]}}
  \cup {Scenario(<<b, Old>>, Roomy, Base, 0, 0)
         : b \in {<< Put(Doc(1, <<>>, <<1>>, <<1>>, One)), Del(1) >>,
                  << Put(Doc(1, <<>>, <<1, 2, 3>>, <<1, 2>>, One)) >>}}

(* Graphemes of several characters, one of them longer than a chunk, that    *)
(* the cut and the overlap go around; a character with a longer normal form; *)
(* a query that is normalised too.                                           *)
Graphemes ==
  {Scenario(<< << Put(Doc(1, <<Wide>>, a, AnySims(1, a), One)),
                  Put(Doc(2, <<1, Mark>>, b, AnySims(2, b), One)) >> >>, p, r, 0, 0)
   : a \in {<<1, 2, Mark, 3, 1>>, <<2, 1, Mark, Mark, Mark, Blank, 3, Mark>>, <<3, Wide, Wide, 1>>},
     b \in {<<1, Mark, Mark, 2, Mark, 1>>, <<Blank, 1, Mark, Blank, Blank, Wide>>},
     p \in {Roomy, Tight},
     r \in {[Base EXCEPT !.query = <<Wide>>, !.phrase = TRUE],
            [Base EXCEPT !.query = <<1, Mark, 1>>, !.scope = "passages", !.limit = 2],
            [Base EXCEPT !.op = "retrieve", !.mode = "hybrid", !.scope = "passages", !.limit = 3]}}

(* Two batches that only delete, and a compaction of both.                   *)
Deletions ==
  {Scenario(<<Old, << Del(4), Del(5) >>, << Del(3), Del(6) >> >>, Roomy, Base, 0, 1)}

AllScenarios ==
  Lexicals \cup Skips \cup Mixed \cup Filtered \cup Superseded \cup Plans \cup Refused
  \cup Graphemes \cup Deletions

(* One segment with more matching documents than the search keeps.           *)
OrScenarios ==
  {Scenario(<< [i \in 1..5 |-> Put(Doc(i, <<>>, bodies[i], AnySims(i, bodies[i]), One))] >>,
            Roomy, Base, 0, 0)
   : bodies \in [1..5 -> {<<2>>, <<2, 2, 2>>, <<1, 1, 1>>, <<1, 3, 3, 3>>}]}
============================================================================
