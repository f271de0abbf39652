------------------------------- MODULE Calls --------------------------------
(***************************************************************************)
(* The calls front workers make to the core daemon, and what an ingest     *)
(* call carries.  A call outlives the worker that made it: a worker may    *)
(* give up waiting while the core goes on with the call.                   *)
(***************************************************************************)
EXTENDS Naturals, Sequences, FiniteSets, FiniteSetsExt, SequencesExt

CONSTANTS NCalls,    \* bound: calls made in all
          Items,     \* the ingest bodies each call may carry
          MaxOps,    \* YAP_V2_UPDATE_MAX_OPERATIONS
          MaxBatch   \* requests the writer executor hands over at once

(* An ingest body: whether it parses, whether the indexer accepts its      *)
(* operations, and the documents they name, one operation each.            *)
ASSUME CallsAssumption ==
    /\ NCalls \in Nat /\ MaxBatch \in Nat \ {0}
    /\ \A n \in 1..NCalls : \A i \in Items[n] :
          /\ i.parses \in BOOLEAN /\ i.accepted \in BOOLEAN /\ i.docs # {}
          /\ i.parses => Cardinality(i.docs) <= MaxOps

VARIABLE call

CallIds == 1..NCalls
NotHeld == [gen |-> 0, snap |-> 0, ann |-> 0]
NoItem  == [parses |-> FALSE, accepted |-> FALSE, docs |-> {}]

(* after: the newest generation acknowledged before the call was made.     *)
(* published: the generations that carry the operations of the call.       *)
(* left: its update log was still there when it failed as a client error.  *)
Unsent == [stage |-> "none", kind |-> "search", item |-> NoItem, after |-> 0,
           held |-> NotHeld, published |-> {}, left |-> FALSE, status |-> 0, gen |-> 0]

CallsInit == call = [n \in CallIds |-> Unsent]

-----------------------------------------------------------------------------
(* Grouping.  Consecutive requests share an update while the operations    *)
(* fit and no document is named twice; a body that does not parse stands   *)
(* alone and closes the group before it.                                   *)
Documents(group)  == UNION {call[n].item.docs : n \in ToSet(group)}
Operations(group) == FoldLeft(LAMBDA k, n : k + Cardinality(call[n].item.docs), 0, group)

Split(group, n) ==
    /\ group # <<>>
    /\ \/ Cardinality(call[n].item.docs) > MaxOps - Operations(group)
       \/ call[n].item.docs \cap Documents(group) # {}

Flush(groups, group) == IF group = <<>> THEN groups ELSE Append(groups, group)

Groups(batch) ==
    LET Add(g, n) ==
          IF ~call[n].item.parses
            THEN [done |-> Append(Flush(g.done, g.open), <<n>>), open |-> <<>>]
          ELSE IF Split(g.open, n)
            THEN [done |-> Append(g.done, g.open), open |-> <<n>>]
          ELSE [g EXCEPT !.open = Append(@, n)]
        all == FoldLeft(Add, [done |-> <<>>, open |-> <<>>], batch)
    IN  Flush(all.done, all.open)
=============================================================================
