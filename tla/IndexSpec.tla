----------------------------- MODULE IndexSpec ------------------------------
(***************************************************************************)
(* What the index promises: a map from document ids to documents, changed  *)
(* by whole batches.  A batch takes effect at most once and at one moment, *)
(* or not at all.  A caller told "ok" has its batch applied, a caller told *)
(* "error" never will, and a caller that gets no answer may see either.    *)
(***************************************************************************)
CONSTANTS Ids, Values, Tomb, NoEvent, Batches,
          Effect,    \* Effect[b][id]: what batch b says of id
          Built      \* the map the index was built with

VARIABLES index,      \* the documents searches find
          committed,  \* the batches that took effect
          outcome     \* what callers were told

ivars == <<index, committed, outcome>>

Init ==
    /\ index = Built
    /\ committed = {}
    /\ outcome = [b \in Batches |-> "none"]

Submit(b) ==
    /\ outcome[b] = "none"
    /\ outcome' = [outcome EXCEPT ![b] = "pending"]
    /\ UNCHANGED <<index, committed>>

(* All operations of the batch at once; later batches override earlier.    *)
Commit(b) ==
    /\ outcome[b] = "pending"
    /\ b \notin committed
    /\ committed' = committed \cup {b}
    /\ index' = [id \in Ids |-> CASE Effect[b][id] = NoEvent -> index[id]
                                  [] Effect[b][id] = Tomb    -> NoEvent
                                  [] OTHER                   -> Effect[b][id]]
    /\ UNCHANGED outcome

Reply(b, r) ==
    /\ outcome[b] = "pending"
    /\ (r = "ok") <=> (b \in committed)
    /\ outcome' = [outcome EXCEPT ![b] = r]
    /\ UNCHANGED <<index, committed>>

Next ==
    \E b \in Batches : Submit(b) \/ Commit(b) \/ (\E r \in {"ok", "error"} : Reply(b, r))

Spec == Init /\ [][Next]_ivars
=============================================================================
