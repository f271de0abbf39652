---------------------------- MODULE MCIndexStore ----------------------------
(***************************************************************************)
(* Instances of IndexStore for TLC.                                        *)
(***************************************************************************)
EXTENDS IndexStore, TLC

CONSTANTS d1, d2,          \* document ids
          v0, v1, v2,      \* document contents
          b1, b2, b3,      \* batches
          u1, u2, c1       \* threads

(* b1 overwrites the document the index was built with, b2 deletes it and  *)
(* writes another, b3 has a duplicate id.                                  *)
MCOps ==
    (b1 :> {[id |-> d1, event |-> v1]})
      @@ (b2 :> {[id |-> d1, event |-> Tomb], [id |-> d2, event |-> v2]})
      @@ (b3 :> {[id |-> d2, event |-> v1], [id |-> d2, event |-> v2]})

MCBuilt == [id \in Ids |-> IF id = d1 THEN v0 ELSE NoEvent]

(* All threads live in the core daemon.                                    *)
OneProcess == [t \in Threads |-> "core"]

(* The core daemon runs u1 and the compactors; u2 is a command line update *)
CoreAndUpdate == [t \in Threads |-> IF t = u2 THEN "update" ELSE "core"]
=============================================================================
