---------------------------- MODULE IndexStoreInv ---------------------------
(***************************************************************************)
(* The inductive invariant behind the types of IndexStore and the exclusion*)
(* its two locks give.                                                     *)
(***************************************************************************)
EXTENDS IndexStore

(* Labels at which a thread holds the writer lock for certain.             *)
Holding == {"apply", "wal_write", "wal_sync", "write", "publish",
            "publish_sync", "clear", "clear_sync", "abort", "abort_clear",
            "abort_sync", "compact_policy", "compact_gc", "compact_publish",
            "compact_publish_sync", "compact_obsolete"}

(* Writers exclude each other.                                             *)
WriterExclusion == \A t \in Threads : pc[t] \in Holding => writerLock = t

(* The batch apply_operations works on is there: the caller's, or the one  *)
(* of a WAL that nobody else can remove.                                   *)
BatchAtHand ==
    \A t \in Threads :
        /\ call[t] = "update" => own[t] \in Batches
        /\ pc[t] \in {"apply", "write", "publish"} /\ replay[t] => wal # NoWal
        /\ pc[t] \in {"apply", "wal_write", "wal_sync", "write", "publish"}
             /\ ~replay[t] => call[t] = "update"
        /\ pc[t] = "apply_lock" => call[t] = "update"
        /\ pc[t] \in {"idle", "recover", "recover_lock", "apply_lock",
                      "wal_write", "wal_sync", "compact_wal"} => ~replay[t]

(* The part of TypeOK that is control state.                               *)
ControlType ==
    /\ writerLock \in Threads \cup {NoThread}
    /\ compactionLock \in Compactors \cup {NoThread}
    /\ pc \in [Threads -> Labels]
    /\ call \in [Threads -> {"none", "update", "recover", "compact"}]
    /\ own \in [Threads -> Batches \cup {NoBatch}]
    /\ replay \in [Threads -> BOOLEAN]
    /\ clears \in [Threads -> BOOLEAN]
    /\ outcome \in [Batches -> {"none", "pending", "ok", "error"}]
    /\ logged \subseteq Batches
    /\ crashes \in 0..MaxCrashes

(* A compaction about to publish found its range in the manifest it loaded. *)
RangeChecked ==
    \A t \in Threads :
        pc[t] = "compact_publish" => RangeUnchanged(source[t], base[t].segs)

(* Labels of compact_internal proper.                                      *)
Compacting == {"compact_wal", "compact_policy", "compact_gc",
               "compact_collect", "compact_write", "compact_relock",
               "compact_publish", "compact_publish_sync", "compact_obsolete",
               "compact_done", "compact_status", "compact_clean"}

(* Compactions exclude each other.                                         *)
CompactionExclusion ==
    \A t \in Threads : /\ pc[t] # "idle" => call[t] # "none"
                       /\ pc[t] \in Compacting => call[t] = "compact"
                       /\ call[t] = "compact" => compactionLock = t

(* The part of TypeOK that is on disk or loaded from it.                   *)
DataType ==
    /\ manifest \in Manifest
    /\ wal \in Wal \cup {NoWal}
    /\ survivors \subseteq [manifest: Manifest, wal: Wal \cup {NoWal}]
    /\ dirs \subseteq Descriptor /\ syncedDirs \subseteq Descriptor
    /\ base \in [Threads -> Manifest]
    /\ plan \in [Threads -> Seq(Events)]
    /\ mine \in [Threads -> Seq(Descriptor)]
    /\ source \in [Threads -> [first: Nat, segs: Seq(Descriptor)]]

FiniteDirs == IsFiniteSet(dirs) /\ IsFiniteSet(syncedDirs)

(* The inductive invariant behind TypeOK.                                  *)
TypeInv ==
    /\ ControlType
    /\ DataType
    /\ FiniteDirs
    /\ RangeChecked
    /\ WriterExclusion
    /\ BatchAtHand
=============================================================================
