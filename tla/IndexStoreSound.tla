--------------------------- MODULE IndexStoreSound --------------------------
(***************************************************************************)
(* The manifest and every manifest a power loss may leave stay whole, for  *)
(* any number of threads, processes, batches, crashes and power losses, as *)
(* long as the fsync of the index directory does not fail behind a rename  *)
(* of the manifest or of the compaction status.                            *)
(***************************************************************************)
EXTENDS IndexStoreTypes

(* The index directory as it is may be what a power loss leaves, and every *)
(* manifest that may be left is whole.                                     *)
SurvivorsWhole ==
    /\ [manifest |-> manifest, wal |-> wal] \in survivors
    /\ \A s \in survivors : /\ SegSet(s.manifest.segs) \subseteq dirs \cap syncedDirs
                            /\ DistinctNames(s.manifest.segs)

(* A thread has written nothing yet, or what it has written is there,      *)
(* belongs to nobody else, and is durable when it is about to be published.*)
Empty == {"idle", "recover", "recover_lock", "apply_lock", "apply",
          "wal_write", "wal_sync", "compact_wal", "compact_policy",
          "compact_gc", "compact_collect"}

MineKept ==
    \A t \in Threads :
        /\ pc[t] \in Empty => mine[t] = <<>>
        /\ SegSet(mine[t]) \subseteq dirs
        /\ pc[t] \in {"publish", "compact_relock", "compact_publish"} =>
             SegSet(mine[t]) \subseteq syncedDirs
        /\ \A u \in Threads \ {t} : SegSet(mine[t]) \cap SegSet(mine[u]) = {}

(* Labels behind the rename that published what the thread has written.    *)
Published == {"publish_sync", "clear", "clear_sync", "compact_publish_sync",
              "compact_obsolete"}

MineUnpublished ==
    \A t \in Threads : pc[t] \notin Published =>
        \A s \in survivors : SegSet(mine[t]) \cap SegSet(s.manifest.segs) = {}

(* What a thread loaded under the writer lock is still the manifest.       *)
OnlyManifest == \A s \in survivors : s.manifest = manifest

CurrentFor(t) ==
    /\ pc[t] \in {"wal_write", "wal_sync", "write", "publish", "compact_gc",
                  "compact_publish"} => base[t] = manifest
    /\ pc[t] \in {"compact_gc", "compact_obsolete"} => OnlyManifest
    /\ pc[t] = "publish" => DistinctNames(Candidate(t))

BaseCurrent == \A t \in Threads : CurrentFor(t)

(* The range a compaction rewrites stays in the manifest until it is       *)
(* replaced, and then no segment of the manifest has one of its names.     *)
RangeKept(t) ==
    /\ pc[t] \in {"compact_collect", "compact_write", "compact_relock",
                  "compact_publish"} =>
         /\ RangeUnchanged(source[t], manifest.segs)
         /\ Names(SegSet(mine[t])) \cap Names(SegSet(source[t].segs)) = {}
    /\ pc[t] \in {"compact_publish_sync", "compact_obsolete"} =>
         Names(SegSet(manifest.segs)) \cap Names(SegSet(source[t].segs)) = {}

RangeInv == \A t \in Threads : RangeKept(t)

NoSyncFaults == Faults \cap {"manifest_sync", "status_sync"} = {}

SoundInv ==
    /\ CompactionExclusion
    /\ SurvivorsWhole
    /\ MineKept
    /\ MineUnpublished
    /\ BaseCurrent
    /\ RangeInv

-----------------------------------------------------------------------------
(* What the steps do to the files and to what the threads know of them.    *)
(* Every action is one of a few effects.                                   *)

Others(t) ==
    \A u \in Threads \ {t} : /\ pc'[u] = pc[u] /\ base'[u] = base[u]
                             /\ mine'[u] = mine[u] /\ source'[u] = source[u]

Same(t) == base'[t] = base[t] /\ mine'[t] = mine[t] /\ source'[t] = source[t]

Calm == {"idle", "recover", "recover_lock", "apply_lock", "apply", "compact_wal",
         "compact_policy"}

Failing == {"abort", "compact_done", "compact_status", "compact_clean"}

(* No file changes.                                                        *)
Quiet(t) ==
    /\ Others(t) /\ Same(t) /\ UNCHANGED <<disk, synced>>
    /\ \/ pc[t] \in Calm /\ pc'[t] \in Calm \cup {"clear"}
       \/ pc[t] \notin Published /\ pc'[t] \in Failing
       \/ pc[t] = "compact_collect" /\ pc'[t] = "compact_write"

(* A manifest is loaded under the writer lock.                             *)
Load(t) ==
    /\ Others(t) /\ UNCHANGED <<disk, synced>>
    /\ base'[t] = manifest /\ mine'[t] = mine[t] /\ source'[t] = source[t]
    /\ \/ pc[t] = "apply" /\ pc'[t] \in {"wal_write", "write"}
       \/ pc[t] = "compact_relock" /\ pc'[t] \in {"compact_publish", "compact_done"}

(* The WAL is written or unlinked.                                         *)
LogChange(t) ==
    /\ Others(t) /\ Same(t) /\ UNCHANGED <<dirs, syncedDirs>>
    /\ \E w : ChangeIndexDir(manifest, w)
    /\ \/ pc[t] = "wal_write" /\ pc'[t] = "wal_sync"
       \/ pc[t] = "clear" /\ pc'[t] = "clear_sync"
       \/ pc[t] = "abort_clear" /\ pc'[t] = "abort_sync"

(* The index directory is fsynced.                                         *)
Fsync(t) ==
    /\ Others(t) /\ Same(t) /\ UNCHANGED <<disk, syncedDirs>>
    /\ SyncIndexDir
    /\ \/ pc[t] = "wal_sync" /\ pc'[t] = "write"
       \/ pc[t] = "publish_sync" /\ pc'[t] = "clear"
       \/ pc[t] = "compact_publish_sync" /\ pc'[t] = "compact_obsolete"
       \/ pc[t] = "compact_status" /\ pc'[t] = "compact_clean"

(* A segment is written, or all of them are removed to be written again.   *)
Write(t) ==
    /\ Others(t) /\ UNCHANGED <<manifest, wal, synced>>
    /\ base'[t] = base[t] /\ source'[t] = source[t]
    /\ pc[t] \in {"write", "compact_write"} /\ pc'[t] = pc[t]
    /\ \/ \E d \in Descriptor : /\ SegmentName(d) \notin Names(dirs) /\ d \notin dirs
                                /\ dirs' = dirs \cup {d}
                                /\ mine'[t] = Append(mine[t], d)
       \/ RemoveDirs(SegSet(mine[t])) /\ mine'[t] = <<>>

(* segments/ is fsynced.                                                   *)
Seal(t) ==
    /\ Others(t) /\ Same(t) /\ UNCHANGED <<disk, survivors>>
    /\ syncedDirs' = dirs
    /\ \/ pc[t] = "write" /\ pc'[t] = "publish" /\ DistinctNames(Candidate(t))
       \/ pc[t] = "write" /\ pc'[t] = "abort"
       \/ pc[t] = "compact_write" /\ pc'[t] = "compact_relock"

(* A manifest is renamed into place.                                       *)
Publish(t, segs) ==
    /\ Others(t) /\ Same(t) /\ UNCHANGED <<dirs, syncedDirs>>
    /\ \E g, l : ChangeIndexDir([gen |-> g, segs |-> segs, log |-> l], wal)

Extend(t) ==
    /\ pc[t] = "publish" /\ pc'[t] = "publish_sync"
    /\ Publish(t, Candidate(t))

Replace(t) ==
    /\ pc[t] = "compact_publish" /\ pc'[t] = "compact_publish_sync"
    /\ DistinctNames(Replaced(base[t].segs, source[t], mine[t]))
    /\ Publish(t, Replaced(base[t].segs, source[t], mine[t]))

(* A call ends, or an update that failed goes on to clear its WAL.         *)
Returned == {"idle", "apply_lock", "compact_wal", "compact_done"}

Drop(t) ==
    /\ Others(t) /\ mine'[t] = <<>>
    /\ UNCHANGED <<manifest, wal, syncedDirs>>
    /\ SyncIndexDir \/ UNCHANGED survivors
    /\ \/ pc[t] \in {"abort", "compact_clean"} /\ RemoveDirs(SegSet(mine[t]))
       \/ /\ pc[t] \in {"abort_clear", "abort_sync", "clear", "clear_sync", "compact_policy"}
          /\ UNCHANGED dirs
    /\ pc'[t] \in Returned \cup {"abort_clear"}

(* A compaction begins, collects orphans and removes what it replaced.     *)
Begin(t) ==
    /\ Others(t) /\ UNCHANGED <<disk, syncedDirs>> /\ SyncIndexDir
    /\ base'[t] = manifest /\ mine'[t] = mine[t] /\ source'[t] = source[t]
    /\ pc[t] = "compact_policy" /\ pc'[t] = "compact_gc"

Collect(t) ==
    /\ Others(t) /\ UNCHANGED <<manifest, wal, synced>>
    /\ base'[t] = base[t] /\ mine'[t] = mine[t]
    /\ RemoveDirs(Orphans(base[t].segs))
    /\ pc[t] = "compact_gc"
    /\ \/ pc'[t] = "compact_collect" /\ source'[t] \in Ranges(base[t].segs)
       \/ pc'[t] = "compact_done"

Obsolete(t) ==
    /\ Others(t) /\ UNCHANGED <<manifest, wal, synced>>
    /\ mine'[t] = <<>>
    /\ RemoveDirs({d \in dirs : SegmentName(d) \in Names(SegSet(source[t].segs))})
    /\ pc[t] = "compact_obsolete" /\ pc'[t] = "compact_done"

(* Some threads start afresh and the files stay.                           *)
Restart ==
    /\ UNCHANGED <<disk, synced>>
    /\ \A t \in Threads :
          \/ pc'[t] = "idle" /\ mine'[t] = <<>>
          \/ pc'[t] = pc[t] /\ Same(t)

Effect(t) ==
    \/ Quiet(t) \/ Load(t) \/ LogChange(t) \/ Fsync(t) \/ Write(t) \/ Seal(t)
    \/ Extend(t) \/ Replace(t) \/ Drop(t) \/ Begin(t) \/ Collect(t) \/ Obsolete(t)

LEMMA RecoverReturnFacts ==
    ASSUME NEW t \in Threads, NEW ok, RecoverReturn(t, ok), pc \in [Threads -> Labels]
    PROVE  pc'[t] \in Returned /\ \A u \in Threads \ {t} : pc'[u] = pc[u]
BY Zenon DEF RecoverReturn, Goto, Returned

LEMMA ApplyReturnFacts ==
    ASSUME NEW t \in Threads, NEW ok, ApplyReturn(t, ok), DataType,
           pc \in [Threads -> Labels], UNCHANGED source
    PROVE  Others(t) /\ mine'[t] = <<>> /\ pc'[t] \in Returned
<1>   base \in [Threads -> Manifest] /\ mine \in [Threads -> Seq(Descriptor)]
    BY Zenon DEF DataType
<1>1. mine' = [mine EXCEPT ![t] = <<>>] /\ base' = [base EXCEPT ![t] = NoManifest]
    BY Zenon DEF ApplyReturn, ResetApply
<1>2. pc'[t] \in Returned /\ \A u \in Threads \ {t} : pc'[u] = pc[u]
    BY RecoverReturnFacts, Zenon DEF ApplyReturn, Goto, Returned
<1> QED
    BY <1>1, <1>2, Zenon DEF Others

LEMMA CompactReturnFacts ==
    ASSUME NEW t \in Threads, CompactReturn(t), DataType, pc \in [Threads -> Labels]
    PROVE  Others(t) /\ mine'[t] = <<>> /\ pc'[t] \in Returned
BY Zenon DEF DataType, CompactReturn, ResetApply, Goto, Others, Returned

(* Every step has one of these effects, unless an fsync behind a rename of *)
(* the manifest or of the status file fails.                               *)
LEMMA StepEffect ==
    ASSUME NoSyncFaults, TypeInv, [Next]_vars
    PROVE  \/ \E t \in Threads : Effect(t)
           \/ Restart \/ PowerFail
<1>t. Updaters \subseteq Threads /\ Compactors \subseteq Threads
    BY Zenon DEF Threads
<1>   /\ DataType /\ IsFiniteSet(dirs) /\ pc \in [Threads -> Labels]
      /\ base \in [Threads -> Manifest] /\ mine \in [Threads -> Seq(Descriptor)]
      /\ source \in [Threads -> [first: Nat, segs: Seq(Descriptor)]]
      /\ DataType /\ "seg" \in Kinds /\ "compact" \in Kinds
    BY Zenon DEF TypeInv, ControlType, DataType, FiniteDirs, Kinds
<1>1. ASSUME NEW t \in Updaters, NEW b \in Batches, StartUpdate(t, b)
      PROVE  Quiet(t)
    BY <1>1, <1>t, Zenon
    DEF StartUpdate, Goto, Quiet, Calm, Failing, Published, Others, Same,
        disk, synced, locals
<1>2. ASSUME NEW t \in Updaters, StartRecover(t)
      PROVE  Quiet(t)
    BY <1>2, <1>t, Zenon
    DEF StartRecover, Goto, Quiet, Calm, Failing, Published, Others, Same,
        disk, synced, locals
<1>3. ASSUME NEW t \in Updaters, ApplyLock(t)
      PROVE  Quiet(t)
    BY <1>3, <1>t, Zenon
    DEF ApplyLock, Goto, Quiet, Calm, Failing, Published, Others, Same, disk,
        synced, locals
<1>4. ASSUME NEW t \in Updaters, WalWrite(t)
      PROVE  LogChange(t) \/ Quiet(t)
    BY <1>4, <1>t, Zenon
    DEF WalWrite, Goto, LogChange, Quiet, Calm, Failing, Published, Others,
        Same, disk, synced, locals
<1>5. ASSUME NEW t \in Updaters, WalSync(t)
      PROVE  Fsync(t) \/ Quiet(t)
    BY <1>5, <1>t, Zenon
    DEF WalSync, Goto, Fsync, Quiet, Calm, Failing, Published, Others, Same,
        disk, synced, locals
<1>6. ASSUME NEW t \in Updaters, AbortClear(t)
      PROVE  LogChange(t) \/ Drop(t)
    BY <1>6, <1>t, ApplyReturnFacts, Zenon
    DEF AbortClear, Goto, LogChange, Drop, Returned, Others, Same, disk,
        synced, locals
<1>7. ASSUME NEW t \in Updaters, AbortSync(t)
      PROVE  Drop(t)
    BY <1>7, <1>t, ApplyReturnFacts, Zenon
    DEF AbortSync, Goto, Drop, Returned, Others, disk, synced, locals
<1>8. ASSUME NEW t \in Threads, RecoverCheck(t)
      PROVE  Quiet(t)
    BY <1>8, RecoverReturnFacts, Zenon
    DEF RecoverCheck, Goto, Quiet, Returned, Calm, Failing, Published, Others, Same,
        disk, synced, locals
<1>9. ASSUME NEW t \in Threads, RecoverLock(t)
      PROVE  Quiet(t)
    BY <1>9, RecoverReturnFacts, Zenon
    DEF RecoverLock, Goto, Quiet, Returned, Calm, Failing, Published, Others, Same,
        disk, synced, locals
<1>10. ASSUME NEW t \in Threads, ApplyBegin(t)
      PROVE  Load(t) \/ Quiet(t)
    BY <1>10, Zenon
    DEF ApplyBegin, Goto, Load, Quiet, Calm, Failing, Published, Others,
        Same, disk, synced, locals
<1>11. ASSUME NEW t \in Threads, UpdateWrite(t)
      PROVE  Write(t) \/ Quiet(t)
    <2>1. CASE WriteSlice(t, "seg") /\ UNCHANGED pc
        <3>1. \/ \E d \in Descriptor :
                    /\ SegmentName(d) \notin Names(dirs) /\ d \notin dirs
                    /\ dirs' = dirs \cup {d}
                    /\ mine' = [mine EXCEPT ![t] = Append(mine[t], d)]
              \/ RemoveDirs(SegSet(mine[t])) /\ mine' = [mine EXCEPT ![t] = <<>>]
            BY <2>1, WriteSliceFacts, Zenon
        <3> QED
            BY <1>11, <2>1, <3>1, Zenon DEF UpdateWrite, Write, Others
    <2>2. CASE Goto(t, "abort") /\ UNCHANGED <<dirs, mine>>
        BY <1>11, <2>2, Zenon
        DEF UpdateWrite, Goto, Quiet, Failing, Published, Others, Same, disk, synced
    <2> QED
        BY <1>11, <2>1, <2>2, Zenon DEF UpdateWrite
<1>12. ASSUME NEW t \in Threads, UpdateSeal(t)
      PROVE  Seal(t)
    BY <1>12, Zenon
    DEF UpdateSeal, Goto, Seal, Others, Same, disk, synced, locals
<1>13. ASSUME NEW t \in Threads, UpdatePublish(t)
      PROVE  Extend(t) \/ Quiet(t)
    BY <1>13, Zenon
    DEF UpdatePublish, Goto, PublishIfGeneration, Extend, Publish, Quiet,
        Calm, Failing, Published, Others, Same, disk, synced, locals
<1>14. ASSUME NEW t \in Threads, UpdatePublishSync(t)
      PROVE  Fsync(t)
    BY <1>14, Zenon
    DEF UpdatePublishSync, Goto, NoSyncFaults, Fsync, Others, Same, disk,
        synced, locals
<1>15. ASSUME NEW t \in Threads, WalClear(t)
      PROVE  LogChange(t) \/ Drop(t)
    BY <1>15, ApplyReturnFacts, Zenon
    DEF WalClear, Goto, LogChange, Drop, Returned, Others, Same, disk,
        synced, locals
<1>16. ASSUME NEW t \in Threads, WalClearSync(t)
      PROVE  Drop(t)
    BY <1>16, ApplyReturnFacts, Zenon
    DEF WalClearSync, Goto, Drop, Returned, Others, disk, synced, locals
<1>17. ASSUME NEW t \in Threads, ApplyAbort(t)
      PROVE  Drop(t)
    BY <1>17, ApplyReturnFacts, Zenon
    DEF ApplyAbort, Goto, Drop, Returned, Others, disk, synced, locals
<1>18. ASSUME NEW t \in Compactors, StartCompact(t)
      PROVE  Quiet(t)
    BY <1>18, <1>t, Zenon
    DEF StartCompact, Goto, Quiet, Calm, Failing, Published, Others, Same,
        disk, synced, locals
<1>19. ASSUME NEW t \in Compactors, CompactWal(t)
      PROVE  Quiet(t)
    BY <1>19, <1>t, Zenon
    DEF CompactWal, Goto, Quiet, Calm, Failing, Published, Others, Same,
        disk, synced, locals
<1>20. ASSUME NEW t \in Compactors, CompactPolicy(t)
      PROVE  Drop(t) \/ Begin(t)
    BY <1>20, <1>t, CompactReturnFacts, Zenon
    DEF CompactPolicy, Goto, NoSyncFaults, StatusWrite, Drop, Returned,
        Begin, Others, disk, synced, locals
<1>21. ASSUME NEW t \in Compactors, CompactGc(t)
      PROVE  Collect(t)
    BY <1>21, <1>t, Zenon
    DEF CompactGc, Goto, Collect, Others, disk, synced, locals
<1>22. ASSUME NEW t \in Compactors, CompactCollect(t)
      PROVE  Quiet(t)
    BY <1>22, <1>t, Zenon
    DEF CompactCollect, Goto, Quiet, Calm, Failing, Published, Others, Same,
        disk, synced, locals
<1>23. ASSUME NEW t \in Compactors, CompactWrite(t)
      PROVE  Write(t) \/ Quiet(t)
    <2>1. CASE WriteSlice(t, "compact") /\ UNCHANGED pc
        <3>1. \/ \E d \in Descriptor :
                    /\ SegmentName(d) \notin Names(dirs) /\ d \notin dirs
                    /\ dirs' = dirs \cup {d}
                    /\ mine' = [mine EXCEPT ![t] = Append(mine[t], d)]
              \/ RemoveDirs(SegSet(mine[t])) /\ mine' = [mine EXCEPT ![t] = <<>>]
            BY <2>1, <1>t, WriteSliceFacts, Zenon
        <3> QED
            BY <1>23, <1>t, <2>1, <3>1, Zenon DEF CompactWrite, Write, Others
    <2>2. CASE Goto(t, "compact_done") /\ UNCHANGED <<dirs, mine>>
        BY <1>23, <1>t, <2>2, Zenon
        DEF CompactWrite, Goto, Quiet, Failing, Published, Others, Same, disk, synced
    <2> QED
        BY <1>23, <2>1, <2>2, Zenon DEF CompactWrite
<1>24. ASSUME NEW t \in Compactors, CompactSync(t)
      PROVE  Seal(t)
    BY <1>24, <1>t, Zenon
    DEF CompactSync, Goto, Seal, Others, Same, disk, synced, locals
<1>25. ASSUME NEW t \in Compactors, CompactRelock(t)
      PROVE  Load(t)
    BY <1>25, <1>t, Zenon
    DEF CompactRelock, Goto, Load, Others, disk, synced, locals
<1>26. ASSUME NEW t \in Compactors, CompactPublish(t)
      PROVE  Replace(t) \/ Quiet(t)
    BY <1>26, <1>t, Zenon
    DEF CompactPublish, Goto, PublishIfGeneration, Replace, Publish, Quiet,
        Calm, Failing, Published, Others, Same, disk, synced, locals
<1>27. ASSUME NEW t \in Compactors, CompactPublishSync(t)
      PROVE  Fsync(t)
    BY <1>27, <1>t, Zenon
    DEF CompactPublishSync, Goto, NoSyncFaults, Fsync, Others, Same, disk,
        synced, locals
<1>28. ASSUME NEW t \in Compactors, CompactObsolete(t)
      PROVE  Obsolete(t)
    BY <1>28, <1>t, Zenon
    DEF CompactObsolete, Goto, Obsolete, Others, disk, synced, locals
<1>29. ASSUME NEW t \in Compactors, CompactUnlock(t)
      PROVE  Quiet(t)
    BY <1>29, <1>t, Zenon
    DEF CompactUnlock, Goto, Quiet, Calm, Failing, Published, Others, Same,
        disk, synced, locals
<1>30. ASSUME NEW t \in Compactors, CompactStatus(t)
      PROVE  Fsync(t) \/ Quiet(t)
    BY <1>30, <1>t, Zenon
    DEF CompactStatus, Goto, NoSyncFaults, StatusWrite, Fsync, Quiet, Calm,
        Failing, Published, Others, Same, disk, synced, locals
<1>31. ASSUME NEW t \in Compactors, CompactClean(t)
      PROVE  Drop(t)
    BY <1>31, <1>t, CompactReturnFacts, Zenon
    DEF CompactClean, Goto, Drop, Returned, Others, disk, synced, locals
<1>32. ASSUME NEW p, Crash(p)
      PROVE  Restart
    BY <1>32, Zenon DEF Crash, Kill, Restart, Same, disk, synced
<1>33. CASE UNCHANGED vars
    BY <1>33, Zenon DEF vars, Restart, Same, disk, synced, locals
<1> QED
    BY <1>t, <1>1, <1>2, <1>3, <1>4, <1>5, <1>6, <1>7, <1>8, <1>9, <1>10,
        <1>11, <1>12, <1>13, <1>14, <1>15, <1>16, <1>17, <1>18, <1>19, <1>20,
        <1>21, <1>22, <1>23, <1>24, <1>25, <1>26, <1>27, <1>28, <1>29, <1>30,
        <1>31, <1>32, <1>33, Zenon
    DEF Next, UpdateStep, RecoverStep, ApplyStep, CompactStep, Effect

-----------------------------------------------------------------------------
(* Facts about the published manifest and about who else is at work.       *)

LEMMA EmptySegSet == SegSet(<<>>) = {}
BY SMTT(30) DEF SegSet

LEMMA ManifestWhole ==
    ASSUME SurvivorsWhole
    PROVE  /\ SegSet(manifest.segs) \subseteq dirs \cap syncedDirs
           /\ DistinctNames(manifest.segs)
BY Zenon DEF SurvivorsWhole

LEMMA OnlyHolder ==
    ASSUME WriterExclusion, NEW t \in Threads, pc[t] \in Holding
    PROVE  \A u \in Threads \ {t} : pc[u] \notin Holding
BY Zenon DEF WriterExclusion

LEMMA OnlyCompactor ==
    ASSUME CompactionExclusion, NEW t \in Threads, pc[t] \in Compacting
    PROVE  \A u \in Threads \ {t} : pc[u] \notin Compacting
BY Zenon DEF CompactionExclusion

(* A thread that removes segments by name is the only one that has written *)
(* any.                                                                    *)
LEMMA Alone ==
    ASSUME TypeInv, SoundInv, NEW t \in Threads,
           pc[t] \in {"compact_gc", "compact_obsolete"}
    PROVE  \A u \in Threads \ {t} : mine[u] = <<>> /\ SegSet(mine[u]) = {}
<1>1. Labels \subseteq Empty \cup Holding \cup Compacting
    BY Zenon DEF Labels, Empty, Holding, Compacting
<1>2. pc \in [Threads -> Labels]
    BY Zenon DEF TypeInv, ControlType
<1>3. pc[t] \in Holding /\ pc[t] \in Compacting
    BY Zenon DEF Holding, Compacting
<1>4. \A u \in Threads \ {t} : pc[u] \in Empty
    BY <1>1, <1>2, <1>3, OnlyHolder, OnlyCompactor, Zenon DEF TypeInv, SoundInv
<1> QED
    BY <1>4, EmptySegSet, Zenon DEF SoundInv, MineKept

Remaining(segs, r) ==
    {segs[i] : i \in (1..Len(segs)) \ ((r.first + 1)..(r.first + Len(r.segs)))}

(* What a list holds after a range of it was replaced.                     *)
LEMMA ReplacedSegs ==
    ASSUME NEW segs, segs \in Seq(Descriptor), NEW new, new \in Seq(Descriptor),
           NEW r, r \in [first: Nat, segs: Seq(Descriptor)], RangeUnchanged(r, segs)
    PROVE  \A d \in SegSet(Replaced(segs, r, new)) :
              d \in SegSet(new) \/ d \in Remaining(segs, r)
<1>1. \A d \in SegSet(Replaced(segs, r, new)) :
         \/ d \in SegSet(new)
         \/ \E i \in 1..Len(segs) :
               segs[i] = d /\ i \notin (r.first + 1)..(r.first + Len(r.segs))
    BY ReplacedFacts, Zenon
<1> QED
    BY <1>1, Zenon DEF Remaining

LEMMA RemainingFacts ==
    ASSUME NEW segs, NEW r, NEW d \in Remaining(segs, r)
    PROVE  d \in SegSet(segs)
BY Zenon DEF Remaining, SegSet

(* What a publication lists: nothing but the manifest and what t wrote.    *)
LEMMA PublishedFacts ==
    ASSUME TypeInv, SoundInv, NEW t \in Threads, Extend(t) \/ Replace(t)
    PROVE  \E m : /\ ChangeIndexDir(m, wal) /\ DistinctNames(m.segs)
                  /\ SegSet(m.segs) \subseteq SegSet(manifest.segs) \cup SegSet(mine[t])
<1>1. /\ manifest.segs \in Seq(Descriptor) /\ mine[t] \in Seq(Descriptor)
      /\ source[t] \in [first: Nat, segs: Seq(Descriptor)]
    BY RecordFacts, Zenon DEF TypeInv, DataType
<1>2. base[t] = manifest
    BY Zenon DEF Extend, Replace, SoundInv, BaseCurrent, CurrentFor
<1>3. CASE Extend(t)
    <2>1. DistinctNames(Candidate(t))
        BY <1>3, Zenon DEF Extend, SoundInv, BaseCurrent, CurrentFor
    <2>2. SegSet(Candidate(t)) = SegSet(manifest.segs) \cup SegSet(mine[t])
        BY <1>1, <1>2, ConcatFacts, SMTT(30) DEF Candidate
    <2>3. PICK g, l : ChangeIndexDir([gen |-> g, segs |-> Candidate(t), log |-> l], wal)
        BY <1>3, Zenon DEF Extend, Publish
    <2> QED
        BY <2>1, <2>2, <2>3, SMTT(30)
<1>4. CASE Replace(t)
    <2> DEFINE new == Replaced(manifest.segs, source[t], mine[t])
    <2>1. RangeUnchanged(source[t], manifest.segs)
        BY <1>4, Zenon DEF Replace, SoundInv, RangeInv, RangeKept
    <2>2. \A d \in SegSet(new) :
             d \in SegSet(mine[t]) \/ d \in Remaining(manifest.segs, source[t])
        BY <1>1, <2>1, ReplacedSegs, Zenon
    <2>3. SegSet(new) \subseteq SegSet(manifest.segs) \cup SegSet(mine[t])
        BY <2>2, RemainingFacts, Zenon
    <2>4. DistinctNames(new)
        BY <1>2, <1>4, Zenon DEF Replace
    <2> HIDE DEF new
    <2>5. PICK g, l : ChangeIndexDir([gen |-> g, segs |-> new, log |-> l], wal)
        BY <1>2, <1>4, Zenon DEF Replace, Publish, new
    <2> QED
        BY <2>3, <2>4, <2>5, SMTT(30)
<1> QED
    BY <1>3, <1>4, Zenon

(* Nobody removes a segment that a manifest names.                         *)
LEMMA WholeStep ==
    ASSUME NoSyncFaults, TypeInv, SoundInv, [Next]_vars
    PROVE  SurvivorsWhole'
<1>a. /\ CompactionExclusion /\ SurvivorsWhole /\ MineKept
      /\ MineUnpublished /\ BaseCurrent /\ RangeInv
      /\ TypeInv /\ DataType /\ WriterExclusion
    BY Zenon DEF SoundInv, TypeInv
<1>1. ASSUME NEW t \in Threads, Quiet(t) \/ Load(t)
      PROVE  SurvivorsWhole'
    BY <1>1, <1>a, Zenon
    DEF Quiet, Load, disk, synced, SurvivorsWhole
<1>2. ASSUME NEW t \in Threads, LogChange(t)
      PROVE  SurvivorsWhole'
    BY <1>2, <1>a, ManifestWhole, SMTT(30)
    DEF LogChange, ChangeIndexDir, SurvivorsWhole
<1>3. ASSUME NEW t \in Threads, Fsync(t) \/ Begin(t)
      PROVE  SurvivorsWhole'
    BY <1>3, <1>a, Zenon
    DEF Fsync, Begin, SyncIndexDir, disk, SurvivorsWhole
<1>4. ASSUME NEW t \in Threads, Write(t)
      PROVE  SurvivorsWhole'
    <2>1. CASE RemoveDirs(SegSet(mine[t]))
        <3>1. \A s \in survivors : SegSet(mine[t]) \cap SegSet(s.manifest.segs) = {}
            BY <1>4, <1>a, Zenon DEF Write, MineUnpublished, Published
        <3> QED
            BY <1>4, <1>a, <2>1, <3>1, RemoveFacts, Zenon DEF Write, synced, SurvivorsWhole
    <2>2. CASE dirs \subseteq dirs'
        BY <1>4, <1>a, <2>2, Zenon DEF Write, synced, SurvivorsWhole
    <2> QED
        BY <1>4, <2>1, <2>2, Zenon DEF Write
<1>5. ASSUME NEW t \in Threads, Seal(t)
      PROVE  SurvivorsWhole'
    BY <1>5, <1>a, Zenon
    DEF Seal, disk, SurvivorsWhole
<1>6. ASSUME NEW t \in Threads, Extend(t) \/ Replace(t)
      PROVE  SurvivorsWhole'
    <2>1. PICK m : /\ ChangeIndexDir(m, wal) /\ DistinctNames(m.segs)
                   /\ SegSet(m.segs) \subseteq SegSet(manifest.segs) \cup SegSet(mine[t])
        BY <1>6, PublishedFacts, Zenon
    <2>2. SegSet(mine[t]) \subseteq dirs \cap syncedDirs
        BY <1>6, <1>a, Zenon DEF Extend, Replace, MineKept
    <2>3. UNCHANGED <<dirs, syncedDirs>>
        BY <1>6, Zenon DEF Extend, Replace, Publish
    <2>4. SegSet(m.segs) \subseteq dirs \cap syncedDirs
        BY <1>a, <2>1, <2>2, ManifestWhole, Zenon
    <2> QED
        BY <1>a, <2>1, <2>3, <2>4, SMTT(30) DEF ChangeIndexDir, SurvivorsWhole
<1>7. ASSUME NEW t \in Threads, Drop(t)
      PROVE  SurvivorsWhole'
    <2>1. \A s \in survivors : SegSet(s.manifest.segs) \subseteq dirs'
        <3>1. CASE UNCHANGED dirs
            BY <1>a, <3>1, Zenon DEF SurvivorsWhole
        <3>2. CASE pc[t] \in {"abort", "compact_clean"} /\ RemoveDirs(SegSet(mine[t]))
            BY <1>a, <3>2, RemoveFacts, Zenon DEF MineUnpublished, Published, SurvivorsWhole
        <3> QED
            BY <1>7, <3>1, <3>2, Zenon DEF Drop
    <2> QED
        BY <1>7, <1>a, <2>1, Zenon DEF Drop, SyncIndexDir, SurvivorsWhole
<1>8. ASSUME NEW t \in Threads, Collect(t)
      PROVE  SurvivorsWhole'
    <2>1. base[t] = manifest /\ OnlyManifest
        BY <1>8, <1>a, Zenon DEF Collect, BaseCurrent, CurrentFor
    <2>2. \A s \in survivors : Orphans(base[t].segs) \cap SegSet(s.manifest.segs) = {}
        BY <2>1, Zenon DEF OnlyManifest, Orphans, Names
    <2> QED
        BY <1>8, <1>a, <2>2, RemoveFacts, Zenon DEF Collect, synced, SurvivorsWhole
<1>9. ASSUME NEW t \in Threads, Obsolete(t)
      PROVE  SurvivorsWhole'
    <2> DEFINE D == {d \in dirs : SegmentName(d) \in Names(SegSet(source[t].segs))}
    <2>1. OnlyManifest /\ Names(SegSet(manifest.segs)) \cap Names(SegSet(source[t].segs)) = {}
        BY <1>9, <1>a, Zenon DEF Obsolete, BaseCurrent, CurrentFor, RangeInv, RangeKept
    <2>2. \A s \in survivors : D \cap SegSet(s.manifest.segs) = {}
        BY <2>1, Zenon DEF OnlyManifest, Names
    <2>3. RemoveDirs(D)
        BY <1>9, Zenon DEF Obsolete
    <2> HIDE DEF D
    <2> QED
        BY <1>9, <1>a, <2>2, <2>3, RemoveFacts, Zenon DEF Obsolete, synced, SurvivorsWhole
<1>10. ASSUME Restart
      PROVE  SurvivorsWhole'
    BY <1>10, <1>a, Zenon
    DEF Restart, disk, synced, SurvivorsWhole
<1>11. ASSUME PowerFail
      PROVE  SurvivorsWhole'
    <2>1. dirs \cap syncedDirs \subseteq dirs' /\ syncedDirs' = dirs'
        BY <1>11, Zenon DEF PowerFail
    <2>2. PICK s \in survivors : manifest' = s.manifest /\ wal' = s.wal /\ survivors' = {s}
        BY <1>11, Zenon DEF PowerFail
    <2>3. s = [manifest |-> s.manifest, wal |-> s.wal]
        BY <1>a, Zenon DEF DataType
    <2> QED
        BY <1>a, <2>1, <2>2, <2>3, Zenon DEF SurvivorsWhole
<1> QED
    BY <1>1, <1>2, <1>3, <1>4, <1>5, <1>6, <1>7, <1>8, <1>9, <1>10, <1>11, StepEffect, Zenon DEF Effect

(* Nobody removes what another thread has written and not yet published.  *)
LEMMA MineStep ==
    ASSUME NoSyncFaults, TypeInv, SoundInv, [Next]_vars
    PROVE  MineKept'
<1>a. /\ CompactionExclusion /\ SurvivorsWhole /\ MineKept
      /\ MineUnpublished /\ BaseCurrent /\ RangeInv
      /\ TypeInv /\ DataType /\ WriterExclusion
    BY Zenon DEF SoundInv, TypeInv
<1>1. ASSUME NEW t \in Threads, Quiet(t) \/ Load(t) \/ LogChange(t) \/ Fsync(t) \/ Begin(t)
      PROVE  MineKept'
    BY <1>1, <1>a, Zenon
    DEF Quiet, Load, LogChange, Fsync, Begin, Others, Same, Calm, Failing,
        disk, synced, MineKept, Empty
<1>2. ASSUME NEW t \in Threads, Seal(t)
      PROVE  MineKept'
    BY <1>2, <1>a, Zenon
    DEF Seal, Others, Same, disk, MineKept, Empty
<1>3. ASSUME NEW t \in Threads, Extend(t) \/ Replace(t)
      PROVE  MineKept'
    BY <1>3, <1>a, Zenon
    DEF Extend, Replace, Publish, Others, Same, MineKept, Empty
<1>4. ASSUME NEW t \in Threads, Write(t)
      PROVE  MineKept'
    <2>1. CASE RemoveDirs(SegSet(mine[t])) /\ mine'[t] = <<>>
        <3>1. \A u \in Threads \ {t} : SegSet(mine[u]) \subseteq dirs'
            BY <1>a, <2>1, RemoveFacts, Zenon DEF MineKept
        <3>2. /\ \A u \in Threads \ {t} : mine'[u] = mine[u] /\ pc'[u] = pc[u]
              /\ UNCHANGED syncedDirs /\ SegSet(mine'[t]) = {}
            BY <1>4, <2>1, EmptySegSet, Zenon DEF Write, Others, synced
        <3> QED
            BY <1>a, <2>1, <3>1, <3>2, Zenon DEF MineKept
    <2>2. CASE \E d \in Descriptor : /\ d \notin dirs /\ dirs' = dirs \cup {d}
                                     /\ mine'[t] = Append(mine[t], d)
        <3>1. PICK d \in Descriptor : /\ d \notin dirs /\ dirs' = dirs \cup {d}
                                      /\ mine'[t] = Append(mine[t], d)
            BY <2>2, Zenon
        <3>2. SegSet(mine'[t]) = SegSet(mine[t]) \cup {d}
            BY <1>a, <3>1, SegSetFacts, SMTT(30) DEF DataType
        <3>3. pc'[t] \notin Empty \cup {"publish", "compact_relock", "compact_publish"}
            BY <1>4, Zenon DEF Write, Empty
        <3> QED
            <4>1. /\ \A u \in Threads \ {t} : mine'[u] = mine[u] /\ pc'[u] = pc[u]
                  /\ UNCHANGED syncedDirs
                BY <1>4, Zenon DEF Write, Others, synced
            <4>2. SegSet(mine'[t]) \subseteq dirs'
                BY <1>a, <3>1, <3>2, Zenon DEF MineKept
            <4>3. \A u \in Threads \ {t} : SegSet(mine'[t]) \cap SegSet(mine'[u]) = {}
                BY <1>a, <3>1, <3>2, <4>1, Zenon DEF MineKept
            <4>4. \A u \in Threads \ {t} :
                     /\ pc'[u] \in Empty => mine'[u] = <<>>
                     /\ SegSet(mine'[u]) \subseteq dirs'
                     /\ pc'[u] \in {"publish", "compact_relock", "compact_publish"} =>
                          SegSet(mine'[u]) \subseteq syncedDirs'
                     /\ \A v \in Threads \ {u, t} : SegSet(mine'[u]) \cap SegSet(mine'[v]) = {}
                BY <1>a, <3>1, <4>1, Zenon DEF MineKept
            <4> QED
                BY <3>3, <4>2, <4>3, <4>4, Zenon DEF MineKept
    <2> QED
        BY <1>4, <2>1, <2>2, Zenon DEF Write
<1>5. ASSUME NEW t \in Threads, Drop(t)
      PROVE  MineKept'
    <2>1. \A u \in Threads \ {t} : SegSet(mine[u]) \subseteq dirs'
        BY <1>5, <1>a, RemoveFacts, Zenon DEF Drop, MineKept
    <2> QED
        BY <1>5, <1>a, <2>1, EmptySegSet, Zenon DEF Drop, Others, MineKept
<1>6. ASSUME NEW t \in Threads, Collect(t) \/ Obsolete(t)
      PROVE  MineKept'
    <2>1. \A u \in Threads \ {t} : mine'[u] = <<>> /\ SegSet(mine'[u]) = {}
        BY <1>6, Alone, Zenon DEF Collect, Obsolete, Others
    <2>2. mine'[t] = <<>> /\ SegSet(mine'[t]) = {}
        BY <1>6, <1>a, EmptySegSet, Zenon DEF Collect, Obsolete, MineKept, Empty
    <2> QED
        BY <2>1, <2>2, Zenon DEF MineKept
<1>7. ASSUME Restart
      PROVE  MineKept'
    BY <1>7, <1>a, EmptySegSet, Zenon
    DEF Restart, Same, disk, synced, MineKept
<1>8. ASSUME PowerFail
      PROVE  MineKept'
    <2>1. \A t \in Threads : mine'[t] = <<>> /\ SegSet(mine'[t]) = {}
        BY <1>8, EmptySegSet, Zenon DEF PowerFail, Kill
    <2> QED
        BY <2>1, Zenon DEF MineKept
<1> QED
    BY <1>1, <1>2, <1>3, <1>4, <1>5, <1>6, <1>7, <1>8, StepEffect, Zenon DEF Effect

(* Only a publication puts into a manifest what a thread has written.      *)
LEMMA UnpublishedStep ==
    ASSUME NoSyncFaults, TypeInv, SoundInv, [Next]_vars
    PROVE  MineUnpublished'
<1>a. /\ CompactionExclusion /\ SurvivorsWhole /\ MineKept
      /\ MineUnpublished /\ BaseCurrent /\ RangeInv
      /\ TypeInv /\ DataType /\ WriterExclusion
    BY Zenon DEF SoundInv, TypeInv
<1>1. ASSUME NEW t \in Threads, Quiet(t) \/ Load(t) \/ LogChange(t) \/ Fsync(t) \/ Begin(t) \/ Seal(t) \/ Drop(t)
      PROVE  MineUnpublished'
    <2>1. \A s \in survivors' : \E r \in survivors : s.manifest = r.manifest
        BY <1>1, <1>a, SMTT(30) DEF Quiet, Load, LogChange, Fsync, Begin, Seal, Drop, ChangeIndexDir,
            SyncIndexDir, disk, synced, SurvivorsWhole
    <2>2. \A u \in Threads \ {t} : mine'[u] = mine[u] /\ pc'[u] = pc[u]
        BY <1>1, Zenon DEF Quiet, Load, LogChange, Fsync, Begin, Seal, Drop, Others
    <2>3. \/ SegSet(mine'[t]) = {}
          \/ pc'[t] \in Published
          \/ mine'[t] = mine[t] /\ pc[t] \notin Published
        BY <1>1, EmptySegSet, Zenon DEF Quiet, Load, LogChange, Fsync, Begin, Seal, Drop, Same,
            Calm, Published
    <2> QED
        BY <1>a, <2>1, <2>2, <2>3, Zenon DEF MineUnpublished
<1>2. ASSUME NEW t \in Threads, Collect(t) \/ Obsolete(t)
      PROVE  MineUnpublished'
    <2>1. \A u \in Threads : SegSet(mine'[u]) = {}
        BY <1>2, <1>a, Alone, EmptySegSet, Zenon DEF Collect, Obsolete, Others, MineKept, Empty
    <2> QED
        BY <2>1, Zenon DEF MineUnpublished
<1>3. ASSUME NEW t \in Threads, Write(t)
      PROVE  MineUnpublished'
    <2>1. CASE mine'[t] = <<>>
        BY <1>3, <1>a, <2>1, EmptySegSet, Zenon DEF Write, Others, synced, MineUnpublished
    <2>2. CASE \E d \in Descriptor : d \notin dirs /\ mine'[t] = Append(mine[t], d)
        <3>1. PICK d \in Descriptor : d \notin dirs /\ mine'[t] = Append(mine[t], d)
            BY <2>2, Zenon
        <3>2. SegSet(mine'[t]) = SegSet(mine[t]) \cup {d}
            BY <1>a, <3>1, SegSetFacts, SMTT(30) DEF DataType
        <3>3. \A s \in survivors : d \notin SegSet(s.manifest.segs)
            BY <1>a, <3>1, Zenon DEF SurvivorsWhole
        <3> QED
            BY <1>3, <1>a, <3>2, <3>3, SMTT(30) DEF Write, Others, synced, MineUnpublished
    <2> QED
        BY <1>3, <2>1, <2>2, Zenon DEF Write
<1>4. ASSUME NEW t \in Threads, Extend(t) \/ Replace(t)
      PROVE  MineUnpublished'
    <2>1. PICK m : /\ ChangeIndexDir(m, wal)
                   /\ SegSet(m.segs) \subseteq SegSet(manifest.segs) \cup SegSet(mine[t])
        BY <1>4, PublishedFacts, Zenon
    <2>2. /\ \A u \in Threads \ {t} : mine'[u] = mine[u] /\ pc'[u] = pc[u]
          /\ pc'[t] \in Published
        BY <1>4, Zenon DEF Extend, Replace, Publish, Others, Published
    <2>3. \A u \in Threads \ {t} : SegSet(mine[u]) \cap SegSet(mine[t]) = {}
        BY <1>a, Zenon DEF MineKept
    <2>4. \A u \in Threads \ {t} : pc[u] \notin Published =>
              SegSet(mine[u]) \cap SegSet(manifest.segs) = {}
        BY <1>a, Zenon DEF MineUnpublished, SurvivorsWhole
    <2>5. \A s \in survivors' : s \in survivors \/ s.manifest = m
        BY <2>1, SMTT(30) DEF ChangeIndexDir
    <2> QED
        BY <1>a, <2>1, <2>2, <2>3, <2>4, <2>5, Zenon DEF MineUnpublished
<1>5. ASSUME Restart
      PROVE  MineUnpublished'
    BY <1>5, <1>a, EmptySegSet, Zenon
    DEF Restart, Same, disk, synced, MineUnpublished
<1>6. ASSUME PowerFail
      PROVE  MineUnpublished'
    <2>1. \A t \in Threads : SegSet(mine'[t]) = {}
        BY <1>6, EmptySegSet, Zenon DEF PowerFail, Kill
    <2> QED
        BY <2>1, Zenon DEF MineUnpublished
<1> QED
    BY <1>1, <1>2, <1>3, <1>4, <1>5, <1>6, StepEffect, Zenon DEF Effect

(* The other threads keep what they loaded through a step that leaves the  *)
(* manifest alone, and through any step of the holder of the writer lock.  *)
LEMMA OthersCurrent ==
    ASSUME BaseCurrent, NEW t \in Threads, Others(t),
           \/ UNCHANGED manifest /\ (OnlyManifest => OnlyManifest')
           \/ WriterExclusion /\ pc[t] \in Holding
    PROVE  \A u \in Threads \ {t} : CurrentFor(u)'
<1> SUFFICES ASSUME NEW u \in Threads \ {t}
             PROVE  CurrentFor(u)'
    BY Zenon
<1>1. CurrentFor(u) /\ pc'[u] = pc[u] /\ base'[u] = base[u] /\ mine'[u] = mine[u]
    BY Zenon DEF BaseCurrent, Others
<1>2. CASE UNCHANGED manifest /\ (OnlyManifest => OnlyManifest')
    BY <1>1, <1>2, Zenon DEF CurrentFor, Candidate
<1>3. CASE WriterExclusion /\ pc[t] \in Holding
    <2>1. pc[u] \notin Holding
        BY <1>3, OnlyHolder, Zenon
    <2> QED
        BY <1>1, <2>1, Zenon DEF CurrentFor, Holding
<1> QED
    BY <1>2, <1>3, Zenon

(* Only the holder of the writer lock changes the manifest.                *)
LEMMA CurrentStep ==
    ASSUME NoSyncFaults, TypeInv, SoundInv, [Next]_vars
    PROVE  BaseCurrent'
<1>a. /\ CompactionExclusion /\ SurvivorsWhole /\ MineKept
      /\ MineUnpublished /\ BaseCurrent /\ RangeInv
      /\ TypeInv /\ DataType /\ WriterExclusion
    BY Zenon DEF SoundInv, TypeInv
<1>1. ASSUME NEW t \in Threads, Quiet(t) \/ Load(t) \/ Fsync(t) \/ Begin(t) \/ Write(t) \/ Collect(t) \/ Obsolete(t)
      PROVE  BaseCurrent'
    <2>1. Others(t) /\ UNCHANGED manifest /\ (OnlyManifest => OnlyManifest')
        BY <1>1, SMTT(30) DEF Quiet, Load, Fsync, Begin, Write, Collect, Obsolete, SyncIndexDir, disk,
            synced, OnlyManifest
    <2>2. \A u \in Threads \ {t} : CurrentFor(u)'
        BY <1>a, <2>1, OthersCurrent, Zenon
    <2>3. CASE Quiet(t)
        BY <1>a, <2>2, <2>3, Zenon DEF Quiet, Calm, Failing, BaseCurrent, CurrentFor
    <2>4. CASE Load(t)
        BY <2>2, <2>4, Zenon DEF Load, disk, BaseCurrent, CurrentFor
    <2>5. CASE Fsync(t) \/ Begin(t)
        BY <1>a, <2>2, <2>5, SMTT(30) DEF Fsync, Begin, Same, disk, SyncIndexDir, OnlyManifest,
            BaseCurrent, CurrentFor
    <2>6. CASE Write(t) \/ Collect(t) \/ Obsolete(t)
        BY <1>a, <2>2, <2>6, Zenon DEF Write, Collect, Obsolete, BaseCurrent, CurrentFor
    <2> QED
        BY <1>1, <2>3, <2>4, <2>5, <2>6, Zenon
<1>2. ASSUME NEW t \in Threads, Seal(t)
      PROVE  BaseCurrent'
    <2>1. \A u \in Threads \ {t} : CurrentFor(u)'
        BY <1>2, <1>a, OthersCurrent, Zenon DEF Seal, disk, OnlyManifest
    <2>2. base[t] = manifest \/ pc[t] # "write"
        BY <1>2, <1>a, Zenon DEF BaseCurrent, CurrentFor
    <2>3. CurrentFor(t)'
        BY <1>2, <2>2, Zenon DEF Seal, Same, disk, CurrentFor, Candidate
    <2> QED
        BY <2>1, <2>3, Zenon DEF BaseCurrent
<1>3. ASSUME NEW t \in Threads, LogChange(t) \/ Extend(t) \/ Replace(t) \/ Drop(t)
      PROVE  BaseCurrent'
    <2>1. /\ Others(t)
          /\ \/ pc[t] \in Holding
             \/ UNCHANGED manifest /\ (OnlyManifest => OnlyManifest')
        BY <1>3, SMTT(30) DEF LogChange, Extend, Replace, Publish, Drop, SyncIndexDir, OnlyManifest,
            Holding
    <2>2. \A u \in Threads \ {t} : CurrentFor(u)'
        BY <1>a, <2>1, OthersCurrent, Zenon
    <2>3. CASE LogChange(t)
        BY <1>a, <2>2, <2>3, Zenon DEF LogChange, ChangeIndexDir, Same, BaseCurrent, CurrentFor
    <2>4. CASE Extend(t) \/ Replace(t) \/ Drop(t)
        BY <2>2, <2>4, Zenon DEF Extend, Replace, Drop, Returned, BaseCurrent, CurrentFor
    <2> QED
        BY <1>3, <2>3, <2>4, Zenon
<1>4. ASSUME Restart
      PROVE  BaseCurrent'
    BY <1>4, <1>a, Zenon
    DEF Restart, Same, disk, synced, BaseCurrent, CurrentFor, OnlyManifest,
        Candidate
<1>5. ASSUME PowerFail
      PROVE  BaseCurrent'
    <2>1. \A t \in Threads : pc'[t] = "idle"
        BY <1>5, Zenon DEF PowerFail, Kill
    <2> QED
        BY <2>1, Zenon DEF BaseCurrent, CurrentFor
<1> QED
    BY <1>1, <1>2, <1>3, <1>4, <1>5, StepEffect, Zenon DEF Effect

LEMMA RangeOthers ==
    ASSUME RangeInv, NEW t \in Threads, UNCHANGED manifest, Others(t), RangeKept(t)'
    PROVE  RangeInv'
BY Zenon DEF RangeInv, RangeKept, Others

(* Nothing that remains of a list has the name of what was replaced in it. *)
LEMMA ReplacedNames ==
    ASSUME NEW segs \in Seq(Descriptor), NEW new \in Seq(Descriptor),
           NEW r \in [first: Nat, segs: Seq(Descriptor)], RangeUnchanged(r, segs),
           DistinctNames(segs),
           Names(SegSet(new)) \cap Names(SegSet(r.segs)) = {}
    PROVE  Names(SegSet(Replaced(segs, r, new))) \cap Names(SegSet(r.segs)) = {}
<1> SUFFICES ASSUME NEW d \in SegSet(Replaced(segs, r, new)),
                    NEW e \in SegSet(r.segs), SegmentName(d) = SegmentName(e)
             PROVE  FALSE
    BY Zenon DEF Names
<1>1. CASE d \in SegSet(new)
    BY <1>1, Zenon DEF Names
<1>2. CASE d \in Remaining(segs, r)
    <2>1. PICK i \in 1..Len(segs) :
              segs[i] = d /\ i \notin (r.first + 1)..(r.first + Len(r.segs))
        BY <1>2, Zenon DEF Remaining
    <2>2. PICK j \in 1..Len(r.segs) : r.segs[j] = e
        BY Zenon DEF SegSet
    <2>3. /\ r.first \in Nat /\ Len(r.segs) \in Nat /\ Len(segs) \in Nat
          /\ r.first + Len(r.segs) <= Len(segs) /\ segs[r.first + j] = e
        BY <2>2, SMTT(30) DEF RangeUnchanged
    <2>4. r.first + j \in 1..Len(segs) /\ r.first + j # i
        BY <2>1, <2>3, SMTT(30)
    <2> QED
        BY <2>1, <2>3, <2>4, SMTT(30) DEF DistinctNames
<1> QED
    BY <1>1, <1>2, ReplacedSegs, Zenon

(* Updates append, and only a compaction replaces a range.                 *)
LEMMA RangeStep ==
    ASSUME NoSyncFaults, TypeInv, SoundInv, [Next]_vars
    PROVE  RangeInv'
<1>a. /\ CompactionExclusion /\ SurvivorsWhole /\ MineKept
      /\ MineUnpublished /\ BaseCurrent /\ RangeInv
      /\ TypeInv /\ DataType /\ WriterExclusion
    BY Zenon DEF SoundInv, TypeInv
<1>1. ASSUME NEW t \in Threads, Quiet(t) \/ Load(t) \/ LogChange(t) \/ Fsync(t) \/ Begin(t) \/ Seal(t)
      PROVE  RangeInv'
    <2>1. Others(t) /\ UNCHANGED manifest
        BY <1>1, Zenon DEF Quiet, Load, LogChange, Fsync, Begin, Seal, ChangeIndexDir, disk
    <2>2. RangeKept(t)'
        BY <1>1, <1>a, <2>1, Zenon DEF Quiet, Load, LogChange, Fsync, Begin, Seal, Same, Calm,
            Failing, RangeInv, RangeKept
    <2> QED
        BY <1>a, <2>1, <2>2, RangeOthers, Zenon
<1>2. ASSUME NEW t \in Threads, Drop(t) \/ Obsolete(t)
      PROVE  RangeInv'
    <2>1. RangeKept(t)' /\ Others(t) /\ UNCHANGED manifest
        BY <1>2, Zenon DEF Drop, Obsolete, Returned, RangeKept
    <2> QED
        BY <1>a, <2>1, RangeOthers, Zenon
<1>3. ASSUME NEW t \in Threads, Write(t)
      PROVE  RangeInv'
    <2>1. CASE pc[t] = "write"
        <3>1. RangeKept(t)'
            BY <1>3, <2>1, Zenon DEF Write, RangeKept
        <3> QED
            BY <1>3, <1>a, <3>1, RangeOthers, Zenon DEF Write
    <2>2. CASE pc[t] = "compact_write"
        <3>1. /\ RangeUnchanged(source[t], manifest.segs)
              /\ Names(SegSet(mine[t])) \cap Names(SegSet(source[t].segs)) = {}
            BY <1>a, <2>2, Zenon DEF RangeInv, RangeKept
        <3>2. SegSet(source[t].segs) \subseteq dirs
            BY <1>a, <3>1, RecordFacts, RangeInManifest, ManifestWhole, Zenon DEF DataType
        <3>3. Names(SegSet(mine'[t])) \cap Names(SegSet(source[t].segs)) = {}
            <4>1. CASE mine'[t] = <<>>
                BY <4>1, EmptySegSet, Zenon DEF Names
            <4>2. CASE \E d \in Descriptor : /\ SegmentName(d) \notin Names(dirs)
                                             /\ mine'[t] = Append(mine[t], d)
                <5>1. PICK d \in Descriptor : /\ SegmentName(d) \notin Names(dirs)
                                              /\ mine'[t] = Append(mine[t], d)
                    BY <4>2, Zenon
                <5>2. SegSet(mine'[t]) = SegSet(mine[t]) \cup {d}
                    BY <1>a, <5>1, SegSetFacts, SMTT(30) DEF DataType
                <5> QED
                    BY <3>1, <3>2, <5>1, <5>2, Zenon DEF Names
            <4> QED
                BY <1>3, <4>1, <4>2, Zenon DEF Write
        <3>4. RangeKept(t)'
            BY <1>3, <2>2, <3>1, <3>3, Zenon DEF Write, RangeKept
        <3> QED
            BY <1>3, <1>a, <3>4, RangeOthers, Zenon DEF Write
    <2> QED
        BY <1>3, <2>1, <2>2, Zenon DEF Write
<1>4. ASSUME NEW t \in Threads, Collect(t)
      PROVE  RangeInv'
    <2>1. base[t] = manifest /\ mine[t] = <<>>
        BY <1>4, <1>a, Zenon DEF Collect, BaseCurrent, CurrentFor, MineKept, Empty
    <2>2. Names(SegSet(mine'[t])) = {}
        BY <1>4, <2>1, EmptySegSet, Zenon DEF Collect, Names
    <2>3. CASE pc'[t] = "compact_collect" /\ source'[t] \in Ranges(base[t].segs)
        <3>1. RangeUnchanged(source'[t], manifest'.segs)
            BY <1>4, <1>a, <2>1, <2>3, RecordFacts, RangesFacts, Zenon DEF Collect, DataType
        <3>2. RangeKept(t)'
            BY <2>2, <2>3, <3>1, Zenon DEF RangeKept
        <3> QED
            BY <1>4, <1>a, <3>2, RangeOthers, Zenon DEF Collect
    <2>4. CASE pc'[t] = "compact_done"
        BY <1>4, <1>a, <2>4, RangeOthers, Zenon DEF Collect, RangeKept
    <2> QED
        BY <1>4, <2>3, <2>4, Zenon DEF Collect
<1>5. ASSUME NEW t \in Threads, Extend(t)
      PROVE  RangeInv'
    <2>1. base[t] = manifest /\ pc[t] \in Holding
        BY <1>5, <1>a, Zenon DEF Extend, BaseCurrent, CurrentFor, Holding
    <2>2. manifest'.segs = manifest.segs \o mine[t]
        <3>1. PICK g, l : manifest' = [gen |-> g, segs |-> Candidate(t), log |-> l]
            BY <1>5, Zenon DEF Extend, Publish, ChangeIndexDir
        <3> QED
            BY <2>1, <3>1, Zenon DEF Candidate
    <2>3. RangeKept(t)'
        BY <1>5, Zenon DEF Extend, RangeKept
    <2>4. ASSUME NEW u \in Threads \ {t}
          PROVE  RangeKept(u)'
        <3>1. pc[u] \notin Holding
            BY <1>a, <2>1, OnlyHolder, Zenon
        <3>2. pc'[u] = pc[u] /\ source'[u] = source[u] /\ mine'[u] = mine[u]
            BY <1>5, Zenon DEF Extend, Publish, Others
        <3>3. RangeUnchanged(source[u], manifest.segs) =>
                  RangeUnchanged(source[u], manifest'.segs)
            BY <1>a, <2>2, RecordFacts, RangeSurvivesAppend, SMTT(30) DEF DataType
        <3> QED
            BY <3>1, <3>2, <3>3, <1>a, Zenon DEF RangeInv, RangeKept, Holding
    <2> QED
        BY <2>3, <2>4, Zenon DEF RangeInv
<1>6. ASSUME NEW t \in Threads, Replace(t)
      PROVE  RangeInv'
    <2>1. /\ base[t] = manifest /\ RangeUnchanged(source[t], manifest.segs)
          /\ Names(SegSet(mine[t])) \cap Names(SegSet(source[t].segs)) = {}
          /\ pc[t] \in Compacting
        BY <1>6, <1>a, Zenon
        DEF Replace, BaseCurrent, CurrentFor, RangeInv, RangeKept, Compacting
    <2>2. manifest'.segs = Replaced(manifest.segs, source[t], mine[t])
        BY <1>6, <2>1, SMTT(30) DEF Replace, Publish, ChangeIndexDir
    <2>3. Names(SegSet(manifest'.segs)) \cap Names(SegSet(source[t].segs)) = {}
        BY <1>a, <2>1, <2>2, RecordFacts, ManifestWhole, ReplacedNames, Zenon DEF DataType
    <2>4. RangeKept(t)'
        BY <1>6, <2>3, Zenon DEF Replace, Publish, Same, RangeKept
    <2>5. ASSUME NEW u \in Threads \ {t}
          PROVE  RangeKept(u)'
        <3>1. pc'[u] \notin Compacting
            BY <1>6, <1>a, <2>1, OnlyCompactor, Zenon DEF Replace, Publish, Others
        <3> QED
            BY <3>1, Zenon DEF RangeKept, Compacting
    <2> QED
        BY <2>4, <2>5, Zenon DEF RangeInv
<1>7. ASSUME Restart
      PROVE  RangeInv'
    BY <1>7, <1>a, Zenon
    DEF Restart, Same, disk, RangeInv, RangeKept
<1>8. ASSUME PowerFail
      PROVE  RangeInv'
    <2>1. \A t \in Threads : pc'[t] = "idle"
        BY <1>8, Zenon DEF PowerFail, Kill
    <2> QED
        BY <2>1, Zenon DEF RangeInv, RangeKept
<1> QED
    BY <1>1, <1>2, <1>3, <1>4, <1>5, <1>6, <1>7, <1>8, StepEffect, Zenon DEF Effect

-----------------------------------------------------------------------------
LEMMA SoundInit == Init => SoundInv
<1> SUFFICES ASSUME Init
             PROVE  SoundInv
    BY Zenon
<1>1. /\ \A t \in Threads : pc[t] = "idle" /\ call[t] = "none" /\ mine[t] = <<>>
      /\ survivors = {[manifest |-> manifest, wal |-> wal]}
      /\ manifest.segs = <<BuiltSegment>> /\ dirs = {BuiltSegment} /\ syncedDirs = dirs
      /\ compactionLock = NoThread
    BY Zenon DEF Init
<1>2. SegSet(<<BuiltSegment>>) = {BuiltSegment} /\ DistinctNames(<<BuiltSegment>>)
    BY SMTT(30) DEF SegSet, DistinctNames
<1>3. CompactionExclusion
    BY <1>1, StoreAssumption, Zenon DEF CompactionExclusion, Compacting, Threads
<1>4. SurvivorsWhole
    BY <1>1, <1>2, SMTT(30) DEF SurvivorsWhole
<1>5. MineKept /\ MineUnpublished
    BY <1>1, EmptySegSet, Zenon DEF MineKept, MineUnpublished, Empty
<1>6. BaseCurrent /\ RangeInv
    BY <1>1, Zenon DEF BaseCurrent, CurrentFor, RangeInv, RangeKept
<1> QED
    BY <1>3, <1>4, <1>5, <1>6, Zenon DEF SoundInv

LEMMA SoundStep ==
    ASSUME NoSyncFaults, TypeInv, SoundInv, [Next]_vars
    PROVE  SoundInv'
<1>1. CompactionExclusion'
    BY CompactionExclusionStep, Zenon DEF SoundInv, TypeInv
<1> QED
    BY <1>1, WholeStep, MineStep, UnpublishedStep, CurrentStep, RangeStep, Zenon DEF SoundInv

LEMMA SoundInvariant == NoSyncFaults /\ Spec => []SoundInv
<1> SUFFICES ASSUME NoSyncFaults
             PROVE  Spec => []SoundInv
    BY SMTT(30)
<1>1. Init => SoundInv
    BY SoundInit, Zenon
<1>2. TypeInv /\ SoundInv /\ [Next]_vars => SoundInv'
    BY SoundStep, Zenon
<1> QED
    BY <1>1, <1>2, TypeInvariant, PTL DEF Spec

(* Unless the fsync behind a rename of the manifest or of the status file  *)
(* fails, neither the cleanup of a failed update or compaction, nor        *)
(* compact_gc, nor the removal of obsolete segments, nor a crash, nor a    *)
(* power loss takes away a segment that the manifest names.                *)
THEOREM Sound == NoSyncFaults /\ Spec => []ManifestSound
<1>1. SoundInv => ManifestSound
    BY Zenon DEF SoundInv, SurvivorsWhole, ManifestSound
<1> QED
    BY <1>1, SoundInvariant, PTL
=============================================================================
