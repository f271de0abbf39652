--------------------------- MODULE IndexStoreTypes --------------------------
(***************************************************************************)
(* Type correctness of IndexStore and the exclusion its two locks give,    *)
(* for any number of threads, processes, batches, crashes, power losses    *)
(* and failures.                                                           *)
(***************************************************************************)
EXTENDS SegmentsProofs

-----------------------------------------------------------------------------
(* The control state keeps its type. *)
LEMMA ControlStep ==
    ASSUME ControlType, BatchAtHand, [Next]_vars
    PROVE  ControlType'
<1>   /\ writerLock \in Threads \cup {NoThread}
      /\ compactionLock \in Compactors \cup {NoThread}
      /\ pc \in [Threads -> Labels]
      /\ call \in [Threads -> {"none", "update", "recover", "compact"}]
      /\ own \in [Threads -> Batches \cup {NoBatch}]
      /\ replay \in [Threads -> BOOLEAN] /\ clears \in [Threads -> BOOLEAN]
      /\ outcome \in [Batches -> {"none", "pending", "ok", "error"}]
      /\ logged \subseteq Batches /\ crashes \in 0..MaxCrashes /\ BatchAtHand
    BY Zenon DEF ControlType
<1> USE StoreAssumption DEF Labels, Threads, disk, synced, locks, locals,
    ghosts
<1>1. ASSUME NEW t \in Updaters, NEW b \in Batches, StartUpdate(t, b)
      PROVE  ControlType'
    BY <1>1, Zenon
    DEF StartUpdate, Goto, ControlType
<1>2. ASSUME NEW t \in Updaters, StartRecover(t)
      PROVE  ControlType'
    BY <1>2, Zenon
    DEF StartRecover, Goto, ControlType
<1>3. ASSUME NEW t \in Updaters, ApplyLock(t)
      PROVE  ControlType'
    BY <1>3, Zenon
    DEF ApplyLock, Goto, Lock, ControlType
<1>4. ASSUME NEW t \in Updaters, WalWrite(t)
      PROVE  ControlType'
    BY <1>4, SMTT(30)
    DEF WalWrite, Goto, ControlType
<1>5. ASSUME NEW t \in Updaters, WalSync(t)
      PROVE  ControlType'
    <2>1. /\ (writerLock \in Threads \cup {NoThread})'
          /\ (compactionLock \in Compactors \cup {NoThread})'
        BY <1>5, Zenon
        DEF WalSync, Goto
    <2>2. (pc \in [Threads -> Labels])'
        BY <1>5, SMTT(30)
        DEF WalSync, Goto
    <2>3. (call \in [Threads -> {"none", "update", "recover", "compact"}])'
        BY <1>5, Zenon
        DEF WalSync, Goto
    <2>4. (own \in [Threads -> Batches \cup {NoBatch}])'
        BY <1>5, Zenon
        DEF WalSync, Goto
    <2>5. /\ (replay \in [Threads -> BOOLEAN])'
          /\ (clears \in [Threads -> BOOLEAN])'
        BY <1>5, Zenon
        DEF WalSync, Goto
    <2>6. (outcome \in [Batches -> {"none", "pending", "ok", "error"}])'
        BY <1>5, Zenon
        DEF WalSync, Goto
    <2>7. (logged \subseteq Batches)' /\ (crashes \in 0..MaxCrashes)'
        BY <1>5, ZenonT(40)
        DEF WalSync, Goto, BatchAtHand
    <2> QED
        BY <2>1, <2>2, <2>3, <2>4, <2>5, <2>6, <2>7, Zenon DEF ControlType
<1>6. ASSUME NEW t \in Updaters, AbortClear(t)
      PROVE  ControlType'
    <2>1. /\ (writerLock \in Threads \cup {NoThread})'
          /\ (compactionLock \in Compactors \cup {NoThread})'
        BY <1>6, Zenon
        DEF AbortClear, Goto, RecoverReturn, ApplyReturn, ResetApply, Unlock
    <2>2. (pc \in [Threads -> Labels])'
        BY <1>6, SMTT(30)
        DEF AbortClear, Goto, RecoverReturn, ApplyReturn, ResetApply, Unlock
    <2>3. (call \in [Threads -> {"none", "update", "recover", "compact"}])'
        BY <1>6, ZenonT(40)
        DEF AbortClear, Goto, RecoverReturn, ApplyReturn, ResetApply, Unlock
    <2>4. (own \in [Threads -> Batches \cup {NoBatch}])'
        BY <1>6, ZenonT(40)
        DEF AbortClear, Goto, RecoverReturn, ApplyReturn, ResetApply, Unlock
    <2>5. /\ (replay \in [Threads -> BOOLEAN])'
          /\ (clears \in [Threads -> BOOLEAN])'
        BY <1>6, Zenon
        DEF AbortClear, Goto, RecoverReturn, ApplyReturn, ResetApply, Unlock
    <2>6. (outcome \in [Batches -> {"none", "pending", "ok", "error"}])'
        BY <1>6, Zenon
        DEF AbortClear, Goto, RecoverReturn, ApplyReturn, ResetApply, Unlock
    <2>7. (logged \subseteq Batches)' /\ (crashes \in 0..MaxCrashes)'
        BY <1>6, Zenon
        DEF AbortClear, Goto, RecoverReturn, ApplyReturn, ResetApply, Unlock,
            BatchAtHand
    <2> QED
        BY <2>1, <2>2, <2>3, <2>4, <2>5, <2>6, <2>7, Zenon DEF ControlType
<1>7. ASSUME NEW t \in Updaters, AbortSync(t)
      PROVE  ControlType'
    <2>1. /\ (writerLock \in Threads \cup {NoThread})'
          /\ (compactionLock \in Compactors \cup {NoThread})'
        BY <1>7, Zenon
        DEF AbortSync, Goto, RecoverReturn, ApplyReturn, ResetApply, Unlock
    <2>2. (pc \in [Threads -> Labels])'
        BY <1>7, SMTT(30)
        DEF AbortSync, Goto, RecoverReturn, ApplyReturn, ResetApply, Unlock
    <2>3. (call \in [Threads -> {"none", "update", "recover", "compact"}])'
        BY <1>7, SMTT(30)
        DEF AbortSync, Goto, RecoverReturn, ApplyReturn, ResetApply, Unlock
    <2>4. (own \in [Threads -> Batches \cup {NoBatch}])'
        BY <1>7, ZenonT(40)
        DEF AbortSync, Goto, RecoverReturn, ApplyReturn, ResetApply, Unlock
    <2>5. /\ (replay \in [Threads -> BOOLEAN])'
          /\ (clears \in [Threads -> BOOLEAN])'
        BY <1>7, Zenon
        DEF AbortSync, Goto, RecoverReturn, ApplyReturn, ResetApply, Unlock
    <2>6. (outcome \in [Batches -> {"none", "pending", "ok", "error"}])'
        BY <1>7, Zenon
        DEF AbortSync, Goto, RecoverReturn, ApplyReturn, ResetApply, Unlock
    <2>7. (logged \subseteq Batches)' /\ (crashes \in 0..MaxCrashes)'
        BY <1>7, Zenon
        DEF AbortSync, Goto, RecoverReturn, ApplyReturn, ResetApply, Unlock,
            BatchAtHand
    <2> QED
        BY <2>1, <2>2, <2>3, <2>4, <2>5, <2>6, <2>7, Zenon DEF ControlType
<1>8. ASSUME NEW t \in Threads, RecoverCheck(t)
      PROVE  ControlType'
    BY <1>8, SMTT(30)
    DEF RecoverCheck, Goto, RecoverReturn, ControlType
<1>9. ASSUME NEW t \in Threads, RecoverLock(t)
      PROVE  ControlType'
    <2>1. /\ (writerLock \in Threads \cup {NoThread})'
          /\ (compactionLock \in Compactors \cup {NoThread})'
        BY <1>9, Zenon
        DEF RecoverLock, Goto, RecoverReturn, Lock
    <2>2. (pc \in [Threads -> Labels])'
        BY <1>9, SMTT(30)
        DEF RecoverLock, Goto, RecoverReturn, Lock
    <2>3. (call \in [Threads -> {"none", "update", "recover", "compact"}])'
        BY <1>9, SMTT(30)
        DEF RecoverLock, Goto, RecoverReturn, Lock
    <2>4. (own \in [Threads -> Batches \cup {NoBatch}])'
        BY <1>9, Zenon
        DEF RecoverLock, Goto, RecoverReturn, Lock
    <2>5. /\ (replay \in [Threads -> BOOLEAN])'
          /\ (clears \in [Threads -> BOOLEAN])'
        BY <1>9, Zenon
        DEF RecoverLock, Goto, RecoverReturn, Lock
    <2>6. (outcome \in [Batches -> {"none", "pending", "ok", "error"}])'
        BY <1>9, Zenon
        DEF RecoverLock, Goto, RecoverReturn, Lock
    <2>7. (logged \subseteq Batches)' /\ (crashes \in 0..MaxCrashes)'
        BY <1>9, Zenon
        DEF RecoverLock, Goto, RecoverReturn, Lock, BatchAtHand
    <2> QED
        BY <2>1, <2>2, <2>3, <2>4, <2>5, <2>6, <2>7, Zenon DEF ControlType
<1>10. ASSUME NEW t \in Threads, ApplyBegin(t)
      PROVE  ControlType'
    BY <1>10, ZenonT(40)
    DEF ApplyBegin, Goto, ControlType
<1>11. ASSUME NEW t \in Threads, UpdateWrite(t)
      PROVE  ControlType'
    BY <1>11, ZenonT(40)
    DEF UpdateWrite, Goto, ControlType
<1>12. ASSUME NEW t \in Threads, UpdateSeal(t)
      PROVE  ControlType'
    BY <1>12, Zenon
    DEF UpdateSeal, Goto, ControlType
<1>13. ASSUME NEW t \in Threads, UpdatePublish(t)
      PROVE  ControlType'
    BY <1>13, ZenonT(40)
    DEF UpdatePublish, Goto, ControlType
<1>14. ASSUME NEW t \in Threads, UpdatePublishSync(t)
      PROVE  ControlType'
    BY <1>14, ZenonT(40)
    DEF UpdatePublishSync, Goto, ControlType
<1>15. ASSUME NEW t \in Threads, WalClear(t)
      PROVE  ControlType'
    <2>1. /\ (writerLock \in Threads \cup {NoThread})'
          /\ (compactionLock \in Compactors \cup {NoThread})'
        BY <1>15, Zenon
        DEF WalClear, Goto, RecoverReturn, ApplyReturn, ResetApply, Unlock
    <2>2. (pc \in [Threads -> Labels])'
        BY <1>15, SMTT(30)
        DEF WalClear, Goto, RecoverReturn, ApplyReturn, ResetApply, Unlock
    <2>3. (call \in [Threads -> {"none", "update", "recover", "compact"}])'
        BY <1>15, ZenonT(40)
        DEF WalClear, Goto, RecoverReturn, ApplyReturn, ResetApply, Unlock
    <2>4. (own \in [Threads -> Batches \cup {NoBatch}])'
        BY <1>15, Zenon
        DEF WalClear, Goto, RecoverReturn, ApplyReturn, ResetApply, Unlock
    <2>5. /\ (replay \in [Threads -> BOOLEAN])'
          /\ (clears \in [Threads -> BOOLEAN])'
        BY <1>15, Zenon
        DEF WalClear, Goto, RecoverReturn, ApplyReturn, ResetApply, Unlock
    <2>6. (outcome \in [Batches -> {"none", "pending", "ok", "error"}])'
        BY <1>15, Zenon
        DEF WalClear, Goto, RecoverReturn, ApplyReturn, ResetApply, Unlock
    <2>7. (logged \subseteq Batches)' /\ (crashes \in 0..MaxCrashes)'
        BY <1>15, Zenon
        DEF WalClear, Goto, RecoverReturn, ApplyReturn, ResetApply, Unlock,
            BatchAtHand
    <2> QED
        BY <2>1, <2>2, <2>3, <2>4, <2>5, <2>6, <2>7, Zenon DEF ControlType
<1>16. ASSUME NEW t \in Threads, WalClearSync(t)
      PROVE  ControlType'
    <2>1. /\ (writerLock \in Threads \cup {NoThread})'
          /\ (compactionLock \in Compactors \cup {NoThread})'
        BY <1>16, Zenon
        DEF WalClearSync, Goto, RecoverReturn, ApplyReturn, ResetApply,
            Unlock
    <2>2. (pc \in [Threads -> Labels])'
        BY <1>16, SMTT(30)
        DEF WalClearSync, Goto, RecoverReturn, ApplyReturn, ResetApply,
            Unlock
    <2>3. (call \in [Threads -> {"none", "update", "recover", "compact"}])'
        BY <1>16, ZenonT(40)
        DEF WalClearSync, Goto, RecoverReturn, ApplyReturn, ResetApply,
            Unlock
    <2>4. (own \in [Threads -> Batches \cup {NoBatch}])'
        BY <1>16, Zenon
        DEF WalClearSync, Goto, RecoverReturn, ApplyReturn, ResetApply,
            Unlock
    <2>5. /\ (replay \in [Threads -> BOOLEAN])'
          /\ (clears \in [Threads -> BOOLEAN])'
        BY <1>16, Zenon
        DEF WalClearSync, Goto, RecoverReturn, ApplyReturn, ResetApply,
            Unlock
    <2>6. (outcome \in [Batches -> {"none", "pending", "ok", "error"}])'
        BY <1>16, Zenon
        DEF WalClearSync, Goto, RecoverReturn, ApplyReturn, ResetApply,
            Unlock
    <2>7. (logged \subseteq Batches)' /\ (crashes \in 0..MaxCrashes)'
        BY <1>16, Zenon
        DEF WalClearSync, Goto, RecoverReturn, ApplyReturn, ResetApply,
            Unlock, BatchAtHand
    <2> QED
        BY <2>1, <2>2, <2>3, <2>4, <2>5, <2>6, <2>7, Zenon DEF ControlType
<1>17. ASSUME NEW t \in Threads, ApplyAbort(t)
      PROVE  ControlType'
    <2>1. /\ (writerLock \in Threads \cup {NoThread})'
          /\ (compactionLock \in Compactors \cup {NoThread})'
        BY <1>17, Zenon
        DEF ApplyAbort, Goto, RecoverReturn, ApplyReturn, ResetApply, Unlock
    <2>2. (pc \in [Threads -> Labels])'
        BY <1>17, SMTT(30)
        DEF ApplyAbort, Goto, RecoverReturn, ApplyReturn, ResetApply, Unlock
    <2>3. (call \in [Threads -> {"none", "update", "recover", "compact"}])'
        BY <1>17, Zenon
        DEF ApplyAbort, Goto, RecoverReturn, ApplyReturn, ResetApply, Unlock
    <2>4. (own \in [Threads -> Batches \cup {NoBatch}])'
        BY <1>17, Zenon
        DEF ApplyAbort, Goto, RecoverReturn, ApplyReturn, ResetApply, Unlock
    <2>5. /\ (replay \in [Threads -> BOOLEAN])'
          /\ (clears \in [Threads -> BOOLEAN])'
        BY <1>17, Zenon
        DEF ApplyAbort, Goto, RecoverReturn, ApplyReturn, ResetApply, Unlock
    <2>6. (outcome \in [Batches -> {"none", "pending", "ok", "error"}])'
        BY <1>17, Zenon
        DEF ApplyAbort, Goto, RecoverReturn, ApplyReturn, ResetApply, Unlock
    <2>7. (logged \subseteq Batches)' /\ (crashes \in 0..MaxCrashes)'
        BY <1>17, Zenon
        DEF ApplyAbort, Goto, RecoverReturn, ApplyReturn, ResetApply, Unlock,
            BatchAtHand
    <2> QED
        BY <2>1, <2>2, <2>3, <2>4, <2>5, <2>6, <2>7, Zenon DEF ControlType
<1>18. ASSUME NEW t \in Compactors, StartCompact(t)
      PROVE  ControlType'
    BY <1>18, Zenon
    DEF StartCompact, Goto, ControlType
<1>19. ASSUME NEW t \in Compactors, CompactWal(t)
      PROVE  ControlType'
    BY <1>19, Zenon
    DEF CompactWal, Goto, ControlType
<1>20. ASSUME NEW t \in Compactors, CompactPolicy(t)
      PROVE  ControlType'
    <2>1. /\ (writerLock \in Threads \cup {NoThread})'
          /\ (compactionLock \in Compactors \cup {NoThread})'
        BY <1>20, Zenon
        DEF CompactPolicy, Goto, Unlock, CompactReturn, ResetApply
    <2>2. (pc \in [Threads -> Labels])'
        BY <1>20, SMTT(30)
        DEF CompactPolicy, Goto, Unlock, CompactReturn, ResetApply
    <2>3. (call \in [Threads -> {"none", "update", "recover", "compact"}])'
        BY <1>20, Zenon
        DEF CompactPolicy, Goto, Unlock, CompactReturn, ResetApply
    <2>4. (own \in [Threads -> Batches \cup {NoBatch}])'
        BY <1>20, Zenon
        DEF CompactPolicy, Goto, Unlock, CompactReturn, ResetApply
    <2>5. /\ (replay \in [Threads -> BOOLEAN])'
          /\ (clears \in [Threads -> BOOLEAN])'
        BY <1>20, Zenon
        DEF CompactPolicy, Goto, Unlock, CompactReturn, ResetApply
    <2>6. (outcome \in [Batches -> {"none", "pending", "ok", "error"}])'
        BY <1>20, Zenon
        DEF CompactPolicy, Goto, Unlock, CompactReturn, ResetApply
    <2>7. (logged \subseteq Batches)' /\ (crashes \in 0..MaxCrashes)'
        BY <1>20, Zenon
        DEF CompactPolicy, Goto, Unlock, CompactReturn, ResetApply,
            BatchAtHand
    <2> QED
        BY <2>1, <2>2, <2>3, <2>4, <2>5, <2>6, <2>7, Zenon DEF ControlType
<1>21. ASSUME NEW t \in Compactors, CompactGc(t)
      PROVE  ControlType'
    BY <1>21, SMTT(30)
    DEF CompactGc, Goto, Unlock, ControlType
<1>22. ASSUME NEW t \in Compactors, CompactCollect(t)
      PROVE  ControlType'
    BY <1>22, SMTT(30)
    DEF CompactCollect, Goto, ControlType
<1>23. ASSUME NEW t \in Compactors, CompactWrite(t)
      PROVE  ControlType'
    BY <1>23, ZenonT(40)
    DEF CompactWrite, Goto, ControlType
<1>24. ASSUME NEW t \in Compactors, CompactSync(t)
      PROVE  ControlType'
    BY <1>24, Zenon
    DEF CompactSync, Goto, ControlType
<1>25. ASSUME NEW t \in Compactors, CompactRelock(t)
      PROVE  ControlType'
    BY <1>25, Zenon
    DEF CompactRelock, Goto, Lock, ControlType
<1>26. ASSUME NEW t \in Compactors, CompactPublish(t)
      PROVE  ControlType'
    BY <1>26, ZenonT(40)
    DEF CompactPublish, Goto, ControlType
<1>27. ASSUME NEW t \in Compactors, CompactPublishSync(t)
      PROVE  ControlType'
    BY <1>27, ZenonT(40)
    DEF CompactPublishSync, Goto, ControlType
<1>28. ASSUME NEW t \in Compactors, CompactObsolete(t)
      PROVE  ControlType'
    BY <1>28, Zenon
    DEF CompactObsolete, Goto, ControlType
<1>29. ASSUME NEW t \in Compactors, CompactUnlock(t)
      PROVE  ControlType'
    BY <1>29, Zenon
    DEF CompactUnlock, Goto, Unlock, ControlType
<1>30. ASSUME NEW t \in Compactors, CompactStatus(t)
      PROVE  ControlType'
    BY <1>30, Zenon
    DEF CompactStatus, Goto, ControlType
<1>31. ASSUME NEW t \in Compactors, CompactClean(t)
      PROVE  ControlType'
    BY <1>31, Zenon
    DEF CompactClean, Goto, CompactReturn, ResetApply, ControlType
<1>32. ASSUME NEW p, Crash(p)
      PROVE  ControlType'
    <2>1. /\ (writerLock \in Threads \cup {NoThread})'
          /\ (compactionLock \in Compactors \cup {NoThread})'
        BY <1>32, Zenon
        DEF Crash, Kill
    <2>2. (pc \in [Threads -> Labels])'
        BY <1>32, Zenon
        DEF Crash, Kill
    <2>3. (call \in [Threads -> {"none", "update", "recover", "compact"}])'
        BY <1>32, Zenon
        DEF Crash, Kill
    <2>4. (own \in [Threads -> Batches \cup {NoBatch}])'
        BY <1>32, Zenon
        DEF Crash, Kill
    <2>5. /\ (replay \in [Threads -> BOOLEAN])'
          /\ (clears \in [Threads -> BOOLEAN])'
        BY <1>32, Zenon
        DEF Crash, Kill
    <2>6. (outcome \in [Batches -> {"none", "pending", "ok", "error"}])'
        BY <1>32, Zenon
        DEF Crash, Kill
    <2>7. (logged \subseteq Batches)' /\ (crashes \in 0..MaxCrashes)'
        BY <1>32, SMTT(30)
        DEF Crash, Kill, BatchAtHand
    <2> QED
        BY <2>1, <2>2, <2>3, <2>4, <2>5, <2>6, <2>7, Zenon DEF ControlType
<1>33. ASSUME PowerFail
      PROVE  ControlType'
    <2>1. /\ (writerLock \in Threads \cup {NoThread})'
          /\ (compactionLock \in Compactors \cup {NoThread})'
        BY <1>33, Zenon
        DEF PowerFail, Kill
    <2>2. (pc \in [Threads -> Labels])'
        BY <1>33, Zenon
        DEF PowerFail, Kill
    <2>3. (call \in [Threads -> {"none", "update", "recover", "compact"}])'
        BY <1>33, Zenon
        DEF PowerFail, Kill
    <2>4. (own \in [Threads -> Batches \cup {NoBatch}])'
        BY <1>33, Zenon
        DEF PowerFail, Kill
    <2>5. /\ (replay \in [Threads -> BOOLEAN])'
          /\ (clears \in [Threads -> BOOLEAN])'
        BY <1>33, Zenon
        DEF PowerFail, Kill
    <2>6. (outcome \in [Batches -> {"none", "pending", "ok", "error"}])'
        BY <1>33, Zenon
        DEF PowerFail, Kill
    <2>7. (logged \subseteq Batches)' /\ (crashes \in 0..MaxCrashes)'
        BY <1>33, SMTT(30)
        DEF PowerFail, Kill, BatchAtHand
    <2> QED
        BY <2>1, <2>2, <2>3, <2>4, <2>5, <2>6, <2>7, Zenon DEF ControlType
<1>34. CASE UNCHANGED vars
    BY <1>34, Zenon
    DEF vars, ControlType
<1> QED
    BY <1>1, <1>2, <1>3, <1>4, <1>5, <1>6, <1>7, <1>8, <1>9, <1>10, <1>11,
        <1>12, <1>13, <1>14, <1>15, <1>16, <1>17, <1>18, <1>19, <1>20, <1>21,
        <1>22, <1>23, <1>24, <1>25, <1>26, <1>27, <1>28, <1>29, <1>30, <1>31,
        <1>32, <1>33, <1>34, Zenon
    DEF Next, UpdateStep, RecoverStep, ApplyStep, CompactStep

(* Only the thread that holds the writer lock gives it away.               *)
LEMMA ExclusionStep ==
    ASSUME ControlType, WriterExclusion, [Next]_vars
    PROVE  WriterExclusion'
<1>   pc \in [Threads -> Labels]
    BY Zenon DEF ControlType
<1> USE StoreAssumption DEF WriterExclusion, Holding, Threads, disk, synced,
    locks, locals, ghosts
<1>1. ASSUME NEW t \in Updaters, NEW b \in Batches, StartUpdate(t, b)
      PROVE  WriterExclusion'
    BY <1>1, Zenon
    DEF StartUpdate, Goto
<1>2. ASSUME NEW t \in Updaters, StartRecover(t)
      PROVE  WriterExclusion'
    BY <1>2, Zenon
    DEF StartRecover, Goto
<1>3. ASSUME NEW t \in Updaters, ApplyLock(t)
      PROVE  WriterExclusion'
    BY <1>3, Zenon
    DEF ApplyLock, Goto, Lock
<1>4. ASSUME NEW t \in Updaters, WalWrite(t)
      PROVE  WriterExclusion'
    BY <1>4, Zenon
    DEF WalWrite, Goto
<1>5. ASSUME NEW t \in Updaters, WalSync(t)
      PROVE  WriterExclusion'
    BY <1>5, Zenon
    DEF WalSync, Goto
<1>6. ASSUME NEW t \in Updaters, AbortClear(t)
      PROVE  WriterExclusion'
    BY <1>6, SMTT(30)
    DEF AbortClear, Goto, RecoverReturn, ApplyReturn, ResetApply, Unlock
<1>7. ASSUME NEW t \in Updaters, AbortSync(t)
      PROVE  WriterExclusion'
    BY <1>7, SMTT(30)
    DEF AbortSync, Goto, RecoverReturn, ApplyReturn, ResetApply, Unlock
<1>8. ASSUME NEW t \in Threads, RecoverCheck(t)
      PROVE  WriterExclusion'
    BY <1>8, SMTT(30)
    DEF RecoverCheck, Goto, RecoverReturn
<1>9. ASSUME NEW t \in Threads, RecoverLock(t)
      PROVE  WriterExclusion'
    BY <1>9, SMTT(30)
    DEF RecoverLock, Goto, RecoverReturn, Lock
<1>10. ASSUME NEW t \in Threads, ApplyBegin(t)
      PROVE  WriterExclusion'
    BY <1>10, Zenon
    DEF ApplyBegin, Goto
<1>11. ASSUME NEW t \in Threads, UpdateWrite(t)
      PROVE  WriterExclusion'
    BY <1>11, Zenon
    DEF UpdateWrite, Goto
<1>12. ASSUME NEW t \in Threads, UpdateSeal(t)
      PROVE  WriterExclusion'
    BY <1>12, Zenon
    DEF UpdateSeal, Goto
<1>13. ASSUME NEW t \in Threads, UpdatePublish(t)
      PROVE  WriterExclusion'
    BY <1>13, Zenon
    DEF UpdatePublish, Goto
<1>14. ASSUME NEW t \in Threads, UpdatePublishSync(t)
      PROVE  WriterExclusion'
    BY <1>14, Zenon
    DEF UpdatePublishSync, Goto
<1>15. ASSUME NEW t \in Threads, WalClear(t)
      PROVE  WriterExclusion'
    BY <1>15, SMTT(30)
    DEF WalClear, Goto, RecoverReturn, ApplyReturn, ResetApply, Unlock
<1>16. ASSUME NEW t \in Threads, WalClearSync(t)
      PROVE  WriterExclusion'
    BY <1>16, SMTT(30)
    DEF WalClearSync, Goto, RecoverReturn, ApplyReturn, ResetApply, Unlock
<1>17. ASSUME NEW t \in Threads, ApplyAbort(t)
      PROVE  WriterExclusion'
    BY <1>17, SMTT(30)
    DEF ApplyAbort, Goto, RecoverReturn, ApplyReturn, ResetApply, Unlock
<1>18. ASSUME NEW t \in Compactors, StartCompact(t)
      PROVE  WriterExclusion'
    BY <1>18, Zenon
    DEF StartCompact, Goto
<1>19. ASSUME NEW t \in Compactors, CompactWal(t)
      PROVE  WriterExclusion'
    BY <1>19, Zenon
    DEF CompactWal, Goto
<1>20. ASSUME NEW t \in Compactors, CompactPolicy(t)
      PROVE  WriterExclusion'
    BY <1>20, ZenonT(40)
    DEF CompactPolicy, Goto, Unlock, CompactReturn, ResetApply
<1>21. ASSUME NEW t \in Compactors, CompactGc(t)
      PROVE  WriterExclusion'
    BY <1>21, Zenon
    DEF CompactGc, Goto, Unlock
<1>22. ASSUME NEW t \in Compactors, CompactCollect(t)
      PROVE  WriterExclusion'
    BY <1>22, Zenon
    DEF CompactCollect, Goto
<1>23. ASSUME NEW t \in Compactors, CompactWrite(t)
      PROVE  WriterExclusion'
    BY <1>23, Zenon
    DEF CompactWrite, Goto
<1>24. ASSUME NEW t \in Compactors, CompactSync(t)
      PROVE  WriterExclusion'
    BY <1>24, Zenon
    DEF CompactSync, Goto
<1>25. ASSUME NEW t \in Compactors, CompactRelock(t)
      PROVE  WriterExclusion'
    BY <1>25, Zenon
    DEF CompactRelock, Goto, Lock
<1>26. ASSUME NEW t \in Compactors, CompactPublish(t)
      PROVE  WriterExclusion'
    BY <1>26, Zenon
    DEF CompactPublish, Goto
<1>27. ASSUME NEW t \in Compactors, CompactPublishSync(t)
      PROVE  WriterExclusion'
    BY <1>27, Zenon
    DEF CompactPublishSync, Goto
<1>28. ASSUME NEW t \in Compactors, CompactObsolete(t)
      PROVE  WriterExclusion'
    BY <1>28, Zenon
    DEF CompactObsolete, Goto
<1>29. ASSUME NEW t \in Compactors, CompactUnlock(t)
      PROVE  WriterExclusion'
    BY <1>29, Zenon
    DEF CompactUnlock, Goto, Unlock
<1>30. ASSUME NEW t \in Compactors, CompactStatus(t)
      PROVE  WriterExclusion'
    BY <1>30, Zenon
    DEF CompactStatus, Goto
<1>31. ASSUME NEW t \in Compactors, CompactClean(t)
      PROVE  WriterExclusion'
    BY <1>31, Zenon
    DEF CompactClean, Goto, CompactReturn, ResetApply
<1>32. ASSUME NEW p, Crash(p)
      PROVE  WriterExclusion'
    BY <1>32, Zenon
    DEF Crash, Kill
<1>33. ASSUME PowerFail
      PROVE  WriterExclusion'
    BY <1>33, Zenon
    DEF PowerFail, Kill
<1>34. CASE UNCHANGED vars
    BY <1>34, Zenon
    DEF vars
<1> QED
    BY <1>1, <1>2, <1>3, <1>4, <1>5, <1>6, <1>7, <1>8, <1>9, <1>10, <1>11,
        <1>12, <1>13, <1>14, <1>15, <1>16, <1>17, <1>18, <1>19, <1>20, <1>21,
        <1>22, <1>23, <1>24, <1>25, <1>26, <1>27, <1>28, <1>29, <1>30, <1>31,
        <1>32, <1>33, <1>34, Zenon
    DEF Next, UpdateStep, RecoverStep, ApplyStep, CompactStep

(* A replayed WAL stays until the thread that replays it clears it.        *)
LEMMA BatchStep ==
    ASSUME ControlType, WriterExclusion, BatchAtHand, [Next]_vars
    PROVE  BatchAtHand'
<1>   /\ pc \in [Threads -> Labels]
      /\ call \in [Threads -> {"none", "update", "recover", "compact"}]
      /\ own \in [Threads -> Batches \cup {NoBatch}]
      /\ replay \in [Threads -> BOOLEAN]
    BY Zenon DEF ControlType
<1> USE StoreAssumption DEF WriterExclusion, BatchAtHand, Holding, Threads,
    disk, synced, locks, locals, ghosts
<1>1. ASSUME NEW t \in Updaters, NEW b \in Batches, StartUpdate(t, b)
      PROVE  BatchAtHand'
    BY <1>1, Zenon
    DEF StartUpdate, Goto
<1>2. ASSUME NEW t \in Updaters, StartRecover(t)
      PROVE  BatchAtHand'
    BY <1>2, Zenon
    DEF StartRecover, Goto
<1>3. ASSUME NEW t \in Updaters, ApplyLock(t)
      PROVE  BatchAtHand'
    BY <1>3, Zenon
    DEF ApplyLock, Goto, Lock
<1>4. ASSUME NEW t \in Updaters, WalWrite(t)
      PROVE  BatchAtHand'
    BY <1>4, Zenon
    DEF WalWrite, Goto, ChangeIndexDir, WalRecord
<1>5. ASSUME NEW t \in Updaters, WalSync(t)
      PROVE  BatchAtHand'
    BY <1>5, Zenon
    DEF WalSync, Goto
<1>6. ASSUME NEW t \in Updaters, AbortClear(t)
      PROVE  BatchAtHand'
    BY <1>6, SMTT(30)
    DEF AbortClear, Goto, RecoverReturn, ApplyReturn, ResetApply, Unlock,
        ChangeIndexDir
<1>7. ASSUME NEW t \in Updaters, AbortSync(t)
      PROVE  BatchAtHand'
    BY <1>7, SMTT(30)
    DEF AbortSync, Goto, RecoverReturn, ApplyReturn, ResetApply, Unlock
<1>8. ASSUME NEW t \in Threads, RecoverCheck(t)
      PROVE  BatchAtHand'
    BY <1>8, SMTT(30)
    DEF RecoverCheck, Goto, RecoverReturn
<1>9. ASSUME NEW t \in Threads, RecoverLock(t)
      PROVE  BatchAtHand'
    BY <1>9, SMTT(30)
    DEF RecoverLock, Goto, RecoverReturn, Lock
<1>10. ASSUME NEW t \in Threads, ApplyBegin(t)
      PROVE  BatchAtHand'
    BY <1>10, ZenonT(40)
    DEF ApplyBegin, Goto
<1>11. ASSUME NEW t \in Threads, UpdateWrite(t)
      PROVE  BatchAtHand'
    BY <1>11, ZenonT(40)
    DEF UpdateWrite, Goto
<1>12. ASSUME NEW t \in Threads, UpdateSeal(t)
      PROVE  BatchAtHand'
    BY <1>12, Zenon
    DEF UpdateSeal, Goto
<1>13. ASSUME NEW t \in Threads, UpdatePublish(t)
      PROVE  BatchAtHand'
    BY <1>13, ZenonT(40)
    DEF UpdatePublish, Goto, PublishIfGeneration, ChangeIndexDir
<1>14. ASSUME NEW t \in Threads, UpdatePublishSync(t)
      PROVE  BatchAtHand'
    BY <1>14, ZenonT(40)
    DEF UpdatePublishSync, Goto
<1>15. ASSUME NEW t \in Threads, WalClear(t)
      PROVE  BatchAtHand'
    BY <1>15, SMTT(30)
    DEF WalClear, Goto, RecoverReturn, ApplyReturn, ResetApply, Unlock,
        ChangeIndexDir
<1>16. ASSUME NEW t \in Threads, WalClearSync(t)
      PROVE  BatchAtHand'
    BY <1>16, SMTT(30)
    DEF WalClearSync, Goto, RecoverReturn, ApplyReturn, ResetApply, Unlock
<1>17. ASSUME NEW t \in Threads, ApplyAbort(t)
      PROVE  BatchAtHand'
    BY <1>17, SMTT(30)
    DEF ApplyAbort, Goto, RecoverReturn, ApplyReturn, ResetApply, Unlock
<1>18. ASSUME NEW t \in Compactors, StartCompact(t)
      PROVE  BatchAtHand'
    BY <1>18, Zenon
    DEF StartCompact, Goto
<1>19. ASSUME NEW t \in Compactors, CompactWal(t)
      PROVE  BatchAtHand'
    BY <1>19, ZenonT(40)
    DEF CompactWal, Goto
<1>20. ASSUME NEW t \in Compactors, CompactPolicy(t)
      PROVE  BatchAtHand'
    BY <1>20, SMTT(30)
    DEF CompactPolicy, Goto, Unlock, CompactReturn, ResetApply
<1>21. ASSUME NEW t \in Compactors, CompactGc(t)
      PROVE  BatchAtHand'
    BY <1>21, ZenonT(40)
    DEF CompactGc, Goto, Unlock
<1>22. ASSUME NEW t \in Compactors, CompactCollect(t)
      PROVE  BatchAtHand'
    BY <1>22, ZenonT(40)
    DEF CompactCollect, Goto
<1>23. ASSUME NEW t \in Compactors, CompactWrite(t)
      PROVE  BatchAtHand'
    BY <1>23, ZenonT(40)
    DEF CompactWrite, Goto
<1>24. ASSUME NEW t \in Compactors, CompactSync(t)
      PROVE  BatchAtHand'
    BY <1>24, Zenon
    DEF CompactSync, Goto
<1>25. ASSUME NEW t \in Compactors, CompactRelock(t)
      PROVE  BatchAtHand'
    BY <1>25, ZenonT(40)
    DEF CompactRelock, Goto, Lock
<1>26. ASSUME NEW t \in Compactors, CompactPublish(t)
      PROVE  BatchAtHand'
    BY <1>26, ZenonT(40)
    DEF CompactPublish, Goto, PublishIfGeneration, ChangeIndexDir
<1>27. ASSUME NEW t \in Compactors, CompactPublishSync(t)
      PROVE  BatchAtHand'
    BY <1>27, ZenonT(40)
    DEF CompactPublishSync, Goto
<1>28. ASSUME NEW t \in Compactors, CompactObsolete(t)
      PROVE  BatchAtHand'
    BY <1>28, Zenon
    DEF CompactObsolete, Goto
<1>29. ASSUME NEW t \in Compactors, CompactUnlock(t)
      PROVE  BatchAtHand'
    BY <1>29, Zenon
    DEF CompactUnlock, Goto, Unlock
<1>30. ASSUME NEW t \in Compactors, CompactStatus(t)
      PROVE  BatchAtHand'
    BY <1>30, Zenon
    DEF CompactStatus, Goto
<1>31. ASSUME NEW t \in Compactors, CompactClean(t)
      PROVE  BatchAtHand'
    BY <1>31, Zenon
    DEF CompactClean, Goto, CompactReturn, ResetApply
<1>32. ASSUME NEW p, Crash(p)
      PROVE  BatchAtHand'
    BY <1>32, Zenon
    DEF Crash, Kill
<1>33. ASSUME PowerFail
      PROVE  BatchAtHand'
    BY <1>33, Zenon
    DEF PowerFail, Kill
<1>34. CASE UNCHANGED vars
    BY <1>34, Zenon
    DEF vars
<1> QED
    BY <1>1, <1>2, <1>3, <1>4, <1>5, <1>6, <1>7, <1>8, <1>9, <1>10, <1>11,
        <1>12, <1>13, <1>14, <1>15, <1>16, <1>17, <1>18, <1>19, <1>20, <1>21,
        <1>22, <1>23, <1>24, <1>25, <1>26, <1>27, <1>28, <1>29, <1>30, <1>31,
        <1>32, <1>33, <1>34, Zenon
    DEF Next, UpdateStep, RecoverStep, ApplyStep, CompactStep

(* The range and the manifest it was checked against are not replaced.     *)
LEMMA RangeCheckedStep ==
    ASSUME ControlType, RangeChecked, DOMAIN base = Threads, DOMAIN source = Threads, [Next]_vars
    PROVE  RangeChecked'
<1>   pc \in [Threads -> Labels]
    BY Zenon DEF ControlType
<1> USE StoreAssumption DEF RangeChecked, Threads, disk, synced, locks,
    locals, ghosts
<1>1. ASSUME NEW t \in Updaters, NEW b \in Batches, StartUpdate(t, b)
      PROVE  RangeChecked'
    BY <1>1, Zenon
    DEF StartUpdate, Goto
<1>2. ASSUME NEW t \in Updaters, StartRecover(t)
      PROVE  RangeChecked'
    BY <1>2, Zenon
    DEF StartRecover, Goto
<1>3. ASSUME NEW t \in Updaters, ApplyLock(t)
      PROVE  RangeChecked'
    BY <1>3, Zenon
    DEF ApplyLock, Goto, Lock
<1>4. ASSUME NEW t \in Updaters, WalWrite(t)
      PROVE  RangeChecked'
    BY <1>4, Zenon
    DEF WalWrite, Goto
<1>5. ASSUME NEW t \in Updaters, WalSync(t)
      PROVE  RangeChecked'
    BY <1>5, Zenon
    DEF WalSync, Goto
<1>6. ASSUME NEW t \in Updaters, AbortClear(t)
      PROVE  RangeChecked'
    BY <1>6, Zenon
    DEF AbortClear, Goto, RecoverReturn, ApplyReturn, ResetApply, Unlock
<1>7. ASSUME NEW t \in Updaters, AbortSync(t)
      PROVE  RangeChecked'
    BY <1>7, Zenon
    DEF AbortSync, Goto, RecoverReturn, ApplyReturn, ResetApply, Unlock
<1>8. ASSUME NEW t \in Threads, RecoverCheck(t)
      PROVE  RangeChecked'
    BY <1>8, Zenon
    DEF RecoverCheck, Goto, RecoverReturn
<1>9. ASSUME NEW t \in Threads, RecoverLock(t)
      PROVE  RangeChecked'
    BY <1>9, Zenon
    DEF RecoverLock, Goto, RecoverReturn, Lock
<1>10. ASSUME NEW t \in Threads, ApplyBegin(t)
      PROVE  RangeChecked'
    BY <1>10, Zenon
    DEF ApplyBegin, Goto
<1>11. ASSUME NEW t \in Threads, UpdateWrite(t)
      PROVE  RangeChecked'
    BY <1>11, Zenon
    DEF UpdateWrite, Goto
<1>12. ASSUME NEW t \in Threads, UpdateSeal(t)
      PROVE  RangeChecked'
    BY <1>12, Zenon
    DEF UpdateSeal, Goto
<1>13. ASSUME NEW t \in Threads, UpdatePublish(t)
      PROVE  RangeChecked'
    BY <1>13, Zenon
    DEF UpdatePublish, Goto
<1>14. ASSUME NEW t \in Threads, UpdatePublishSync(t)
      PROVE  RangeChecked'
    BY <1>14, Zenon
    DEF UpdatePublishSync, Goto
<1>15. ASSUME NEW t \in Threads, WalClear(t)
      PROVE  RangeChecked'
    BY <1>15, ZenonT(40)
    DEF WalClear, Goto, RecoverReturn, ApplyReturn, ResetApply, Unlock
<1>16. ASSUME NEW t \in Threads, WalClearSync(t)
      PROVE  RangeChecked'
    BY <1>16, ZenonT(40)
    DEF WalClearSync, Goto, RecoverReturn, ApplyReturn, ResetApply, Unlock
<1>17. ASSUME NEW t \in Threads, ApplyAbort(t)
      PROVE  RangeChecked'
    BY <1>17, ZenonT(40)
    DEF ApplyAbort, Goto, RecoverReturn, ApplyReturn, ResetApply, Unlock
<1>18. ASSUME NEW t \in Compactors, StartCompact(t)
      PROVE  RangeChecked'
    BY <1>18, Zenon
    DEF StartCompact, Goto
<1>19. ASSUME NEW t \in Compactors, CompactWal(t)
      PROVE  RangeChecked'
    BY <1>19, Zenon
    DEF CompactWal, Goto
<1>20. ASSUME NEW t \in Compactors, CompactPolicy(t)
      PROVE  RangeChecked'
    BY <1>20, Zenon
    DEF CompactPolicy, Goto, Unlock, CompactReturn, ResetApply
<1>21. ASSUME NEW t \in Compactors, CompactGc(t)
      PROVE  RangeChecked'
    BY <1>21, Zenon
    DEF CompactGc, Goto, Unlock
<1>22. ASSUME NEW t \in Compactors, CompactCollect(t)
      PROVE  RangeChecked'
    BY <1>22, Zenon
    DEF CompactCollect, Goto
<1>23. ASSUME NEW t \in Compactors, CompactWrite(t)
      PROVE  RangeChecked'
    BY <1>23, Zenon
    DEF CompactWrite, Goto
<1>24. ASSUME NEW t \in Compactors, CompactSync(t)
      PROVE  RangeChecked'
    BY <1>24, Zenon
    DEF CompactSync, Goto
<1>25. ASSUME NEW t \in Compactors, CompactRelock(t)
      PROVE  RangeChecked'
    BY <1>25, Zenon
    DEF CompactRelock, Goto, Lock
<1>26. ASSUME NEW t \in Compactors, CompactPublish(t)
      PROVE  RangeChecked'
    BY <1>26, Zenon
    DEF CompactPublish, Goto
<1>27. ASSUME NEW t \in Compactors, CompactPublishSync(t)
      PROVE  RangeChecked'
    BY <1>27, Zenon
    DEF CompactPublishSync, Goto
<1>28. ASSUME NEW t \in Compactors, CompactObsolete(t)
      PROVE  RangeChecked'
    BY <1>28, Zenon
    DEF CompactObsolete, Goto
<1>29. ASSUME NEW t \in Compactors, CompactUnlock(t)
      PROVE  RangeChecked'
    BY <1>29, Zenon
    DEF CompactUnlock, Goto, Unlock
<1>30. ASSUME NEW t \in Compactors, CompactStatus(t)
      PROVE  RangeChecked'
    BY <1>30, Zenon
    DEF CompactStatus, Goto
<1>31. ASSUME NEW t \in Compactors, CompactClean(t)
      PROVE  RangeChecked'
    BY <1>31, Zenon
    DEF CompactClean, Goto, CompactReturn, ResetApply
<1>32. ASSUME NEW p, Crash(p)
      PROVE  RangeChecked'
    BY <1>32, Zenon
    DEF Crash, Kill
<1>33. ASSUME PowerFail
      PROVE  RangeChecked'
    BY <1>33, Zenon
    DEF PowerFail, Kill
<1>34. CASE UNCHANGED vars
    BY <1>34, Zenon
    DEF vars
<1> QED
    BY <1>1, <1>2, <1>3, <1>4, <1>5, <1>6, <1>7, <1>8, <1>9, <1>10, <1>11,
        <1>12, <1>13, <1>14, <1>15, <1>16, <1>17, <1>18, <1>19, <1>20, <1>21,
        <1>22, <1>23, <1>24, <1>25, <1>26, <1>27, <1>28, <1>29, <1>30, <1>31,
        <1>32, <1>33, <1>34, Zenon
    DEF Next, UpdateStep, RecoverStep, ApplyStep, CompactStep

(* Only the thread that holds the compaction lock gives it away.           *)
LEMMA CompactionExclusionStep ==
    ASSUME ControlType, CompactionExclusion, [Next]_vars
    PROVE  CompactionExclusion'
<1>   /\ pc \in [Threads -> Labels]
      /\ call \in [Threads -> {"none", "update", "recover", "compact"}]
    BY Zenon DEF ControlType
<1> USE StoreAssumption DEF CompactionExclusion, Compacting, Threads, disk,
    synced, locks, locals, ghosts
<1>1. ASSUME NEW t \in Updaters, NEW b \in Batches, StartUpdate(t, b)
      PROVE  CompactionExclusion'
    BY <1>1, Zenon
    DEF StartUpdate, Goto
<1>2. ASSUME NEW t \in Updaters, StartRecover(t)
      PROVE  CompactionExclusion'
    BY <1>2, Zenon
    DEF StartRecover, Goto
<1>3. ASSUME NEW t \in Updaters, ApplyLock(t)
      PROVE  CompactionExclusion'
    BY <1>3, Zenon
    DEF ApplyLock, Goto, Lock
<1>4. ASSUME NEW t \in Updaters, WalWrite(t)
      PROVE  CompactionExclusion'
    BY <1>4, Zenon
    DEF WalWrite, Goto
<1>5. ASSUME NEW t \in Updaters, WalSync(t)
      PROVE  CompactionExclusion'
    BY <1>5, ZenonT(40)
    DEF WalSync, Goto
<1>6. ASSUME NEW t \in Updaters, AbortClear(t)
      PROVE  CompactionExclusion'
    BY <1>6, SMTT(30)
    DEF AbortClear, Goto, RecoverReturn, ApplyReturn, ResetApply, Unlock
<1>7. ASSUME NEW t \in Updaters, AbortSync(t)
      PROVE  CompactionExclusion'
    BY <1>7, ZenonT(40)
    DEF AbortSync, Goto, RecoverReturn, ApplyReturn, ResetApply, Unlock
<1>8. ASSUME NEW t \in Threads, RecoverCheck(t)
      PROVE  CompactionExclusion'
    BY <1>8, ZenonT(40)
    DEF RecoverCheck, Goto, RecoverReturn
<1>9. ASSUME NEW t \in Threads, RecoverLock(t)
      PROVE  CompactionExclusion'
    BY <1>9, SMTT(30)
    DEF RecoverLock, Goto, RecoverReturn, Lock
<1>10. ASSUME NEW t \in Threads, ApplyBegin(t)
      PROVE  CompactionExclusion'
    BY <1>10, ZenonT(40)
    DEF ApplyBegin, Goto
<1>11. ASSUME NEW t \in Threads, UpdateWrite(t)
      PROVE  CompactionExclusion'
    BY <1>11, Zenon
    DEF UpdateWrite, Goto
<1>12. ASSUME NEW t \in Threads, UpdateSeal(t)
      PROVE  CompactionExclusion'
    BY <1>12, Zenon
    DEF UpdateSeal, Goto
<1>13. ASSUME NEW t \in Threads, UpdatePublish(t)
      PROVE  CompactionExclusion'
    BY <1>13, Zenon
    DEF UpdatePublish, Goto
<1>14. ASSUME NEW t \in Threads, UpdatePublishSync(t)
      PROVE  CompactionExclusion'
    BY <1>14, ZenonT(40)
    DEF UpdatePublishSync, Goto
<1>15. ASSUME NEW t \in Threads, WalClear(t)
      PROVE  CompactionExclusion'
    BY <1>15, SMTT(30)
    DEF WalClear, Goto, RecoverReturn, ApplyReturn, ResetApply, Unlock
<1>16. ASSUME NEW t \in Threads, WalClearSync(t)
      PROVE  CompactionExclusion'
    BY <1>16, SMTT(30)
    DEF WalClearSync, Goto, RecoverReturn, ApplyReturn, ResetApply, Unlock
<1>17. ASSUME NEW t \in Threads, ApplyAbort(t)
      PROVE  CompactionExclusion'
    BY <1>17, SMTT(30)
    DEF ApplyAbort, Goto, RecoverReturn, ApplyReturn, ResetApply, Unlock
<1>18. ASSUME NEW t \in Compactors, StartCompact(t)
      PROVE  CompactionExclusion'
    BY <1>18, Zenon
    DEF StartCompact, Goto
<1>19. ASSUME NEW t \in Compactors, CompactWal(t)
      PROVE  CompactionExclusion'
    BY <1>19, Zenon
    DEF CompactWal, Goto
<1>20. ASSUME NEW t \in Compactors, CompactPolicy(t)
      PROVE  CompactionExclusion'
    BY <1>20, ZenonT(40)
    DEF CompactPolicy, Goto, Unlock, CompactReturn, ResetApply
<1>21. ASSUME NEW t \in Compactors, CompactGc(t)
      PROVE  CompactionExclusion'
    BY <1>21, Zenon
    DEF CompactGc, Goto, Unlock
<1>22. ASSUME NEW t \in Compactors, CompactCollect(t)
      PROVE  CompactionExclusion'
    BY <1>22, Zenon
    DEF CompactCollect, Goto
<1>23. ASSUME NEW t \in Compactors, CompactWrite(t)
      PROVE  CompactionExclusion'
    BY <1>23, Zenon
    DEF CompactWrite, Goto
<1>24. ASSUME NEW t \in Compactors, CompactSync(t)
      PROVE  CompactionExclusion'
    BY <1>24, Zenon
    DEF CompactSync, Goto
<1>25. ASSUME NEW t \in Compactors, CompactRelock(t)
      PROVE  CompactionExclusion'
    BY <1>25, Zenon
    DEF CompactRelock, Goto, Lock
<1>26. ASSUME NEW t \in Compactors, CompactPublish(t)
      PROVE  CompactionExclusion'
    BY <1>26, Zenon
    DEF CompactPublish, Goto
<1>27. ASSUME NEW t \in Compactors, CompactPublishSync(t)
      PROVE  CompactionExclusion'
    BY <1>27, Zenon
    DEF CompactPublishSync, Goto
<1>28. ASSUME NEW t \in Compactors, CompactObsolete(t)
      PROVE  CompactionExclusion'
    BY <1>28, Zenon
    DEF CompactObsolete, Goto
<1>29. ASSUME NEW t \in Compactors, CompactUnlock(t)
      PROVE  CompactionExclusion'
    BY <1>29, Zenon
    DEF CompactUnlock, Goto, Unlock
<1>30. ASSUME NEW t \in Compactors, CompactStatus(t)
      PROVE  CompactionExclusion'
    BY <1>30, Zenon
    DEF CompactStatus, Goto
<1>31. ASSUME NEW t \in Compactors, CompactClean(t)
      PROVE  CompactionExclusion'
    BY <1>31, Zenon
    DEF CompactClean, Goto, CompactReturn, ResetApply
<1>32. ASSUME NEW p, Crash(p)
      PROVE  CompactionExclusion'
    BY <1>32, Zenon
    DEF Crash, Kill
<1>33. ASSUME PowerFail
      PROVE  CompactionExclusion'
    BY <1>33, Zenon
    DEF PowerFail, Kill
<1>34. CASE UNCHANGED vars
    BY <1>34, Zenon
    DEF vars
<1> QED
    BY <1>1, <1>2, <1>3, <1>4, <1>5, <1>6, <1>7, <1>8, <1>9, <1>10, <1>11,
        <1>12, <1>13, <1>14, <1>15, <1>16, <1>17, <1>18, <1>19, <1>20, <1>21,
        <1>22, <1>23, <1>24, <1>25, <1>26, <1>27, <1>28, <1>29, <1>30, <1>31,
        <1>32, <1>33, <1>34, Zenon
    DEF Next, UpdateStep, RecoverStep, ApplyStep, CompactStep

-----------------------------------------------------------------------------
(* Building blocks of the steps.                                           *)

LEMMA TypeParts == TypeOK <=> ControlType /\ DataType
BY Zenon DEF TypeOK, ControlType, DataType

(* Only the directories asked for are removed.                             *)
LEMMA RemoveFacts ==
    ASSUME NEW STATE D, RemoveDirs(D)
    PROVE  /\ dirs' \subseteq dirs
           /\ dirs \ D \subseteq dirs'
           /\ IsFiniteSet(dirs) => IsFiniteSet(dirs')
<1>1. PICK left : dirs' = dirs \ (D \ left)
    BY Zenon DEF RemoveDirs
<1>2. dirs' \subseteq dirs /\ dirs \ D \subseteq dirs'
    BY <1>1, Zenon
<1> QED
    BY <1>2, FiniteSubset, Zenon

(* A slice is written under a fresh name, or everything written so far is  *)
(* taken back and the plan is refined.                                     *)
LEMMA WriteSliceFacts ==
    ASSUME DataType, IsFiniteSet(dirs), NEW t \in Threads, NEW kind \in Kinds,
           WriteSlice(t, kind)
    PROVE  \/ /\ UNCHANGED plan
              /\ \E d \in Descriptor :
                    /\ d.kind = kind
                    /\ SegmentName(d) \notin Names(dirs)
                    /\ d \notin dirs
                    /\ dirs' = dirs \cup {d}
                    /\ mine' = [mine EXCEPT ![t] = Append(mine[t], d)]
           \/ /\ RemoveDirs(SegSet(mine[t]))
              /\ mine' = [mine EXCEPT ![t] = <<>>]
              /\ \E p \in Seq(Events) : plan' = [plan EXCEPT ![t] = p]
<1> DEFINE k == Len(mine[t]) + 1
           g == base[t].gen + 1
<1>1. /\ k \in 1..Len(plan[t]) /\ g \in Nat
      /\ plan[t] \in Seq(Events) /\ plan[t][k] \in Events
    <2>1. /\ mine[t] \in Seq(Descriptor)
          /\ plan[t] \in Seq(Events)
          /\ base[t].gen \in Nat
        BY RecordFacts, Zenon DEF DataType
    <2>2. k <= Len(plan[t])
        BY Zenon DEF WriteSlice
    <2>3. k \in 1..Len(plan[t])
        BY <2>1, <2>2, SMTT(30)
    <2> HIDE DEF k
    <2>4. plan[t][k] \in Events
        BY <2>1, <2>3, SMTT(30)
    <2> QED
        BY <2>1, <2>3, <2>4, SMTT(30)
<1>2. PICK n \in FreshSuffixes(dirs, kind, g) :
         \/ /\ dirs' = dirs \cup {Segment(kind, g, n, plan[t][k])}
            /\ mine' = [mine EXCEPT ![t] = Append(mine[t], Segment(kind, g, n, plan[t][k]))]
            /\ UNCHANGED plan
         \/ /\ RemoveDirs(SegSet(mine[t]))
            /\ mine' = [mine EXCEPT ![t] = <<>>]
            /\ \E p \in Bisections(plan[t], k) : plan' = [plan EXCEPT ![t] = p]
    BY mine \in [Threads -> Seq(Descriptor)], Zenon DEF WriteSlice, DataType
<1> HIDE DEF k, g
<1> DEFINE d == Segment(kind, g, n, plan[t][k])
<1>3. d \in Descriptor /\ SegmentName(d) \notin Names(dirs) /\ d \notin dirs
    BY <1>1, FreshSuffixFacts, Zenon
<1>4. d.kind = kind
    BY Zenon DEF Segment
<1>5. \A p \in Bisections(plan[t], k) : p \in Seq(Events)
    BY <1>1, BisectionsType, Zenon
<1> HIDE DEF d
<1>6. CASE /\ dirs' = dirs \cup {d}
           /\ mine' = [mine EXCEPT ![t] = Append(mine[t], d)]
           /\ UNCHANGED plan
    BY <1>3, <1>4, <1>6, Zenon
<1>7. CASE /\ RemoveDirs(SegSet(mine[t]))
           /\ mine' = [mine EXCEPT ![t] = <<>>]
           /\ \E p \in Bisections(plan[t], k) : plan' = [plan EXCEPT ![t] = p]
    BY <1>5, <1>7, Zenon
<1> QED
    BY <1>2, <1>6, <1>7, Zenon DEF d

LEMMA WriteSliceType ==
    ASSUME DataType, IsFiniteSet(dirs), NEW t \in Threads, NEW kind \in Kinds,
           WriteSlice(t, kind)
    PROVE  /\ dirs' \subseteq Descriptor
           /\ IsFiniteSet(dirs')
           /\ plan' \in [Threads -> Seq(Events)]
           /\ mine' \in [Threads -> Seq(Descriptor)]
<1>1. /\ dirs \subseteq Descriptor
      /\ plan \in [Threads -> Seq(Events)]
      /\ mine \in [Threads -> Seq(Descriptor)]
    BY Zenon DEF DataType
<1>2. CASE /\ UNCHANGED plan
           /\ \E d \in Descriptor :
                 /\ dirs' = dirs \cup {d}
                 /\ mine' = [mine EXCEPT ![t] = Append(mine[t], d)]
    <2>1. PICK d \in Descriptor :
                 /\ dirs' = dirs \cup {d}
                 /\ mine' = [mine EXCEPT ![t] = Append(mine[t], d)]
        BY <1>2, Zenon
    <2>2. Append(mine[t], d) \in Seq(Descriptor)
        BY <1>1, ListAppend, Zenon
    <2>3. mine' \in [Threads -> Seq(Descriptor)]
        BY <1>1, <2>1, <2>2, Zenon
    <2> QED
        BY <1>1, <1>2, <2>1, <2>3, FiniteAdd, Zenon
<1>3. CASE /\ RemoveDirs(SegSet(mine[t]))
           /\ mine' = [mine EXCEPT ![t] = <<>>]
           /\ \E p \in Seq(Events) : plan' = [plan EXCEPT ![t] = p]
    <2>1. <<>> \in Seq(Descriptor)
        BY SMTT(30)
    <2>2. dirs' \subseteq Descriptor /\ IsFiniteSet(dirs')
        BY <1>1, <1>3, RemoveFacts, ZenonT(40)
    <2> QED
        BY <1>1, <1>3, <2>1, <2>2, Zenon
<1> QED
    BY <1>2, <1>3, WriteSliceFacts, Zenon

LEMMA NextManifestType ==
    ASSUME NEW m \in Manifest, NEW segs \in Seq(Descriptor), NEW log \in Seq(Batches)
    PROVE  [gen |-> m.gen + 1, segs |-> segs, log |-> log] \in Manifest
BY SMTT(30) DEF Manifest

LEMMA SyncIndexDirType ==
    ASSUME DataType, SyncIndexDir
    PROVE  survivors' \subseteq [manifest: Manifest, wal: Wal \cup {NoWal}]
BY SMTT(30) DEF SyncIndexDir, DataType

LEMMA ResetApplyType ==
    ASSUME DataType, NEW t \in Threads, ResetApply(t)
    PROVE  /\ base' \in [Threads -> Manifest]
           /\ plan' \in [Threads -> Seq(Events)]
           /\ mine' \in [Threads -> Seq(Descriptor)]
<1>1. <<>> \in Seq(Descriptor) /\ <<>> \in Seq(Events)
    BY SMTT(30)
<1> QED
    BY <1>1, RecordFacts, Zenon DEF ResetApply, DataType

LEMMA KillType ==
    ASSUME DataType, NEW dead, Kill(dead)
    PROVE  /\ base' \in [Threads -> Manifest]
           /\ plan' \in [Threads -> Seq(Events)]
           /\ mine' \in [Threads -> Seq(Descriptor)]
           /\ source' \in [Threads -> [first: Nat, segs: Seq(Descriptor)]]
<1>1. <<>> \in Seq(Descriptor) /\ <<>> \in Seq(Events)
    BY SMTT(30)
<1> QED
    BY <1>1, RecordFacts, Zenon DEF Kill, DataType

LEMMA ChangeIndexDirType ==
    ASSUME DataType, NEW m \in Manifest, NEW w \in Wal \cup {NoWal},
           ChangeIndexDir(m, w)
    PROVE  /\ manifest' \in Manifest
           /\ wal' \in Wal \cup {NoWal}
           /\ survivors' \subseteq [manifest: Manifest, wal: Wal \cup {NoWal}]
BY SMTT(30) DEF ChangeIndexDir, DataType

(* What is on disk, or loaded from it, keeps its type. *)
LEMMA DataStep ==
    ASSUME ControlType, DataType, FiniteDirs, BatchAtHand, RangeChecked, [Next]_vars
    PROVE  DataType' /\ FiniteDirs'
<1>a. DataType /\ FiniteDirs /\ ControlType /\ BatchAtHand /\ RangeChecked
    BY Zenon
<1>d. /\ manifest \in Manifest /\ wal \in Wal \cup {NoWal}
      /\ survivors \subseteq [manifest: Manifest, wal: Wal \cup {NoWal}]
    BY Zenon DEF DataType
<1>s. dirs \subseteq Descriptor /\ syncedDirs \subseteq Descriptor /\ FiniteDirs
    BY Zenon DEF DataType
<1>l. /\ base \in [Threads -> Manifest] /\ plan \in [Threads -> Seq(Events)]
      /\ mine \in [Threads -> Seq(Descriptor)]
      /\ source \in [Threads -> [first: Nat, segs: Seq(Descriptor)]]
    BY Zenon DEF DataType
<1>1. ASSUME NEW t \in Updaters, NEW b \in Batches, StartUpdate(t, b)
      PROVE  DataType' /\ FiniteDirs'
    <2>1. UNCHANGED <<manifest, wal, survivors, dirs, syncedDirs, base, plan, mine, source>>
        BY <1>1, Zenon DEF StartUpdate, disk, synced, locals
    <2> QED
        BY <2>1, <1>a, Zenon DEF DataType, FiniteDirs
<1>2. ASSUME NEW t \in Updaters, StartRecover(t)
      PROVE  DataType' /\ FiniteDirs'
    <2>1. UNCHANGED <<manifest, wal, survivors, dirs, syncedDirs, base, plan, mine, source>>
        BY <1>2, Zenon DEF StartRecover, disk, synced, locals
    <2> QED
        BY <2>1, <1>a, Zenon DEF DataType, FiniteDirs
<1>3. ASSUME NEW t \in Updaters, ApplyLock(t)
      PROVE  DataType' /\ FiniteDirs'
    <2>1. UNCHANGED <<manifest, wal, survivors, dirs, syncedDirs, base, plan, mine, source>>
        BY <1>3, Zenon DEF ApplyLock, disk, synced, locals
    <2> QED
        BY <2>1, <1>a, Zenon DEF DataType, FiniteDirs
<1>4. ASSUME NEW t \in Updaters, WalWrite(t)
      PROVE  DataType' /\ FiniteDirs'
    <2>t. t \in Threads
        BY Zenon DEF Threads
    <2>w. WalRecord(t) \in Wal
        BY <1>4, <1>a, <1>l, <1>d, <2>t, RecordFacts, Zenon DEF WalWrite, WalRecord, BatchAtHand
    <2>1. /\ (manifest \in Manifest)' /\ (wal \in Wal \cup {NoWal})'
          /\ (survivors \subseteq [manifest: Manifest, wal: Wal \cup {NoWal}])'
        BY <1>4, <1>a, <1>d, <2>w, ChangeIndexDirType, <2>t, Zenon
        DEF WalWrite
    <2>2. UNCHANGED <<dirs, syncedDirs, base, plan, mine, source>>
        BY <1>4, Zenon DEF WalWrite, disk, synced, locals
    <2> QED
        BY <2>1, <2>2, <1>a, Zenon DEF DataType, FiniteDirs
<1>5. ASSUME NEW t \in Updaters, WalSync(t)
      PROVE  DataType' /\ FiniteDirs'
    <2>1. /\ (manifest \in Manifest)' /\ (wal \in Wal \cup {NoWal})'
          /\ (survivors \subseteq [manifest: Manifest, wal: Wal \cup {NoWal}])'
        BY <1>5, <1>a, <1>d, SyncIndexDirType, Zenon
        DEF WalSync, disk
    <2>2. UNCHANGED <<dirs, syncedDirs, base, plan, mine, source>>
        BY <1>5, Zenon DEF WalSync, disk, synced, locals
    <2> QED
        BY <2>1, <2>2, <1>a, Zenon DEF DataType, FiniteDirs
<1>6. ASSUME NEW t \in Updaters, AbortClear(t)
      PROVE  DataType' /\ FiniteDirs'
    <2>t. t \in Threads
        BY Zenon DEF Threads
    <2>1. /\ (manifest \in Manifest)' /\ (wal \in Wal \cup {NoWal})'
          /\ (survivors \subseteq [manifest: Manifest, wal: Wal \cup {NoWal}])'
        BY <1>6, <1>a, <1>d, ChangeIndexDirType, <2>t, Zenon
        DEF AbortClear
    <2>2. /\ (base \in [Threads -> Manifest])'
          /\ (plan \in [Threads -> Seq(Events)])'
          /\ (mine \in [Threads -> Seq(Descriptor)])'
        BY <1>6, <1>a, <1>l, ResetApplyType, <2>t, Zenon
        DEF AbortClear, ApplyReturn, CompactReturn, locals
    <2>3. UNCHANGED <<dirs, syncedDirs, source>>
        BY <1>6, Zenon DEF AbortClear, disk, synced, locals
    <2> QED
        BY <2>1, <2>2, <2>3, <1>a, Zenon DEF DataType, FiniteDirs
<1>7. ASSUME NEW t \in Updaters, AbortSync(t)
      PROVE  DataType' /\ FiniteDirs'
    <2>t. t \in Threads
        BY Zenon DEF Threads
    <2>1. /\ (manifest \in Manifest)' /\ (wal \in Wal \cup {NoWal})'
          /\ (survivors \subseteq [manifest: Manifest, wal: Wal \cup {NoWal}])'
        BY <1>7, <1>a, <1>d, SyncIndexDirType, <2>t, Zenon
        DEF AbortSync, disk
    <2>2. /\ (base \in [Threads -> Manifest])'
          /\ (plan \in [Threads -> Seq(Events)])'
          /\ (mine \in [Threads -> Seq(Descriptor)])'
        BY <1>7, <1>a, <1>l, ResetApplyType, <2>t, Zenon
        DEF AbortSync, ApplyReturn, CompactReturn, locals
    <2>3. UNCHANGED <<dirs, syncedDirs, source>>
        BY <1>7, Zenon DEF AbortSync, disk, synced, locals
    <2> QED
        BY <2>1, <2>2, <2>3, <1>a, Zenon DEF DataType, FiniteDirs
<1>8. ASSUME NEW t \in Threads, RecoverCheck(t)
      PROVE  DataType' /\ FiniteDirs'
    <2>1. UNCHANGED <<manifest, wal, survivors, dirs, syncedDirs, base, plan, mine, source>>
        BY <1>8, Zenon DEF RecoverCheck, disk, synced, locals
    <2> QED
        BY <2>1, <1>a, Zenon DEF DataType, FiniteDirs
<1>9. ASSUME NEW t \in Threads, RecoverLock(t)
      PROVE  DataType' /\ FiniteDirs'
    <2>1. UNCHANGED <<manifest, wal, survivors, dirs, syncedDirs, base, plan, mine, source>>
        BY <1>9, Zenon DEF RecoverLock, disk, synced, locals
    <2> QED
        BY <2>1, <1>a, Zenon DEF DataType, FiniteDirs
<1>10. ASSUME NEW t \in Threads, ApplyBegin(t)
      PROVE  DataType' /\ FiniteDirs'
    <2>1. (base \in [Threads -> Manifest])'
        BY <1>10, <1>d, <1>l, Zenon
        DEF ApplyBegin
    <2>2. (plan \in [Threads -> Seq(Events)])'
        <3>1. \A p \in Plans(BatchEvents(Applied(t)), MaxSlices) : p \in Seq(Events)
            <4>1. Applied(t) \in Batches
                BY <1>10, <1>a, AppliedType, Zenon DEF ApplyBegin
            <4> QED
                BY <4>1, BatchEventsType, PlansType, StoreAssumption, Zenon
        <3> QED
            BY <1>10, <1>l, <3>1, Zenon DEF ApplyBegin
    <2>3. UNCHANGED <<manifest, wal, survivors, dirs, syncedDirs, mine, source>>
        BY <1>10, Zenon DEF ApplyBegin, disk, synced, locals
    <2> QED
        BY <2>1, <2>2, <2>3, <1>a, Zenon DEF DataType, FiniteDirs
<1>11. ASSUME NEW t \in Threads, UpdateWrite(t)
      PROVE  DataType' /\ FiniteDirs'
    <2>k. "seg" \in Kinds /\ "compact" \in Kinds /\ IsFiniteSet(dirs)
        BY <1>s, Zenon DEF Kinds, FiniteDirs
    <2>1. /\ (dirs \subseteq Descriptor)' /\ (syncedDirs \subseteq Descriptor)'
          /\ FiniteDirs'
          /\ (plan \in [Threads -> Seq(Events)])'
          /\ (mine \in [Threads -> Seq(Descriptor)])'
        BY <1>11, <1>a, <1>s, <1>l, <2>k, WriteSliceType, Zenon
        DEF UpdateWrite, FiniteDirs, synced
    <2>2. UNCHANGED <<manifest, wal, survivors, base, source>>
        BY <1>11, Zenon DEF UpdateWrite, disk, synced, locals
    <2> QED
        BY <2>1, <2>2, <1>a, Zenon DEF DataType, FiniteDirs
<1>12. ASSUME NEW t \in Threads, UpdateSeal(t)
      PROVE  DataType' /\ FiniteDirs'
    <2>1. /\ (dirs \subseteq Descriptor)' /\ (syncedDirs \subseteq Descriptor)'
          /\ FiniteDirs'
        BY <1>12, <1>s, Zenon
        DEF UpdateSeal, FiniteDirs, disk
    <2>2. UNCHANGED <<manifest, wal, survivors, base, plan, mine, source>>
        BY <1>12, Zenon DEF UpdateSeal, disk, synced, locals
    <2> QED
        BY <2>1, <2>2, <1>a, Zenon DEF DataType, FiniteDirs
<1>13. ASSUME NEW t \in Threads, UpdatePublish(t)
      PROVE  DataType' /\ FiniteDirs'
    <2>1. /\ (manifest \in Manifest)' /\ (wal \in Wal \cup {NoWal})'
          /\ (survivors \subseteq [manifest: Manifest, wal: Wal \cup {NoWal}])'
        <3>1. Candidate(t) \in Seq(Descriptor)
            BY <1>l, RecordFacts, ListConcat, Zenon DEF Candidate
        <3>2. Append(base[t].log, Applied(t)) \in Seq(Batches)
            <4>1. Applied(t) \in Batches
                BY <1>13, <1>a, AppliedType, Zenon DEF UpdatePublish
            <4> QED
                BY <1>l, <4>1, RecordFacts, ListAppend, Zenon
        <3>3. [gen |-> base[t].gen + 1, segs |-> Candidate(t),
               log |-> Append(base[t].log, Applied(t))] \in Manifest
            BY <1>l, <3>1, <3>2, NextManifestType, Zenon
        <3> QED
            BY <1>13, <1>a, <1>d, <3>3, ChangeIndexDirType, Zenon
            DEF UpdatePublish, PublishIfGeneration
    <2>2. UNCHANGED <<dirs, syncedDirs, base, plan, mine, source>>
        BY <1>13, Zenon DEF UpdatePublish, disk, synced, locals
    <2> QED
        BY <2>1, <2>2, <1>a, Zenon DEF DataType, FiniteDirs
<1>14. ASSUME NEW t \in Threads, UpdatePublishSync(t)
      PROVE  DataType' /\ FiniteDirs'
    <2>1. /\ (manifest \in Manifest)' /\ (wal \in Wal \cup {NoWal})'
          /\ (survivors \subseteq [manifest: Manifest, wal: Wal \cup {NoWal}])'
        BY <1>14, <1>a, <1>d, SyncIndexDirType, Zenon
        DEF UpdatePublishSync, disk
    <2>2. UNCHANGED <<dirs, syncedDirs, base, plan, mine, source>>
        BY <1>14, Zenon DEF UpdatePublishSync, disk, synced, locals
    <2> QED
        BY <2>1, <2>2, <1>a, Zenon DEF DataType, FiniteDirs
<1>15. ASSUME NEW t \in Threads, WalClear(t)
      PROVE  DataType' /\ FiniteDirs'
    <2>1. /\ (manifest \in Manifest)' /\ (wal \in Wal \cup {NoWal})'
          /\ (survivors \subseteq [manifest: Manifest, wal: Wal \cup {NoWal}])'
        BY <1>15, <1>a, <1>d, ChangeIndexDirType, Zenon
        DEF WalClear
    <2>2. /\ (base \in [Threads -> Manifest])'
          /\ (plan \in [Threads -> Seq(Events)])'
          /\ (mine \in [Threads -> Seq(Descriptor)])'
        BY <1>15, <1>a, <1>l, ResetApplyType, Zenon
        DEF WalClear, ApplyReturn, CompactReturn, locals
    <2>3. UNCHANGED <<dirs, syncedDirs, source>>
        BY <1>15, Zenon DEF WalClear, disk, synced, locals
    <2> QED
        BY <2>1, <2>2, <2>3, <1>a, Zenon DEF DataType, FiniteDirs
<1>16. ASSUME NEW t \in Threads, WalClearSync(t)
      PROVE  DataType' /\ FiniteDirs'
    <2>1. /\ (manifest \in Manifest)' /\ (wal \in Wal \cup {NoWal})'
          /\ (survivors \subseteq [manifest: Manifest, wal: Wal \cup {NoWal}])'
        BY <1>16, <1>a, <1>d, SyncIndexDirType, Zenon
        DEF WalClearSync, disk
    <2>2. /\ (base \in [Threads -> Manifest])'
          /\ (plan \in [Threads -> Seq(Events)])'
          /\ (mine \in [Threads -> Seq(Descriptor)])'
        BY <1>16, <1>a, <1>l, ResetApplyType, Zenon
        DEF WalClearSync, ApplyReturn, CompactReturn, locals
    <2>3. UNCHANGED <<dirs, syncedDirs, source>>
        BY <1>16, Zenon DEF WalClearSync, disk, synced, locals
    <2> QED
        BY <2>1, <2>2, <2>3, <1>a, Zenon DEF DataType, FiniteDirs
<1>17. ASSUME NEW t \in Threads, ApplyAbort(t)
      PROVE  DataType' /\ FiniteDirs'
    <2>1. /\ (dirs \subseteq Descriptor)' /\ (syncedDirs \subseteq Descriptor)'
          /\ FiniteDirs'
        BY <1>17, <1>s, RemoveFacts, Zenon
        DEF ApplyAbort, synced, FiniteDirs
    <2>2. (base \in [Threads -> Manifest])'
        BY <1>17, <1>a, <1>l, ResetApplyType, Zenon
        DEF ApplyAbort, ApplyReturn
    <2>3. (plan \in [Threads -> Seq(Events)])'
        BY <1>17, <1>a, <1>l, ResetApplyType, Zenon
        DEF ApplyAbort, ApplyReturn
    <2>4. (mine \in [Threads -> Seq(Descriptor)])'
        <3>1. <<>> \in Seq(Descriptor)
            BY SMTT(30)
        <3> QED
            BY <1>17, <1>a, <1>l, <3>1, ResetApplyType, Zenon DEF ApplyAbort, ApplyReturn
    <2>5. UNCHANGED <<manifest, wal, survivors, source>>
        BY <1>17, Zenon DEF ApplyAbort, disk, synced, locals
    <2> QED
        BY <2>1, <2>2, <2>3, <2>4, <2>5, <1>a, Zenon DEF DataType, FiniteDirs
<1>18. ASSUME NEW t \in Compactors, StartCompact(t)
      PROVE  DataType' /\ FiniteDirs'
    <2>1. UNCHANGED <<manifest, wal, survivors, dirs, syncedDirs, base, plan, mine, source>>
        BY <1>18, Zenon DEF StartCompact, disk, synced, locals
    <2> QED
        BY <2>1, <1>a, Zenon DEF DataType, FiniteDirs
<1>19. ASSUME NEW t \in Compactors, CompactWal(t)
      PROVE  DataType' /\ FiniteDirs'
    <2>1. UNCHANGED <<manifest, wal, survivors, dirs, syncedDirs, base, plan, mine, source>>
        BY <1>19, Zenon DEF CompactWal, disk, synced, locals
    <2> QED
        BY <2>1, <1>a, Zenon DEF DataType, FiniteDirs
<1>20. ASSUME NEW t \in Compactors, CompactPolicy(t)
      PROVE  DataType' /\ FiniteDirs'
    <2>t. t \in Threads
        BY Zenon DEF Threads
    <2>1. /\ (manifest \in Manifest)' /\ (wal \in Wal \cup {NoWal})'
          /\ (survivors \subseteq [manifest: Manifest, wal: Wal \cup {NoWal}])'
        BY <1>20, <1>a, <1>d, SyncIndexDirType, <2>t, Zenon
        DEF CompactPolicy, StatusWrite, disk
    <2>2. (base \in [Threads -> Manifest])'
        BY <1>20, <1>a, <1>d, <1>l, ResetApplyType, <2>t, Zenon
        DEF CompactPolicy, CompactReturn
    <2>3. (plan \in [Threads -> Seq(Events)])'
        BY <1>20, <1>a, <1>l, ResetApplyType, <2>t, Zenon
        DEF CompactPolicy, CompactReturn
    <2>4. (mine \in [Threads -> Seq(Descriptor)])'
        BY <1>20, <1>a, <1>l, ResetApplyType, <2>t, Zenon
        DEF CompactPolicy, CompactReturn
    <2>5. (source \in [Threads -> [first: Nat, segs: Seq(Descriptor)]])'
        BY <1>20, <1>l, RecordFacts, <2>t, Zenon
        DEF CompactPolicy, CompactReturn
    <2>6. UNCHANGED <<dirs, syncedDirs>>
        BY <1>20, Zenon DEF CompactPolicy, disk, synced, locals
    <2> QED
        BY <2>1, <2>2, <2>3, <2>4, <2>5, <2>6, <1>a, Zenon DEF DataType, FiniteDirs
<1>21. ASSUME NEW t \in Compactors, CompactGc(t)
      PROVE  DataType' /\ FiniteDirs'
    <2>t. t \in Threads
        BY Zenon DEF Threads
    <2>1. /\ (dirs \subseteq Descriptor)' /\ (syncedDirs \subseteq Descriptor)'
          /\ FiniteDirs'
        BY <1>21, <1>s, RemoveFacts, <2>t, Zenon
        DEF CompactGc, synced, FiniteDirs
    <2>2. (source \in [Threads -> [first: Nat, segs: Seq(Descriptor)]])'
        <3>1. \A r \in Ranges(base[t].segs) : r \in [first: Nat, segs: Seq(Descriptor)]
            BY <1>l, <2>t, RecordFacts, RangesFacts, Zenon
        <3> QED
            BY <1>21, <1>l, <3>1, Zenon DEF CompactGc
    <2>3. UNCHANGED <<manifest, wal, survivors, base, plan, mine>>
        BY <1>21, Zenon DEF CompactGc, disk, synced, locals
    <2> QED
        BY <2>1, <2>2, <2>3, <1>a, Zenon DEF DataType, FiniteDirs
<1>22. ASSUME NEW t \in Compactors, CompactCollect(t)
      PROVE  DataType' /\ FiniteDirs'
    <2>t. t \in Threads
        BY Zenon DEF Threads
    <2>1. (plan \in [Threads -> Seq(Events)])'
        <3>1. \A p \in Plans(CollectRange(source[t].segs, DropTombstones(t)), MaxSlices) :
                  p \in Seq(Events)
            <4>1. source[t].segs \in Seq(Descriptor) /\ DropTombstones(t) \in BOOLEAN
                BY <1>l, <2>t, Zenon DEF DropTombstones
            <4> QED
                BY <4>1, CollectRangeType, PlansType, StoreAssumption, Zenon
        <3> QED
            BY <1>22, <1>l, <3>1, Zenon DEF CompactCollect
    <2>2. UNCHANGED <<manifest, wal, survivors, dirs, syncedDirs, base, mine, source>>
        BY <1>22, Zenon DEF CompactCollect, disk, synced, locals
    <2> QED
        BY <2>1, <2>2, <1>a, Zenon DEF DataType, FiniteDirs
<1>23. ASSUME NEW t \in Compactors, CompactWrite(t)
      PROVE  DataType' /\ FiniteDirs'
    <2>t. t \in Threads
        BY Zenon DEF Threads
    <2>k. "seg" \in Kinds /\ "compact" \in Kinds /\ IsFiniteSet(dirs)
        BY <1>s, Zenon DEF Kinds, FiniteDirs
    <2>1. /\ (dirs \subseteq Descriptor)' /\ (syncedDirs \subseteq Descriptor)'
          /\ FiniteDirs'
          /\ (plan \in [Threads -> Seq(Events)])'
          /\ (mine \in [Threads -> Seq(Descriptor)])'
        BY <1>23, <1>a, <1>s, <1>l, <2>k, WriteSliceType, <2>t, Zenon
        DEF CompactWrite, FiniteDirs, synced
    <2>2. UNCHANGED <<manifest, wal, survivors, base, source>>
        BY <1>23, Zenon DEF CompactWrite, disk, synced, locals
    <2> QED
        BY <2>1, <2>2, <1>a, Zenon DEF DataType, FiniteDirs
<1>24. ASSUME NEW t \in Compactors, CompactSync(t)
      PROVE  DataType' /\ FiniteDirs'
    <2>1. /\ (dirs \subseteq Descriptor)' /\ (syncedDirs \subseteq Descriptor)'
          /\ FiniteDirs'
        BY <1>24, <1>s, Zenon
        DEF CompactSync, FiniteDirs, disk
    <2>2. UNCHANGED <<manifest, wal, survivors, base, plan, mine, source>>
        BY <1>24, Zenon DEF CompactSync, disk, synced, locals
    <2> QED
        BY <2>1, <2>2, <1>a, Zenon DEF DataType, FiniteDirs
<1>25. ASSUME NEW t \in Compactors, CompactRelock(t)
      PROVE  DataType' /\ FiniteDirs'
    <2>1. (base \in [Threads -> Manifest])'
        BY <1>25, <1>d, <1>l, Zenon
        DEF CompactRelock
    <2>2. UNCHANGED <<manifest, wal, survivors, dirs, syncedDirs, plan, mine, source>>
        BY <1>25, Zenon DEF CompactRelock, disk, synced, locals
    <2> QED
        BY <2>1, <2>2, <1>a, Zenon DEF DataType, FiniteDirs
<1>26. ASSUME NEW t \in Compactors, CompactPublish(t)
      PROVE  DataType' /\ FiniteDirs'
    <2>t. t \in Threads
        BY Zenon DEF Threads
    <2>1. /\ (manifest \in Manifest)' /\ (wal \in Wal \cup {NoWal})'
          /\ (survivors \subseteq [manifest: Manifest, wal: Wal \cup {NoWal}])'
        <3>1. CASE PublishIfGeneration(t, Replaced(base[t].segs, source[t], mine[t]),
                                       base[t].log)
            <4>1. Replaced(base[t].segs, source[t], mine[t]) \in Seq(Descriptor)
                <5>1. RangeUnchanged(source[t], base[t].segs)
                    BY <1>26, <1>a, <2>t, Zenon DEF CompactPublish, RangeChecked
                <5> QED
                    BY <1>l, <2>t, <5>1, RecordFacts, ReplacedFacts, Zenon
            <4>2. [gen |-> base[t].gen + 1,
                   segs |-> Replaced(base[t].segs, source[t], mine[t]),
                   log |-> base[t].log] \in Manifest
                BY <1>l, <2>t, <4>1, RecordFacts, NextManifestType, Zenon
            <4> QED
                BY <1>a, <1>d, <3>1, <4>2, ChangeIndexDirType, Zenon DEF PublishIfGeneration
        <3>2. CASE UNCHANGED <<manifest, wal, survivors>>
            BY <1>d, <3>2, Zenon
        <3> QED
            BY <1>26, <3>1, <3>2, Zenon DEF CompactPublish
    <2>2. UNCHANGED <<dirs, syncedDirs, base, plan, mine, source>>
        BY <1>26, Zenon DEF CompactPublish, disk, synced, locals
    <2> QED
        BY <2>1, <2>2, <1>a, Zenon DEF DataType, FiniteDirs
<1>27. ASSUME NEW t \in Compactors, CompactPublishSync(t)
      PROVE  DataType' /\ FiniteDirs'
    <2>1. /\ (manifest \in Manifest)' /\ (wal \in Wal \cup {NoWal})'
          /\ (survivors \subseteq [manifest: Manifest, wal: Wal \cup {NoWal}])'
        BY <1>27, <1>a, <1>d, SyncIndexDirType, Zenon
        DEF CompactPublishSync, disk
    <2>2. UNCHANGED <<dirs, syncedDirs, base, plan, mine, source>>
        BY <1>27, Zenon DEF CompactPublishSync, disk, synced, locals
    <2> QED
        BY <2>1, <2>2, <1>a, Zenon DEF DataType, FiniteDirs
<1>28. ASSUME NEW t \in Compactors, CompactObsolete(t)
      PROVE  DataType' /\ FiniteDirs'
    <2>1. /\ (dirs \subseteq Descriptor)' /\ (syncedDirs \subseteq Descriptor)'
          /\ FiniteDirs'
        BY <1>28, <1>s, RemoveFacts, Zenon
        DEF CompactObsolete, synced, FiniteDirs
    <2>2. (mine \in [Threads -> Seq(Descriptor)])'
        <3>1. <<>> \in Seq(Descriptor)
            BY SMTT(30)
        <3> QED
            BY <1>28, <1>l, <3>1, Zenon DEF CompactObsolete
    <2>3. UNCHANGED <<manifest, wal, survivors, base, plan, source>>
        BY <1>28, Zenon DEF CompactObsolete, disk, synced, locals
    <2> QED
        BY <2>1, <2>2, <2>3, <1>a, Zenon DEF DataType, FiniteDirs
<1>29. ASSUME NEW t \in Compactors, CompactUnlock(t)
      PROVE  DataType' /\ FiniteDirs'
    <2>1. UNCHANGED <<manifest, wal, survivors, dirs, syncedDirs, base, plan, mine, source>>
        BY <1>29, Zenon DEF CompactUnlock, disk, synced, locals
    <2> QED
        BY <2>1, <1>a, Zenon DEF DataType, FiniteDirs
<1>30. ASSUME NEW t \in Compactors, CompactStatus(t)
      PROVE  DataType' /\ FiniteDirs'
    <2>1. /\ (manifest \in Manifest)' /\ (wal \in Wal \cup {NoWal})'
          /\ (survivors \subseteq [manifest: Manifest, wal: Wal \cup {NoWal}])'
        BY <1>30, <1>a, <1>d, SyncIndexDirType, Zenon
        DEF CompactStatus, StatusWrite, disk
    <2>2. UNCHANGED <<dirs, syncedDirs, base, plan, mine, source>>
        BY <1>30, Zenon DEF CompactStatus, disk, synced, locals
    <2> QED
        BY <2>1, <2>2, <1>a, Zenon DEF DataType, FiniteDirs
<1>31. ASSUME NEW t \in Compactors, CompactClean(t)
      PROVE  DataType' /\ FiniteDirs'
    <2>t. t \in Threads
        BY Zenon DEF Threads
    <2>1. /\ (dirs \subseteq Descriptor)' /\ (syncedDirs \subseteq Descriptor)'
          /\ FiniteDirs'
        BY <1>31, <1>s, RemoveFacts, <2>t, Zenon
        DEF CompactClean, synced, FiniteDirs
    <2>2. /\ (base \in [Threads -> Manifest])'
          /\ (plan \in [Threads -> Seq(Events)])'
          /\ (mine \in [Threads -> Seq(Descriptor)])'
        BY <1>31, <1>a, <1>l, ResetApplyType, <2>t, Zenon
        DEF CompactClean, ApplyReturn, CompactReturn, locals
    <2>3. (source \in [Threads -> [first: Nat, segs: Seq(Descriptor)]])'
        BY <1>31, <1>l, RecordFacts, <2>t, Zenon
        DEF CompactClean, CompactReturn
    <2>4. UNCHANGED <<manifest, wal, survivors>>
        BY <1>31, Zenon DEF CompactClean, disk, synced, locals
    <2> QED
        BY <2>1, <2>2, <2>3, <2>4, <1>a, Zenon DEF DataType, FiniteDirs
<1>32. ASSUME NEW p, Crash(p)
      PROVE  DataType' /\ FiniteDirs'
    <2>1. /\ (base \in [Threads -> Manifest])'
          /\ (plan \in [Threads -> Seq(Events)])'
          /\ (mine \in [Threads -> Seq(Descriptor)])'
          /\ (source \in [Threads -> [first: Nat, segs: Seq(Descriptor)]])'
        BY <1>32, <1>a, KillType, Zenon
        DEF Crash
    <2>2. UNCHANGED <<manifest, wal, survivors, dirs, syncedDirs>>
        BY <1>32, Zenon DEF Crash, disk, synced, locals
    <2> QED
        BY <2>1, <2>2, <1>a, Zenon DEF DataType, FiniteDirs
<1>33. ASSUME PowerFail
      PROVE  DataType' /\ FiniteDirs'
    <2>1. /\ (manifest \in Manifest)' /\ (wal \in Wal \cup {NoWal})'
          /\ (survivors \subseteq [manifest: Manifest, wal: Wal \cup {NoWal}])'
        BY <1>33, <1>d, Zenon
        DEF PowerFail
    <2>2. /\ (dirs \subseteq Descriptor)' /\ (syncedDirs \subseteq Descriptor)'
          /\ FiniteDirs'
        <3>1. dirs' \subseteq dirs \cup syncedDirs
            BY <1>33, Zenon DEF PowerFail
        <3>2. IsFiniteSet(dirs \cup syncedDirs)
            BY <1>s, FiniteUnion, Zenon DEF FiniteDirs
        <3>3. IsFiniteSet(dirs')
            BY <3>1, <3>2, FiniteSubset, Zenon
        <3> QED
            BY <1>33, <1>s, <3>1, <3>3, Zenon DEF PowerFail, FiniteDirs
    <2>3. /\ (base \in [Threads -> Manifest])'
          /\ (plan \in [Threads -> Seq(Events)])'
          /\ (mine \in [Threads -> Seq(Descriptor)])'
          /\ (source \in [Threads -> [first: Nat, segs: Seq(Descriptor)]])'
        BY <1>33, <1>a, KillType, Zenon
        DEF PowerFail
    <2> QED
        BY <2>1, <2>2, <2>3, <1>a, Zenon DEF DataType, FiniteDirs
<1>34. CASE UNCHANGED vars
    BY <1>34, <1>a, Zenon
    DEF vars, DataType, FiniteDirs, disk, synced, locks, locals, ghosts
<1> QED
    BY <1>1, <1>2, <1>3, <1>4, <1>5, <1>6, <1>7, <1>8, <1>9, <1>10, <1>11,
        <1>12, <1>13, <1>14, <1>15, <1>16, <1>17, <1>18, <1>19, <1>20, <1>21,
        <1>22, <1>23, <1>24, <1>25, <1>26, <1>27, <1>28, <1>29, <1>30, <1>31,
        <1>32, <1>33, <1>34, ZenonT(60)
    DEF Next, UpdateStep, RecoverStep, ApplyStep, CompactStep

-----------------------------------------------------------------------------
LEMMA TypeInit == Init => TypeInv
<1> SUFFICES ASSUME Init PROVE TypeInv
    BY Zenon
<1>1. ControlType
    BY StoreAssumption, SMTT(30) DEF Init, ControlType, Labels
<1>2. DataType
    <2>1. manifest \in Manifest
        <3>1. <<BuiltSegment>> \in Seq(Descriptor) /\ <<>> \in Seq(Batches)
            BY BuiltSegmentType, SMTT(30)
        <3> QED
            BY <3>1, RecordFacts, Zenon DEF Init
    <2>2. dirs \subseteq Descriptor /\ syncedDirs \subseteq Descriptor
        BY BuiltSegmentType, Zenon DEF Init
    <2>3. <<>> \in Seq(Events) /\ <<>> \in Seq(Descriptor)
        BY SMTT(30)
    <2>4. /\ base \in [Threads -> Manifest]
          /\ plan \in [Threads -> Seq(Events)]
          /\ mine \in [Threads -> Seq(Descriptor)]
          /\ source \in [Threads -> [first: Nat, segs: Seq(Descriptor)]]
        BY <2>3, RecordFacts, Zenon DEF Init
    <2>5. /\ wal \in Wal \cup {NoWal}
          /\ survivors \subseteq [manifest: Manifest, wal: Wal \cup {NoWal}]
        BY <2>1, SMTT(30) DEF Init
    <2> QED
        BY <2>1, <2>2, <2>4, <2>5, Zenon DEF DataType
<1>3. FiniteDirs
    BY FiniteSingle, Zenon DEF Init, FiniteDirs
<1>4. RangeChecked /\ WriterExclusion /\ BatchAtHand
    BY Zenon DEF Init, RangeChecked, WriterExclusion, Holding, BatchAtHand
<1> QED
    BY <1>1, <1>2, <1>3, <1>4, Zenon DEF TypeInv

LEMMA TypeStep ==
    ASSUME TypeInv, [Next]_vars
    PROVE  TypeInv'
<1>1. /\ ControlType /\ DataType /\ FiniteDirs /\ RangeChecked
      /\ WriterExclusion /\ BatchAtHand
    BY Zenon DEF TypeInv
<1>2. DOMAIN base = Threads /\ DOMAIN source = Threads
    BY <1>1, Zenon DEF DataType
<1>3. ControlType'
    BY <1>1, ControlStep, Zenon
<1>4. DataType' /\ FiniteDirs'
    BY <1>1, DataStep, Zenon
<1>5. RangeChecked'
    BY <1>1, <1>2, RangeCheckedStep, Zenon
<1>6. WriterExclusion' /\ BatchAtHand'
    BY <1>1, ExclusionStep, BatchStep, Zenon
<1> QED
    BY <1>3, <1>4, <1>5, <1>6, Zenon DEF TypeInv

LEMMA TypeInvariant == Spec => []TypeInv
<1>1. Init => TypeInv
    BY TypeInit, Zenon
<1>2. TypeInv /\ [Next]_vars => TypeInv'
    BY TypeStep, Zenon
<1> QED
    BY <1>1, <1>2, PTL DEF Spec

(* Every variable keeps its type whatever updates, recoveries, compactions,*)
(* crashes and power losses do: in particular the manifest a compaction    *)
(* builds around its range, and the batch a replay takes from the WAL, are *)
(* always well formed.                                                     *)
THEOREM TypeCorrect == Spec => []TypeOK
<1>1. TypeInv => TypeOK
    BY TypeParts, Zenon DEF TypeInv
<1> QED
    BY <1>1, TypeInvariant, PTL

(* update_apply, update_recover and compact_internal exclude each other    *)
(* wherever they rely on the writer lock.                                  *)
THEOREM WritersExclude == Spec => []WriterExclusion
<1>1. TypeInv => WriterExclusion
    BY Zenon DEF TypeInv
<1> QED
    BY <1>1, TypeInvariant, PTL
=============================================================================
