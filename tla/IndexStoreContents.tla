------------------------- MODULE IndexStoreContents -------------------------
(***************************************************************************)
(* What the index holds: the segments of every manifest an update or a     *)
(* compaction publishes say what its batches say, and every step is a step *)
(* of the index IndexSpec promises.                                        *)
(***************************************************************************)
EXTENDS IndexStoreSteps, SegmentsProofs

(* Labels: a batch is planned, a range is planned, segments are being      *)
(* written from the plan, all of them are written, none is.                *)
Planned == {"wal_write", "wal_sync", "write", "publish"}

Rewriting == {"compact_write", "compact_relock", "compact_publish"}

Writing == {"write", "publish"} \cup Rewriting

Written == {"publish", "compact_relock", "compact_publish"}

Blank == {"idle", "recover", "recover_lock", "apply_lock", "apply", "wal_write",
          "wal_sync", "compact_wal", "compact_policy", "compact_gc", "compact_collect"}

(* Plan p holds what range r says; tombstones may be missing where nothing *)
(* is in front of the range.                                               *)
Gathers(p, r) ==
    \E drop \in BOOLEAN : /\ Covers(p, CollectRange(r.segs, drop))
                          /\ drop => r.first = 0

Within(r, segs) == r.first + Len(r.segs) <= Len(segs)

PlanOk(t) ==
    /\ pc[t] \in Planned => Covers(plan[t], BatchEvents(Applied(t)))
    /\ pc[t] \in Rewriting => Gathers(plan[t], source[t])
    /\ pc[t] = "compact_collect" => Within(source[t], base[t].segs)
    /\ pc[t] \in Writing => Copied(mine[t], plan[t])
    /\ pc[t] \in Written => Len(mine[t]) = Len(plan[t])
    /\ pc[t] \in Blank => mine[t] = <<>>

PlanInv == \A t \in Threads : PlanOk(t)

(* The inductive invariant behind IndexReflectsLog.                        *)
ContentsInv == PlanInv /\ \A s \in survivors : Reflects(s.manifest)

-----------------------------------------------------------------------------
(* What the steps do to a plan and to the segments written from it.        *)

Steady(t) ==
    /\ own'[t] = own[t] /\ replay'[t] = replay[t]
    /\ base'[t] = base[t] /\ plan'[t] = plan[t]
    /\ mine'[t] = mine[t] /\ source'[t] = source[t]

(* The others keep theirs, and a WAL is replaced under the writer lock.    *)
Aside(t) ==
    /\ \A u \in Threads \ {t} : pc'[u] = pc[u] /\ Steady(u)
    /\ wal' = wal \/ pc[t] \in Holding

(* Nothing is planned after the step.                                      *)
Loose(t) ==
    /\ Aside(t)
    /\ pc'[t] \notin Planned \cup Writing \cup {"compact_collect"}
    /\ pc'[t] \in Blank => mine'[t] = <<>> \/ (pc[t] \in Blank /\ mine'[t] = mine[t])

(* A batch is planned, its WAL is written.                                 *)
Draft(t) ==
    /\ Aside(t) /\ wal' = wal
    /\ pc[t] = "apply" /\ pc'[t] \in {"wal_write", "write"}
    /\ plan'[t] \in Plans(BatchEvents(Applied(t)), MaxSlices)
    /\ own'[t] = own[t] /\ replay'[t] = replay[t] /\ mine'[t] = mine[t]

Record(t) ==
    /\ Aside(t) /\ Steady(t)
    /\ pc[t] \in {"wal_write", "wal_sync"} /\ pc'[t] \in {"wal_sync", "write"}

(* A segment is written, or the slice is bisected.                         *)
Cut(t) ==
    LET k == Len(mine[t]) + 1
    IN  /\ Aside(t) /\ wal' = wal
        /\ pc[t] \in {"write", "compact_write"} /\ pc'[t] = pc[t]
        /\ own'[t] = own[t] /\ replay'[t] = replay[t] /\ source'[t] = source[t]
        /\ k <= Len(plan[t])
        /\ \/ /\ plan'[t] = plan[t]
              /\ \E d \in dirs' : d.ev = plan[t][k] /\ mine'[t] = Append(mine[t], d)
           \/ plan'[t] \in Bisections(plan[t], k) /\ mine'[t] = <<>>

(* All segments are written; a compaction has its lock back.               *)
Finish(t) ==
    /\ Aside(t) /\ wal' = wal
    /\ own'[t] = own[t] /\ replay'[t] = replay[t] /\ plan'[t] = plan[t]
    /\ mine'[t] = mine[t] /\ source'[t] = source[t]
    /\ \/ /\ Len(mine[t]) = Len(plan[t])
          /\ \/ pc[t] = "write" /\ pc'[t] = "publish"
             \/ pc[t] = "compact_write" /\ pc'[t] = "compact_relock"
       \/ pc[t] = "compact_relock" /\ pc'[t] = "compact_publish"

(* A range is selected, and planned.                                       *)
Select(t) ==
    /\ Aside(t)
    /\ pc[t] = "compact_gc" /\ pc'[t] = "compact_collect"
    /\ source'[t] \in Ranges(base[t].segs)
    /\ base'[t] = base[t] /\ mine'[t] = mine[t]

Gather(t) ==
    /\ Aside(t)
    /\ pc[t] = "compact_collect" /\ pc'[t] = "compact_write"
    /\ plan'[t] \in Plans(CollectRange(source[t].segs, DropTombstones(t)), MaxSlices)
    /\ source'[t] = source[t] /\ mine'[t] = mine[t]

(* Some threads die.                                                       *)
Halt ==
    \A t \in Threads : \/ pc'[t] = "idle" /\ mine'[t] = <<>>
                       \/ pc'[t] = pc[t] /\ Steady(t) /\ wal' = wal

Duty(t) ==
    \/ Loose(t) \/ Draft(t) \/ Record(t) \/ Cut(t) \/ Finish(t) \/ Select(t) \/ Gather(t)

LEMMA SliceCut ==
    ASSUME TypeInv, NEW t \in Threads, NEW kind, WriteSlice(t, kind)
    PROVE  /\ Len(mine[t]) + 1 <= Len(plan[t])
           /\ \A u \in Threads \ {t} : plan'[u] = plan[u] /\ mine'[u] = mine[u]
           /\ \/ /\ plan'[t] = plan[t]
                 /\ \E d \in dirs' : /\ d.ev = plan[t][Len(mine[t]) + 1]
                                     /\ mine'[t] = Append(mine[t], d)
              \/ /\ plan'[t] \in Bisections(plan[t], Len(mine[t]) + 1)
                 /\ mine'[t] = <<>>
<1> DEFINE k == Len(mine[t]) + 1
<1>1. k <= Len(plan[t])
    BY Zenon DEF WriteSlice
<1>2. plan \in [Threads -> Seq(Events)] /\ mine \in [Threads -> Seq(Descriptor)]
    BY Zenon DEF TypeInv, DataType
<1>3. PICK d : /\ d.ev = plan[t][k]
               /\ \/ /\ dirs' = dirs \cup {d}
                     /\ mine' = [mine EXCEPT ![t] = Append(mine[t], d)]
                     /\ plan' = plan
                  \/ /\ mine' = [mine EXCEPT ![t] = <<>>]
                     /\ \E p \in Bisections(plan[t], k) : plan' = [plan EXCEPT ![t] = p]
    <2> HIDE DEF k
    <2>1. PICK n : LET d == Segment(kind, base[t].gen + 1, n, plan[t][k])
                   IN  \/ /\ dirs' = dirs \cup {d}
                          /\ mine' = [mine EXCEPT ![t] = Append(mine[t], d)]
                          /\ plan' = plan
                       \/ /\ mine' = [mine EXCEPT ![t] = <<>>]
                          /\ \E p \in Bisections(plan[t], k) : plan' = [plan EXCEPT ![t] = p]
        BY <1>2, Zenon DEF WriteSlice, k
    <2>2. Segment(kind, base[t].gen + 1, n, plan[t][k]).ev = plan[t][k]
        BY Zenon DEF Segment
    <2> QED
        BY <2>1, <2>2, Zenon
<1> HIDE DEF k
<1>4. /\ \A u \in Threads \ {t} : plan'[u] = plan[u] /\ mine'[u] = mine[u]
      /\ \/ /\ plan'[t] = plan[t]
            /\ d \in dirs' /\ d.ev = plan[t][k] /\ mine'[t] = Append(mine[t], d)
         \/ plan'[t] \in Bisections(plan[t], k) /\ mine'[t] = <<>>
    BY <1>2, <1>3, Zenon
<1> QED
    BY <1>1, <1>4, Zenon DEF k

(* Every step is one of these.                                             *)
LEMMA StepDuty ==
    ASSUME TypeInv, [Next]_vars
    PROVE  (\E t \in Threads : Duty(t)) \/ Halt
<1>t. Updaters \subseteq Threads /\ Compactors \subseteq Threads
    BY Zenon DEF Threads
<1>   /\ pc \in [Threads -> Labels] /\ own \in [Threads -> Batches \cup {NoBatch}]
      /\ replay \in [Threads -> BOOLEAN] /\ base \in [Threads -> Manifest]
      /\ plan \in [Threads -> Seq(Events)] /\ mine \in [Threads -> Seq(Descriptor)]
      /\ source \in [Threads -> [first: Nat, segs: Seq(Descriptor)]]
    BY Zenon DEF TypeInv, ControlType, DataType
<1> USE DEF Goto, disk, locals
<1>1. ASSUME NEW t \in Updaters, NEW b \in Batches, StartUpdate(t, b)
      PROVE  Loose(t)
    BY <1>1, <1>t, Zenon
    DEF StartUpdate, Loose, Aside, Steady, Planned, Writing, Rewriting, Blank
<1>2. ASSUME NEW t \in Updaters, StartRecover(t)
      PROVE  Loose(t)
    BY <1>2, <1>t, Zenon
    DEF StartRecover, Loose, Aside, Steady, Planned, Writing, Rewriting, Blank
<1>3. ASSUME NEW t \in Updaters, ApplyLock(t)
      PROVE  Loose(t)
    BY <1>3, <1>t, Zenon
    DEF ApplyLock, Loose, Aside, Steady, Planned, Writing, Rewriting, Blank
<1>4. ASSUME NEW t \in Updaters, WalWrite(t)
      PROVE  Record(t) \/ Loose(t)
    BY <1>4, <1>t, Zenon
    DEF WalWrite, Record, Loose, Aside, Steady, Planned, Writing, Rewriting,
        Blank, ChangeIndexDir, Holding
<1>5. ASSUME NEW t \in Updaters, WalSync(t)
      PROVE  Record(t) \/ Loose(t)
    BY <1>5, <1>t, Zenon
    DEF WalSync, Record, Loose, Aside, Steady, Planned, Writing, Rewriting,
        Blank
<1>6. ASSUME NEW t \in Updaters, AbortClear(t)
      PROVE  Loose(t)
    BY <1>6, <1>t, SMTT(30)
    DEF AbortClear, Loose, Aside, Steady, Planned, Writing, Rewriting, Blank,
        ApplyReturn, RecoverReturn, ResetApply, ChangeIndexDir, Holding
<1>7. ASSUME NEW t \in Updaters, AbortSync(t)
      PROVE  Loose(t)
    BY <1>7, <1>t, SMTT(30)
    DEF AbortSync, Loose, Aside, Steady, Planned, Writing, Rewriting, Blank,
        ApplyReturn, RecoverReturn, ResetApply
<1>8. ASSUME NEW t \in Threads, RecoverCheck(t)
      PROVE  Loose(t)
    BY <1>8, <1>t, Zenon
    DEF RecoverCheck, Loose, Aside, Steady, Planned, Writing, Rewriting, Blank,
        RecoverReturn
<1>9. ASSUME NEW t \in Threads, RecoverLock(t)
      PROVE  Loose(t)
    BY <1>9, <1>t, Zenon
    DEF RecoverLock, Loose, Aside, Steady, Planned, Writing, Rewriting, Blank,
        RecoverReturn
<1>10. ASSUME NEW t \in Threads, ApplyBegin(t)
      PROVE  Draft(t) \/ Loose(t)
    BY <1>10, <1>t, Zenon
    DEF ApplyBegin, Draft, Loose, Aside, Steady, Planned, Writing, Rewriting,
        Blank
<1>11. ASSUME NEW t \in Threads, UpdateWrite(t)
      PROVE  Cut(t) \/ Loose(t)
    BY <1>11, <1>t, SliceCut, Zenon
    DEF UpdateWrite, Cut, Loose, Aside, Steady, Planned, Writing, Rewriting,
        Blank
<1>12. ASSUME NEW t \in Threads, UpdateSeal(t)
      PROVE  Finish(t) \/ Loose(t)
    BY <1>12, <1>t, Zenon
    DEF UpdateSeal, Finish, Loose, Aside, Steady, Planned, Writing, Rewriting,
        Blank
<1>13. ASSUME NEW t \in Threads, UpdatePublish(t)
      PROVE  Loose(t)
    BY <1>13, <1>t, Zenon
    DEF UpdatePublish, Loose, Aside, Steady, Planned, Writing, Rewriting,
        Blank, PublishIfGeneration, ChangeIndexDir
<1>14. ASSUME NEW t \in Threads, UpdatePublishSync(t)
      PROVE  Loose(t)
    BY <1>14, <1>t, Zenon
    DEF UpdatePublishSync, Loose, Aside, Steady, Planned, Writing, Rewriting,
        Blank
<1>15. ASSUME NEW t \in Threads, WalClear(t)
      PROVE  Loose(t)
    BY <1>15, <1>t, SMTT(30)
    DEF WalClear, Loose, Aside, Steady, Planned, Writing, Rewriting, Blank,
        ApplyReturn, RecoverReturn, ResetApply, ChangeIndexDir, Holding
<1>16. ASSUME NEW t \in Threads, WalClearSync(t)
      PROVE  Loose(t)
    BY <1>16, <1>t, SMTT(30)
    DEF WalClearSync, Loose, Aside, Steady, Planned, Writing, Rewriting, Blank,
        ApplyReturn, RecoverReturn, ResetApply
<1>17. ASSUME NEW t \in Threads, ApplyAbort(t)
      PROVE  Loose(t)
    BY <1>17, <1>t, SMTT(30)
    DEF ApplyAbort, Loose, Aside, Steady, Planned, Writing, Rewriting, Blank,
        ApplyReturn, RecoverReturn, ResetApply
<1>18. ASSUME NEW t \in Compactors, StartCompact(t)
      PROVE  Loose(t)
    BY <1>18, <1>t, Zenon
    DEF StartCompact, Loose, Aside, Steady, Planned, Writing, Rewriting, Blank
<1>19. ASSUME NEW t \in Compactors, CompactWal(t)
      PROVE  Loose(t)
    BY <1>19, <1>t, Zenon
    DEF CompactWal, Loose, Aside, Steady, Planned, Writing, Rewriting, Blank
<1>20. ASSUME NEW t \in Compactors, CompactPolicy(t)
      PROVE  Loose(t)
    BY <1>20, <1>t, Zenon
    DEF CompactPolicy, Loose, Aside, Steady, Planned, Writing, Rewriting,
        Blank, CompactReturn, ResetApply
<1>21. ASSUME NEW t \in Compactors, CompactGc(t)
      PROVE  Select(t) \/ Loose(t)
    BY <1>21, <1>t, Zenon
    DEF CompactGc, Select, Loose, Aside, Steady, Planned, Writing, Rewriting,
        Blank
<1>22. ASSUME NEW t \in Compactors, CompactCollect(t)
      PROVE  Gather(t) \/ Loose(t)
    BY <1>22, <1>t, Zenon
    DEF CompactCollect, Gather, Loose, Aside, Steady, Planned, Writing,
        Rewriting, Blank
<1>23. ASSUME NEW t \in Compactors, CompactWrite(t)
      PROVE  Cut(t) \/ Loose(t)
    BY <1>23, <1>t, SliceCut, Zenon
    DEF CompactWrite, Cut, Loose, Aside, Steady, Planned, Writing, Rewriting,
        Blank
<1>24. ASSUME NEW t \in Compactors, CompactSync(t)
      PROVE  Finish(t)
    BY <1>24, <1>t, Zenon
    DEF CompactSync, Finish, Aside, Steady
<1>25. ASSUME NEW t \in Compactors, CompactRelock(t)
      PROVE  Finish(t) \/ Loose(t)
    BY <1>25, <1>t, Zenon
    DEF CompactRelock, Finish, Loose, Aside, Steady, Planned, Writing,
        Rewriting, Blank
<1>26. ASSUME NEW t \in Compactors, CompactPublish(t)
      PROVE  Loose(t)
    BY <1>26, <1>t, Zenon
    DEF CompactPublish, Loose, Aside, Steady, Planned, Writing, Rewriting,
        Blank, PublishIfGeneration, ChangeIndexDir
<1>27. ASSUME NEW t \in Compactors, CompactPublishSync(t)
      PROVE  Loose(t)
    BY <1>27, <1>t, Zenon
    DEF CompactPublishSync, Loose, Aside, Steady, Planned, Writing, Rewriting,
        Blank
<1>28. ASSUME NEW t \in Compactors, CompactObsolete(t)
      PROVE  Loose(t)
    BY <1>28, <1>t, Zenon
    DEF CompactObsolete, Loose, Aside, Steady, Planned, Writing, Rewriting,
        Blank
<1>29. ASSUME NEW t \in Compactors, CompactUnlock(t)
      PROVE  Loose(t)
    BY <1>29, <1>t, Zenon
    DEF CompactUnlock, Loose, Aside, Steady, Planned, Writing, Rewriting, Blank
<1>30. ASSUME NEW t \in Compactors, CompactStatus(t)
      PROVE  Loose(t)
    BY <1>30, <1>t, Zenon
    DEF CompactStatus, Loose, Aside, Steady, Planned, Writing, Rewriting, Blank
<1>31. ASSUME NEW t \in Compactors, CompactClean(t)
      PROVE  Loose(t)
    BY <1>31, <1>t, Zenon
    DEF CompactClean, Loose, Aside, Steady, Planned, Writing, Rewriting, Blank,
        CompactReturn, ResetApply
<1>32. ASSUME NEW p, Crash(p)
      PROVE  Halt
    BY <1>32, Zenon DEF Crash, Kill, Halt, Steady
<1>33. ASSUME PowerFail
      PROVE  Halt
    BY <1>33, Zenon DEF PowerFail, Kill, Halt
<1>34. CASE UNCHANGED vars
    BY <1>34, Zenon DEF vars, Halt, Steady
<1> QED
    BY <1>t, <1>1, <1>2, <1>3, <1>4, <1>5, <1>6, <1>7, <1>8, <1>9, <1>10,
        <1>11, <1>12, <1>13, <1>14, <1>15, <1>16, <1>17, <1>18, <1>19, <1>20,
        <1>21, <1>22, <1>23, <1>24, <1>25, <1>26, <1>27, <1>28, <1>29, <1>30,
        <1>31, <1>32, <1>33, <1>34, Zenon
    DEF Next, UpdateStep, RecoverStep, ApplyStep, CompactStep, Duty

-----------------------------------------------------------------------------
(* A plan covers its batch, or its range, until it is published, and the   *)
(* segments written are the first slices of it.                            *)

LEMMA PlanOthers ==
    ASSUME TypeInv, PlanInv, NEW t \in Threads, Aside(t), NEW u \in Threads \ {t}
    PROVE  PlanOk(u)'
<1>1. PlanOk(u) /\ pc'[u] = pc[u] /\ Steady(u)
    BY Zenon DEF PlanInv, Aside
<1>2. pc[u] \in Planned => wal' = wal
    BY Zenon DEF Aside, TypeInv, WriterExclusion, Holding, Planned
<1>3. pc[u] \in Planned => Applied(u)' = Applied(u)
    BY <1>1, <1>2, Zenon DEF Applied, Steady
<1> QED
    BY <1>1, <1>3, Zenon DEF PlanOk, Steady

LEMMA PlanStep ==
    ASSUME TypeInv, TypeInv', PlanInv, [Next]_vars
    PROVE  PlanInv'
<1>a. /\ plan \in [Threads -> Seq(Events)] /\ plan' \in [Threads -> Seq(Events)]
      /\ mine \in [Threads -> Seq(Descriptor)] /\ dirs' \subseteq Descriptor
      /\ source \in [Threads -> [first: Nat, segs: Seq(Descriptor)]]
      /\ base \in [Threads -> Manifest]
      /\ DataType /\ ControlType /\ BatchAtHand /\ replay \in [Threads -> BOOLEAN]
    BY Zenon DEF TypeInv, DataType, ControlType
<1>b. MaxSlices \in Nat
    BY StoreAssumption, SMTT(30)
<1>1. ASSUME NEW t \in Threads, Duty(t)
      PROVE  PlanOk(t)'
    <2>a. PlanOk(t) /\ plan[t] \in Seq(Events) /\ plan'[t] \in Seq(Events)
        BY <1>a, Zenon DEF PlanInv
    <2>1. CASE Loose(t)
        <3>1. /\ pc'[t] \notin Planned /\ pc'[t] \notin Rewriting /\ pc'[t] \notin Writing
              /\ pc'[t] \notin Written /\ pc'[t] # "compact_collect"
            BY <2>1, Zenon DEF Loose, Written, Writing, Rewriting
        <3>2. pc'[t] \in Blank => mine'[t] = <<>>
            BY <2>1, <2>a, Zenon DEF Loose, PlanOk
        <3> QED
            BY <3>1, <3>2, Zenon DEF PlanOk
    <2>2. CASE Draft(t)
        <3>1. /\ pc[t] = "apply" /\ pc'[t] \in {"wal_write", "write"} /\ mine'[t] = mine[t]
              /\ plan'[t] \in Plans(BatchEvents(Applied(t)), MaxSlices)
              /\ Applied(t)' = Applied(t)
            BY <2>2, Zenon DEF Draft, Applied
        <3>2. BatchEvents(Applied(t)) \in Events
            BY <1>a, <3>1, AppliedType, BatchEventsType, Zenon
        <3>3. Covers(plan'[t], BatchEvents(Applied(t)))
            BY <1>b, <3>1, <3>2, PlansCover, Zenon
        <3>4. mine'[t] = <<>>
            BY <2>a, <3>1, Zenon DEF PlanOk, Blank
        <3>5. Copied(mine'[t], plan'[t])
            BY <2>a, <3>4, CopiedFacts, Zenon
        <3>6. pc'[t] \notin Rewriting /\ pc'[t] # "compact_collect" /\ pc'[t] \notin Written
            BY <3>1, Zenon DEF Rewriting, Written
        <3> QED
            BY <3>1, <3>3, <3>4, <3>5, <3>6, Zenon DEF PlanOk
    <2>3. CASE Record(t)
        <3>1. /\ pc[t] \in {"wal_write", "wal_sync"} /\ pc'[t] \in {"wal_sync", "write"}
              /\ mine'[t] = mine[t] /\ plan'[t] = plan[t] /\ own'[t] = own[t]
              /\ replay'[t] = replay[t]
            BY <2>3, Zenon DEF Record, Steady
        <3>2. Applied(t)' = Applied(t)
            BY <1>a, <3>1, Zenon DEF Applied, BatchAtHand
        <3>3. Covers(plan[t], BatchEvents(Applied(t))) /\ mine[t] = <<>>
            BY <2>a, <3>1, Zenon DEF PlanOk, Planned, Blank
        <3>4. Copied(mine'[t], plan'[t])
            BY <2>a, <3>1, <3>3, CopiedFacts, Zenon
        <3>5. pc'[t] \notin Rewriting /\ pc'[t] # "compact_collect" /\ pc'[t] \notin Written
            BY <3>1, Zenon DEF Rewriting, Written
        <3> QED
            BY <3>1, <3>2, <3>3, <3>4, <3>5, Zenon DEF PlanOk
    <2>4. CASE Cut(t)
        <3> DEFINE k == Len(mine[t]) + 1
        <3>1. /\ pc[t] \in {"write", "compact_write"} /\ pc'[t] = pc[t]
              /\ source'[t] = source[t] /\ Applied(t)' = Applied(t)
              /\ \/ /\ plan'[t] = plan[t]
                    /\ \E d \in dirs' : d.ev = plan[t][k] /\ mine'[t] = Append(mine[t], d)
                 \/ plan'[t] \in Bisections(plan[t], k) /\ mine'[t] = <<>>
            BY <2>4, Zenon DEF Cut, Applied
        <3>2. k \in 1..Len(plan[t])
            BY <1>a, <2>4, SMTT(30) DEF Cut
        <3>k. k <= Len(plan[t])
            BY <2>4, Zenon DEF Cut
        <3>3. /\ pc[t] = "write" => Covers(plan[t], BatchEvents(Applied(t)))
              /\ pc[t] = "compact_write" => Gathers(plan[t], source[t])
              /\ Copied(mine[t], plan[t])
            BY <2>a, <3>1, Zenon DEF PlanOk, Planned, Rewriting, Writing
        <3>4. \A ev : Covers(plan[t], ev) => Covers(plan'[t], ev)
            <4> HIDE DEF k
            <4> QED
                BY <2>a, <3>1, <3>2, BisectionsCover, Zenon
        <3>5. /\ pc[t] = "write" => Covers(plan'[t], BatchEvents(Applied(t)))
              /\ pc[t] = "compact_write" => Gathers(plan'[t], source[t])
            BY <3>3, <3>4, Zenon DEF Gathers
        <3>6. Copied(mine'[t], plan'[t])
            <4>1. CASE plan'[t] \in Bisections(plan[t], k) /\ mine'[t] = <<>>
                BY <2>a, <4>1, CopiedFacts, Zenon
            <4>2. CASE /\ plan'[t] = plan[t]
                       /\ \E d \in dirs' : d.ev = plan[t][k] /\ mine'[t] = Append(mine[t], d)
                <5>1. mine[t] \in Seq(Descriptor)
                    BY <1>a, Zenon
                <5> QED
                    BY <1>a, <2>a, <3>3, <3>k, <4>2, <5>1, CopiedFacts, Zenon
            <4> QED
                BY <3>1, <4>1, <4>2, Zenon
        <3>7. pc'[t] \notin Written /\ pc'[t] \notin Blank /\ pc'[t] # "compact_collect"
            BY <3>1, Zenon DEF Written, Blank
        <3>8. /\ pc'[t] \in Planned => pc[t] = "write"
              /\ pc'[t] \in Rewriting => pc[t] = "compact_write"
            BY <3>1, Zenon DEF Planned, Rewriting
        <3> HIDE DEF k
        <3> QED
            BY <3>1, <3>5, <3>6, <3>7, <3>8, Zenon DEF PlanOk
    <2>5. CASE Finish(t)
        <3>1. /\ plan'[t] = plan[t] /\ mine'[t] = mine[t] /\ source'[t] = source[t]
              /\ Applied(t)' = Applied(t)
              /\ \/ pc[t] = "write" /\ pc'[t] = "publish" /\ Len(mine[t]) = Len(plan[t])
                 \/ pc[t] = "compact_write" /\ pc'[t] = "compact_relock"
                      /\ Len(mine[t]) = Len(plan[t])
                 \/ pc[t] = "compact_relock" /\ pc'[t] = "compact_publish"
            BY <2>5, Zenon DEF Finish, Applied
        <3>2. /\ pc'[t] \in Planned => pc[t] \in Planned
              /\ pc'[t] \in Rewriting => pc[t] \in Rewriting
              /\ pc'[t] # "compact_collect" /\ pc[t] \in Writing /\ pc'[t] \notin Blank
              /\ pc[t] \in Written \/ Len(mine[t]) = Len(plan[t])
            BY <3>1, Zenon DEF Planned, Rewriting, Writing, Blank, Written
        <3> QED
            BY <2>a, <3>1, <3>2, Zenon DEF PlanOk
    <2>6. CASE Select(t)
        <3>1. /\ pc[t] = "compact_gc" /\ pc'[t] = "compact_collect" /\ mine'[t] = mine[t]
              /\ source'[t] \in Ranges(base[t].segs) /\ base'[t] = base[t]
            BY <2>6, Zenon DEF Select
        <3>2. base[t].segs \in Seq(Descriptor)
            BY <1>a, RecordFacts, Zenon
        <3>3. Within(source'[t], base'[t].segs)
            BY <3>1, <3>2, RangesFacts, Zenon DEF Within, RangeUnchanged
        <3>4. mine'[t] = <<>>
            BY <2>a, <3>1, Zenon DEF PlanOk, Blank
        <3> QED
            BY <3>1, <3>3, <3>4, Zenon DEF PlanOk, Planned, Rewriting, Writing, Written
    <2>7. CASE Gather(t)
        <3> DEFINE drop == DropTombstones(t)
        <3>1. /\ pc[t] = "compact_collect" /\ pc'[t] = "compact_write"
              /\ mine'[t] = mine[t] /\ source'[t] = source[t]
              /\ plan'[t] \in Plans(CollectRange(source[t].segs, drop), MaxSlices)
            BY <2>7, Zenon DEF Gather
        <3>2. /\ source[t].first \in Nat /\ source[t].segs \in Seq(Descriptor)
              /\ base[t].segs \in Seq(Descriptor)
            BY <1>a, RecordFacts, SMTT(30)
        <3>3. Within(source[t], base[t].segs) /\ mine[t] = <<>>
            BY <2>a, <3>1, Zenon DEF PlanOk, Blank
        <3>4. drop \in BOOLEAN
            BY Zenon DEF DropTombstones
        <3>5. drop => source[t].first = 0
            BY <3>2, <3>3, ListElements, SMTT(30) DEF Within, DropTombstones
        <3> HIDE DEF drop
        <3>6. CollectRange(source[t].segs, drop) \in Events
            BY <3>2, <3>4, CollectRangeType, Zenon
        <3>7. Covers(plan'[t], CollectRange(source[t].segs, drop))
            BY <1>b, <3>1, <3>6, PlansCover, Zenon
        <3>8. Gathers(plan'[t], source'[t])
            BY <3>1, <3>4, <3>5, <3>7, Zenon DEF Gathers
        <3>9. Copied(mine'[t], plan'[t])
            BY <2>a, <3>1, <3>3, CopiedFacts, Zenon
        <3> QED
            BY <3>1, <3>8, <3>9, Zenon DEF PlanOk, Planned, Blank, Written
    <2> QED
        BY <1>1, <2>1, <2>2, <2>3, <2>4, <2>5, <2>6, <2>7, Zenon DEF Duty
<1>2. ASSUME NEW t \in Threads, Duty(t)
      PROVE  PlanInv'
    <2>1. Aside(t)
        BY <1>2, Zenon DEF Duty, Loose, Draft, Record, Cut, Finish, Select, Gather
    <2>2. \A u \in Threads \ {t} : PlanOk(u)'
        BY <2>1, PlanOthers, Zenon
    <2> QED
        BY <1>1, <1>2, <2>2, Zenon DEF PlanInv
<1>3. ASSUME Halt, NEW t \in Threads
      PROVE  PlanOk(t)'
    <2>1. CASE pc'[t] = "idle" /\ mine'[t] = <<>>
        BY <2>1, Zenon DEF PlanOk, Planned, Rewriting, Writing, Written
    <2>2. CASE pc'[t] = pc[t] /\ Steady(t) /\ wal' = wal
        <3>1. PlanOk(t) /\ Applied(t)' = Applied(t)
            BY <2>2, Zenon DEF PlanInv, Applied, Steady
        <3> QED
            BY <2>2, <3>1, Zenon DEF PlanOk, Steady
    <2> QED
        BY <1>3, <2>1, <2>2, Zenon DEF Halt
<1> QED
    BY <1>2, <1>3, StepDuty, Zenon DEF PlanInv

-----------------------------------------------------------------------------
(* Every manifest shows what its batches leave.                            *)

LEMMA PostReflects ==
    ASSUME Basis, ContentsInv, NEW t \in Threads, Post(t)
    PROVE  Reflects(manifest')
<1>1. /\ pc[t] = "publish" /\ base[t] = manifest
      /\ manifest' = [gen |-> base[t].gen + 1, segs |-> Candidate(t),
                      log |-> Append(base[t].log, Applied(t))]
    BY Zenon DEF Basis, OnceInv, StageOk, Loaded, Post, PublishIfGeneration, ChangeIndexDir
<1>2. /\ manifest \in Manifest /\ plan[t] \in Seq(Events) /\ mine[t] \in Seq(Descriptor)
      /\ Applied(t) \in Batches /\ Reflects(manifest)
    <2>1. Applied(t) \in Batches
        BY <1>1, AppliedType, Zenon DEF Basis, TypeInv
    <2>2. Reflects(manifest)
        BY Zenon DEF Basis, OnceInv, ContentsInv, Current
    <2> QED
        BY <2>1, <2>2, Zenon DEF Basis, TypeInv, DataType
<1>3. /\ Covers(plan[t], BatchEvents(Applied(t)))
      /\ Copied(mine[t], plan[t]) /\ Len(mine[t]) = Len(plan[t])
    BY <1>1, Zenon DEF ContentsInv, PlanInv, PlanOk, Planned, Writing, Written
<1>4. \A id \in Ids : Latest(mine[t], id) = BatchEvents(Applied(t))[id]
    BY <1>2, <1>3, CopiedSays, Zenon
<1>5. Reflects([gen |-> base[t].gen + 1, segs |-> manifest.segs \o mine[t],
                log |-> Append(manifest.log, Applied(t))])
    BY <1>2, <1>4, AppendShows, Zenon
<1> QED
    BY <1>1, <1>5, Zenon DEF Candidate

LEMMA RepostReflects ==
    ASSUME Basis, ContentsInv, NEW t \in Threads, Repost(t)
    PROVE  Reflects(manifest')
<1>1. /\ pc[t] = "compact_publish" /\ base[t] = manifest
      /\ manifest' = [gen |-> base[t].gen + 1,
                      segs |-> Replaced(base[t].segs, source[t], mine[t]), log |-> base[t].log]
    BY Zenon DEF Basis, OnceInv, StageOk, Loaded, Repost, PublishIfGeneration, ChangeIndexDir
<1>2. /\ manifest \in Manifest /\ plan[t] \in Seq(Events) /\ mine[t] \in Seq(Descriptor)
      /\ source[t] \in [first: Nat, segs: Seq(Descriptor)]
      /\ Reflects(manifest) /\ RangeUnchanged(source[t], manifest.segs)
    <2>1. Reflects(manifest)
        BY Zenon DEF Basis, OnceInv, ContentsInv, Current
    <2>2. RangeUnchanged(source[t], manifest.segs)
        BY <1>1, Zenon DEF Basis, TypeInv, RangeChecked
    <2> QED
        BY <2>1, <2>2, Zenon DEF Basis, TypeInv, DataType
<1>3. /\ Gathers(plan[t], source[t])
      /\ Copied(mine[t], plan[t]) /\ Len(mine[t]) = Len(plan[t])
    BY <1>1, Zenon DEF ContentsInv, PlanInv, PlanOk, Rewriting, Writing, Written
<1>4. PICK drop \in BOOLEAN : /\ Covers(plan[t], CollectRange(source[t].segs, drop))
                              /\ drop => source[t].first = 0
    BY <1>3, Zenon DEF Gathers
<1>5. \A id \in Ids : Latest(mine[t], id) = CollectRange(source[t].segs, drop)[id]
    <2> DEFINE ev == CollectRange(source[t].segs, drop)
    <2>1. Covers(plan[t], ev)
        BY <1>4, Zenon
    <2> HIDE DEF ev
    <2>2. \A id \in Ids : Latest(mine[t], id) = ev[id]
        BY <1>2, <1>3, <2>1, CopiedSays, ZenonT(40)
    <2> QED
        BY <2>2, Zenon DEF ev
<1>6. Reflects([gen |-> base[t].gen + 1,
                segs |-> Replaced(manifest.segs, source[t], mine[t]), log |-> manifest.log])
    BY <1>2, <1>4, <1>5, ReplaceShows, Zenon
<1> QED
    BY <1>1, <1>6, Zenon

LEMMA ContentsStep ==
    ASSUME Basis, Basis', ContentsInv, [Next]_vars
    PROVE  ContentsInv'
<1>1. PlanInv'
    BY PlanStep, Zenon DEF Basis, ContentsInv
<1>2. /\ TypeInv /\ OnceInv /\ ClearsOk /\ CompactionExclusion /\ Current \in survivors
      /\ \A s \in survivors : Reflects(s.manifest)
      /\ Reflects(manifest) /\ Current'.manifest = manifest'
    BY Zenon DEF Basis, OnceInv, ContentsInv, Current
<1>3. \A s \in survivors' : Reflects(s.manifest)
    <2>1. CASE KeepDir \/ Blackout
        <3>1. survivors' \subseteq survivors
            BY <1>2, <2>1, KeptFacts, Zenon DEF Blackout
        <3> QED
            BY <1>2, <3>1, Zenon
    <2>2. ASSUME NEW t \in Threads, PutWal(t) \/ CutWal(t) \/ Post(t) \/ Repost(t)
          PROVE  \A s \in survivors' : Reflects(s.manifest)
        <3>1. survivors' = survivors \cup {Current'}
            BY <1>2, <2>2, SingleStep, Zenon
        <3>2. Reflects(manifest')
            BY <1>2, <2>2, PostReflects, RepostReflects, Zenon DEF PutWal, CutWal, ChangeIndexDir
        <3> QED
            BY <1>2, <3>1, <3>2, Zenon
    <2> QED
        BY <1>2, <2>1, <2>2, StepDeed, Zenon DEF Deed, Walk, Take, Leave, Die
<1> QED
    BY <1>1, <1>3, Zenon DEF ContentsInv

LEMMA ContentsInit == Init => ContentsInv
<1> SUFFICES ASSUME Init
             PROVE  ContentsInv
    BY Zenon
<1>1. \A t \in Threads : pc[t] = "idle" /\ mine[t] = <<>>
    BY Zenon DEF Init
<1>2. PlanInv
    BY <1>1, Zenon DEF PlanInv, PlanOk, Planned, Rewriting, Writing, Written
<1>3. survivors = {Current} /\ Current.manifest = manifest
      /\ manifest.segs = <<BuiltSegment>> /\ manifest.log = <<>>
    BY Zenon DEF Init, Current
<1>4. Reflects(manifest)
    BY <1>3, BuiltShows, Zenon DEF Reflects
<1> QED
    BY <1>2, <1>3, <1>4, Zenon DEF ContentsInv

-----------------------------------------------------------------------------
(* The range a compaction works on, while the writer lock is dropped.      *)
Unlocked == {"compact_collect", "compact_write", "compact_relock"}

RangeHeld ==
    \A t \in Threads : pc[t] \in Unlocked => RangeUnchanged(source[t], manifest.segs)

(* A thread had its range before the step, or selects it under the lock.   *)
LEMMA RangeOrigin ==
    ASSUME TypeInv, [Next]_vars, NEW u \in Threads, pc'[u] \in Unlocked
    PROVE  \/ pc[u] \in Unlocked /\ source'[u] = source[u]
           \/ pc[u] = "compact_gc" /\ source'[u] \in Ranges(base[u].segs)
<1>1. CASE Halt
    BY <1>1, Zenon DEF Halt, Steady, Unlocked
<1>2. ASSUME NEW t \in Threads, Duty(t), u # t
      PROVE  pc[u] \in Unlocked /\ source'[u] = source[u]
    BY <1>2, Zenon DEF Duty, Loose, Draft, Record, Cut, Finish, Select, Gather, Aside, Steady
<1>3. CASE Duty(u)
    BY <1>3, Zenon
    DEF Duty, Loose, Draft, Record, Cut, Finish, Select, Gather, Unlocked, Writing, Rewriting
<1> QED
    BY <1>1, <1>2, <1>3, StepDuty, Zenon

LEMMA RangeHeldStep ==
    ASSUME Basis, RangeHeld, [Next]_vars
    PROVE  RangeHeld'
<1> SUFFICES ASSUME NEW u \in Threads, pc'[u] \in Unlocked
             PROVE  RangeUnchanged(source'[u], manifest'.segs)
    BY Zenon DEF RangeHeld
<1>a. /\ TypeInv /\ OnceInv /\ ClearsOk /\ WriterExclusion /\ CompactionExclusion
      /\ manifest \in Manifest /\ manifest.segs \in Seq(Descriptor)
      /\ \A t \in Threads : mine[t] \in Seq(Descriptor)
      /\ source[u] \in [first: Nat, segs: Seq(Descriptor)]
    BY RecordFacts, Zenon DEF Basis, TypeInv, DataType
<1>b. pc[u] = "compact_gc" => base[u] = manifest
    BY <1>a, Zenon DEF OnceInv, StageOk, Loaded
<1>1. /\ RangeUnchanged(source'[u], manifest.segs)
      /\ source'[u] \in [first: Nat, segs: Seq(Descriptor)]
    BY <1>a, <1>b, RangeOrigin, RangesFacts, Zenon DEF RangeHeld
<1>2. CASE manifest' = manifest
    BY <1>1, <1>2, Zenon
<1>3. ASSUME NEW t \in Threads, Post(t)
      PROVE  RangeUnchanged(source'[u], manifest'.segs)
    <2>1. base[t] = manifest
        BY <1>3, <1>a, Zenon DEF Post, OnceInv, StageOk, Loaded
    <2>2. manifest'.segs = manifest.segs \o mine[t]
        <3>1. PICK g, l : manifest' = [gen |-> g, segs |-> Candidate(t), log |-> l]
            BY <1>3, Zenon DEF Post, PublishIfGeneration, ChangeIndexDir
        <3> QED
            BY <2>1, <3>1, Zenon DEF Candidate
    <2>3. PICK r \in [first: Nat, segs: Seq(Descriptor)] :
              r = source'[u] /\ RangeUnchanged(r, manifest.segs)
        BY <1>1, Zenon
    <2>4. RangeUnchanged(r, manifest.segs \o mine[t])
        BY <1>a, <2>3, RangeSurvivesAppend, Zenon
    <2> QED
        BY <2>2, <2>3, <2>4, Zenon
<1>4. ASSUME NEW t \in Threads, Repost(t)
      PROVE  FALSE
    <2>1. pc[t] \in Compacting /\ pc'[t] \notin Unlocked
        BY <1>4, Zenon DEF Repost, Compacting, Unlocked
    <2>2. u # t /\ pc'[u] = pc[u]
        BY <1>4, <2>1, Zenon DEF Repost, Apart
    <2> QED
        BY <1>a, <2>1, <2>2, Zenon DEF CompactionExclusion, Compacting, Unlocked
<1>5. CASE Blackout
    BY <1>5, Zenon DEF Blackout, Off, Unlocked
<1> QED
    BY <1>a, <1>2, <1>3, <1>4, <1>5, StepDeed, Zenon
    DEF Deed, Walk, Take, Leave, PutWal, CutWal, Die, KeepDir, ChangeIndexDir

-----------------------------------------------------------------------------
(* Every step is a step of the promised index.                             *)

Settled == Basis /\ AckedInv /\ ErrorInv /\ ContentsInv

(* The batch that is published is still pending.                           *)
LEMMA PostPending ==
    ASSUME Settled, NEW t \in Threads, Post(t)
    PROVE  outcome[Applied(t)] = "pending"
<1>1. TypeInv /\ OnceInv /\ AckedDurable /\ Current \in survivors
      /\ Current.manifest = manifest /\ Current.wal = wal /\ pc[t] = "publish"
      /\ outcome \in [Batches -> {"none", "pending", "ok", "error"}]
      /\ replay[t] \in BOOLEAN
    BY Zenon DEF Settled, Basis, AckedInv, OnceInv, Current, Post, TypeInv, ControlType
<1>2. Applied(t) \in Batches /\ Applied(t) \notin LogSet(manifest)
    BY <1>1, PostFacts, Zenon
<1>3. CASE ~replay[t]
    BY <1>1, <1>2, <1>3, Zenon DEF OnceInv, StageOk, Applied
<1>4. CASE replay[t]
    <2>1. wal # NoWal /\ wal.batch = Applied(t)
        BY <1>1, <1>4, Zenon DEF TypeInv, BatchAtHand, Applied
    <2>2. ~Untouched(Applied(t), survivors)
        BY <1>1, <2>1, Zenon DEF Untouched
    <2>3. outcome[Applied(t)] # "none" /\ outcome[Applied(t)] # "error"
        BY <1>1, <1>2, <2>2, Zenon DEF Settled, ErrorInv, OnceInv
    <2>4. outcome[Applied(t)] # "ok"
        BY <1>1, <1>2, Zenon DEF AckedDurable
    <2> QED
        BY <1>1, <1>2, <2>3, <2>4, Zenon
<1> QED
    BY <1>1, <1>3, <1>4, Zenon

LEMMA PromiseStep ==
    ASSUME ~PowerLoss, NoLateFaults, Settled, Settled', [Next]_vars
    PROVE  [Promise!Next]_(Promise!ivars)
<1> DEFINE index == [id \in Ids |-> Visible(manifest.segs, id)]
           committed == LogSet(manifest)
           effect == [b \in Batches |-> BatchEvents(b)]
<1>a. /\ TypeInv /\ OnceInv /\ ClearsOk /\ CompactionExclusion
      /\ Current \in survivors /\ Current.manifest = manifest
      /\ outcome \in [Batches -> {"none", "pending", "ok", "error"}]
      /\ manifest \in Manifest /\ Reflects(manifest) /\ Reflects(manifest')
      /\ \A t \in Threads : StageOk(t)
    BY Zenon DEF Settled, Basis, OnceInv, TypeInv, ControlType, DataType, Current, ContentsInv
<1>s. ASSUME manifest' = manifest, outcome' = outcome
      PROVE  UNCHANGED Promise!ivars
    BY <1>s, Zenon DEF Promise!ivars
<1>1. ASSUME NEW t \in Threads, Walk(t) \/ PutWal(t) \/ CutWal(t)
      PROVE  UNCHANGED Promise!ivars
    <2>1. manifest' = manifest /\ outcome' = outcome
        BY <1>1, Zenon DEF Walk, PutWal, CutWal, KeepDir, ChangeIndexDir
    <2> QED
        BY <1>s, <2>1, Zenon
<1>2. ASSUME Die
      PROVE  UNCHANGED Promise!ivars
    <2>1. manifest' = manifest /\ outcome' = outcome
        BY <1>2, Zenon DEF Die, KeepDir
    <2> QED
        BY <1>s, <2>1, Zenon
<1>3. ASSUME NEW t \in Threads, Take(t)
      PROVE  Promise!Next
    <2>1. PICK b \in Batches : /\ outcome[b] = "none" /\ manifest' = manifest
                               /\ outcome' = [outcome EXCEPT ![b] = "pending"]
        BY <1>3, Zenon DEF Take, KeepDir
    <2>2. Promise!Submit(b)
        BY <2>1, Zenon DEF Promise!Submit
    <2> QED
        BY <2>2, Zenon DEF Promise!Next
<1>4. ASSUME NEW t \in Threads, Leave(t)
      PROVE  [Promise!Next]_(Promise!ivars)
    <2>1. manifest' = manifest
        BY <1>4, Zenon DEF Leave, KeepDir
    <2>2. PICK r \in {"ok", "error"} :
             /\ outcome' = [outcome EXCEPT ![own[t]] = r]
             /\ r = "ok" => Finishing(t)
             /\ r = "error" => Waiting(t) \/ Refused(t) \/ pc[t] = "abort_sync"
        BY <1>4, Zenon DEF Leave
    <2>3. CASE own[t] \notin Batches
        <3>1. outcome' = outcome
            BY <1>a, <2>2, <2>3, SMTT(30)
        <3> QED
            BY <1>s, <2>1, <3>1, Zenon
    <2>4. CASE own[t] \in Batches
        <3>1. outcome[own[t]] = "pending"
            BY <1>a, <2>4, Zenon DEF StageOk
        <3>2. r = "ok" => own[t] \in LogSet(manifest)
            BY <2>2, Zenon DEF Settled, AckedInv
        <3>3. r = "error" => own[t] \notin LogSet(manifest)
            <4>1. pc[t] = "abort_sync" => Withdrawing(t)
                BY <1>a, Zenon DEF ClearsOk, ClearsAt, Withdrawing
            <4>2. Waiting(t) \/ Refused(t) => Untouched(own[t], survivors)
                BY <1>a, Zenon DEF StageOk, Settled, ErrorInv
            <4>3. Withdrawing(t) => own[t] \notin LogSet(manifest)
                BY Zenon DEF Settled, ErrorInv
            <4> QED
                BY <1>a, <2>2, <4>1, <4>2, <4>3, Zenon DEF Untouched
        <3>4. (r = "ok") <=> own[t] \in LogSet(manifest)
            BY <2>2, <3>2, <3>3, Zenon
        <3>5. Promise!Reply(own[t], r)
            BY <2>1, <2>2, <3>1, <3>4, Zenon DEF Promise!Reply
        <3> QED
            BY <2>4, <3>5, Zenon DEF Promise!Next
    <2> QED
        BY <2>3, <2>4, Zenon
<1>5. ASSUME NEW t \in Threads, Post(t)
      PROVE  Promise!Next
    <2> DEFINE b == Applied(t)
    <2>1. /\ b \in Batches /\ b \notin LogSet(manifest) /\ outcome[b] = "pending"
          /\ LogSet(manifest') = LogSet(manifest) \cup {b} /\ outcome' = outcome
        BY <1>5, <1>a, PostFacts, PostPending, Zenon DEF Post
    <2>2. manifest'.log = Append(manifest.log, b)
        BY <1>5, <1>a, Zenon DEF Post, PublishIfGeneration, ChangeIndexDir, StageOk, Loaded
    <2>3. manifest.log \in Seq(Batches)
        BY <1>a, RecordFacts, Zenon
    <2> HIDE DEF b
    <2>4. ASSUME NEW id \in Ids
          PROVE  Visible(manifest'.segs, id) =
                   CASE effect[b][id] = NoEvent -> index[id]
                     [] effect[b][id] = Tomb    -> NoEvent
                     [] OTHER                   -> effect[b][id]
        <3>1. /\ Visible(manifest'.segs, id) = Expected(Append(manifest.log, b), id)
              /\ Visible(manifest.segs, id) = Expected(manifest.log, id)
            BY <1>a, <2>2, Zenon DEF Reflects
        <3>2. Expected(Append(manifest.log, b), id) =
                 IF BatchEvents(b)[id] = NoEvent THEN Expected(manifest.log, id)
                 ELSE Shown(BatchEvents(b)[id])
            BY <2>1, <2>3, ExpectedAppend, Zenon
        <3>3. effect[b] = BatchEvents(b) /\ index[id] = Visible(manifest.segs, id)
            BY <2>1, Zenon
        <3>4. Tomb # NoEvent
            BY SegmentsAssumption, Zenon
        <3> HIDE DEF effect, index
        <3> QED
            BY <3>1, <3>2, <3>3, <3>4, SMTT(30) DEF Shown
    <2>5. Promise!Commit(b)
        BY <2>1, <2>4, Zenon DEF Promise!Commit
    <2> QED
        BY <2>1, <2>5, Zenon DEF Promise!Next
<1>6. ASSUME NEW t \in Threads, Repost(t)
      PROVE  UNCHANGED Promise!ivars
    <2>1. manifest'.log = manifest.log /\ outcome' = outcome
        BY <1>6, <1>a, Zenon DEF Repost, PublishIfGeneration, ChangeIndexDir, StageOk, Loaded
    <2>2. \A id \in Ids : Visible(manifest'.segs, id) = Visible(manifest.segs, id)
        BY <1>a, <2>1, Zenon DEF Reflects
    <2>3. LogSet(manifest') = LogSet(manifest)
        BY <2>1, Zenon DEF LogSet
    <2> QED
        BY <2>1, <2>2, <2>3, Zenon DEF Promise!ivars
<1> QED
    BY <1>1, <1>2, <1>3, <1>4, <1>5, <1>6, <1>a, StepDeed, Zenon DEF Deed, Blackout
=============================================================================
