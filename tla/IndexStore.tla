----------------------------- MODULE IndexStore -----------------------------
(***************************************************************************)
(* The on-disk index of yappod2 and everyone who changes it.               *)
(*                                                                         *)
(* An index directory holds the manifest (a generation and the list of     *)
(* published segments), the update WAL, the segment directories and two    *)
(* flock files.  Updaters run update_apply (recover, then apply with a     *)
(* WAL) or, when the core starts, update_recover alone.  Compactors run    *)
(* compact_internal, which drops the writer lock while it rewrites a range *)
(* of segments.  Every thread belongs to an OS process: the core daemon    *)
(* runs its updater and its compactor as threads, the command line tools   *)
(* run one each.  A process may be killed between any two steps, and the   *)
(* machine may lose power, which undoes directory entries not yet fsynced. *)
(*                                                                         *)
(* A step is the code between two changes of shared state.  Reads of the   *)
(* manifest and of the WAL made under the writer lock are joined with the  *)
(* lock acquisition in front of them.                                      *)
(***************************************************************************)
EXTENDS Segments

CONSTANTS Updaters,      \* threads that call update_apply and update_recover
          Compactors,    \* threads that call compact_internal
          Proc,          \* the OS process of every thread
          Batches,       \* batches of operations handed to update_apply
          Ops,           \* the operations of a batch: a set of [id, event]
          MaxGen,        \* stands for UINT64_MAX
          MaxSegments,   \* stands for YAP_V2_MAX_SEGMENTS
          MaxSlices,     \* bound: segments the planner cuts one batch into
          MaxRange,      \* stands for YAP_V2_COMPACTION_MAX_SOURCE_SEGMENTS
          Faults,        \* the failures that may happen, see FaultKinds
          MaxCrashes,    \* bound: processes killed and power losses
          PowerLoss,     \* whether the machine may lose power
          BuiltEvents,   \* what yappo_makeindex build put into the index
          NoWal, NoBatch, NoThread

(* "io": a system call before the commit point fails; "remove": a segment  *)
(* directory cannot be removed; "wal_sync", "manifest_sync", "status_sync":*)
(* the fsync of the index directory fails after the rename or unlink in    *)
(* front of it; "wal_unlink": update.wal cannot be unlinked.               *)
FaultKinds == {"io", "remove", "wal_sync", "manifest_sync", "status_sync",
               "wal_unlink"}

Threads == Updaters \cup Compactors

ASSUME StoreAssumption ==
    /\ Updaters \cap Compactors = {}
    /\ NoThread \notin Threads
    /\ NoBatch \notin Batches
    /\ DOMAIN Proc = Threads
    /\ \A b \in Batches : Ops[b] \subseteq [id: Ids, event: Values \cup {Tomb}]
    /\ MaxGen \in Nat
    /\ MaxSegments \in Nat \ {0}
    /\ MaxSlices \in Nat \ {0}
    /\ MaxRange \in Nat \ {0}
    /\ MaxCrashes \in Nat
    /\ PowerLoss \in BOOLEAN
    /\ Faults \subseteq FaultKinds
    /\ BuiltEvents \in Events
    /\ MaxGen >= 2

(* An index without update.wal is not one with a WAL.                      *)
ASSUME WalAssumption == NoWal \notin [base: Nat, batch: Batches]

VARIABLES
    manifest,        \* manifest.yap2 as open() finds it
    wal,             \* update.wal as open() finds it, or NoWal
    dirs,            \* the directories under segments/
    survivors,       \* the states of manifest and WAL a power loss may leave:
                     \*   the one of the last fsync of the index directory
                     \*   and those its entries went through since
    syncedDirs,      \* the segment directories as of the last fsync of
                     \*   segments/
    writerLock,      \* the thread holding writer.lock, or NoThread
    compactionLock,  \* the thread holding compaction.lock, or NoThread
    pc,              \* where a thread is
    call,            \* what it runs: "update", "recover" or "compact"
    own,             \* the batch an updater was given
    replay,          \* apply_operations runs for update_recover
    base,            \* the manifest the thread loaded
    plan,            \* the slices it writes
    mine,            \* the segments it has written
    source,          \* a compactor's selected range
    clears,          \* wal_active: a failing update clears the WAL it wrote
    outcome,         \* what the caller of update_apply was told
    logged,          \* batches whose WAL was synced and not withdrawn by
                     \*   the failing call that wrote it
    crashes          \* processes killed so far

disk   == <<manifest, wal, dirs>>
synced == <<survivors, syncedDirs>>
locks  == <<writerLock, compactionLock>>
locals == <<call, own, replay, base, plan, mine, source, clears>>
ghosts == <<outcome, logged, crashes>>
vars   == <<disk, synced, locks, pc, locals, ghosts>>

-----------------------------------------------------------------------------
(* validate_unique_ids *)
UniqueIds(b) == \A o, p \in Ops[b] : o.id = p.id => o = p

(* The events of a batch, one per id. *)
BatchEvents(b) ==
    [id \in Ids |-> IF \E o \in Ops[b] : o.id = id
                    THEN (CHOOSE o \in Ops[b] : o.id = id).event
                    ELSE NoEvent]

(* manifest_verify_segment_components: every component file is there, with *)
(* the descriptor's checksum and a generation the manifest may refer to.   *)
Verified(d, gen) == d \in dirs /\ d.gen <= gen

(* Mutant of Ranges: the range starts one segment early.                   *)
RangesOffByOne(segs) ==
    {[first |-> p[1] - 1, segs |-> SubSeq(segs, p[1] + 1, p[1] + p[2])] :
        p \in {q \in (0..Len(segs)) \X (1..MaxRange) :
                 q[1] + q[2] <= Len(segs) /\ (q[2] = 1 => q[1] = 0)}}

(* select_range with sizes abstracted: a contiguous run of at least two    *)
(* segments, or the first segment alone when no run is long enough.        *)
Ranges(segs) ==
    {[first |-> p[1], segs |-> SubSeq(segs, p[1] + 1, p[1] + p[2])] :
        p \in {q \in (0..Len(segs)) \X (1..MaxRange) :
                 q[1] + q[2] <= Len(segs) /\ (q[2] = 1 => q[1] = 0)}}

NoSource == [first |-> 0, segs |-> <<>>]

(* selected_range_unchanged *)
RangeUnchanged(r, segs) ==
    /\ r.first + Len(r.segs) <= Len(segs)
    /\ \A i \in 1..Len(r.segs) : segs[r.first + i] = r.segs[i]

(* The manifest list a compaction proposes: prefix, new segments, suffix.  *)
Replaced(segs, r, new) ==
    SubSeq(segs, 1, r.first) \o new
      \o SubSeq(segs, r.first + Len(r.segs) + 1, Len(segs))

BuiltSegment == Segment("seg", 2, 1, BuiltEvents)

NoManifest == [gen |-> 0, segs |-> <<>>, log |-> <<>>]

(* An index as yappo_makeindex build leaves it: generation 1 is the empty  *)
(* manifest, generation 2 its first batch.  The field log is a history     *)
(* variable: the batches whose operations this manifest reflects.          *)
Init ==
    /\ manifest = [gen |-> 2, segs |-> <<BuiltSegment>>, log |-> <<>>]
    /\ wal = NoWal
    /\ dirs = {BuiltSegment}
    /\ survivors = {[manifest |-> manifest, wal |-> wal]}
    /\ syncedDirs = dirs
    /\ writerLock = NoThread
    /\ compactionLock = NoThread
    /\ pc = [t \in Threads |-> "idle"]
    /\ call = [t \in Threads |-> "none"]
    /\ own = [t \in Threads |-> NoBatch]
    /\ replay = [t \in Threads |-> FALSE]
    /\ base = [t \in Threads |-> NoManifest]
    /\ plan = [t \in Threads |-> <<>>]
    /\ mine = [t \in Threads |-> <<>>]
    /\ source = [t \in Threads |-> NoSource]
    /\ clears = [t \in Threads |-> FALSE]
    /\ outcome = [b \in Batches |-> "none"]
    /\ logged = {}
    /\ crashes = 0

-----------------------------------------------------------------------------
(* Building blocks of the steps.                                           *)

Goto(t, l) == pc' = [pc EXCEPT ![t] = l]

Lock(t) == writerLock = NoThread /\ writerLock' = t

(* Mutant of Unlock: the lock is not given back.                           *)
UnlockForgotten(t) == UNCHANGED writerLock

Unlock(t) == writerLock' = IF writerLock = t THEN NoThread ELSE writerLock

(* A rename or an unlink in the index directory: not durable yet, but in   *)
(* the order it was made.                                                  *)
ChangeIndexDir(m, w) ==
    /\ manifest' = m
    /\ wal' = w
    /\ survivors' = survivors \cup {[manifest |-> m, wal |-> w]}

(* Mutant of SyncIndexDir: no fsync.                                       *)
SyncIndexDirForgotten == UNCHANGED survivors

(* fsync of the index directory.                                           *)
SyncIndexDir == survivors' = {[manifest |-> manifest, wal |-> wal]}

(* Removing directories may stop half way when "remove" failures happen.   *)
RemoveDirs(D) ==
    \E left \in (IF "remove" \in Faults THEN SUBSET D ELSE {{}}) :
        dirs' = dirs \ (D \ left)

(* The thread forgets everything but the call it runs and its batch.       *)
ResetApply(t) ==
    /\ replay' = [replay EXCEPT ![t] = FALSE]
    /\ base' = [base EXCEPT ![t] = NoManifest]
    /\ plan' = [plan EXCEPT ![t] = <<>>]
    /\ mine' = [mine EXCEPT ![t] = <<>>]
    /\ clears' = [clears EXCEPT ![t] = FALSE]

(* update_recover returns to its caller: update_apply goes on to apply or  *)
(* fails, a compaction looks for the WAL again or gives up, the core start *)
(* is over.                                                                *)
RecoverReturn(t, ok) ==
    IF call[t] = "update" /\ ~ok
    THEN /\ Goto(t, "idle")
         /\ call' = [call EXCEPT ![t] = "none"]
         /\ own' = [own EXCEPT ![t] = NoBatch]
         /\ outcome' = [outcome EXCEPT ![own[t]] = "error"]
    ELSE IF call[t] = "recover"
    THEN /\ Goto(t, "idle")
         /\ call' = [call EXCEPT ![t] = "none"]
         /\ UNCHANGED <<own, outcome>>
    ELSE /\ Goto(t, IF call[t] = "update" THEN "apply_lock"
                    ELSE IF ok THEN "compact_wal" ELSE "compact_done")
         /\ UNCHANGED <<call, own, outcome>>

(* apply_operations returns: the writer lock is released.                  *)
ApplyReturn(t, ok) ==
    /\ Unlock(t)
    /\ ResetApply(t)
    /\ IF replay[t]
       THEN RecoverReturn(t, ok)
       ELSE /\ Goto(t, "idle")
            /\ call' = [call EXCEPT ![t] = "none"]
            /\ own' = [own EXCEPT ![t] = NoBatch]
            /\ outcome' = [outcome EXCEPT ![own[t]] = IF ok THEN "ok" ELSE "error"]

-----------------------------------------------------------------------------
(* Calls begin.                                                            *)

StartUpdate(u, b) ==
    /\ pc[u] = "idle"
    /\ outcome[b] = "none"
    /\ Goto(u, "recover")
    /\ call' = [call EXCEPT ![u] = "update"]
    /\ own' = [own EXCEPT ![u] = b]
    /\ outcome' = [outcome EXCEPT ![b] = "pending"]
    /\ UNCHANGED <<disk, synced, locks, replay, base, plan, mine, source,
                   clears, logged, crashes>>

(* A process opens the index (the core starts, or yappo_makeindex search): *)
(* none of its threads runs yet.  Without a WAL update_recover returns at  *)
(* once.                                                                   *)
StartRecover(u) ==
    /\ \A t \in Threads : Proc[t] = Proc[u] => pc[t] = "idle"
    /\ wal # NoWal
    /\ Goto(u, "recover")
    /\ call' = [call EXCEPT ![u] = "recover"]
    /\ UNCHANGED <<disk, synced, locks, own, replay, base, plan, mine, source,
                   clears, ghosts>>

StartCompact(c) ==
    /\ pc[c] = "idle"
    /\ compactionLock = NoThread
    /\ compactionLock' = c
    /\ Goto(c, "compact_wal")
    /\ call' = [call EXCEPT ![c] = "compact"]
    /\ UNCHANGED <<disk, synced, writerLock, own, replay, base, plan, mine,
                   source, clears, ghosts>>

-----------------------------------------------------------------------------
(* update_recover                                                          *)

(* The WAL is looked for before the writer lock is taken.                  *)
RecoverCheck(t) ==
    /\ pc[t] = "recover"
    /\ \/ /\ wal = NoWal
          /\ RecoverReturn(t, TRUE)
       \/ /\ wal # NoWal
          /\ Goto(t, "recover_lock")
          /\ UNCHANGED <<call, own, outcome>>
    /\ UNCHANGED <<disk, synced, locks, replay, base, plan, mine, source,
                   clears, logged, crashes>>

(* Under the lock: the WAL is gone, belongs to neither generation, is      *)
(* already published, or is to be replayed.                                *)
RecoverLock(t) ==
    /\ pc[t] = "recover_lock"
    /\ writerLock = NoThread
    /\ \/ /\ wal = NoWal
          /\ RecoverReturn(t, TRUE)
          /\ UNCHANGED <<writerLock, replay>>
       \/ /\ wal # NoWal
          /\ \/ manifest.gen \notin {wal.base, wal.base + 1}
             \/ "io" \in Faults
          /\ RecoverReturn(t, FALSE)
          /\ UNCHANGED <<writerLock, replay>>
       \/ /\ wal # NoWal
          /\ manifest.gen \in {wal.base, wal.base + 1}
          /\ Lock(t)
          /\ replay' = [replay EXCEPT ![t] = TRUE]
          /\ Goto(t, IF manifest.gen = wal.base + 1 THEN "clear" ELSE "apply")
          /\ UNCHANGED <<call, own, outcome>>
    /\ UNCHANGED <<disk, synced, compactionLock, base, plan, mine, source,
                   clears, logged, crashes>>

-----------------------------------------------------------------------------
(* apply_operations                                                        *)

Applied(t) == IF replay[t] THEN wal.batch ELSE own[t]

ApplyLock(u) ==
    /\ pc[u] = "apply_lock"
    /\ Lock(u)
    /\ Goto(u, "apply")
    /\ UNCHANGED <<disk, synced, compactionLock, locals, ghosts>>

(* Validation, manifest load, limits and planning: nothing is written yet. *)
Admitted(t) ==
    /\ UniqueIds(Applied(t))
    /\ manifest.gen # MaxGen
    /\ Len(manifest.segs) + 1 <= MaxSegments
    /\ replay[t] => manifest.gen + 1 = wal.base + 1

ApplyBegin(t) ==
    /\ pc[t] = "apply"
    /\ \/ /\ Admitted(t)
          /\ base' = [base EXCEPT ![t] = manifest]
          /\ \E p \in Plans(BatchEvents(Applied(t)), MaxSlices) :
                plan' = [plan EXCEPT ![t] = p]
          /\ Goto(t, IF replay[t] THEN "write" ELSE "wal_write")
       \/ /\ ~Admitted(t) \/ "io" \in Faults
          /\ Goto(t, "abort")
          /\ UNCHANGED <<base, plan>>
    /\ UNCHANGED <<disk, synced, locks, call, own, replay, mine, source,
                   clears, ghosts>>

(* Mutant of WalRecord: the target generation is stored as the base.       *)
WalRecordOffByOne(u) == [base |-> base[u].gen + 1, batch |-> own[u]]

WalRecord(u) == [base |-> base[u].gen, batch |-> own[u]]

(* update_wal_write up to the rename.                                      *)
WalWrite(u) ==
    /\ pc[u] = "wal_write"
    /\ \/ /\ ChangeIndexDir(manifest, WalRecord(u))
          /\ Goto(u, "wal_sync")
       \/ /\ "io" \in Faults
          /\ Goto(u, "abort")
          /\ UNCHANGED <<manifest, wal, survivors>>
    /\ UNCHANGED <<dirs, syncedDirs, locks, locals, ghosts>>

(* The fsync that ends update_wal_write; when it fails the WAL stays, and  *)
(* apply_operations does not know of it.                                   *)
WalSync(u) ==
    /\ pc[u] = "wal_sync"
    /\ \/ /\ SyncIndexDir
          /\ clears' = [clears EXCEPT ![u] = TRUE]
          /\ logged' = logged \cup {own[u]}
          /\ Goto(u, "write")
       \/ /\ "wal_sync" \in Faults
          /\ Goto(u, "abort")
          /\ UNCHANGED <<survivors, clears, logged>>
    /\ UNCHANGED <<disk, syncedDirs, locks, call, own, replay, base, plan,
                   mine, source, outcome, crashes>>

(* One slice of the plan becomes a segment directory; a slice that turns   *)
(* out too large is bisected and all slices are written again.             *)
WriteSlice(t, kind) ==
    LET k == Len(mine[t]) + 1
    IN  /\ k <= Len(plan[t])
        /\ \E n \in FreshSuffixes(dirs, kind, base[t].gen + 1) :
             LET d == Segment(kind, base[t].gen + 1, n, plan[t][k])
             IN  \/ /\ dirs' = dirs \cup {d}
                    /\ mine' = [mine EXCEPT ![t] = Append(@, d)]
                    /\ UNCHANGED plan
                 \/ /\ Cardinality(Touched(plan[t][k])) > 1
                    /\ RemoveDirs(SegSet(mine[t]))
                    /\ mine' = [mine EXCEPT ![t] = <<>>]
                    /\ \E p \in Bisections(plan[t], k) :
                          plan' = [plan EXCEPT ![t] = p]

SegmentLimitOk(t) == Len(base[t].segs) + Len(plan[t]) <= MaxSegments

UpdateWrite(t) ==
    /\ pc[t] = "write"
    /\ \/ /\ mine[t] = <<>> => SegmentLimitOk(t)
          /\ WriteSlice(t, "seg")
          /\ UNCHANGED pc
       \/ /\ \/ mine[t] = <<>> /\ ~SegmentLimitOk(t)
             \/ "io" \in Faults
          /\ Goto(t, "abort")
          /\ UNCHANGED <<dirs, mine, plan>>
    /\ UNCHANGED <<manifest, wal, synced, locks, call, own, replay, base,
                   source, clears, ghosts>>

(* Mutant of Candidate: new segments go in front of the old ones.          *)
CandidatePrepended(t) == mine[t] \o base[t].segs

Candidate(t) == base[t].segs \o mine[t]

(* fsync of segments/, verification and the candidate manifest.            *)
UpdateSeal(t) ==
    /\ pc[t] = "write"
    /\ Len(mine[t]) = Len(plan[t])
    /\ syncedDirs' = dirs
    /\ Goto(t, IF /\ \A d \in SegSet(mine[t]) : Verified(d, base[t].gen + 1)
                  /\ DistinctNames(Candidate(t))
               THEN "publish" ELSE "abort")
    /\ UNCHANGED <<disk, survivors, locks, locals, ghosts>>

(* manifest_publish_if_generation up to the rename.                        *)
PublishIfGeneration(t, segs, log) ==
    /\ manifest.gen = base[t].gen
    /\ ChangeIndexDir([gen |-> base[t].gen + 1, segs |-> segs, log |-> log], wal)

UpdatePublish(t) ==
    /\ pc[t] = "publish"
    /\ \/ /\ PublishIfGeneration(t, Candidate(t), Append(base[t].log, Applied(t)))
          /\ Goto(t, "publish_sync")
       \/ /\ manifest.gen # base[t].gen \/ "io" \in Faults
          /\ Goto(t, "abort")
          /\ UNCHANGED <<manifest, wal, survivors>>
    /\ UNCHANGED <<dirs, syncedDirs, locks, locals, ghosts>>

(* The fsync that ends manifest_save_atomic.  Its failure is reported as   *)
(* a failed publication although the rename took place.                    *)
UpdatePublishSync(t) ==
    /\ pc[t] = "publish_sync"
    /\ \/ /\ SyncIndexDir
          /\ Goto(t, "clear")
       \/ /\ "manifest_sync" \in Faults
          /\ Goto(t, "abort")
          /\ UNCHANGED survivors
    /\ UNCHANGED <<disk, syncedDirs, locks, locals, ghosts>>

(* Mutant of WalClear: update.wal is not unlinked.                         *)
WalClearForgotten(t) ==
    /\ pc[t] = "clear"
    /\ Goto(t, "clear_sync")
    /\ UNCHANGED <<disk, synced, locks, locals, ghosts>>

(* update_wal_clear after the publication: unlink, then fsync.             *)
WalClear(t) ==
    /\ pc[t] = "clear"
    /\ \/ /\ ChangeIndexDir(manifest, NoWal)
          /\ Goto(t, "clear_sync")
          /\ UNCHANGED <<writerLock, locals, outcome>>
       \/ /\ "wal_unlink" \in Faults
          /\ ApplyReturn(t, FALSE)
          /\ UNCHANGED <<manifest, wal, survivors, source>>
    /\ UNCHANGED <<dirs, syncedDirs, compactionLock, logged, crashes>>

WalClearSync(t) ==
    /\ pc[t] = "clear_sync"
    /\ \/ SyncIndexDir /\ ApplyReturn(t, TRUE)
       \/ /\ "wal_sync" \in Faults
          /\ ApplyReturn(t, FALSE)
          /\ UNCHANGED survivors
    /\ UNCHANGED <<disk, syncedDirs, compactionLock, source, logged, crashes>>

(* The done: label without a publication: the segments written are removed *)
(* and the WAL this call wrote is cleared; a replayed WAL is kept.         *)
ApplyAbort(t) ==
    /\ pc[t] = "abort"
    /\ RemoveDirs(SegSet(mine[t]))
    /\ IF clears[t]
       THEN /\ Goto(t, "abort_clear")
            /\ mine' = [mine EXCEPT ![t] = <<>>]
            /\ UNCHANGED <<writerLock, call, own, replay, base, plan, clears, outcome>>
       ELSE ApplyReturn(t, FALSE)
    /\ UNCHANGED source
    /\ UNCHANGED <<manifest, wal, synced, compactionLock, logged, crashes>>

(* Mutant of AbortClear: update.wal is not unlinked.                       *)
AbortClearForgotten(u) ==
    /\ pc[u] = "abort_clear"
    /\ Goto(u, "abort_sync")
    /\ UNCHANGED <<disk, synced, locks, locals, ghosts>>

(* The result of this update_wal_clear is ignored.                         *)
AbortClear(u) ==
    /\ pc[u] = "abort_clear"
    /\ \/ /\ ChangeIndexDir(manifest, NoWal)
          /\ logged' = logged \ {own[u]}
          /\ Goto(u, "abort_sync")
          /\ UNCHANGED <<writerLock, locals, outcome>>
       \/ /\ "wal_unlink" \in Faults
          /\ ApplyReturn(u, FALSE)
          /\ UNCHANGED <<manifest, wal, survivors, source, logged>>
    /\ UNCHANGED <<dirs, syncedDirs, compactionLock, crashes>>

AbortSync(u) ==
    /\ pc[u] = "abort_sync"
    /\ \/ SyncIndexDir
       \/ /\ "wal_sync" \in Faults
          /\ UNCHANGED survivors
    /\ ApplyReturn(u, FALSE)
    /\ UNCHANGED <<disk, syncedDirs, compactionLock, source, logged, crashes>>

-----------------------------------------------------------------------------
(* compact_internal                                                        *)

(* The call is over: the compaction lock is released last.                 *)
CompactReturn(c) ==
    /\ compactionLock' = NoThread
    /\ Goto(c, "idle")
    /\ call' = [call EXCEPT ![c] = "none"]
    /\ ResetApply(c)
    /\ source' = [source EXCEPT ![c] = NoSource]

(* Mutant of CompactWal: a WAL left behind is not looked for.              *)
CompactWalUnchecked(c) ==
    /\ pc[c] = "compact_wal"
    /\ Lock(c)
    /\ Goto(c, "compact_policy")
    /\ UNCHANGED <<disk, synced, compactionLock, locals, ghosts>>

(* The writer lock is taken; while there is a WAL it is dropped again and  *)
(* update_recover runs.                                                    *)
CompactWal(c) ==
    /\ pc[c] = "compact_wal"
    /\ writerLock = NoThread
    /\ \/ /\ wal # NoWal
          /\ Goto(c, "recover")
          /\ UNCHANGED writerLock
       \/ /\ wal = NoWal
          /\ writerLock' = c
          /\ Goto(c, "compact_policy")
    /\ UNCHANGED <<disk, synced, compactionLock, locals, ghosts>>

(* Mutant of StatusWrite: the status file is not fsynced.                  *)
StatusWriteUnsynced == UNCHANGED survivors

(* The manifest is loaded and the policy asked.  compaction_status_write   *)
(* fsyncs the index directory after the rename of the status file, which   *)
(* makes the manifest durable too; its failure is ignored.                 *)
StatusWrite ==
    \/ SyncIndexDir
    \/ "status_sync" \in Faults /\ UNCHANGED survivors

CompactPolicy(c) ==
    /\ pc[c] = "compact_policy"
    /\ \/ /\ Unlock(c)
          /\ CompactReturn(c)
          /\ UNCHANGED survivors
       \/ /\ base' = [base EXCEPT ![c] = manifest]
          /\ StatusWrite
          /\ Goto(c, "compact_gc")
          /\ UNCHANGED <<locks, call, replay, plan, mine, source, clears>>
    /\ UNCHANGED <<disk, syncedDirs, own, ghosts>>

(* compact_gc removes every directory the manifest does not name, then a   *)
(* range is selected and the writer lock is dropped.                       *)
Orphans(segs) == {d \in dirs : SegmentName(d) \notin Names(SegSet(segs))}

CompactGc(c) ==
    /\ pc[c] = "compact_gc"
    /\ RemoveDirs(Orphans(base[c].segs))
    /\ \/ /\ base[c].gen # MaxGen
          /\ \A d \in Orphans(base[c].segs) : d \notin dirs'
          /\ \E r \in Ranges(base[c].segs) : source' = [source EXCEPT ![c] = r]
          /\ Unlock(c)
          /\ Goto(c, "compact_collect")
       \/ /\ \/ base[c].gen = MaxGen
             \/ base[c].segs = <<>>
             \/ \E d \in Orphans(base[c].segs) : d \in dirs'
          /\ Goto(c, "compact_done")
          /\ UNCHANGED <<writerLock, source>>
    /\ UNCHANGED <<manifest, wal, synced, compactionLock, call, own, replay,
                   base, plan, mine, clears, ghosts>>

(* Mutant of DropTombstones: every compaction drops them.                  *)
DropTombstonesAlways(c) == TRUE

(* collect_range and planning, with no writer lock.  Tombstones are        *)
(* dropped when the range is the whole manifest it was selected from.      *)
DropTombstones(c) == Len(source[c].segs) = Len(base[c].segs)

CompactCollect(c) ==
    /\ pc[c] = "compact_collect"
    /\ \/ /\ \A d \in SegSet(source[c].segs) : Verified(d, base[c].gen)
          /\ \E p \in Plans(CollectRange(source[c].segs, DropTombstones(c)), MaxSlices) :
                plan' = [plan EXCEPT ![c] = p]
          /\ Goto(c, "compact_write")
       \/ /\ \/ \E d \in SegSet(source[c].segs) : ~Verified(d, base[c].gen)
             \/ "io" \in Faults
          /\ Goto(c, "compact_done")
          /\ UNCHANGED plan
    /\ UNCHANGED <<disk, synced, locks, call, own, replay, base, mine, source,
                   clears, ghosts>>

CompactWrite(c) ==
    /\ pc[c] = "compact_write"
    /\ \/ /\ WriteSlice(c, "compact")
          /\ UNCHANGED pc
       \/ /\ "io" \in Faults
          /\ Goto(c, "compact_done")
          /\ UNCHANGED <<dirs, mine, plan>>
    /\ UNCHANGED <<manifest, wal, synced, locks, call, own, replay, base,
                   source, clears, ghosts>>

CompactSync(c) ==
    /\ pc[c] = "compact_write"
    /\ Len(mine[c]) = Len(plan[c])
    /\ syncedDirs' = dirs
    /\ Goto(c, "compact_relock")
    /\ UNCHANGED <<disk, survivors, locks, locals, ghosts>>

(* The writer lock again, the current manifest and the checks against it.  *)
(* The WAL is not looked at.                                               *)
CompactRelock(c) ==
    /\ pc[c] = "compact_relock"
    /\ Lock(c)
    /\ base' = [base EXCEPT ![c] = manifest]
    /\ Goto(c, IF /\ RangeUnchanged(source[c], manifest.segs)
                  /\ manifest.gen # MaxGen
                  /\ Len(manifest.segs) - Len(source[c].segs) + Len(plan[c])
                       <= MaxSegments
               THEN "compact_publish" ELSE "compact_done")
    /\ UNCHANGED <<disk, synced, compactionLock, call, own, replay, plan, mine,
                   source, clears, ghosts>>

CompactPublish(c) ==
    LET candidate == Replaced(base[c].segs, source[c], mine[c])
        valid == /\ DistinctNames(candidate)
                 /\ \A d \in SegSet(mine[c]) : Verified(d, base[c].gen + 1)
                 /\ manifest.gen = base[c].gen
    IN  /\ pc[c] = "compact_publish"
        /\ \/ /\ valid
              /\ PublishIfGeneration(c, candidate, base[c].log)
              /\ Goto(c, "compact_publish_sync")
           \/ /\ ~valid \/ "io" \in Faults
              /\ Goto(c, "compact_done")
              /\ UNCHANGED <<manifest, wal, survivors>>
        /\ UNCHANGED <<dirs, syncedDirs, locks, locals, ghosts>>

CompactPublishSync(c) ==
    /\ pc[c] = "compact_publish_sync"
    /\ \/ /\ SyncIndexDir
          /\ Goto(c, "compact_obsolete")
       \/ /\ "manifest_sync" \in Faults
          /\ Goto(c, "compact_done")
          /\ UNCHANGED survivors
    /\ UNCHANGED <<disk, syncedDirs, locks, locals, ghosts>>

(* The replaced segments are removed under the writer lock.                *)
CompactObsolete(c) ==
    /\ pc[c] = "compact_obsolete"
    /\ RemoveDirs({d \in dirs : SegmentName(d) \in Names(SegSet(source[c].segs))})
    /\ mine' = [mine EXCEPT ![c] = <<>>]
    /\ Goto(c, "compact_done")
    /\ UNCHANGED <<manifest, wal, synced, locks, call, own, replay, base, plan,
                   source, clears, ghosts>>

(* The done: label: the writer lock is released, the status file written   *)
(* if it was before, and then the segments of an unpublished compaction    *)
(* are removed.                                                            *)
CompactUnlock(c) ==
    /\ pc[c] = "compact_done"
    /\ Unlock(c)
    /\ Goto(c, "compact_status")
    /\ UNCHANGED <<disk, synced, compactionLock, locals, ghosts>>

CompactStatus(c) ==
    /\ pc[c] = "compact_status"
    /\ IF base[c] = NoManifest
       THEN UNCHANGED survivors
       ELSE StatusWrite
    /\ Goto(c, "compact_clean")
    /\ UNCHANGED <<disk, syncedDirs, locks, locals, ghosts>>

CompactClean(c) ==
    /\ pc[c] = "compact_clean"
    /\ RemoveDirs(SegSet(mine[c]))
    /\ CompactReturn(c)
    /\ UNCHANGED <<manifest, wal, synced, writerLock, own, ghosts>>

-----------------------------------------------------------------------------
(* Processes die.  The kernel releases their flocks; the caller of an      *)
(* interrupted update_apply never learns what became of its batch.         *)

Kill(dead) ==
    /\ crashes < MaxCrashes
    /\ crashes' = crashes + 1
    /\ writerLock' = IF writerLock \in dead THEN NoThread ELSE writerLock
    /\ compactionLock' = IF compactionLock \in dead THEN NoThread ELSE compactionLock
    /\ pc' = [t \in Threads |-> IF t \in dead THEN "idle" ELSE pc[t]]
    /\ call' = [t \in Threads |-> IF t \in dead THEN "none" ELSE call[t]]
    /\ own' = [t \in Threads |-> IF t \in dead THEN NoBatch ELSE own[t]]
    /\ replay' = [t \in Threads |-> IF t \in dead THEN FALSE ELSE replay[t]]
    /\ base' = [t \in Threads |-> IF t \in dead THEN NoManifest ELSE base[t]]
    /\ plan' = [t \in Threads |-> IF t \in dead THEN <<>> ELSE plan[t]]
    /\ mine' = [t \in Threads |-> IF t \in dead THEN <<>> ELSE mine[t]]
    /\ source' = [t \in Threads |-> IF t \in dead THEN NoSource ELSE source[t]]
    /\ clears' = [t \in Threads |-> IF t \in dead THEN FALSE ELSE clears[t]]
    /\ UNCHANGED <<outcome, logged>>

Crash(p) ==
    /\ \E t \in Threads : Proc[t] = p /\ pc[t] # "idle"
    /\ Kill({t \in Threads : Proc[t] = p})
    /\ UNCHANGED <<disk, synced>>

(* The index directory is found in a state it went through since its last  *)
(* fsync: its changes reach the disk in order, as journaling file systems  *)
(* keep them.  Segment directories created or removed since the last fsync *)
(* of segments/ are there or not, each on its own; of two that had one     *)
(* name at most one is there.                                              *)
PowerFail ==
    /\ PowerLoss
    /\ Kill(Threads)
    /\ \E s \in survivors :
          manifest' = s.manifest /\ wal' = s.wal /\ survivors' = {s}
    /\ \E kept \in SUBSET ((dirs \ syncedDirs) \cup (syncedDirs \ dirs)) :
          /\ \A d, e \in kept : SegmentName(d) = SegmentName(e) => d = e
          /\ dirs' = (dirs \cap syncedDirs) \cup kept
    /\ syncedDirs' = dirs'

-----------------------------------------------------------------------------
RecoverStep(t) == RecoverCheck(t) \/ RecoverLock(t)

ApplyStep(t) ==
    \/ ApplyBegin(t) \/ UpdateWrite(t) \/ UpdateSeal(t) \/ UpdatePublish(t)
    \/ UpdatePublishSync(t) \/ WalClear(t) \/ WalClearSync(t) \/ ApplyAbort(t)

UpdateStep(u) ==
    \/ ApplyLock(u) \/ WalWrite(u) \/ WalSync(u) \/ AbortClear(u) \/ AbortSync(u)

CompactStep(c) ==
    \/ CompactWal(c) \/ CompactPolicy(c) \/ CompactGc(c) \/ CompactCollect(c)
    \/ CompactWrite(c) \/ CompactSync(c) \/ CompactRelock(c) \/ CompactPublish(c)
    \/ CompactPublishSync(c) \/ CompactObsolete(c) \/ CompactUnlock(c)
    \/ CompactStatus(c) \/ CompactClean(c)

Next ==
    \/ \E u \in Updaters : \/ \E b \in Batches : StartUpdate(u, b)
                           \/ StartRecover(u)
                           \/ UpdateStep(u)
    \/ \E t \in Threads : RecoverStep(t) \/ ApplyStep(t)
    \/ \E c \in Compactors : StartCompact(c) \/ CompactStep(c)
    \/ \E p \in {Proc[t] : t \in Threads} : Crash(p)
    \/ PowerFail

Spec == Init /\ [][Next]_vars

(* A thread that runs a call takes its next step: nothing blocks but the   *)
(* two flocks, and the kernel hands a released flock to its waiters in     *)
(* turn, so waiting for one is strongly fair.  The core is started again   *)
(* as long as a WAL is left.  Nobody is obliged to submit or to compact.   *)
ThreadStep(t) ==
    \/ RecoverStep(t) \/ ApplyStep(t)
    \/ t \in Updaters /\ UpdateStep(t)
    \/ t \in Compactors /\ CompactStep(t)

FairSpec ==
    /\ Spec
    /\ \A t \in Threads : SF_vars(ThreadStep(t))
    /\ \A u \in Updaters : WF_vars(StartRecover(u))

-----------------------------------------------------------------------------
(* Properties.                                                             *)

Manifest == [gen: Nat, segs: Seq(Descriptor), log: Seq(Batches)]

Wal == [base: Nat, batch: Batches]

Labels == {"idle", "recover", "recover_lock", "apply_lock", "apply",
           "wal_write", "wal_sync", "write", "publish", "publish_sync",
           "clear", "clear_sync", "abort", "abort_clear", "abort_sync",
           "compact_wal", "compact_policy", "compact_gc", "compact_collect", "compact_write",
           "compact_relock", "compact_publish", "compact_publish_sync",
           "compact_obsolete", "compact_done", "compact_status", "compact_clean"}

(* The type of every variable. *)
TypeOK ==
    /\ manifest \in Manifest
    /\ wal \in Wal \cup {NoWal}
    /\ survivors \subseteq [manifest: Manifest, wal: Wal \cup {NoWal}]
    /\ dirs \subseteq Descriptor /\ syncedDirs \subseteq Descriptor
    /\ writerLock \in Threads \cup {NoThread}
    /\ compactionLock \in Compactors \cup {NoThread}
    /\ pc \in [Threads -> Labels]
    /\ call \in [Threads -> {"none", "update", "recover", "compact"}]
    /\ own \in [Threads -> Batches \cup {NoBatch}]
    /\ replay \in [Threads -> BOOLEAN]
    /\ base \in [Threads -> Manifest]
    /\ plan \in [Threads -> Seq(Events)]
    /\ mine \in [Threads -> Seq(Descriptor)]
    /\ source \in [Threads -> [first: Nat, segs: Seq(Descriptor)]]
    /\ clears \in [Threads -> BOOLEAN]
    /\ outcome \in [Batches -> {"none", "pending", "ok", "error"}]
    /\ logged \subseteq Batches
    /\ crashes \in 0..MaxCrashes

LogSet(m) == {m.log[i] : i \in 1..Len(m.log)}

(* The event that the batches of a log leave for id, counted from what the *)
(* build put there.                                                        *)
Expected(log, id) ==
    LET at == {i \in 1..Len(log) : BatchEvents(log[i])[id] # NoEvent}
        e  == IF at = {} THEN BuiltEvents[id]
              ELSE BatchEvents(log[CHOOSE i \in at : \A j \in at : j <= i])[id]
    IN  IF e = Tomb THEN NoEvent ELSE e

(* The published manifest, and every one a power loss may leave, names     *)
(* only segments that exist and survive: neither the cleanup of a failed   *)
(* call, nor compact_gc, nor the removal of obsolete segments takes one    *)
(* away.                                                                   *)
ManifestSound ==
    /\ SegSet(manifest.segs) \subseteq dirs
    /\ \A s \in survivors : SegSet(s.manifest.segs) \subseteq dirs \cap syncedDirs

(* What searches see is the published batches applied in order: a          *)
(* compaction that rewrites a range while updates are appended, drops      *)
(* tombstones or splits its output changes no document.                    *)
IndexReflectsLog ==
    \A id \in Ids : Visible(manifest.segs, id) = Expected(manifest.log, id)

(* No batch is published twice, although update_recover replays WALs whose *)
(* publication it cannot see directly.                                     *)
AtMostOnce ==
    \A i, j \in 1..Len(manifest.log) : manifest.log[i] = manifest.log[j] => i = j

(* A caller told "ok" finds its batch in the manifest, also after a crash  *)
(* or a power loss.                                                        *)
AckedDurable ==
    \A b \in Batches : outcome[b] = "ok" =>
        \A s \in survivors : b \in LogSet(s.manifest)

(* A caller told "error" never finds its batch in the index, not even      *)
(* through a later replay of a WAL.                                        *)
ErrorNotApplied ==
    \A b \in Batches : outcome[b] = "error" => b \notin LogSet(manifest)

(* A batch whose WAL was synced and whose caller is gone can still be      *)
(* replayed or has been published.                                         *)
LoggedRecoverable ==
    \A b \in logged :
        outcome[b] = "pending" /\ (\A u \in Updaters : own[u] # b) =>
            \/ b \in LogSet(manifest)
            \/ wal # NoWal /\ wal.batch = b

(* update_recover can decide every WAL it finds: the manifest is at its    *)
(* base generation without the batch, or at its target generation with it. *)
WalDecidable ==
    wal # NoWal =>
        \/ manifest.gen = wal.base /\ wal.batch \notin LogSet(manifest)
        \/ manifest.gen = wal.base + 1 /\ wal.batch \in LogSet(manifest)

(* The range a compaction selected stays where it was, unchanged, while    *)
(* the writer lock is dropped: its work is never thrown away.              *)
RangeStable ==
    \A c \in Compactors :
        pc[c] \in {"compact_collect", "compact_write", "compact_relock"} =>
            RangeUnchanged(source[c], manifest.segs)

(* Every call returns: no order of the two locks, of recoveries and of     *)
(* bisected writes leaves a thread waiting or looping for ever.            *)
CallsReturn == \A t \in Threads : pc[t] # "idle" ~> pc[t] = "idle"

(* A WAL left behind by a crash is replayed or found published, and goes.  *)
WalSettles == wal # NoWal ~> wal = NoWal

(* Searches and callers see the index IndexSpec promises: every step of    *)
(* updates, recoveries, compactions and crashes is one of its steps or     *)
(* changes nothing it can see.                                             *)
Promise == INSTANCE IndexSpec WITH
    Effect    <- [b \in Batches |-> BatchEvents(b)],
    Built     <- [id \in Ids |-> IF BuiltEvents[id] = Tomb THEN NoEvent ELSE BuiltEvents[id]],
    index     <- [id \in Ids |-> Visible(manifest.segs, id)],
    committed <- LogSet(manifest)

ImplementsIndex == Promise!Spec
=============================================================================
