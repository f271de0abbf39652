---------------------------- MODULE IndexStoreSteps -------------------------
(***************************************************************************)
(* What the steps of IndexStore do to the index directory and to a batch   *)
(* on its way from the caller through the WAL into the manifest, and the   *)
(* invariants of callers and of recovery they keep: a batch is published   *)
(* at most once, an acknowledged batch stays, a refused batch never shows, *)
(* a logged batch is not lost.  The types come from IndexStoreTypes, and   *)
(* IndexStoreTheorems draws the conclusions.                               *)
(***************************************************************************)
EXTENDS IndexStoreInv, TLAPS

Current == [manifest |-> manifest, wal |-> wal]

NoRepeat(log) == \A i, j \in 1..Len(log) : log[i] = log[j] => i = j

(* A WAL whose batch is in the manifest counts from an older generation:   *)
(* update_recover does not replay it.                                      *)
Single(s) ==
    /\ NoRepeat(s.manifest.log)
    /\ s.wal # NoWal =>
         /\ s.wal.base <= s.manifest.gen
         /\ s.wal.batch \in LogSet(s.manifest) => s.wal.base < s.manifest.gen

(* Neither the index nor a WAL of any of the states S knows of batch b.    *)
Untouched(b, S) ==
    \A s \in S : /\ b \notin LogSet(s.manifest)
                 /\ s.wal # NoWal => s.wal.batch # b

(* Stages of a thread: its own batch is not in a WAL yet, it is and is     *)
(* being applied, it is published; or the batch of a WAL is replayed.      *)
Waiting(t) ==
    /\ call[t] = "update"
    /\ \/ replay[t]
       \/ pc[t] \in {"recover", "recover_lock", "apply_lock", "apply", "wal_write"}

Logging(t) == ~replay[t] /\ pc[t] \in {"wal_sync", "write", "publish"}

Finishing(t) == ~replay[t] /\ pc[t] \in {"publish_sync", "clear", "clear_sync"}

Replaying(t) == replay[t] /\ pc[t] \in {"apply", "write", "publish"}

Loaded(t) ==
    pc[t] \in {"wal_write", "wal_sync", "write", "publish", "compact_gc", "compact_publish"}

StageOk(t) ==
    /\ own[t] \in Batches =>
         /\ outcome[own[t]] = "pending"
         /\ \A u \in Threads \ {t} : own[u] # own[t]
    /\ Waiting(t) => Untouched(own[t], survivors)
    /\ Logging(t) => own[t] \notin LogSet(manifest)
    /\ Replaying(t) => manifest.gen = wal.base
    /\ Loaded(t) => base[t] = manifest

(* The inductive invariant behind AtMostOnce.                              *)
OnceInv ==
    /\ Current \in survivors
    /\ \A s \in survivors : Single(s)
    /\ \A b \in Batches : outcome[b] = "none" => Untouched(b, survivors)
    /\ \A t \in Threads : StageOk(t)

AckedInv ==
    /\ AckedDurable
    /\ \A t \in Threads : Finishing(t) => own[t] \in LogSet(manifest)

(* The fsyncs and unlinks behind a rename that has taken place succeed.    *)
NoLateFaults == Faults \cap {"wal_sync", "wal_unlink", "manifest_sync"} = {}

(* A failing update has written no WAL, or has still to remove it.         *)
Refused(t) == pc[t] = "abort" /\ ~replay[t] /\ ~clears[t]

Withdrawing(t) == pc[t] \in {"abort", "abort_clear", "abort_sync"} /\ clears[t]

ErrorInv ==
    /\ \A b \in Batches : outcome[b] = "error" => Untouched(b, survivors)
    /\ \A t \in Threads :
          /\ Refused(t) => Untouched(own[t], survivors)
          /\ Withdrawing(t) => own[t] \notin LogSet(manifest)
          /\ pc[t] = "abort_sync" => wal = NoWal

(* wal_active, and whose batch it is about.                                *)
ClearsAt(t) ==
    /\ clears[t] =>
         /\ ~replay[t]
         /\ pc[t] \in {"write", "publish", "publish_sync", "clear", "clear_sync",
                       "abort", "abort_clear", "abort_sync"}
    /\ ~replay[t] /\ pc[t] \in {"write", "publish", "publish_sync"} => clears[t]
    /\ pc[t] \in {"abort_clear", "abort_sync"} => clears[t]
    /\ ~replay[t] /\ pc[t] \in {"publish_sync", "clear", "clear_sync", "abort",
                                "abort_clear", "abort_sync"} => call[t] = "update"

ClearsOk == \A t \in Threads : ClearsAt(t)

-----------------------------------------------------------------------------
(* What the steps do to the index directory and to the stage of a batch.   *)

Fixed(t) ==
    /\ call'[t] = call[t] /\ own'[t] = own[t] /\ replay'[t] = replay[t]
    /\ base'[t] = base[t] /\ clears'[t] = clears[t]

Apart(t) == \A u \in Threads \ {t} : pc'[u] = pc[u] /\ Fixed(u)

KeepDir ==
    /\ manifest' = manifest /\ wal' = wal
    /\ UNCHANGED survivors \/ SyncIndexDir

(* A thread goes on with the batch it has.                                 *)
Walk(t) ==
    /\ KeepDir /\ Apart(t) /\ own'[t] = own[t] /\ UNCHANGED outcome
    /\ Waiting(t)' => Waiting(t)
    /\ Logging(t)' => Logging(t)
    /\ Finishing(t)' => Finishing(t)
    /\ Replaying(t)' => Replaying(t) \/ manifest.gen = wal.base
    /\ Loaded(t)' => base'[t] = manifest \/ (Loaded(t) /\ base'[t] = base[t])
    /\ NoLateFaults =>
         /\ Refused(t)' => Refused(t) \/ Waiting(t)
         /\ Withdrawing(t)' => Withdrawing(t) \/ Logging(t)
    /\ pc'[t] = "abort_sync" => pc[t] = "abort_sync"

Off(t) ==
    /\ pc'[t] = "idle" /\ call'[t] = "none" /\ own'[t] = NoBatch
    /\ ~replay'[t] /\ ~clears'[t]

(* An update is called.                                                    *)
Take(t) ==
    /\ KeepDir /\ Apart(t)
    /\ pc'[t] = "recover" /\ ~replay'[t] /\ ~clears'[t]
    /\ \E b \in Batches : /\ own'[t] = b /\ outcome[b] = "none"
                          /\ outcome' = [outcome EXCEPT ![b] = "pending"]

(* It returns.                                                             *)
Leave(t) ==
    /\ KeepDir /\ Apart(t) /\ Off(t)
    /\ \/ /\ outcome' = [outcome EXCEPT ![own[t]] = "ok"]
          /\ Finishing(t) /\ SyncIndexDir
       \/ /\ outcome' = [outcome EXCEPT ![own[t]] = "error"]
          /\ NoLateFaults => \/ Waiting(t) \/ Refused(t)
                             \/ pc[t] = "abort_sync" /\ SyncIndexDir

(* A WAL is written, a WAL is unlinked.                                    *)
PutWal(t) ==
    /\ Apart(t) /\ Fixed(t) /\ UNCHANGED outcome
    /\ pc[t] = "wal_write" /\ pc'[t] = "wal_sync"
    /\ ChangeIndexDir(manifest, WalRecord(t))

CutWal(t) ==
    /\ Apart(t) /\ Fixed(t) /\ UNCHANGED outcome
    /\ \/ pc[t] = "clear" /\ pc'[t] = "clear_sync"
       \/ pc[t] = "abort_clear" /\ pc'[t] = "abort_sync"
    /\ ChangeIndexDir(manifest, NoWal)

(* An update, or a compaction, renames its manifest into place.            *)
Post(t) ==
    /\ Apart(t) /\ Fixed(t) /\ UNCHANGED outcome
    /\ pc[t] = "publish" /\ pc'[t] = "publish_sync"
    /\ PublishIfGeneration(t, Candidate(t), Append(base[t].log, Applied(t)))

Repost(t) ==
    /\ Apart(t) /\ Fixed(t) /\ UNCHANGED outcome
    /\ pc[t] = "compact_publish" /\ pc'[t] = "compact_publish_sync"
    /\ PublishIfGeneration(t, Replaced(base[t].segs, source[t], mine[t]), base[t].log)

(* Some threads die; all of them do when the power goes.                   *)
Die == /\ KeepDir /\ UNCHANGED outcome
       /\ \A t \in Threads : Off(t) \/ (pc'[t] = pc[t] /\ Fixed(t))

Blackout ==
    /\ PowerLoss /\ UNCHANGED outcome
    /\ \A t \in Threads : Off(t)
    /\ \E s \in survivors : manifest' = s.manifest /\ wal' = s.wal /\ survivors' = {s}

Deed(t) ==
    \/ Walk(t) \/ Take(t) \/ Leave(t) \/ PutWal(t) \/ CutWal(t) \/ Post(t) \/ Repost(t)

(* What apply_operations leaves behind when it returns.                    *)
Returned(t, ok) ==
    /\ Apart(t) /\ ~replay'[t] /\ ~clears'[t]
    /\ \/ /\ ~replay[t] /\ Off(t)
          /\ outcome' = [outcome EXCEPT ![own[t]] = IF ok THEN "ok" ELSE "error"]
       \/ /\ replay[t] /\ call[t] = "update" /\ ~ok /\ Off(t)
          /\ outcome' = [outcome EXCEPT ![own[t]] = "error"]
       \/ /\ replay[t] /\ own'[t] = own[t] /\ outcome' = outcome
          /\ \/ pc'[t] = "idle" /\ call'[t] = "none"
             \/ pc'[t] = "apply_lock" /\ ok /\ call[t] = "update"
             \/ pc'[t] \in {"compact_wal", "compact_done"}

LEMMA ReturnStep ==
    ASSUME ControlType, DataType, NEW t \in Threads, NEW ok \in BOOLEAN, ApplyReturn(t, ok)
    PROVE  Returned(t, ok)
<1>   /\ pc \in [Threads -> Labels]
      /\ call \in [Threads -> {"none", "update", "recover", "compact"}]
      /\ own \in [Threads -> Batches \cup {NoBatch}]
      /\ replay \in [Threads -> BOOLEAN] /\ clears \in [Threads -> BOOLEAN]
      /\ base \in [Threads -> Manifest]
    BY Zenon DEF ControlType, DataType
<1>1. ~replay'[t] /\ ~clears'[t]
    BY Zenon DEF ApplyReturn, ResetApply
<1>2. ASSUME NEW u \in Threads \ {t}
      PROVE  pc'[u] = pc[u] /\ Fixed(u)
    BY Zenon DEF ApplyReturn, ResetApply, RecoverReturn, Goto, Fixed
<1>3. CASE ~replay[t]
    <2>1. /\ pc' = [pc EXCEPT ![t] = "idle"] /\ call' = [call EXCEPT ![t] = "none"]
          /\ own' = [own EXCEPT ![t] = NoBatch]
          /\ outcome' = [outcome EXCEPT ![own[t]] = IF ok THEN "ok" ELSE "error"]
        BY <1>3, Zenon DEF ApplyReturn, Goto
    <2>2. Off(t)
        BY <1>1, <2>1, Zenon DEF Off
    <2> QED
        BY <1>1, <1>2, <1>3, <2>1, <2>2, Zenon DEF Returned, Apart
<1>4. CASE replay[t] /\ call[t] = "update" /\ ~ok
    <2>1. Off(t) /\ outcome' = [outcome EXCEPT ![own[t]] = "error"]
        BY <1>1, <1>4, Zenon DEF ApplyReturn, RecoverReturn, Goto, Off
    <2> QED
        BY <1>1, <1>2, <1>4, <2>1, Zenon DEF Returned, Apart
<1>5. CASE replay[t] /\ ~(call[t] = "update" /\ ~ok)
    <2>1. /\ own'[t] = own[t] /\ outcome' = outcome
          /\ \/ pc'[t] = "idle" /\ call'[t] = "none"
             \/ pc'[t] = "apply_lock" /\ ok /\ call[t] = "update"
             \/ pc'[t] \in {"compact_wal", "compact_done"}
        BY <1>5, Zenon DEF ApplyReturn, RecoverReturn, Goto
    <2> QED
        BY <1>1, <1>2, <1>5, <2>1, Zenon DEF Returned, Apart
<1> QED
    BY <1>3, <1>4, <1>5, Zenon

LEMMA ReturnDeed ==
    ASSUME TypeInv, ClearsOk, NEW t \in Threads, NEW ok \in BOOLEAN, KeepDir,
           ApplyReturn(t, ok),
           pc[t] \in {"clear", "clear_sync", "abort", "abort_clear", "abort_sync"},
           ok => pc[t] = "clear_sync" /\ SyncIndexDir,
           NoLateFaults /\ ~replay[t] =>
              ok \/ Refused(t) \/ (pc[t] = "abort_sync" /\ SyncIndexDir)
    PROVE  Walk(t) \/ Leave(t)
<1>1. Returned(t, ok)
    BY ReturnStep, Zenon DEF TypeInv
<1>2. ASSUME ~replay[t], Off(t),
             outcome' = [outcome EXCEPT ![own[t]] = IF ok THEN "ok" ELSE "error"]
      PROVE  Leave(t)
    <2>1. ok => Finishing(t) /\ SyncIndexDir
        BY <1>2, Zenon DEF Finishing
    <2> QED
        BY <1>1, <1>2, <2>1, Zenon DEF Returned, Leave
<1>3. ASSUME replay[t], call[t] = "update", Off(t),
             outcome' = [outcome EXCEPT ![own[t]] = "error"]
      PROVE  Leave(t)
    BY <1>1, <1>3, Zenon DEF Returned, Leave, Waiting
<1>4. ASSUME replay[t], own'[t] = own[t], outcome' = outcome,
             \/ pc'[t] = "idle" /\ call'[t] = "none"
             \/ pc'[t] = "apply_lock" /\ ok /\ call[t] = "update"
             \/ pc'[t] \in {"compact_wal", "compact_done"}
      PROVE  Walk(t)
    <2>1. Apart(t) /\ ~replay'[t]
        BY <1>1, Zenon DEF Returned
    <2>2. Waiting(t)' => Waiting(t)
        BY <1>4, <2>1, Zenon DEF Waiting
    <2>3. /\ ~Logging(t)' /\ ~Finishing(t)' /\ ~Replaying(t)' /\ ~Loaded(t)'
          /\ ~Refused(t)' /\ ~Withdrawing(t)' /\ pc'[t] # "abort_sync"
        BY <1>4, Zenon DEF Logging, Finishing, Replaying, Loaded, Refused, Withdrawing
    <2> QED
        BY <1>4, <2>1, <2>2, <2>3, Zenon DEF Walk
<1> QED
    BY <1>1, <1>2, <1>3, <1>4, Zenon DEF Returned

LEMMA UpdateDeed ==
    ASSUME TypeInv, ClearsOk, CompactionExclusion, NEW t \in Updaters,
           \/ \E b \in Batches : StartUpdate(t, b)
           \/ StartRecover(t) \/ UpdateStep(t)
    PROVE  Deed(t)
<1>   t \in Threads
    BY Zenon DEF Threads
<1>   /\ pc \in [Threads -> Labels] /\ BatchAtHand
      /\ call \in [Threads -> {"none", "update", "recover", "compact"}]
      /\ own \in [Threads -> Batches \cup {NoBatch}]
      /\ replay \in [Threads -> BOOLEAN] /\ clears \in [Threads -> BOOLEAN]
      /\ base \in [Threads -> Manifest]
    BY Zenon DEF TypeInv, ControlType, DataType
<1> USE DEF Goto, disk, synced, locals, ghosts
<1>1. ASSUME NEW b \in Batches, StartUpdate(t, b)
      PROVE  Deed(t)
    <2>1. Take(t)
        BY <1>1, Zenon
        DEF BatchAtHand, ClearsOk, ClearsAt, StartUpdate, Take, KeepDir, Apart, Fixed
    <2> QED
        BY <2>1, Zenon DEF Deed
<1>2. ASSUME StartRecover(t)
      PROVE  Deed(t)
    <2>1. Walk(t)
        BY <1>2, Zenon
        DEF StartRecover, Walk, KeepDir, Apart, Fixed, Waiting, Logging, Finishing,
            Replaying, Loaded, Refused, Withdrawing
    <2> QED
        BY <2>1, Zenon DEF Deed
<1>3. ASSUME ApplyLock(t)
      PROVE  Deed(t)
    <2>1. Walk(t)
        BY <1>3, Zenon
        DEF BatchAtHand, ClearsOk, ClearsAt, ApplyLock, Walk, KeepDir, Apart, Fixed,
            Waiting, Logging, Finishing,
            Replaying, Loaded, Refused, Withdrawing
    <2> QED
        BY <2>1, Zenon DEF Deed
<1>4. ASSUME WalWrite(t)
      PROVE  Deed(t)
    <2>1. PutWal(t) \/ Walk(t)
        BY <1>4, Zenon
        DEF BatchAtHand, ClearsOk, ClearsAt, WalWrite, Walk, KeepDir, Apart, Fixed,
            Waiting, Logging, Finishing,
            Replaying, Loaded, Refused, Withdrawing, PutWal
    <2> QED
        BY <2>1, Zenon DEF Deed
<1>5. ASSUME WalSync(t)
      PROVE  Deed(t)
    <2>1. Walk(t)
        BY <1>5, Zenon
        DEF BatchAtHand, ClearsOk, ClearsAt, WalSync, Walk, KeepDir, Apart, Fixed,
            Waiting, Logging, Finishing,
            Replaying, Loaded, Refused, Withdrawing, NoLateFaults
    <2> QED
        BY <2>1, Zenon DEF Deed
<1>6. ASSUME AbortClear(t)
      PROVE  Deed(t)
    <2>1. \/ CutWal(t)
          \/ KeepDir /\ ApplyReturn(t, FALSE) /\ "wal_unlink" \in Faults
        BY <1>6, Zenon DEF AbortClear, CutWal, KeepDir, Apart, Fixed
    <2> QED
        BY <1>6, <2>1, ReturnDeed, Zenon DEF AbortClear, NoLateFaults, Deed
<1>7. ASSUME AbortSync(t)
      PROVE  Deed(t)
    <2>1. KeepDir /\ ApplyReturn(t, FALSE) /\ (SyncIndexDir \/ "wal_sync" \in Faults)
        BY <1>7, Zenon DEF AbortSync, KeepDir
    <2> QED
        BY <1>7, <2>1, ReturnDeed, Zenon DEF AbortSync, NoLateFaults, Deed
<1> QED
    BY <1>1, <1>2, <1>3, <1>4, <1>5, <1>6, <1>7, Zenon
    DEF UpdateStep

LEMMA ApplyDeed ==
    ASSUME TypeInv, ClearsOk, CompactionExclusion, NEW t \in Threads,
           \/ RecoverStep(t) \/ ApplyBegin(t)
           \/ UpdateWrite(t) \/ UpdateSeal(t)
    PROVE  Deed(t)
<1>   /\ pc \in [Threads -> Labels] /\ BatchAtHand
      /\ call \in [Threads -> {"none", "update", "recover", "compact"}]
      /\ own \in [Threads -> Batches \cup {NoBatch}]
      /\ replay \in [Threads -> BOOLEAN] /\ clears \in [Threads -> BOOLEAN]
      /\ base \in [Threads -> Manifest]
    BY Zenon DEF TypeInv, ControlType, DataType
<1> USE DEF Goto, disk, synced, locals, ghosts
<1>1. ASSUME RecoverCheck(t)
      PROVE  Deed(t)
    <2>1. Walk(t) \/ Leave(t)
        BY <1>1, SMTT(30)
        DEF RecoverCheck, Walk, KeepDir, Apart, Fixed, Waiting, Logging, Finishing,
            Replaying, Loaded, Refused, Withdrawing, RecoverReturn, Leave, Off
    <2> QED
        BY <2>1, Zenon DEF Deed
<1>2. ASSUME RecoverLock(t)
      PROVE  Deed(t)
    <2>1. Walk(t) \/ Leave(t)
        BY <1>2, SMTT(30)
        DEF BatchAtHand, ClearsOk, ClearsAt, RecoverLock, Walk, KeepDir, Apart, Fixed,
            Waiting, Logging, Finishing,
            Replaying, Loaded, Refused, Withdrawing, RecoverReturn, Leave, Off
    <2> QED
        BY <2>1, Zenon DEF Deed
<1>3. ASSUME ApplyBegin(t)
      PROVE  Deed(t)
    <2>1. Walk(t)
        BY <1>3, ZenonT(30)
        DEF BatchAtHand, ClearsOk, ClearsAt, ApplyBegin, Walk, KeepDir, Apart, Fixed,
            Waiting, Logging, Finishing,
            Replaying, Loaded, Refused, Withdrawing
    <2> QED
        BY <2>1, Zenon DEF Deed
<1>4. ASSUME UpdateWrite(t)
      PROVE  Deed(t)
    <2>1. Walk(t)
        BY <1>4, Zenon
        DEF BatchAtHand, ClearsOk, ClearsAt, UpdateWrite, Walk, KeepDir, Apart, Fixed,
            Waiting, Logging, Finishing,
            Replaying, Loaded, Refused, Withdrawing
    <2> QED
        BY <2>1, Zenon DEF Deed
<1>5. ASSUME UpdateSeal(t)
      PROVE  Deed(t)
    <2>1. Walk(t)
        BY <1>5, Zenon
        DEF BatchAtHand, ClearsOk, ClearsAt, UpdateSeal, Walk, KeepDir, Apart, Fixed,
            Waiting, Logging, Finishing,
            Replaying, Loaded, Refused, Withdrawing
    <2> QED
        BY <2>1, Zenon DEF Deed
<1> QED
    BY <1>1, <1>2, <1>3, <1>4, <1>5, Zenon
    DEF RecoverStep

LEMMA PublishDeed ==
    ASSUME TypeInv, ClearsOk, CompactionExclusion, NEW t \in Threads,
           \/ UpdatePublish(t) \/ UpdatePublishSync(t)
           \/ WalClear(t) \/ WalClearSync(t) \/ ApplyAbort(t)
    PROVE  Deed(t)
<1>   /\ pc \in [Threads -> Labels] /\ BatchAtHand
      /\ call \in [Threads -> {"none", "update", "recover", "compact"}]
      /\ own \in [Threads -> Batches \cup {NoBatch}]
      /\ replay \in [Threads -> BOOLEAN] /\ clears \in [Threads -> BOOLEAN]
      /\ base \in [Threads -> Manifest]
    BY Zenon DEF TypeInv, ControlType, DataType
<1> USE DEF Goto, disk, synced, locals, ghosts
<1>1. ASSUME UpdatePublish(t)
      PROVE  Deed(t)
    <2>1. Post(t) \/ Walk(t)
        BY <1>1, Zenon
        DEF BatchAtHand, ClearsOk, ClearsAt, UpdatePublish, Walk, KeepDir, Apart, Fixed,
            Waiting, Logging,
            Finishing, Replaying, Loaded, Refused, Withdrawing, Post
    <2> QED
        BY <2>1, Zenon DEF Deed
<1>2. ASSUME UpdatePublishSync(t)
      PROVE  Deed(t)
    <2>1. Walk(t)
        BY <1>2, Zenon
        DEF UpdatePublishSync, Walk, KeepDir, Apart, Fixed, Waiting, Logging,
            Finishing, Replaying, Loaded, Refused, Withdrawing, NoLateFaults
    <2> QED
        BY <2>1, Zenon DEF Deed
<1>3. ASSUME WalClear(t)
      PROVE  Deed(t)
    <2>1. \/ CutWal(t)
          \/ KeepDir /\ ApplyReturn(t, FALSE) /\ "wal_unlink" \in Faults
        BY <1>3, Zenon DEF WalClear, CutWal, KeepDir, Apart, Fixed
    <2> QED
        BY <1>3, <2>1, ReturnDeed, Zenon DEF WalClear, NoLateFaults, Deed
<1>4. ASSUME WalClearSync(t)
      PROVE  Deed(t)
    <2>1. /\ KeepDir
          /\ \/ SyncIndexDir /\ ApplyReturn(t, TRUE)
             \/ "wal_sync" \in Faults /\ ApplyReturn(t, FALSE)
        BY <1>4, Zenon DEF WalClearSync, KeepDir
    <2> QED
        BY <1>4, <2>1, ReturnDeed, Zenon DEF WalClearSync, NoLateFaults, Deed
<1>5. ASSUME ApplyAbort(t)
      PROVE  Deed(t)
    <2>1. CASE clears[t]
        <3>1. Walk(t)
            BY <1>5, <2>1, Zenon
            DEF ApplyAbort, ClearsOk, ClearsAt, Walk, KeepDir, Apart, Fixed, Waiting, Logging,
                Finishing, Replaying, Loaded, Refused, Withdrawing
        <3> QED
            BY <3>1, Zenon DEF Deed
    <2>2. CASE ~clears[t]
        <3>1. KeepDir /\ ApplyReturn(t, FALSE) /\ (Refused(t) \/ replay[t])
            BY <1>5, <2>2, Zenon DEF ApplyAbort, KeepDir, Refused
        <3> QED
            BY <1>5, <3>1, ReturnDeed, Zenon DEF ApplyAbort, Deed
    <2> QED
        BY <2>1, <2>2, Zenon
<1> QED
    BY <1>1, <1>2, <1>3, <1>4, <1>5, Zenon

LEMMA CompactDeed ==
    ASSUME TypeInv, ClearsOk, CompactionExclusion, NEW t \in Compactors,
           \/ StartCompact(t) \/ CompactWal(t) \/ CompactPolicy(t) \/ CompactGc(t)
           \/ CompactCollect(t) \/ CompactWrite(t) \/ CompactSync(t)
    PROVE  Deed(t)
<1>   t \in Threads
    BY Zenon DEF Threads
<1>   /\ pc \in [Threads -> Labels] /\ BatchAtHand
      /\ call \in [Threads -> {"none", "update", "recover", "compact"}]
      /\ own \in [Threads -> Batches \cup {NoBatch}]
      /\ replay \in [Threads -> BOOLEAN] /\ clears \in [Threads -> BOOLEAN]
      /\ base \in [Threads -> Manifest]
    BY Zenon DEF TypeInv, ControlType, DataType
<1> USE DEF Goto, disk, synced, locals, ghosts
<1>1. ASSUME StartCompact(t)
      PROVE  Deed(t)
    <2>1. Walk(t)
        BY <1>1, Zenon
        DEF StartCompact, Walk, KeepDir, Apart, Fixed, Waiting, Logging, Finishing,
            Replaying, Loaded, Refused, Withdrawing
    <2> QED
        BY <2>1, Zenon DEF Deed
<1>2. ASSUME CompactWal(t)
      PROVE  Deed(t)
    <2>1. Walk(t)
        BY <1>2, Zenon
        DEF CompactWal, Walk, KeepDir, Apart, Fixed, Waiting, Logging, Finishing,
            Replaying, Loaded, Refused, Withdrawing, CompactionExclusion,
            Compacting
    <2> QED
        BY <2>1, Zenon DEF Deed
<1>3. ASSUME CompactPolicy(t)
      PROVE  Deed(t)
    <2>1. Walk(t)
        BY <1>3, ZenonT(30)
        DEF CompactPolicy, Walk, KeepDir, Apart, Fixed, Waiting, Logging,
            Finishing, Replaying, Loaded, Refused, Withdrawing, CompactReturn,
            ResetApply, StatusWrite
    <2> QED
        BY <2>1, Zenon DEF Deed
<1>4. ASSUME CompactGc(t)
      PROVE  Deed(t)
    <2>1. Walk(t)
        BY <1>4, Zenon
        DEF CompactGc, Walk, KeepDir, Apart, Fixed, Waiting, Logging, Finishing,
            Replaying, Loaded, Refused, Withdrawing
    <2> QED
        BY <2>1, Zenon DEF Deed
<1>5. ASSUME CompactCollect(t)
      PROVE  Deed(t)
    <2>1. Walk(t)
        BY <1>5, Zenon
        DEF CompactCollect, Walk, KeepDir, Apart, Fixed, Waiting, Logging,
            Finishing, Replaying, Loaded, Refused, Withdrawing
    <2> QED
        BY <2>1, Zenon DEF Deed
<1>6. ASSUME CompactWrite(t)
      PROVE  Deed(t)
    <2>1. Walk(t)
        BY <1>6, Zenon
        DEF CompactWrite, Walk, KeepDir, Apart, Fixed, Waiting, Logging, Finishing,
            Replaying, Loaded, Refused, Withdrawing
    <2> QED
        BY <2>1, Zenon DEF Deed
<1>7. ASSUME CompactSync(t)
      PROVE  Deed(t)
    <2>1. Walk(t)
        BY <1>7, Zenon
        DEF CompactSync, Walk, KeepDir, Apart, Fixed, Waiting, Logging, Finishing,
            Replaying, Loaded, Refused, Withdrawing
    <2> QED
        BY <2>1, Zenon DEF Deed
<1> QED
    BY <1>1, <1>2, <1>3, <1>4, <1>5, <1>6, <1>7, Zenon

LEMMA ReplaceDeed ==
    ASSUME TypeInv, ClearsOk, CompactionExclusion, NEW t \in Compactors,
           \/ CompactRelock(t) \/ CompactPublish(t) \/ CompactPublishSync(t)
           \/ CompactObsolete(t) \/ CompactUnlock(t) \/ CompactStatus(t)
           \/ CompactClean(t)
    PROVE  Deed(t)
<1>   t \in Threads
    BY Zenon DEF Threads
<1>   /\ pc \in [Threads -> Labels] /\ BatchAtHand
      /\ call \in [Threads -> {"none", "update", "recover", "compact"}]
      /\ own \in [Threads -> Batches \cup {NoBatch}]
      /\ replay \in [Threads -> BOOLEAN] /\ clears \in [Threads -> BOOLEAN]
      /\ base \in [Threads -> Manifest]
    BY Zenon DEF TypeInv, ControlType, DataType
<1> USE DEF Goto, disk, synced, locals, ghosts
<1>1. ASSUME CompactRelock(t)
      PROVE  Deed(t)
    <2>1. Walk(t)
        BY <1>1, Zenon
        DEF CompactRelock, Walk, KeepDir, Apart, Fixed, Waiting, Logging,
            Finishing, Replaying, Loaded, Refused, Withdrawing
    <2> QED
        BY <2>1, Zenon DEF Deed
<1>2. ASSUME CompactPublish(t)
      PROVE  Deed(t)
    <2>1. Repost(t) \/ Walk(t)
        BY <1>2, Zenon
        DEF CompactPublish, Walk, KeepDir, Apart, Fixed, Waiting, Logging,
            Finishing, Replaying, Loaded, Refused, Withdrawing, Repost
    <2> QED
        BY <2>1, Zenon DEF Deed
<1>3. ASSUME CompactPublishSync(t)
      PROVE  Deed(t)
    <2>1. Walk(t)
        BY <1>3, Zenon
        DEF CompactPublishSync, Walk, KeepDir, Apart, Fixed, Waiting, Logging,
            Finishing, Replaying, Loaded, Refused, Withdrawing
    <2> QED
        BY <2>1, Zenon DEF Deed
<1>4. ASSUME CompactObsolete(t)
      PROVE  Deed(t)
    <2>1. Walk(t)
        BY <1>4, Zenon
        DEF CompactObsolete, Walk, KeepDir, Apart, Fixed, Waiting, Logging,
            Finishing, Replaying, Loaded, Refused, Withdrawing
    <2> QED
        BY <2>1, Zenon DEF Deed
<1>5. ASSUME CompactUnlock(t)
      PROVE  Deed(t)
    <2>1. Walk(t)
        BY <1>5, Zenon
        DEF CompactUnlock, Walk, KeepDir, Apart, Fixed, Waiting, Logging,
            Finishing, Replaying, Loaded, Refused, Withdrawing
    <2> QED
        BY <2>1, Zenon DEF Deed
<1>6. ASSUME CompactStatus(t)
      PROVE  Deed(t)
    <2>1. Walk(t)
        BY <1>6, Zenon
        DEF CompactStatus, Walk, KeepDir, Apart, Fixed, Waiting, Logging,
            Finishing, Replaying, Loaded, Refused, Withdrawing, StatusWrite
    <2> QED
        BY <2>1, Zenon DEF Deed
<1>7. ASSUME CompactClean(t)
      PROVE  Deed(t)
    <2>1. Walk(t)
        BY <1>7, Zenon
        DEF CompactClean, Walk, KeepDir, Apart, Fixed, Waiting, Logging, Finishing,
            Replaying, Loaded, Refused, Withdrawing, CompactReturn, ResetApply
    <2> QED
        BY <2>1, Zenon DEF Deed
<1> QED
    BY <1>1, <1>2, <1>3, <1>4, <1>5, <1>6, <1>7, Zenon

(* Every step is one of these.                                             *)
LEMMA StepDeed ==
    ASSUME TypeInv, ClearsOk, CompactionExclusion, [Next]_vars
    PROVE  (\E t \in Threads : Deed(t)) \/ Die \/ Blackout
<1>   Updaters \subseteq Threads /\ Compactors \subseteq Threads
    BY Zenon DEF Threads
<1> USE DEF disk, synced, locals, ghosts
<1>1. ASSUME NEW p, Crash(p)
      PROVE  Die
    BY <1>1, Zenon DEF Crash, Kill, Die, KeepDir, Off, Fixed
<1>2. ASSUME PowerFail
      PROVE  Blackout
    BY <1>2, Zenon DEF PowerFail, Kill, Blackout, Off
<1>3. CASE UNCHANGED vars
    BY <1>3, Zenon DEF vars, Die, KeepDir, Fixed
<1> QED
    BY <1>1, <1>2, <1>3, UpdateDeed, ApplyDeed, PublishDeed, CompactDeed,
        ReplaceDeed, Zenon
    DEF Next, ApplyStep, CompactStep

-----------------------------------------------------------------------------
(* update_wal_clear after a failure.                                       *)

LEMMA UpdateClears ==
    ASSUME TypeInv, ClearsOk, CompactionExclusion, NEW t \in Updaters,
           \/ \E b \in Batches : StartUpdate(t, b)
           \/ StartRecover(t) \/ UpdateStep(t)
    PROVE  ClearsAt(t)'
<1>   t \in Threads
    BY Zenon DEF Threads
<1>   /\ pc \in [Threads -> Labels]
      /\ call \in [Threads -> {"none", "update", "recover", "compact"}]
      /\ replay \in [Threads -> BOOLEAN] /\ clears \in [Threads -> BOOLEAN]
    BY Zenon DEF TypeInv, ControlType
<1>   /\ ClearsAt(t) /\ ControlType /\ DataType
      /\ pc[t] \in {"apply", "wal_write", "wal_sync", "write", "publish"}
           /\ ~replay[t] => call[t] = "update"
      /\ pc[t] \in {"idle", "recover", "recover_lock", "apply_lock",
                    "wal_write", "wal_sync", "compact_wal"} => ~replay[t]
    BY Zenon DEF TypeInv, BatchAtHand, ClearsOk
<1> USE DEF Goto, ClearsAt, disk, synced, locks, locals, ghosts
<1>1. ASSUME NEW b \in Batches, StartUpdate(t, b)
      PROVE  ClearsAt(t)'
    BY <1>1, Zenon
    DEF StartUpdate
<1>2. ASSUME StartRecover(t)
      PROVE  ClearsAt(t)'
    BY <1>2, Zenon
    DEF StartRecover
<1>3. ASSUME ApplyLock(t)
      PROVE  ClearsAt(t)'
    BY <1>3, Zenon
    DEF ApplyLock, Lock
<1>4. ASSUME WalWrite(t)
      PROVE  ClearsAt(t)'
    BY <1>4, Zenon
    DEF WalWrite, ChangeIndexDir, WalRecord
<1>5. ASSUME WalSync(t)
      PROVE  ClearsAt(t)'
    BY <1>5, Zenon
    DEF WalSync
<1>6. ASSUME AbortClear(t)
      PROVE  ClearsAt(t)'
    BY <1>6, ReturnStep, Zenon
    DEF AbortClear, Returned, Off, Unlock,
        ChangeIndexDir
<1>7. ASSUME AbortSync(t)
      PROVE  ClearsAt(t)'
    BY <1>7, ReturnStep, Zenon
    DEF AbortSync, Returned, Off, Unlock
<1> QED
    BY <1>1, <1>2, <1>3, <1>4, <1>5, <1>6, <1>7, Zenon
    DEF UpdateStep

LEMMA ApplyClears ==
    ASSUME TypeInv, ClearsOk, CompactionExclusion, NEW t \in Threads,
           \/ RecoverStep(t) \/ ApplyBegin(t)
           \/ UpdateWrite(t) \/ UpdateSeal(t)
    PROVE  ClearsAt(t)'
<1>   /\ pc \in [Threads -> Labels]
      /\ call \in [Threads -> {"none", "update", "recover", "compact"}]
      /\ replay \in [Threads -> BOOLEAN] /\ clears \in [Threads -> BOOLEAN]
    BY Zenon DEF TypeInv, ControlType
<1>   /\ ClearsAt(t) /\ ControlType /\ DataType
      /\ pc[t] \in {"apply", "wal_write", "wal_sync", "write", "publish"}
           /\ ~replay[t] => call[t] = "update"
      /\ pc[t] \in {"idle", "recover", "recover_lock", "apply_lock",
                    "wal_write", "wal_sync", "compact_wal"} => ~replay[t]
    BY Zenon DEF TypeInv, BatchAtHand, ClearsOk
<1> USE DEF Goto, ClearsAt, disk, synced, locks, locals, ghosts
<1>1. ASSUME RecoverCheck(t)
      PROVE  ClearsAt(t)'
    BY <1>1, Zenon
    DEF RecoverCheck, RecoverReturn
<1>2. ASSUME RecoverLock(t)
      PROVE  ClearsAt(t)'
    BY <1>2, Zenon
    DEF RecoverLock, RecoverReturn, Lock
<1>3. ASSUME ApplyBegin(t)
      PROVE  ClearsAt(t)'
    BY <1>3, Zenon
    DEF ApplyBegin
<1>4. ASSUME UpdateWrite(t)
      PROVE  ClearsAt(t)'
    BY <1>4, Zenon
    DEF UpdateWrite
<1>5. ASSUME UpdateSeal(t)
      PROVE  ClearsAt(t)'
    BY <1>5, Zenon
    DEF UpdateSeal
<1> QED
    BY <1>1, <1>2, <1>3, <1>4, <1>5, Zenon
    DEF RecoverStep

LEMMA PublishClears ==
    ASSUME TypeInv, ClearsOk, CompactionExclusion, NEW t \in Threads,
           \/ UpdatePublish(t) \/ UpdatePublishSync(t)
           \/ WalClear(t) \/ WalClearSync(t) \/ ApplyAbort(t)
    PROVE  ClearsAt(t)'
<1>   /\ pc \in [Threads -> Labels]
      /\ call \in [Threads -> {"none", "update", "recover", "compact"}]
      /\ replay \in [Threads -> BOOLEAN] /\ clears \in [Threads -> BOOLEAN]
    BY Zenon DEF TypeInv, ControlType
<1>   /\ ClearsAt(t) /\ ControlType /\ DataType
      /\ pc[t] \in {"apply", "wal_write", "wal_sync", "write", "publish"}
           /\ ~replay[t] => call[t] = "update"
      /\ pc[t] \in {"idle", "recover", "recover_lock", "apply_lock",
                    "wal_write", "wal_sync", "compact_wal"} => ~replay[t]
    BY Zenon DEF TypeInv, BatchAtHand, ClearsOk
<1> USE DEF Goto, ClearsAt, disk, synced, locks, locals, ghosts
<1>1. ASSUME UpdatePublish(t)
      PROVE  ClearsAt(t)'
    BY <1>1, Zenon
    DEF UpdatePublish, PublishIfGeneration, ChangeIndexDir
<1>2. ASSUME UpdatePublishSync(t)
      PROVE  ClearsAt(t)'
    BY <1>2, Zenon
    DEF UpdatePublishSync
<1>3. ASSUME WalClear(t)
      PROVE  ClearsAt(t)'
    BY <1>3, ReturnStep, Zenon
    DEF WalClear, Returned, Off, Unlock,
        ChangeIndexDir
<1>4. ASSUME WalClearSync(t)
      PROVE  ClearsAt(t)'
    BY <1>4, ReturnStep, Zenon
    DEF WalClearSync, Returned, Off, Unlock
<1>5. ASSUME ApplyAbort(t)
      PROVE  ClearsAt(t)'
    BY <1>5, ReturnStep, Zenon
    DEF ApplyAbort, Returned, Off, Unlock
<1> QED
    BY <1>1, <1>2, <1>3, <1>4, <1>5, Zenon

LEMMA CompactClears ==
    ASSUME TypeInv, ClearsOk, CompactionExclusion, NEW t \in Compactors,
           \/ StartCompact(t) \/ CompactWal(t) \/ CompactPolicy(t) \/ CompactGc(t)
           \/ CompactCollect(t) \/ CompactWrite(t) \/ CompactSync(t)
    PROVE  ClearsAt(t)'
<1>   t \in Threads
    BY Zenon DEF Threads
<1>   /\ pc \in [Threads -> Labels]
      /\ call \in [Threads -> {"none", "update", "recover", "compact"}]
      /\ replay \in [Threads -> BOOLEAN] /\ clears \in [Threads -> BOOLEAN]
    BY Zenon DEF TypeInv, ControlType
<1>   /\ ClearsAt(t) /\ ControlType /\ DataType
      /\ pc[t] \in {"apply", "wal_write", "wal_sync", "write", "publish"}
           /\ ~replay[t] => call[t] = "update"
      /\ pc[t] \in {"idle", "recover", "recover_lock", "apply_lock",
                    "wal_write", "wal_sync", "compact_wal"} => ~replay[t]
    BY Zenon DEF TypeInv, BatchAtHand, ClearsOk
<1> USE DEF Goto, ClearsAt, disk, synced, locks, locals, ghosts
<1>1. ASSUME StartCompact(t)
      PROVE  ClearsAt(t)'
    BY <1>1, Zenon
    DEF StartCompact
<1>2. ASSUME CompactWal(t)
      PROVE  ClearsAt(t)'
    BY <1>2, Zenon
    DEF CompactWal
<1>3. ASSUME CompactPolicy(t)
      PROVE  ClearsAt(t)'
    BY <1>3, Zenon
    DEF CompactPolicy, Unlock, CompactReturn, ResetApply
<1>4. ASSUME CompactGc(t)
      PROVE  ClearsAt(t)'
    BY <1>4, Zenon
    DEF CompactGc, Unlock
<1>5. ASSUME CompactCollect(t)
      PROVE  ClearsAt(t)'
    BY <1>5, Zenon
    DEF CompactCollect
<1>6. ASSUME CompactWrite(t)
      PROVE  ClearsAt(t)'
    BY <1>6, Zenon
    DEF CompactWrite
<1>7. ASSUME CompactSync(t)
      PROVE  ClearsAt(t)'
    BY <1>7, Zenon
    DEF CompactSync
<1> QED
    BY <1>1, <1>2, <1>3, <1>4, <1>5, <1>6, <1>7, Zenon

LEMMA ReplaceClears ==
    ASSUME TypeInv, ClearsOk, CompactionExclusion, NEW t \in Compactors,
           \/ CompactRelock(t) \/ CompactPublish(t) \/ CompactPublishSync(t)
           \/ CompactObsolete(t) \/ CompactUnlock(t) \/ CompactStatus(t)
           \/ CompactClean(t)
    PROVE  ClearsAt(t)'
<1>   t \in Threads
    BY Zenon DEF Threads
<1>   /\ pc \in [Threads -> Labels]
      /\ call \in [Threads -> {"none", "update", "recover", "compact"}]
      /\ replay \in [Threads -> BOOLEAN] /\ clears \in [Threads -> BOOLEAN]
    BY Zenon DEF TypeInv, ControlType
<1>   /\ ClearsAt(t) /\ ControlType /\ DataType
      /\ pc[t] \in {"apply", "wal_write", "wal_sync", "write", "publish"}
           /\ ~replay[t] => call[t] = "update"
      /\ pc[t] \in {"idle", "recover", "recover_lock", "apply_lock",
                    "wal_write", "wal_sync", "compact_wal"} => ~replay[t]
    BY Zenon DEF TypeInv, BatchAtHand, ClearsOk
<1> USE DEF Goto, ClearsAt, disk, synced, locks, locals, ghosts
<1>1. ASSUME CompactRelock(t)
      PROVE  ClearsAt(t)'
    BY <1>1, Zenon
    DEF CompactRelock, Lock
<1>2. ASSUME CompactPublish(t)
      PROVE  ClearsAt(t)'
    BY <1>2, Zenon
    DEF CompactPublish, PublishIfGeneration, ChangeIndexDir
<1>3. ASSUME CompactPublishSync(t)
      PROVE  ClearsAt(t)'
    BY <1>3, Zenon
    DEF CompactPublishSync
<1>4. ASSUME CompactObsolete(t)
      PROVE  ClearsAt(t)'
    BY <1>4, Zenon
    DEF CompactObsolete
<1>5. ASSUME CompactUnlock(t)
      PROVE  ClearsAt(t)'
    BY <1>5, Zenon
    DEF CompactUnlock, Unlock
<1>6. ASSUME CompactStatus(t)
      PROVE  ClearsAt(t)'
    BY <1>6, Zenon
    DEF CompactStatus
<1>7. ASSUME CompactClean(t)
      PROVE  ClearsAt(t)'
    BY <1>7, Zenon
    DEF CompactClean, CompactReturn, ResetApply
<1> QED
    BY <1>1, <1>2, <1>3, <1>4, <1>5, <1>6, <1>7, Zenon

(* The WAL a failing update clears is the one it wrote.                    *)
LEMMA ClearsStep ==
    ASSUME TypeInv, ClearsOk, CompactionExclusion, [Next]_vars
    PROVE  ClearsOk'
<1>   Updaters \subseteq Threads /\ Compactors \subseteq Threads
    BY Zenon DEF Threads
<1> USE DEF disk, synced, locks, locals, ghosts
<1>1. ASSUME NEW p, Crash(p)
      PROVE  ClearsOk'
    BY <1>1, Zenon DEF Crash, Kill, ClearsOk, ClearsAt
<1>2. ASSUME PowerFail
      PROVE  ClearsOk'
    BY <1>2, Zenon DEF PowerFail, Kill, ClearsOk, ClearsAt
<1>3. CASE UNCHANGED vars
    BY <1>3, Zenon DEF vars, ClearsOk, ClearsAt
<1>4. ASSUME NEW t \in Threads, Deed(t), ClearsAt(t)'
      PROVE  ClearsOk'
    <2>1. Apart(t)
        BY <1>4, Zenon DEF Deed, Walk, Take, Leave, PutWal, CutWal, Post, Repost
    <2>2. ASSUME NEW u \in Threads \ {t}
          PROVE  ClearsAt(u)'
        BY <2>1, Zenon DEF Apart, Fixed, ClearsOk, ClearsAt
    <2> QED
        BY <1>4, <2>2, Zenon DEF ClearsOk
<1> QED
    BY <1>1, <1>2, <1>3, <1>4, UpdateDeed, ApplyDeed, PublishDeed, CompactDeed, ReplaceDeed,
        UpdateClears, ApplyClears, PublishClears, CompactClears, ReplaceClears, Zenon
    DEF Next, ApplyStep, CompactStep

-----------------------------------------------------------------------------
(* What the deeds do to the files.                                         *)

LEMMA FieldFacts ==
    /\ \A m \in Manifest : m.gen \in Nat /\ m.log \in Seq(Batches)
    /\ \A w \in Wal : w.base \in Nat /\ w.batch \in Batches
BY Zenon DEF Manifest, Wal

LEMMA LogFacts ==
    ASSUME NEW n, n.log \in Seq(Batches), NEW b \in Batches,
           NEW m, m.log = Append(n.log, b)
    PROVE  /\ LogSet(m) = LogSet(n) \cup {b}
           /\ NoRepeat(n.log) /\ b \notin LogSet(n) => NoRepeat(m.log)
<1>1. /\ Len(m.log) = Len(n.log) + 1 /\ Len(n.log) \in Nat
      /\ \A i \in 1..Len(n.log) : m.log[i] = n.log[i]
      /\ m.log[Len(n.log) + 1] = b
    BY SMTT(30)
<1>2. LogSet(m) = LogSet(n) \cup {b}
    BY <1>1, SMTT(30) DEF LogSet
<1>3. NoRepeat(n.log) /\ b \notin LogSet(n) => NoRepeat(m.log)
    BY <1>1, SMTT(30) DEF NoRepeat, LogSet
<1> QED
    BY <1>2, <1>3, Zenon

LEMMA KeptFacts ==
    ASSUME Current \in survivors, KeepDir
    PROVE  survivors' \subseteq survivors /\ Current' \in survivors'
BY Zenon DEF KeepDir, Current, SyncIndexDir

LEMMA KeptUntouched ==
    ASSUME Current \in survivors, KeepDir, NEW b, Untouched(b, survivors)
    PROVE  Untouched(b, survivors')
BY KeptFacts, Zenon DEF Untouched

(* A publication adds one state of the index directory, one generation     *)
(* later and with a log that grows by the batch applied, or does not.      *)
LEMMA PostFacts ==
    ASSUME TypeInv, OnceInv, NEW t \in Threads, Post(t)
    PROVE  /\ survivors' = survivors \cup {Current'} /\ wal' = wal
           /\ Applied(t) \in Batches /\ Applied(t) \notin LogSet(manifest)
           /\ LogSet(manifest') = LogSet(manifest) \cup {Applied(t)}
           /\ NoRepeat(manifest'.log)
           /\ manifest'.gen = manifest.gen + 1
<1> DEFINE m == [gen |-> base[t].gen + 1, segs |-> Candidate(t),
                 log |-> Append(base[t].log, Applied(t))]
<1>1. /\ manifest' = m /\ wal' = wal /\ survivors' = survivors \cup {Current'}
      /\ pc[t] = "publish" /\ base[t] = manifest
    BY Zenon DEF Post, PublishIfGeneration, ChangeIndexDir, Current, OnceInv, StageOk, Loaded
<1>2. /\ manifest \in Manifest /\ manifest.log \in Seq(Batches) /\ manifest.gen \in Nat
      /\ wal \in Wal \cup {NoWal} /\ replay[t] \in BOOLEAN
      /\ \A w \in Wal : w.base \in Nat /\ w.batch \in Batches
    BY FieldFacts, Zenon DEF TypeInv, DataType, ControlType
<1>3. Single(Current) /\ Current.manifest = manifest /\ Current.wal = wal
    BY Zenon DEF OnceInv, Current
<1>4. Applied(t) \in Batches /\ Applied(t) \notin LogSet(manifest)
    <2>1. CASE replay[t]
        <3>1. wal # NoWal /\ manifest.gen = wal.base
            BY <1>1, <2>1, Zenon DEF TypeInv, BatchAtHand, OnceInv, StageOk, Replaying
        <3>2. wal.batch \in LogSet(manifest) => wal.base < manifest.gen
            BY <1>3, <3>1, Zenon DEF Single
        <3>3. ~(wal.base < manifest.gen)
            BY <1>2, <3>1, SMTT(30)
        <3> QED
            BY <1>2, <2>1, <3>1, <3>2, <3>3, Zenon DEF Applied
    <2>2. CASE ~replay[t]
        BY <1>1, <2>2, Zenon DEF TypeInv, BatchAtHand, OnceInv, StageOk, Logging, Applied
    <2> QED
        BY <2>1, <2>2, Zenon
<1>5. m.gen = manifest.gen + 1 /\ m.log = Append(manifest.log, Applied(t))
    BY <1>1, Zenon
<1> HIDE DEF m
<1>6. LogSet(m) = LogSet(manifest) \cup {Applied(t)} /\ NoRepeat(m.log)
    BY <1>2, <1>3, <1>4, <1>5, LogFacts, Zenon DEF Single
<1> QED
    BY <1>1, <1>4, <1>5, <1>6, Zenon

LEMMA RepostFacts ==
    ASSUME TypeInv, OnceInv, NEW t \in Threads, Repost(t)
    PROVE  /\ survivors' = survivors \cup {Current'} /\ wal' = wal
           /\ LogSet(manifest') = LogSet(manifest)
           /\ NoRepeat(manifest'.log)
           /\ manifest'.gen = manifest.gen + 1
<1>1. PICK segs : segs = Replaced(base[t].segs, source[t], mine[t])
    BY Zenon
<1>2. /\ manifest' = [gen |-> base[t].gen + 1, segs |-> segs, log |-> base[t].log]
      /\ wal' = wal /\ survivors' = survivors \cup {Current'} /\ base[t] = manifest
    BY <1>1, Zenon DEF Repost, PublishIfGeneration, ChangeIndexDir, Current, OnceInv, StageOk, Loaded
<1>3. manifest'.log = manifest.log /\ manifest'.gen = manifest.gen + 1
    BY <1>2, Zenon
<1>4. NoRepeat(manifest.log)
    BY Zenon DEF OnceInv, Single, Current
<1> QED
    BY <1>2, <1>3, <1>4, Zenon DEF LogSet

-----------------------------------------------------------------------------
(* A state of the index directory that is reached by these changes of a    *)
(* state that is Single is Single again.                                   *)
LEMMA SingleStep ==
    ASSUME TypeInv, OnceInv, NEW t \in Threads,
           PutWal(t) \/ CutWal(t) \/ Post(t) \/ Repost(t)
    PROVE  /\ Current' \in survivors' /\ \A s \in survivors' : Single(s)
           /\ survivors' = survivors \cup {Current'}
<1>1. /\ manifest.gen \in Nat /\ wal \in Wal \cup {NoWal}
      /\ \A w \in Wal : w.base \in Nat /\ w.batch \in Batches
    BY FieldFacts, Zenon DEF TypeInv, DataType
<1>2. Single(Current) /\ Current.manifest = manifest /\ Current.wal = wal
    BY Zenon DEF OnceInv, Current
<1>3. Current'.manifest = manifest' /\ Current'.wal = wal'
    BY Zenon DEF Current
<1>4. survivors' = survivors \cup {Current'}
    BY PostFacts, RepostFacts, Zenon DEF PutWal, CutWal, ChangeIndexDir, Current
<1>5. CASE PutWal(t)
    <2>1. manifest' = manifest /\ wal' = WalRecord(t) /\ base[t] = manifest
        BY <1>5, Zenon DEF PutWal, ChangeIndexDir, OnceInv, StageOk, Loaded
    <2>2. own[t] \notin LogSet(manifest)
        <3>1. Waiting(t)
            BY <1>5, Zenon DEF PutWal, Waiting, TypeInv, BatchAtHand
        <3> QED
            BY <1>2, <3>1, Zenon DEF OnceInv, StageOk, Untouched
    <2>3. wal'.base = manifest.gen /\ wal'.batch = own[t]
        BY <2>1, Zenon DEF WalRecord
    <2>4. manifest.gen <= manifest.gen
        BY <1>1, SMTT(30)
    <2> QED
        BY <1>2, <1>3, <1>4, <2>1, <2>2, <2>3, <2>4, Zenon DEF Single, OnceInv
<1>6. CASE CutWal(t)
    <2>1. manifest' = manifest /\ wal' = NoWal
        BY <1>6, Zenon DEF CutWal, ChangeIndexDir
    <2> QED
        BY <1>2, <1>3, <1>4, <2>1, Zenon DEF Single, OnceInv
<1>7. CASE Post(t) \/ Repost(t)
    <2>1. wal' = wal /\ NoRepeat(manifest'.log) /\ manifest'.gen = manifest.gen + 1
        BY <1>7, PostFacts, RepostFacts, Zenon
    <2>2. wal # NoWal => wal.base <= manifest.gen /\ wal.base \in Nat
        BY <1>1, <1>2, Zenon DEF Single
    <2>3. wal # NoWal => wal.base < manifest'.gen /\ wal.base <= manifest'.gen
        BY <1>1, <2>1, <2>2, SMTT(30)
    <2>4. Single(Current')
        BY <1>3, <2>1, <2>3, Zenon DEF Single
    <2> QED
        BY <1>4, <2>4, Zenon DEF OnceInv
<1> QED
    BY <1>4, <1>5, <1>6, <1>7, Zenon

(* Batches that are not the one being logged or published stay untouched.  *)
LEMMA UntouchedStep ==
    ASSUME TypeInv, OnceInv, NEW t \in Threads,
           PutWal(t) \/ CutWal(t) \/ Post(t) \/ Repost(t),
           NEW b, Untouched(b, survivors),
           PutWal(t) => b # own[t],
           Post(t) /\ ~replay[t] => b # own[t]
    PROVE  Untouched(b, survivors')
<1>1. survivors' = survivors \cup {Current'}
    BY SingleStep, Zenon
<1>2. /\ b \notin LogSet(manifest) /\ (wal # NoWal => wal.batch # b)
      /\ Current'.manifest = manifest' /\ Current'.wal = wal'
    BY Zenon DEF OnceInv, Untouched, Current
<1>3. b \notin LogSet(manifest') /\ (wal' # NoWal => wal'.batch # b)
    <2>1. CASE PutWal(t)
        <3>1. manifest' = manifest /\ wal' = WalRecord(t) /\ wal'.batch = own[t]
            BY <2>1, Zenon DEF PutWal, ChangeIndexDir, WalRecord
        <3> QED
            BY <1>2, <2>1, <3>1, Zenon
    <2>2. CASE CutWal(t)
        BY <1>2, <2>2, Zenon DEF CutWal, ChangeIndexDir
    <2>3. CASE Post(t)
        <3>1. replay[t] => wal # NoWal
            BY <2>3, Zenon DEF Post, TypeInv, BatchAtHand
        <3>2. b # Applied(t)
            BY <1>2, <2>3, <3>1, Zenon DEF Applied
        <3> QED
            BY <1>2, <2>3, <3>2, PostFacts, Zenon
    <2>4. CASE Repost(t)
        BY <1>2, <2>4, RepostFacts, Zenon
    <2> QED
        BY <2>1, <2>2, <2>3, <2>4, Zenon
<1> QED
    BY <1>1, <1>2, <1>3, Zenon DEF Untouched

-----------------------------------------------------------------------------
(* The stages of the threads that a step leaves alone.                     *)
LEMMA ApartStages ==
    ASSUME NEW t \in Threads, Apart(t), NEW u \in Threads \ {t}
    PROVE  /\ own'[u] = own[u] /\ base'[u] = base[u] /\ pc'[u] = pc[u]
           /\ Waiting(u)' <=> Waiting(u)
           /\ Logging(u)' <=> Logging(u)
           /\ Finishing(u)' <=> Finishing(u)
           /\ Replaying(u)' <=> Replaying(u)
           /\ Loaded(u)' <=> Loaded(u)
           /\ Refused(u)' <=> Refused(u)
           /\ Withdrawing(u)' <=> Withdrawing(u)
BY Zenon DEF Apart, Fixed, Waiting, Logging, Finishing, Replaying, Loaded, Refused, Withdrawing

LEMMA OffStages ==
    ASSUME NEW t \in Threads, Off(t)
    PROVE  /\ own'[t] = NoBatch /\ NoBatch \notin Batches /\ pc'[t] = "idle"
           /\ ~Waiting(t)' /\ ~Logging(t)' /\ ~Finishing(t)' /\ ~Replaying(t)'
           /\ ~Loaded(t)' /\ ~Refused(t)' /\ ~Withdrawing(t)'
BY StoreAssumption, Zenon
DEF Off, Waiting, Logging, Finishing, Replaying, Loaded, Refused, Withdrawing

(* Whoever works on the index directory does so alone.                     *)
LEMMA LoneWriter ==
    ASSUME TypeInv, NEW t \in Threads, pc[t] \in Holding, NEW u \in Threads \ {t}
    PROVE  ~Logging(u) /\ ~Replaying(u) /\ ~Loaded(u) /\ pc[u] # "abort_sync"
           /\ ~Finishing(u) /\ ~Withdrawing(u)
BY Zenon DEF TypeInv, WriterExclusion, Holding, Logging, Replaying, Loaded, Finishing, Withdrawing

LEMMA StageBatch ==
    ASSUME TypeInv, NEW t \in Threads, Waiting(t) \/ Logging(t)
    PROVE  own[t] \in Batches
BY Zenon DEF TypeInv, BatchAtHand, Waiting, Logging

LEMMA OnceKept ==
    ASSUME TypeInv, OnceInv, Current \in survivors, KeepDir
    PROVE  /\ Current' \in survivors' /\ \A s \in survivors' : Single(s)
           /\ \A b : Untouched(b, survivors) => Untouched(b, survivors')
           /\ LogSet(manifest') = LogSet(manifest) /\ manifest' = manifest /\ wal' = wal
BY KeptFacts, KeptUntouched, Zenon DEF OnceInv, KeepDir

(* How a stage is shown to be right after a step.                          *)
LEMMA StageNext ==
    ASSUME NEW u \in Threads, NEW b, own'[u] = b, NEW c, base'[u] = c,
           b \in Batches => /\ outcome'[b] = "pending"
                            /\ \A v \in Threads \ {u} : own'[v] # b,
           Waiting(u)' => Untouched(b, survivors'),
           Logging(u)' => b \notin LogSet(manifest'),
           Replaying(u)' => manifest'.gen = wal'.base,
           Loaded(u)' => c = manifest'
    PROVE  StageOk(u)'
BY Zenon DEF StageOk

LEMMA OnceStep ==
    ASSUME TypeInv, ClearsOk, CompactionExclusion, OnceInv, [Next]_vars
    PROVE  OnceInv'
<1>a. /\ Current \in survivors /\ \A s \in survivors : Single(s)
      /\ \A b \in Batches : outcome[b] = "none" => Untouched(b, survivors)
      /\ \A t \in Threads : StageOk(t)
      /\ outcome \in [Batches -> {"none", "pending", "ok", "error"}]
      /\ own \in [Threads -> Batches \cup {NoBatch}]
      /\ NoBatch \notin Batches
    BY StoreAssumption, Zenon DEF OnceInv, TypeInv, ControlType
<1>1. ASSUME NEW t \in Threads, Walk(t)
      PROVE  OnceInv'
    <2>1. KeepDir /\ Apart(t) /\ own'[t] = own[t] /\ outcome' = outcome
        BY <1>1, Zenon DEF Walk
    <2>2. \A u \in Threads : own'[u] = own[u]
        BY <2>1, ApartStages, Zenon
    <2>3. ASSUME NEW u \in Threads
          PROVE  StageOk(u)'
        <3>1. StageOk(u)
            BY <1>a, Zenon
        <3>2. /\ Waiting(u)' => Waiting(u)
              /\ Logging(u)' => Logging(u)
              /\ Replaying(u)' => Replaying(u) \/ manifest.gen = wal.base
              /\ Loaded(u)' => base'[u] = manifest \/ (Loaded(u) /\ base'[u] = base[u])
            BY <1>1, <2>1, ApartStages, Zenon DEF Walk
        <3>3. Waiting(u)' => Untouched(own[u], survivors')
            BY <1>a, <2>1, <3>1, <3>2, OnceKept, Zenon DEF StageOk
        <3>4. /\ Logging(u)' => own[u] \notin LogSet(manifest')
              /\ Replaying(u)' => manifest'.gen = wal'.base
              /\ Loaded(u)' => base'[u] = manifest'
            BY <1>a, <2>1, <3>1, <3>2, OnceKept, Zenon DEF StageOk
        <3>5. own[u] \in Batches => /\ outcome'[own[u]] = "pending"
                                    /\ \A v \in Threads \ {u} : own'[v] # own[u]
            BY <2>1, <2>2, <3>1, Zenon DEF StageOk
        <3> QED
            BY <2>2, <3>3, <3>4, <3>5, StageNext, Zenon
    <2> QED
        BY <1>a, <2>1, <2>3, OnceKept, Zenon DEF OnceInv
<1>2. ASSUME NEW t \in Threads, Take(t)
      PROVE  OnceInv'
    <2>1. PICK b \in Batches : /\ own'[t] = b /\ outcome[b] = "none"
                               /\ outcome' = [outcome EXCEPT ![b] = "pending"]
        BY <1>2, Zenon DEF Take
    <2>2. /\ KeepDir /\ Apart(t) /\ pc'[t] = "recover" /\ ~replay'[t]
        BY <1>2, Zenon DEF Take
    <2>3. \A u \in Threads : own[u] # b
        BY <1>a, <2>1, Zenon DEF StageOk
    <2>4. Untouched(b, survivors')
        BY <1>a, <2>1, <2>2, OnceKept, Zenon
    <2>5. /\ outcome'[b] = "pending"
          /\ \A c \in Batches \ {b} : outcome'[c] = outcome[c]
        BY <1>a, <2>1, Zenon
    <2>6. StageOk(t)'
        <3>1. own'[t] = b /\ \A u \in Threads \ {t} : own'[u] # b
            BY <2>1, <2>2, <2>3, ApartStages, Zenon
        <3>2. ~Logging(t)' /\ ~Replaying(t)' /\ ~Loaded(t)'
            BY <2>1, <2>2, Zenon DEF Logging, Replaying, Loaded
        <3> QED
            BY <2>4, <2>5, <3>1, <3>2, Zenon DEF StageOk
    <2>7. ASSUME NEW u \in Threads \ {t}
          PROVE  StageOk(u)'
        <3>1. own'[u] # b /\ own'[u] = own[u]
            BY <2>2, <2>3, ApartStages, Zenon
        <3>2. own[u] \in Batches => /\ outcome'[own[u]] = "pending"
                                    /\ \A v \in Threads \ {u} : own'[v] # own[u]
            <4>1. own[u] \in Batches => outcome[own[u]] = "pending"
                BY <1>a, Zenon DEF StageOk
            <4>2. \A v \in Threads \ {t} : own'[v] = own[v]
                BY <2>2, ApartStages, Zenon
            <4>3. own[u] \in Batches => \A v \in Threads \ {u} : own[v] # own[u]
                BY <1>a, Zenon DEF StageOk
            <4> QED
                BY <2>1, <2>5, <3>1, <4>1, <4>2, <4>3, Zenon
        <3>3. /\ Waiting(u) => Untouched(own[u], survivors')
              /\ Logging(u) => own[u] \notin LogSet(manifest')
              /\ Replaying(u) => manifest'.gen = wal'.base
              /\ Loaded(u) => base[u] = manifest'
            BY <1>a, <2>2, OnceKept, Zenon DEF StageOk
        <3>4. /\ own'[u] = own[u] /\ base'[u] = base[u]
              /\ (Waiting(u)' => Waiting(u)) /\ (Logging(u)' => Logging(u))
              /\ (Replaying(u)' => Replaying(u)) /\ (Loaded(u)' => Loaded(u))
            BY <2>2, ApartStages, Zenon
        <3> QED
            BY <3>2, <3>3, <3>4, StageNext, Zenon
    <2>8. \A c \in Batches : outcome'[c] = "none" => Untouched(c, survivors')
        BY <1>a, <2>2, <2>5, OnceKept, Zenon
    <2> QED
        BY <1>a, <2>2, <2>6, <2>7, <2>8, OnceKept, Zenon DEF OnceInv
<1>3. ASSUME NEW t \in Threads, Leave(t)
      PROVE  OnceInv'
    <2>1. PICK r \in {"ok", "error"} : outcome' = [outcome EXCEPT ![own[t]] = r]
        BY <1>3, Zenon DEF Leave
    <2>2. /\ KeepDir /\ Apart(t) /\ Off(t)
        BY <1>3, Zenon DEF Leave
    <2>3. /\ \A b \in Batches \ {own[t]} : outcome'[b] = outcome[b]
          /\ \A b \in Batches : outcome'[b] = "none" => outcome[b] = "none"
        BY <1>a, <2>1, Zenon
    <2>4. StageOk(t)'
        BY <2>2, OffStages, Zenon DEF StageOk
    <2>5. ASSUME NEW u \in Threads \ {t}
          PROVE  StageOk(u)'
        <3>1. own'[u] = own[u] /\ (own[u] \in Batches => own[u] # own[t])
            BY <1>a, <2>2, ApartStages, Zenon DEF StageOk
        <3>2. own[u] \in Batches => /\ outcome'[own[u]] = "pending"
                                    /\ \A v \in Threads \ {u} : own'[v] # own[u]
            <4>1. own[u] \in Batches => outcome[own[u]] = "pending"
                BY <1>a, Zenon DEF StageOk
            <4>2. \A v \in Threads \ {t} : own'[v] = own[v]
                BY <2>2, ApartStages, Zenon
            <4>3. own[u] \in Batches => \A v \in Threads \ {u} : own[v] # own[u]
                BY <1>a, Zenon DEF StageOk
            <4>4. own'[t] \notin Batches
                BY <2>2, OffStages, Zenon
            <4> QED
                BY <2>3, <3>1, <4>1, <4>2, <4>3, <4>4, Zenon
        <3>3. /\ Waiting(u) => Untouched(own[u], survivors')
              /\ Logging(u) => own[u] \notin LogSet(manifest')
              /\ Replaying(u) => manifest'.gen = wal'.base
              /\ Loaded(u) => base[u] = manifest'
            BY <1>a, <2>2, OnceKept, Zenon DEF StageOk
        <3>4. /\ own'[u] = own[u] /\ base'[u] = base[u]
              /\ (Waiting(u)' => Waiting(u)) /\ (Logging(u)' => Logging(u))
              /\ (Replaying(u)' => Replaying(u)) /\ (Loaded(u)' => Loaded(u))
            BY <2>2, ApartStages, Zenon
        <3> QED
            BY <3>2, <3>3, <3>4, StageNext, Zenon
    <2> QED
        BY <1>a, <2>2, <2>3, <2>4, <2>5, OnceKept, Zenon DEF OnceInv
<1>4. ASSUME NEW t \in Threads, PutWal(t) \/ CutWal(t) \/ Post(t) \/ Repost(t)
      PROVE  OnceInv'
    <2>1. /\ Apart(t) /\ Fixed(t) /\ outcome' = outcome /\ pc[t] \in Holding
        BY <1>4, Zenon DEF PutWal, CutWal, Post, Repost, Holding
    <2>2. ASSUME NEW u \in Threads
          PROVE  own'[u] = own[u]
        BY <2>1, ApartStages, Zenon DEF Fixed
    <2>3. PutWal(t) \/ (Post(t) /\ ~replay[t]) => own[t] \in Batches
        BY StageBatch, Zenon DEF PutWal, Post, Waiting, Logging, TypeInv, BatchAtHand
    <2>4. ASSUME NEW b \in Batches, outcome[b] = "none"
          PROVE  Untouched(b, survivors')
        <3>1. own[t] \in Batches => b # own[t]
            BY <1>a, <2>4, Zenon DEF StageOk
        <3> QED
            BY <1>4, <1>a, <2>3, <2>4, <3>1, UntouchedStep, Zenon
    <2>5. ASSUME NEW u \in Threads \ {t}
          PROVE  StageOk(u)'
        <3>1. Waiting(u) => Untouched(own[u], survivors')
            BY <1>4, <1>a, <2>3, StageBatch, UntouchedStep, Zenon DEF StageOk
        <3>2. own[u] \in Batches => /\ outcome'[own[u]] = "pending"
                                    /\ \A v \in Threads \ {u} : own'[v] # own[u]
            BY <1>a, <2>1, <2>2, Zenon DEF StageOk
        <3>3. ~Logging(u)' /\ ~Replaying(u)' /\ ~Loaded(u)'
            BY <2>1, ApartStages, LoneWriter, Zenon
        <3> QED
            BY <2>1, <2>2, <3>1, <3>2, <3>3, ApartStages, StageNext, Zenon
    <2>6. StageOk(t)'
        <3>1. CASE PutWal(t)
            <4>1. /\ pc[t] = "wal_write" /\ pc'[t] = "wal_sync" /\ manifest' = manifest
                  /\ ~replay[t] /\ Loaded(t) /\ Waiting(t)
                BY <3>1, Zenon DEF PutWal, ChangeIndexDir, TypeInv, BatchAtHand, Loaded, Waiting
            <4>2. own[t] \notin LogSet(manifest)
                BY <1>a, <4>1, Zenon DEF StageOk, Untouched, Current
            <4>3. ~Waiting(t)' /\ ~Replaying(t)'
                BY <2>1, <4>1, Zenon DEF Fixed, Waiting, Replaying
            <4>4. base'[t] = manifest'
                BY <1>a, <2>1, <4>1, Zenon DEF StageOk, Fixed
            <4>5. own[t] \in Batches => /\ outcome'[own[t]] = "pending"
                                        /\ \A v \in Threads \ {t} : own'[v] # own[t]
                BY <1>a, <2>1, <2>2, Zenon DEF StageOk
            <4> QED
                BY <2>2, <4>1, <4>2, <4>3, <4>4, <4>5, StageNext, Zenon
        <3>2. CASE CutWal(t) \/ Post(t) \/ Repost(t)
            <4>1. pc'[t] \in {"clear_sync", "abort_sync", "publish_sync", "compact_publish_sync"}
                BY <3>2, Zenon DEF CutWal, Post, Repost
            <4>2. ~Logging(t)' /\ ~Replaying(t)' /\ ~Loaded(t)'
                BY <4>1, Zenon DEF Logging, Replaying, Loaded
            <4>3. Waiting(t)' => replay[t] /\ Waiting(t)
                BY <2>1, <4>1, Zenon DEF Waiting, Fixed
            <4>4. Waiting(t)' => Untouched(own[t], survivors')
                BY <1>a, <3>2, <4>3, UntouchedStep, Zenon DEF StageOk, PutWal, CutWal, Post, Repost
            <4> QED
                BY <1>a, <2>1, <2>2, <4>2, <4>4, Zenon DEF StageOk
        <3> QED
            BY <1>4, <3>1, <3>2, Zenon
    <2> QED
        BY <1>4, <2>1, <2>4, <2>5, <2>6, SingleStep, Zenon DEF OnceInv
<1>5. ASSUME Die
      PROVE  OnceInv'
    <2>1. KeepDir /\ outcome' = outcome
        BY <1>5, Zenon DEF Die
    <2>2. \A t \in Threads : own'[t] \in Batches => own'[t] = own[t]
        BY <1>5, OffStages, Zenon DEF Die, Fixed
    <2>3. ASSUME NEW t \in Threads
          PROVE  StageOk(t)'
        <3>1. CASE Off(t)
            BY <3>1, OffStages, Zenon DEF StageOk
        <3>2. CASE pc'[t] = pc[t] /\ Fixed(t)
            <4>1. own'[t] \in Batches => /\ outcome'[own'[t]] = "pending"
                                         /\ \A v \in Threads \ {t} : own'[v] # own'[t]
                BY <1>a, <2>1, <2>2, <3>2, ZenonT(30) DEF StageOk, Fixed
            <4> QED
                BY <1>a, <2>1, <3>2, <4>1, OnceKept, Zenon
                DEF StageOk, Fixed, Waiting, Logging, Replaying, Loaded
        <3> QED
            BY <1>5, <3>1, <3>2, Zenon DEF Die
    <2> QED
        BY <1>a, <2>1, <2>3, OnceKept, Zenon DEF OnceInv
<1>6. ASSUME Blackout
      PROVE  OnceInv'
    <2>1. PICK s \in survivors : manifest' = s.manifest /\ wal' = s.wal /\ survivors' = {s}
        BY <1>6, Zenon DEF Blackout
    <2>2. s = Current'
        BY <2>1, Zenon DEF Current, TypeInv, DataType
    <2>3. \A b \in Batches : outcome'[b] = "none" => Untouched(b, survivors')
        BY <1>6, <1>a, <2>1, Zenon DEF Blackout, Untouched
    <2>4. \A t \in Threads : StageOk(t)'
        BY <1>6, OffStages, Zenon DEF Blackout, StageOk
    <2> QED
        BY <1>a, <2>1, <2>2, <2>3, <2>4, Zenon DEF OnceInv
<1> QED
    BY <1>1, <1>2, <1>3, <1>4, <1>5, <1>6, StepDeed, Zenon DEF Deed

LEMMA OnceInit == Init => OnceInv /\ AckedInv /\ ErrorInv /\ ClearsOk /\ CompactionExclusion
<1> SUFFICES ASSUME Init
             PROVE  OnceInv /\ AckedInv /\ ErrorInv /\ ClearsOk /\ CompactionExclusion
    BY Zenon
<1>1. /\ \A t \in Threads : /\ pc[t] = "idle" /\ call[t] = "none" /\ own[t] = NoBatch
                            /\ ~replay[t] /\ ~clears[t]
      /\ \A b \in Batches : outcome[b] = "none"
      /\ wal = NoWal /\ survivors = {Current} /\ manifest.log = <<>>
      /\ Current.manifest = manifest /\ Current.wal = wal
      /\ NoBatch \notin Batches
    BY StoreAssumption, Zenon DEF Init, Current
<1>2. LogSet(manifest) = {} /\ NoRepeat(manifest.log)
    BY <1>1, SMTT(30) DEF LogSet, NoRepeat
<1>3. \A b : Untouched(b, survivors)
    BY <1>1, <1>2, Zenon DEF Untouched
<1>4. OnceInv
    BY <1>1, <1>2, <1>3, Zenon
    DEF OnceInv, Single, StageOk, Waiting, Logging, Replaying, Loaded
<1>5. AckedInv
    BY <1>1, Zenon DEF AckedInv, AckedDurable, Finishing
<1>6. ErrorInv
    BY <1>1, Zenon DEF ErrorInv, Refused, Withdrawing
<1>7. ClearsOk
    BY <1>1, Zenon DEF ClearsOk, ClearsAt
<1>8. CompactionExclusion
    BY <1>1, Zenon DEF CompactionExclusion, Compacting
<1> QED
    BY <1>4, <1>5, <1>6, <1>7, <1>8, Zenon

Basis == TypeInv /\ ClearsOk /\ CompactionExclusion /\ OnceInv

-----------------------------------------------------------------------------
(* Acknowledged batches.                                                   *)

LEMMA AckedStep ==
    ASSUME Basis, Basis', AckedInv, [Next]_vars
    PROVE  AckedInv'
<1>a. /\ TypeInv /\ OnceInv /\ ClearsOk /\ CompactionExclusion
      /\ Current \in survivors /\ Current.manifest = manifest
      /\ outcome \in [Batches -> {"none", "pending", "ok", "error"}]
      /\ \A b \in Batches : outcome[b] = "ok" =>
            \A s \in survivors : b \in LogSet(s.manifest)
      /\ \A t \in Threads : Finishing(t) => own[t] \in LogSet(manifest)
    BY Zenon DEF Basis, OnceInv, TypeInv, ControlType, Current, AckedInv, AckedDurable
<1>1. ASSUME NEW t \in Threads, Walk(t)
      PROVE  AckedInv'
    <2>1. /\ KeepDir /\ Apart(t) /\ own'[t] = own[t] /\ outcome' = outcome
          /\ Finishing(t)' => Finishing(t)
        BY <1>1, Zenon DEF Walk
    <2>2. survivors' \subseteq survivors /\ manifest' = manifest
        BY <1>a, <2>1, KeptFacts, Zenon DEF KeepDir
    <2>3. \A u \in Threads : Finishing(u)' => own'[u] \in LogSet(manifest')
        BY <1>a, <2>1, <2>2, ApartStages, Zenon
    <2> QED
        BY <1>a, <2>1, <2>2, <2>3, Zenon DEF AckedInv, AckedDurable
<1>2. ASSUME NEW t \in Threads, Take(t) \/ Leave(t)
      PROVE  AckedInv'
    <2>1. KeepDir /\ Apart(t)
        BY <1>2, Zenon DEF Take, Leave
    <2>2. survivors' \subseteq survivors /\ manifest' = manifest
        BY <1>a, <2>1, KeptFacts, Zenon DEF KeepDir
    <2>3. ~Finishing(t)'
        BY <1>2, OffStages, Zenon DEF Take, Leave, Finishing
    <2>4. \A u \in Threads : Finishing(u)' => own'[u] \in LogSet(manifest')
        BY <1>a, <2>1, <2>2, <2>3, ApartStages, Zenon
    <2>5. ASSUME NEW b \in Batches, outcome'[b] = "ok"
          PROVE  \A s \in survivors' : b \in LogSet(s.manifest)
        <3>1. CASE outcome[b] = "ok"
            BY <1>a, <2>2, <3>1, Zenon
        <3>2. CASE outcome[b] # "ok"
            <4>1. Finishing(t) /\ SyncIndexDir /\ b = own[t]
                BY <1>2, <1>a, <2>5, <3>2, Zenon DEF Take, Leave
            <4>2. survivors' = {Current}
                BY <4>1, Zenon DEF SyncIndexDir, Current
            <4> QED
                BY <1>a, <4>1, <4>2, Zenon
        <3> QED
            BY <3>1, <3>2, Zenon
    <2> QED
        BY <2>4, <2>5, Zenon DEF AckedInv, AckedDurable
<1>3. ASSUME NEW t \in Threads, PutWal(t) \/ CutWal(t) \/ Post(t) \/ Repost(t)
      PROVE  AckedInv'
    <2>1. /\ Apart(t) /\ Fixed(t) /\ outcome' = outcome /\ pc[t] \in Holding
        BY <1>3, Zenon DEF PutWal, CutWal, Post, Repost, Holding
    <2>2. survivors' = survivors \cup {Current'} /\ Current'.manifest = manifest'
        BY <1>3, <1>a, SingleStep, Zenon DEF Current
    <2>3. LogSet(manifest) \subseteq LogSet(manifest')
        BY <1>3, <1>a, PostFacts, RepostFacts, Zenon DEF PutWal, CutWal, ChangeIndexDir
    <2>4. AckedDurable'
        BY <1>a, <2>1, <2>2, <2>3, Zenon DEF AckedDurable
    <2>5. Finishing(t)' => own'[t] \in LogSet(manifest')
        <3>1. CASE Post(t)
            <4>1. Finishing(t)' => Applied(t) = own[t]
                BY <2>1, Zenon DEF Finishing, Fixed, Applied
            <4> QED
                BY <1>a, <2>1, <3>1, <4>1, PostFacts, Zenon DEF Fixed
        <3>2. CASE PutWal(t) \/ CutWal(t) \/ Repost(t)
            <4>1. Finishing(t)' => Finishing(t)
                BY <2>1, <3>2, Zenon DEF Finishing, Fixed, PutWal, CutWal, Repost
            <4> QED
                BY <1>a, <2>1, <2>3, <4>1, Zenon DEF Fixed
        <3> QED
            BY <1>3, <3>1, <3>2, Zenon
    <2>6. \A u \in Threads \ {t} : ~Finishing(u)'
        BY <1>a, <2>1, ApartStages, LoneWriter, Zenon
    <2> QED
        BY <2>4, <2>5, <2>6, Zenon DEF AckedInv
<1>4. ASSUME Die
      PROVE  AckedInv'
    <2>1. survivors' \subseteq survivors /\ manifest' = manifest /\ outcome' = outcome
        BY <1>4, <1>a, KeptFacts, Zenon DEF Die, KeepDir
    <2>2. ASSUME NEW t \in Threads, Finishing(t)'
          PROVE  own'[t] \in LogSet(manifest')
        <3>1. pc'[t] = pc[t] /\ Fixed(t)
            BY <1>4, <2>2, OffStages, Zenon DEF Die
        <3> QED
            BY <1>a, <2>1, <2>2, <3>1, Zenon DEF Finishing, Fixed
    <2> QED
        BY <1>a, <2>1, <2>2, Zenon DEF AckedInv, AckedDurable
<1>5. ASSUME Blackout
      PROVE  AckedInv'
    <2>1. outcome' = outcome /\ survivors' \subseteq survivors
        BY <1>5, Zenon DEF Blackout
    <2>2. \A t \in Threads : ~Finishing(t)'
        BY <1>5, OffStages, Zenon DEF Blackout
    <2> QED
        BY <1>a, <2>1, <2>2, Zenon DEF AckedInv, AckedDurable
<1> QED
    BY <1>1, <1>2, <1>3, <1>4, <1>5, <1>a, StepDeed, Zenon DEF Deed

-----------------------------------------------------------------------------
(* Refused batches.                                                        *)

LEMMA ErrorStep ==
    ASSUME NoLateFaults, Basis, Basis', ErrorInv, [Next]_vars
    PROVE  ErrorInv'
<1>a. /\ TypeInv /\ OnceInv /\ ClearsOk /\ CompactionExclusion
      /\ Current \in survivors /\ Current.manifest = manifest /\ Current.wal = wal
      /\ outcome \in [Batches -> {"none", "pending", "ok", "error"}]
      /\ \A b \in Batches : outcome[b] = "error" => Untouched(b, survivors)
      /\ \A t \in Threads : /\ Refused(t) => Untouched(own[t], survivors)
                            /\ Withdrawing(t) => own[t] \notin LogSet(manifest)
                            /\ pc[t] = "abort_sync" => wal = NoWal
                            /\ Waiting(t) => Untouched(own[t], survivors)
                            /\ Logging(t) => own[t] \notin LogSet(manifest)
    BY Zenon DEF Basis, OnceInv, TypeInv, ControlType, Current, ErrorInv, StageOk
<1>b. ASSUME KeepDir
      PROVE  /\ manifest' = manifest /\ wal' = wal
             /\ \A b : Untouched(b, survivors) => Untouched(b, survivors')
    BY <1>a, <1>b, OnceKept, Zenon
<1>1. ASSUME NEW t \in Threads, Walk(t)
      PROVE  ErrorInv'
    <2>1. /\ KeepDir /\ Apart(t) /\ own'[t] = own[t] /\ outcome' = outcome
          /\ Refused(t)' => Refused(t) \/ Waiting(t)
          /\ Withdrawing(t)' => Withdrawing(t) \/ Logging(t)
          /\ pc'[t] = "abort_sync" => pc[t] = "abort_sync"
        BY <1>1, Zenon DEF Walk
    <2>2. ASSUME NEW u \in Threads
          PROVE  /\ own'[u] = own[u]
                 /\ Refused(u)' => Refused(u) \/ Waiting(u)
                 /\ Withdrawing(u)' => Withdrawing(u) \/ Logging(u)
                 /\ pc'[u] = "abort_sync" => pc[u] = "abort_sync"
        BY <2>1, ApartStages, Zenon
    <2>3. ASSUME NEW u \in Threads
          PROVE  /\ Refused(u)' => Untouched(own'[u], survivors')
                 /\ Withdrawing(u)' => own'[u] \notin LogSet(manifest')
                 /\ pc'[u] = "abort_sync" => wal' = NoWal
        BY <1>a, <1>b, <2>1, <2>2, Zenon
    <2>4. \A b \in Batches : outcome'[b] = "error" => Untouched(b, survivors')
        BY <1>a, <1>b, <2>1, Zenon
    <2> QED
        BY <2>3, <2>4, Zenon DEF ErrorInv
<1>2. ASSUME NEW t \in Threads, Take(t) \/ Leave(t)
      PROVE  ErrorInv'
    <2>1. KeepDir /\ Apart(t)
        BY <1>2, Zenon DEF Take, Leave
    <2>2. ~Refused(t)' /\ ~Withdrawing(t)' /\ pc'[t] # "abort_sync"
        BY <1>2, OffStages, Zenon DEF Take, Leave, Refused, Withdrawing
    <2>3. ASSUME NEW u \in Threads
          PROVE  /\ Refused(u)' => Untouched(own'[u], survivors')
                 /\ Withdrawing(u)' => own'[u] \notin LogSet(manifest')
                 /\ pc'[u] = "abort_sync" => wal' = NoWal
        BY <1>a, <1>b, <2>1, <2>2, ApartStages, Zenon
    <2>4. ASSUME NEW b \in Batches, outcome'[b] = "error"
          PROVE  Untouched(b, survivors')
        <3>1. CASE outcome[b] = "error"
            BY <1>a, <1>b, <2>1, <3>1, Zenon
        <3>2. CASE outcome[b] # "error"
            <4>1. /\ b = own[t]
                  /\ Waiting(t) \/ Refused(t) \/ (pc[t] = "abort_sync" /\ SyncIndexDir)
                BY <1>2, <1>a, <2>4, <3>2, Zenon DEF Take, Leave
            <4>2. CASE Waiting(t) \/ Refused(t)
                BY <1>a, <1>b, <2>1, <4>1, <4>2, Zenon
            <4>3. CASE pc[t] = "abort_sync" /\ SyncIndexDir
                <5>1. survivors' = {Current}
                    BY <4>3, Zenon DEF SyncIndexDir, Current
                <5>2. Withdrawing(t) /\ wal = NoWal
                    BY <1>a, <4>3, Zenon DEF Withdrawing, ClearsOk, ClearsAt
                <5> QED
                    BY <1>a, <4>1, <5>1, <5>2, Zenon DEF Untouched
            <4> QED
                BY <4>1, <4>2, <4>3, Zenon
        <3> QED
            BY <3>1, <3>2, Zenon
    <2> QED
        BY <2>3, <2>4, Zenon DEF ErrorInv
<1>3. ASSUME NEW t \in Threads, PutWal(t) \/ CutWal(t) \/ Post(t) \/ Repost(t)
      PROVE  ErrorInv'
    <2>1. /\ Apart(t) /\ Fixed(t) /\ outcome' = outcome /\ pc[t] \in Holding
        BY <1>3, Zenon DEF PutWal, CutWal, Post, Repost, Holding
    <2>2. PutWal(t) \/ (Post(t) /\ ~replay[t]) =>
             own[t] \in Batches /\ outcome[own[t]] = "pending"
        <3>1. PutWal(t) \/ (Post(t) /\ ~replay[t]) => own[t] \in Batches
            BY <1>a, StageBatch, Zenon DEF PutWal, Post, Waiting, Logging, TypeInv, BatchAtHand
        <3> QED
            BY <1>a, <3>1, Zenon DEF OnceInv, StageOk
    <2>3. \A b \in Batches : outcome'[b] = "error" => Untouched(b, survivors')
        BY <1>3, <1>a, <2>1, <2>2, UntouchedStep, Zenon
    <2>4. ASSUME NEW u \in Threads \ {t}
          PROVE  ~Withdrawing(u)' /\ pc'[u] # "abort_sync" /\ ~Refused(u)'
        BY <1>a, <2>1, ApartStages, Zenon
        DEF Refused, Withdrawing, TypeInv, WriterExclusion, Holding
    <2>5. ~Refused(t)'
        BY <1>3, Zenon DEF PutWal, CutWal, Post, Repost, Refused
    <2>6. /\ Withdrawing(t)' => own'[t] \notin LogSet(manifest')
          /\ pc'[t] = "abort_sync" => wal' = NoWal
        <3>1. CASE CutWal(t)
            BY <1>a, <2>1, <3>1, Zenon DEF CutWal, ChangeIndexDir, Withdrawing, Fixed
        <3>2. CASE PutWal(t) \/ Post(t) \/ Repost(t)
            BY <3>2, Zenon DEF PutWal, Post, Repost, Withdrawing
        <3> QED
            BY <1>3, <3>1, <3>2, Zenon
    <2> QED
        BY <2>3, <2>4, <2>5, <2>6, Zenon DEF ErrorInv
<1>4. ASSUME Die
      PROVE  ErrorInv'
    <2>1. KeepDir /\ outcome' = outcome
        BY <1>4, Zenon DEF Die
    <2>2. ASSUME NEW t \in Threads
          PROVE  /\ Refused(t)' => Untouched(own'[t], survivors')
                 /\ Withdrawing(t)' => own'[t] \notin LogSet(manifest')
                 /\ pc'[t] = "abort_sync" => wal' = NoWal
        <3>1. CASE Off(t)
            BY <3>1, OffStages, Zenon
        <3>2. CASE pc'[t] = pc[t] /\ Fixed(t)
            BY <1>a, <1>b, <2>1, <3>2, Zenon DEF Fixed, Refused, Withdrawing
        <3> QED
            BY <1>4, <3>1, <3>2, Zenon DEF Die
    <2> QED
        BY <1>a, <1>b, <2>1, <2>2, Zenon DEF ErrorInv
<1>5. ASSUME Blackout
      PROVE  ErrorInv'
    <2>1. outcome' = outcome /\ survivors' \subseteq survivors
        BY <1>5, Zenon DEF Blackout
    <2>2. \A t \in Threads : ~Refused(t)' /\ ~Withdrawing(t)' /\ pc'[t] # "abort_sync"
        BY <1>5, OffStages, Zenon DEF Blackout
    <2>3. \A b \in Batches : outcome'[b] = "error" => Untouched(b, survivors')
        BY <1>a, <2>1, Zenon DEF Untouched
    <2> QED
        BY <2>2, <2>3, Zenon DEF ErrorInv
<1> QED
    BY <1>1, <1>2, <1>3, <1>4, <1>5, <1>a, StepDeed, Zenon DEF Deed
-----------------------------------------------------------------------------
(* What the WAL is for: the ways a thread stands to update.wal.            *)

(* All threads die together.                                               *)
SingleProcess == \A t, u \in Threads : Proc[t] = Proc[u]

(* update.wal can be unlinked, and the fsyncs behind its rename and its    *)
(* removal succeed.                                                        *)
NoWalFaults == Faults \cap {"wal_sync", "wal_unlink"} = {}

(* The thread has seen that no WAL is left behind.                         *)
Beyond(t) ==
    \/ pc[t] \in {"apply_lock", "wal_write", "compact_policy", "compact_gc",
                  "compact_collect", "compact_write", "compact_relock",
                  "compact_publish"}
    \/ pc[t] = "apply" /\ ~replay[t]

(* update.wal is the one the thread has written.                           *)
Logger(t) ==
    /\ ~replay[t]
    /\ \/ pc[t] \in {"wal_sync", "write", "publish", "publish_sync", "clear",
                     "abort_clear"}
       \/ pc[t] = "abort" /\ clears[t]

(* The WAL at hand has been published; it has been unlinked.               *)
Landed(t) == pc[t] \in {"publish_sync", "clear"}

Cleared(t) == pc[t] \in {"clear_sync", "abort_sync"}

(* What the steps do to the WAL.  A step that changes no name in the index *)
(* directory: the thread looks for the WAL, goes on or returns.            *)
Calm(t) ==
    /\ KeepDir /\ Apart(t)
    /\ Beyond(t)' => Beyond(t) \/ Cleared(t) \/ wal = NoWal
    /\ Logger(t)' => Logger(t) /\ own'[t] = own[t] /\ base'[t] = base[t]
    /\ Logger(t) /\ ~Logger(t)' =>
         /\ ~NoWalFaults
         /\ (pc[t] = "wal_sync" /\ logged' = logged) \/ outcome'[own[t]] # "pending"
    /\ Landed(t)' => Landed(t) \/ (wal # NoWal /\ manifest.gen = wal.base + 1)
    /\ Cleared(t)' => Cleared(t)
    /\ pc'[t] # "wal_sync"
    /\ \/ logged' = logged
       \/ /\ pc[t] = "wal_sync" /\ SyncIndexDir /\ logged' = logged \cup {own[t]}
          /\ Logger(t)'
    /\ \A b \in Batches :
          /\ outcome[b] # "none" => outcome'[b] # "none"
          /\ outcome'[b] = "pending" => outcome[b] \in {"none", "pending"}

(* A step that does: a WAL appears, a WAL goes, a manifest is published.   *)
Rename(t) ==
    \/ (PutWal(t) \/ Post(t) \/ Repost(t)) /\ logged' = logged
    \/ CutWal(t) /\ logged' = (IF pc[t] = "clear" THEN logged ELSE logged \ {own[t]})

Move(t) == Calm(t) \/ Rename(t)

(* The process is gone.                                                    *)
Gone ==
    /\ \A t \in Threads : Off(t)
    /\ survivors' \subseteq survivors /\ Current' \in survivors'
    /\ UNCHANGED <<outcome, logged>>

LEMMA ReturnCalm ==
    ASSUME TypeInv, ClearsOk, NEW t \in Threads, NEW ok \in BOOLEAN, KeepDir,
           ApplyReturn(t, ok), logged' = logged,
           pc[t] \in {"clear", "clear_sync", "abort", "abort_clear", "abort_sync"},
           ok => pc[t] = "clear_sync",
           Logger(t) => ~NoWalFaults
    PROVE  Calm(t)
<1>1. Returned(t, ok)
    BY ReturnStep, Zenon DEF TypeInv
<1>2. Apart(t) /\ ~replay'[t] /\ pc'[t] \in {"idle", "apply_lock", "compact_wal", "compact_done"}
    BY <1>1, Zenon DEF Returned, Off
<1>3. Beyond(t)' => Cleared(t)
    BY <1>1, <1>2, Zenon DEF Returned, Off, Beyond, Cleared
<1>4. ~Logger(t)' /\ ~Landed(t)' /\ ~Cleared(t)' /\ pc'[t] # "wal_sync"
    BY <1>2, Zenon DEF Logger, Landed, Cleared
<1>5. Logger(t) => ~replay[t] /\ own[t] \in Batches
    BY Zenon DEF Logger, TypeInv, BatchAtHand, ClearsOk, ClearsAt
<1>6. outcome \in [Batches -> {"none", "pending", "ok", "error"}]
    BY Zenon DEF TypeInv, ControlType
<1>7. Logger(t) => outcome'[own[t]] # "pending"
    BY <1>1, <1>5, <1>6, Zenon DEF Returned
<1>8. ASSUME NEW b \in Batches
      PROVE  /\ outcome[b] # "none" => outcome'[b] # "none"
             /\ outcome'[b] = "pending" => outcome[b] \in {"none", "pending"}
    BY <1>1, <1>6, Zenon DEF Returned
<1> QED
    BY <1>2, <1>3, <1>4, <1>7, <1>8, Zenon DEF Calm

LEMMA UpdateRename ==
    ASSUME SingleProcess, TypeInv, ClearsOk, CompactionExclusion,
           Current \in survivors, NEW t \in Updaters,
           \/ \E b \in Batches : StartUpdate(t, b)
           \/ StartRecover(t) \/ UpdateStep(t)
    PROVE  Move(t)
<1>   t \in Threads
    BY Zenon DEF Threads
<1>   /\ pc \in [Threads -> Labels] /\ BatchAtHand
      /\ call \in [Threads -> {"none", "update", "recover", "compact"}]
      /\ own \in [Threads -> Batches \cup {NoBatch}]
      /\ replay \in [Threads -> BOOLEAN] /\ clears \in [Threads -> BOOLEAN]
      /\ base \in [Threads -> Manifest]
      /\ outcome \in [Batches -> {"none", "pending", "ok", "error"}]
    BY Zenon DEF TypeInv, ControlType, DataType
<1> USE DEF Goto, disk, synced, locals, ghosts
<1>1. ASSUME NEW b \in Batches, StartUpdate(t, b)
      PROVE  Move(t)
    <2>1. Calm(t)
        BY <1>1, Zenon
        DEF StartUpdate, Calm, KeepDir, Apart, Fixed, Beyond, Logger, Landed,
            Cleared
    <2> QED
        BY <2>1, Zenon DEF Move
<1>2. ASSUME StartRecover(t)
      PROVE  Move(t)
    <2>1. Calm(t)
        BY <1>2, Zenon
        DEF StartRecover, Calm, KeepDir, Apart, Fixed, Beyond, Logger, Landed,
            Cleared
    <2> QED
        BY <2>1, Zenon DEF Move
<1>3. ASSUME ApplyLock(t)
      PROVE  Move(t)
    <2>1. Calm(t)
        BY <1>3, Zenon
        DEF ApplyLock, Calm, KeepDir, Apart, Fixed, Beyond, Logger, Landed,
            Cleared
    <2> QED
        BY <2>1, Zenon DEF Move
<1>4. ASSUME WalWrite(t)
      PROVE  Move(t)
    <2>1. Calm(t) \/ Rename(t)
        BY <1>4, Zenon
        DEF BatchAtHand, ClearsOk, ClearsAt, WalWrite, Calm, KeepDir, Apart, Fixed,
            Beyond, Logger, Landed,
            Cleared, Rename, PutWal, NoWalFaults
    <2> QED
        BY <2>1, Zenon DEF Move
<1>5. ASSUME WalSync(t)
      PROVE  Move(t)
    <2>1. Calm(t)
        BY <1>5, SMTT(30)
        DEF BatchAtHand, ClearsOk, ClearsAt, WalSync, Calm, KeepDir, Apart, Fixed, Beyond,
            Logger, Landed,
            Cleared, NoWalFaults, SyncIndexDir
    <2> QED
        BY <2>1, Zenon DEF Move
<1>6. ASSUME AbortClear(t)
      PROVE  Move(t)
    <2>1. \/ CutWal(t) /\ logged' = logged \ {own[t]} /\ pc[t] # "clear"
          \/ KeepDir /\ ApplyReturn(t, FALSE) /\ logged' = logged /\ "wal_unlink" \in Faults
        BY <1>6, Zenon DEF AbortClear, CutWal, KeepDir, Apart, Fixed
    <2> QED
        BY <1>6, <2>1, ReturnCalm, Zenon DEF AbortClear, NoWalFaults, Move, Rename
<1>7. ASSUME AbortSync(t)
      PROVE  Move(t)
    <2>1. KeepDir /\ ApplyReturn(t, FALSE) /\ ~Logger(t)
        BY <1>7, Zenon DEF AbortSync, KeepDir, Logger
    <2> QED
        BY <1>7, <2>1, ReturnCalm, Zenon DEF AbortSync, Move
<1> QED
    BY <1>1, <1>2, <1>3, <1>4, <1>5, <1>6, <1>7, Zenon
    DEF UpdateStep

LEMMA ApplyRename ==
    ASSUME SingleProcess, TypeInv, ClearsOk, CompactionExclusion,
           Current \in survivors, NEW t \in Threads,
           \/ RecoverStep(t) \/ ApplyBegin(t)
           \/ UpdateWrite(t) \/ UpdateSeal(t)
    PROVE  Move(t)
<1>   /\ pc \in [Threads -> Labels] /\ BatchAtHand
      /\ call \in [Threads -> {"none", "update", "recover", "compact"}]
      /\ own \in [Threads -> Batches \cup {NoBatch}]
      /\ replay \in [Threads -> BOOLEAN] /\ clears \in [Threads -> BOOLEAN]
      /\ base \in [Threads -> Manifest]
      /\ outcome \in [Batches -> {"none", "pending", "ok", "error"}]
    BY Zenon DEF TypeInv, ControlType, DataType
<1> USE DEF Goto, disk, synced, locals, ghosts
<1>1. ASSUME RecoverCheck(t)
      PROVE  Move(t)
    <2>1. Calm(t)
        BY <1>1, ZenonT(30)
        DEF RecoverCheck, Calm, KeepDir, Apart, Fixed, Beyond, Logger, Landed,
            Cleared, RecoverReturn
    <2> QED
        BY <2>1, Zenon DEF Move
<1>2. ASSUME RecoverLock(t)
      PROVE  Move(t)
    <2>1. Calm(t)
        BY <1>2, SMTT(30)
        DEF RecoverLock, Calm, KeepDir, Apart, Fixed, Beyond, Logger, Landed,
            Cleared, RecoverReturn, NoWalFaults
    <2> QED
        BY <2>1, Zenon DEF Move
<1>3. ASSUME ApplyBegin(t)
      PROVE  Move(t)
    <2>1. Calm(t)
        BY <1>3, SMTT(30)
        DEF BatchAtHand, ClearsOk, ClearsAt, ApplyBegin, Calm, KeepDir, Apart, Fixed,
            Beyond, Logger, Landed,
            Cleared, NoWalFaults
    <2> QED
        BY <2>1, Zenon DEF Move
<1>4. ASSUME UpdateWrite(t)
      PROVE  Move(t)
    <2>1. Calm(t)
        BY <1>4, SMTT(30)
        DEF BatchAtHand, ClearsOk, ClearsAt, UpdateWrite, Calm, KeepDir, Apart, Fixed,
            Beyond, Logger, Landed,
            Cleared, NoWalFaults
    <2> QED
        BY <2>1, Zenon DEF Move
<1>5. ASSUME UpdateSeal(t)
      PROVE  Move(t)
    <2>1. Calm(t)
        BY <1>5, Zenon
        DEF BatchAtHand, ClearsOk, ClearsAt, UpdateSeal, Calm, KeepDir, Apart, Fixed,
            Beyond, Logger, Landed,
            Cleared
    <2> QED
        BY <2>1, Zenon DEF Move
<1> QED
    BY <1>1, <1>2, <1>3, <1>4, <1>5, Zenon
    DEF RecoverStep

LEMMA PublishRename ==
    ASSUME SingleProcess, TypeInv, ClearsOk, CompactionExclusion,
           Current \in survivors, NEW t \in Threads,
           \/ UpdatePublish(t) \/ UpdatePublishSync(t)
           \/ WalClear(t) \/ WalClearSync(t) \/ ApplyAbort(t)
    PROVE  Move(t)
<1>   /\ pc \in [Threads -> Labels] /\ BatchAtHand
      /\ call \in [Threads -> {"none", "update", "recover", "compact"}]
      /\ own \in [Threads -> Batches \cup {NoBatch}]
      /\ replay \in [Threads -> BOOLEAN] /\ clears \in [Threads -> BOOLEAN]
      /\ base \in [Threads -> Manifest]
      /\ outcome \in [Batches -> {"none", "pending", "ok", "error"}]
    BY Zenon DEF TypeInv, ControlType, DataType
<1> USE DEF Goto, disk, synced, locals, ghosts
<1>1. ASSUME UpdatePublish(t)
      PROVE  Move(t)
    <2>1. Calm(t) \/ Rename(t)
        BY <1>1, ZenonT(30)
        DEF BatchAtHand, ClearsOk, ClearsAt, UpdatePublish, Calm, KeepDir, Apart, Fixed,
            Beyond, Logger, Landed,
            Cleared, Rename, Post, NoWalFaults
    <2> QED
        BY <2>1, Zenon DEF Move
<1>2. ASSUME UpdatePublishSync(t)
      PROVE  Move(t)
    <2>1. Calm(t)
        BY <1>2, SMTT(30)
        DEF BatchAtHand, ClearsOk, ClearsAt, UpdatePublishSync, Calm, KeepDir, Apart,
            Fixed, Beyond, Logger,
            Landed, Cleared, NoWalFaults
    <2> QED
        BY <2>1, Zenon DEF Move
<1>3. ASSUME WalClear(t)
      PROVE  Move(t)
    <2>1. \/ CutWal(t) /\ logged' = logged /\ pc[t] = "clear"
          \/ KeepDir /\ ApplyReturn(t, FALSE) /\ "wal_unlink" \in Faults
        BY <1>3, Zenon DEF WalClear, CutWal, KeepDir, Apart, Fixed
    <2> QED
        BY <1>3, <2>1, ReturnCalm, Zenon DEF WalClear, NoWalFaults, Move, Rename
<1>4. ASSUME WalClearSync(t)
      PROVE  Move(t)
    <2>1. KeepDir /\ (ApplyReturn(t, TRUE) \/ ApplyReturn(t, FALSE))
        BY <1>4, Zenon DEF WalClearSync, KeepDir
    <2>2. ~Logger(t)
        BY <1>4, Zenon DEF WalClearSync, Logger
    <2> QED
        BY <1>4, <2>1, <2>2, ReturnCalm, Zenon DEF WalClearSync, Move
<1>5. ASSUME ApplyAbort(t)
      PROVE  Move(t)
    <2>1. CASE clears[t]
        <3>1. Calm(t)
            BY <1>5, <2>1, ZenonT(30)
            DEF ApplyAbort, ClearsOk, ClearsAt, Calm, KeepDir, Apart, Fixed, Beyond, Logger, Landed,
                Cleared
        <3> QED
            BY <3>1, Zenon DEF Move
    <2>2. CASE ~clears[t]
        <3>1. KeepDir /\ ApplyReturn(t, FALSE) /\ ~Logger(t)
            BY <1>5, <2>2, Zenon DEF ApplyAbort, KeepDir, Logger
        <3> QED
            BY <1>5, <3>1, ReturnCalm, Zenon DEF ApplyAbort, Move
    <2> QED
        BY <2>1, <2>2, Zenon
<1> QED
    BY <1>1, <1>2, <1>3, <1>4, <1>5, Zenon

LEMMA CompactRename ==
    ASSUME SingleProcess, TypeInv, ClearsOk, CompactionExclusion,
           Current \in survivors, NEW t \in Compactors,
           \/ StartCompact(t) \/ CompactWal(t) \/ CompactPolicy(t) \/ CompactGc(t)
           \/ CompactCollect(t) \/ CompactWrite(t) \/ CompactSync(t)
    PROVE  Move(t)
<1>   t \in Threads
    BY Zenon DEF Threads
<1>   /\ pc \in [Threads -> Labels] /\ BatchAtHand
      /\ call \in [Threads -> {"none", "update", "recover", "compact"}]
      /\ own \in [Threads -> Batches \cup {NoBatch}]
      /\ replay \in [Threads -> BOOLEAN] /\ clears \in [Threads -> BOOLEAN]
      /\ base \in [Threads -> Manifest]
      /\ outcome \in [Batches -> {"none", "pending", "ok", "error"}]
    BY Zenon DEF TypeInv, ControlType, DataType
<1> USE DEF Goto, disk, synced, locals, ghosts
<1>1. ASSUME StartCompact(t)
      PROVE  Move(t)
    <2>1. Calm(t)
        BY <1>1, Zenon
        DEF StartCompact, Calm, KeepDir, Apart, Fixed, Beyond, Logger, Landed,
            Cleared
    <2> QED
        BY <2>1, Zenon DEF Move
<1>2. ASSUME CompactWal(t)
      PROVE  Move(t)
    <2>1. Calm(t)
        BY <1>2, Zenon
        DEF CompactWal, Calm, KeepDir, Apart, Fixed, Beyond, Logger, Landed,
            Cleared, CompactionExclusion, Compacting
    <2> QED
        BY <2>1, Zenon DEF Move
<1>3. ASSUME CompactPolicy(t)
      PROVE  Move(t)
    <2>1. Calm(t)
        BY <1>3, ZenonT(30)
        DEF CompactPolicy, Calm, KeepDir, Apart, Fixed, Beyond, Logger, Landed,
            Cleared, CompactReturn, ResetApply, StatusWrite, SyncIndexDir
    <2> QED
        BY <2>1, Zenon DEF Move
<1>4. ASSUME CompactGc(t)
      PROVE  Move(t)
    <2>1. Calm(t)
        BY <1>4, Zenon
        DEF CompactGc, Calm, KeepDir, Apart, Fixed, Beyond, Logger, Landed,
            Cleared
    <2> QED
        BY <2>1, Zenon DEF Move
<1>5. ASSUME CompactCollect(t)
      PROVE  Move(t)
    <2>1. Calm(t)
        BY <1>5, Zenon
        DEF CompactCollect, Calm, KeepDir, Apart, Fixed, Beyond, Logger,
            Landed, Cleared, NoWalFaults
    <2> QED
        BY <2>1, Zenon DEF Move
<1>6. ASSUME CompactWrite(t)
      PROVE  Move(t)
    <2>1. Calm(t)
        BY <1>6, Zenon
        DEF CompactWrite, Calm, KeepDir, Apart, Fixed, Beyond, Logger, Landed,
            Cleared, NoWalFaults
    <2> QED
        BY <2>1, Zenon DEF Move
<1>7. ASSUME CompactSync(t)
      PROVE  Move(t)
    <2>1. Calm(t)
        BY <1>7, Zenon
        DEF CompactSync, Calm, KeepDir, Apart, Fixed, Beyond, Logger, Landed,
            Cleared
    <2> QED
        BY <2>1, Zenon DEF Move
<1> QED
    BY <1>1, <1>2, <1>3, <1>4, <1>5, <1>6, <1>7, Zenon

LEMMA ReplaceRename ==
    ASSUME SingleProcess, TypeInv, ClearsOk, CompactionExclusion,
           Current \in survivors, NEW t \in Compactors,
           \/ CompactRelock(t) \/ CompactPublish(t) \/ CompactPublishSync(t)
           \/ CompactObsolete(t) \/ CompactUnlock(t) \/ CompactStatus(t)
           \/ CompactClean(t)
    PROVE  Move(t)
<1>   t \in Threads
    BY Zenon DEF Threads
<1>   /\ pc \in [Threads -> Labels] /\ BatchAtHand
      /\ call \in [Threads -> {"none", "update", "recover", "compact"}]
      /\ own \in [Threads -> Batches \cup {NoBatch}]
      /\ replay \in [Threads -> BOOLEAN] /\ clears \in [Threads -> BOOLEAN]
      /\ base \in [Threads -> Manifest]
      /\ outcome \in [Batches -> {"none", "pending", "ok", "error"}]
    BY Zenon DEF TypeInv, ControlType, DataType
<1> USE DEF Goto, disk, synced, locals, ghosts
<1>1. ASSUME CompactRelock(t)
      PROVE  Move(t)
    <2>1. Calm(t)
        BY <1>1, Zenon
        DEF CompactRelock, Calm, KeepDir, Apart, Fixed, Beyond, Logger, Landed,
            Cleared
    <2> QED
        BY <2>1, Zenon DEF Move
<1>2. ASSUME CompactPublish(t)
      PROVE  Move(t)
    <2>1. Calm(t) \/ Rename(t)
        <3>1. /\ pc[t] = "compact_publish"
              /\ UNCHANGED <<call, own, replay, base, clears, outcome, logged>>
              /\ \/ /\ pc' = [pc EXCEPT ![t] = "compact_publish_sync"]
                    /\ PublishIfGeneration(t, Replaced(base[t].segs, source[t], mine[t]), base[t].log)
                 \/ /\ pc' = [pc EXCEPT ![t] = "compact_done"]
                    /\ UNCHANGED <<manifest, wal, survivors>>
            BY <1>2, Zenon DEF CompactPublish
        <3>2. Apart(t) /\ Fixed(t)
            BY <3>1, Zenon DEF Apart, Fixed
        <3>3. CASE pc'[t] = "compact_publish_sync"
            BY <3>1, <3>2, <3>3, Zenon DEF Rename, Repost
        <3>4. CASE pc'[t] = "compact_done"
            BY <3>1, <3>2, <3>4, Zenon
            DEF Calm, KeepDir, Fixed, Beyond, Logger, Landed, Cleared
        <3> QED
            BY <3>1, <3>3, <3>4, Zenon
    <2> QED
        BY <2>1, Zenon DEF Move
<1>3. ASSUME CompactPublishSync(t)
      PROVE  Move(t)
    <2>1. Calm(t)
        BY <1>3, ZenonT(30)
        DEF CompactPublishSync, Calm, KeepDir, Apart, Fixed, Beyond, Logger,
            Landed, Cleared, NoWalFaults
    <2> QED
        BY <2>1, Zenon DEF Move
<1>4. ASSUME CompactObsolete(t)
      PROVE  Move(t)
    <2>1. Calm(t)
        BY <1>4, Zenon
        DEF CompactObsolete, Calm, KeepDir, Apart, Fixed, Beyond, Logger,
            Landed, Cleared
    <2> QED
        BY <2>1, Zenon DEF Move
<1>5. ASSUME CompactUnlock(t)
      PROVE  Move(t)
    <2>1. Calm(t)
        BY <1>5, Zenon
        DEF CompactUnlock, Calm, KeepDir, Apart, Fixed, Beyond, Logger, Landed,
            Cleared
    <2> QED
        BY <2>1, Zenon DEF Move
<1>6. ASSUME CompactStatus(t)
      PROVE  Move(t)
    <2>1. Calm(t)
        BY <1>6, Zenon
        DEF CompactStatus, Calm, KeepDir, Apart, Fixed, Beyond, Logger, Landed,
            Cleared, StatusWrite, SyncIndexDir
    <2> QED
        BY <2>1, Zenon DEF Move
<1>7. ASSUME CompactClean(t)
      PROVE  Move(t)
    <2>1. Calm(t)
        BY <1>7, Zenon
        DEF CompactClean, Calm, KeepDir, Apart, Fixed, Beyond, Logger, Landed,
            Cleared, CompactReturn, ResetApply
    <2> QED
        BY <2>1, Zenon DEF Move
<1> QED
    BY <1>1, <1>2, <1>3, <1>4, <1>5, <1>6, <1>7, Zenon

(* Every step is one of these.                                             *)
LEMMA StepRename ==
    ASSUME SingleProcess, TypeInv, ClearsOk, CompactionExclusion,
           Current \in survivors, [Next]_vars
    PROVE  (\E t \in Threads : Move(t)) \/ Gone \/ UNCHANGED vars
<1>   Updaters \subseteq Threads /\ Compactors \subseteq Threads
    BY Zenon DEF Threads
<1> USE DEF disk, synced, locals, ghosts
<1>1. ASSUME NEW p \in {Proc[t] : t \in Threads}, Crash(p)
      PROVE  Gone
    <2>1. {t \in Threads : Proc[t] = p} = Threads
        BY Zenon DEF SingleProcess
    <2>2. Kill(Threads) /\ UNCHANGED <<disk, synced>>
        BY <1>1, <2>1, Zenon DEF Crash
    <2> QED
        BY <2>2, Zenon DEF Kill, Gone, Off, Current
<1>2. ASSUME PowerFail
      PROVE  Gone
    <2>1. PICK s \in survivors : manifest' = s.manifest /\ wal' = s.wal /\ survivors' = {s}
        BY <1>2, Zenon DEF PowerFail
    <2>2. Current' = s
        BY <2>1, Zenon DEF Current, TypeInv, DataType
    <2> QED
        BY <1>2, <2>1, <2>2, Zenon DEF PowerFail, Kill, Gone, Off
<1> QED
    BY <1>1, <1>2, UpdateRename, ApplyRename, PublishRename, CompactRename,
        ReplaceRename, Zenon
    DEF Next, ApplyStep, CompactStep
-----------------------------------------------------------------------------
(* The invariant behind LoggedRecoverable and WalDecidable.                *)

(* A failure leaves WALs behind whose callers were told "error"; what      *)
(* matters are the logged batches whose callers were told nothing.         *)
Matters(b) == NoWalFaults \/ (b \in logged /\ outcome[b] = "pending")

(* WalDecidable, and one batch of LoggedRecoverable, for a state of the    *)
(* index directory that may not be the present one.                        *)
Decided(s) ==
    s.wal # NoWal =>
        \/ s.manifest.gen = s.wal.base /\ s.wal.batch \notin LogSet(s.manifest)
        \/ s.manifest.gen = s.wal.base + 1 /\ s.wal.batch \in LogSet(s.manifest)

Keeps(s, b) == b \in LogSet(s.manifest) \/ (s.wal # NoWal /\ s.wal.batch = b)

WalOk(t) ==
    /\ Logger(t) => wal = WalRecord(t)
    /\ Landed(t) => wal # NoWal /\ (Matters(wal.batch) => wal.batch \in LogSet(manifest))
    /\ Cleared(t) => wal = NoWal
    /\ Beyond(t) /\ wal # NoWal /\ Matters(wal.batch) => \E w \in Threads : Logger(w)
    /\ pc[t] = "wal_sync" => own[t] \notin logged

(* The inductive invariant: every state a power loss may leave keeps the   *)
(* logged batches and, where it matters, is decided; a WAL that matters    *)
(* and that some thread has not seen belongs to a thread that is at work.  *)
RecoveryInv ==
    /\ \A s \in survivors : s.wal # NoWal /\ Matters(s.wal.batch) => Decided(s)
    /\ \A b \in logged :
          /\ outcome[b] # "none"
          /\ outcome[b] = "pending" => \A s \in survivors : Keeps(s, b)
    /\ \A t \in Threads : WalOk(t)

-----------------------------------------------------------------------------
(* The threads a step leaves alone, and those that are gone.               *)
LEMMA ApartWal ==
    ASSUME NEW t \in Threads, Apart(t), NEW u \in Threads \ {t}
    PROVE  /\ Beyond(u)' <=> Beyond(u)
           /\ Logger(u)' <=> Logger(u)
           /\ Landed(u)' <=> Landed(u)
           /\ Cleared(u)' <=> Cleared(u)
           /\ WalRecord(u)' = WalRecord(u)
BY Zenon DEF Apart, Fixed, Beyond, Logger, Landed, Cleared, WalRecord

LEMMA OffWal ==
    ASSUME NEW t \in Threads, Off(t)
    PROVE  ~Beyond(t)' /\ ~Logger(t)' /\ ~Landed(t)' /\ ~Cleared(t)' /\ pc'[t] # "wal_sync"
BY Zenon DEF Off, Beyond, Logger, Landed, Cleared

(* Whoever changes the WAL or the manifest is the only one who may have    *)
(* written the WAL.                                                        *)
LEMMA LoneLogger ==
    ASSUME TypeInv, NEW t \in Threads, pc[t] \in Holding, NEW u \in Threads \ {t}
    PROVE  ~Logger(u) /\ ~Landed(u) /\ ~Cleared(u) /\ pc[u] # "wal_sync"
BY Zenon DEF TypeInv, WriterExclusion, Holding, Logger, Landed, Cleared

(* A writer that has not written a WAL finds none that matters: it         *)
(* overwrites no such WAL and does not move its base.                      *)
LEMMA NoForeignWal ==
    ASSUME TypeInv, RecoveryInv, NEW t \in Threads, pc[t] \in Holding,
           Beyond(t), ~Logger(t)
    PROVE  wal = NoWal \/ ~Matters(wal.batch)
BY LoneLogger, Zenon DEF RecoveryInv, WalOk

LEMMA RecordKept ==
    ASSUME TypeInv, NEW t \in Threads, own[t] \in Batches
    PROVE  /\ WalRecord(t) # NoWal /\ WalRecord(t).batch = own[t]
           /\ WalRecord(t).base = base[t].gen /\ base[t].gen \in Nat
<1>1. base[t].gen \in Nat
    BY FieldFacts, Zenon DEF TypeInv, DataType
<1> QED
    BY <1>1, WalAssumption, SMTT(30) DEF WalRecord

-----------------------------------------------------------------------------
(* What matters after a calm step mattered before, or its WAL was synced.  *)
LEMMA CalmMatters ==
    ASSUME Basis, RecoveryInv, NEW t \in Threads, Calm(t), NEW b \in Batches,
           Matters(b)', ~Matters(b)
    PROVE  /\ b = own[t] /\ pc[t] = "wal_sync" /\ pc[t] \in Holding /\ Logger(t)'
           /\ survivors' = {Current} /\ wal = WalRecord(t) /\ own[t] \in Batches
           /\ base[t] = manifest /\ own[t] \notin LogSet(manifest)
           /\ outcome[b] = "pending"
<1>1. ~NoWalFaults /\ b \in logged' /\ outcome'[b] = "pending"
    BY Zenon DEF Matters
<1>2. b \notin logged
    <2> SUFFICES ASSUME b \in logged
                 PROVE  FALSE
        BY Zenon
    <2>1. outcome[b] # "none" /\ outcome[b] # "pending"
        BY <1>1, Zenon DEF RecoveryInv, Matters
    <2> QED
        BY <1>1, <2>1, Zenon DEF Calm
<1>3. b = own[t] /\ pc[t] = "wal_sync" /\ SyncIndexDir /\ Logger(t)'
    BY <1>1, <1>2, Zenon DEF Calm
<1>4. Logger(t) /\ ~replay[t]
    BY <1>3, Zenon DEF Calm, Logger
<1>5. wal = WalRecord(t) /\ own[t] \in Batches
    BY <1>3, <1>4, Zenon DEF RecoveryInv, WalOk
<1>6. StageOk(t)
    BY Zenon DEF Basis, OnceInv
<1>7. /\ base[t] = manifest /\ own[t] \notin LogSet(manifest)
      /\ outcome[own[t]] = "pending"
    BY <1>3, <1>4, <1>5, <1>6, Zenon DEF StageOk, Loaded, Logging
<1>8. survivors' = {Current} /\ pc[t] \in Holding
    BY <1>3, Zenon DEF SyncIndexDir, Current, Holding
<1> QED
    BY <1>3, <1>5, <1>7, <1>8, Zenon

LEMMA CalmKeeps ==
    ASSUME Basis, RecoveryInv, NEW t \in Threads, Calm(t)
    PROVE  RecoveryInv'
<1>a. /\ TypeInv /\ OnceInv /\ Current \in survivors
      /\ Current.manifest = manifest /\ Current.wal = wal
      /\ logged \subseteq Batches
      /\ \A s \in survivors : s.wal # NoWal /\ Matters(s.wal.batch) => Decided(s)
      /\ \A u \in Threads : WalOk(u)
    BY Zenon DEF Basis, OnceInv, TypeInv, ControlType, Current, RecoveryInv
<1>b. manifest' = manifest /\ wal' = wal /\ survivors' \subseteq survivors
    BY <1>a, KeptFacts, Zenon DEF Calm, KeepDir
<1>w. \A s \in survivors : s.wal # NoWal => s.wal.batch \in Batches
    <2>1. survivors \subseteq [manifest: Manifest, wal: Wal \cup {NoWal}]
        BY <1>a, Zenon DEF TypeInv, DataType
    <2> QED
        BY <2>1, SMTT(30) DEF Wal
<1>c. PICK c : c = wal.batch /\ (wal # NoWal => c \in Batches)
    BY <1>a, <1>w, Zenon
<1>d. /\ Matters(wal.batch) <=> Matters(c)
      /\ Matters(wal.batch)' <=> Matters(c)'
    BY <1>b, <1>c, Zenon DEF Matters
<1>1. ASSUME NEW b \in logged'
      PROVE  /\ outcome'[b] # "none"
             /\ outcome'[b] = "pending" => \A s \in survivors' : Keeps(s, b)
    <2>1. CASE b \in logged
        <3>1. /\ b \in Batches /\ outcome[b] # "none"
              /\ outcome[b] = "pending" => \A s \in survivors : Keeps(s, b)
            BY <1>a, <2>1, Zenon DEF RecoveryInv
        <3>2. /\ outcome[b] # "none" => outcome'[b] # "none"
              /\ outcome'[b] = "pending" => outcome[b] \in {"none", "pending"}
            BY <3>1, Zenon DEF Calm
        <3> QED
            BY <1>b, <3>1, <3>2, Zenon
    <2>2. CASE b \notin logged
        <3>1. b = own[t] /\ pc[t] = "wal_sync" /\ SyncIndexDir
            BY <1>1, <2>2, Zenon DEF Calm
        <3>2. own[t] \in Batches /\ outcome[b] = "pending" /\ ~replay[t]
            BY <1>a, <3>1, Zenon DEF TypeInv, BatchAtHand, OnceInv, StageOk
        <3>3. wal = WalRecord(t)
            BY <1>a, <3>1, <3>2, Zenon DEF WalOk, Logger
        <3>4. Keeps(Current, b)
            BY <1>a, <3>1, <3>2, <3>3, RecordKept, Zenon DEF Keeps
        <3>5. survivors' = {Current}
            BY <3>1, Zenon DEF SyncIndexDir, Current
        <3>6. outcome'[b] # "none"
            BY <3>1, <3>2, Zenon DEF Calm
        <3> QED
            BY <3>4, <3>5, <3>6, Zenon
    <2> QED
        BY <2>1, <2>2, Zenon
<1>2. ASSUME NEW s \in survivors', s.wal # NoWal, Matters(s.wal.batch)'
      PROVE  Decided(s)
    <2>1. s \in survivors /\ s.wal.batch \in Batches
        BY <1>b, <1>w, <1>2, Zenon
    <2>2. CASE Matters(s.wal.batch)
        BY <1>a, <1>2, <2>1, <2>2, Zenon
    <2>3. CASE ~Matters(s.wal.batch)
        <3>1. PICK b \in Batches : Matters(b)' /\ ~Matters(b)
            BY <1>2, <2>1, <2>3, Zenon DEF Matters
        <3>2. /\ s = Current /\ wal = WalRecord(t) /\ own[t] \in Batches
              /\ base[t] = manifest /\ own[t] \notin LogSet(manifest)
            <4>1. /\ survivors' = {Current} /\ wal = WalRecord(t) /\ own[t] \in Batches
                  /\ base[t] = manifest /\ own[t] \notin LogSet(manifest)
                BY <3>1, CalmMatters, Zenon
            <4> QED
                BY <1>2, <4>1, Zenon
        <3> QED
            BY <1>a, <3>2, RecordKept, Zenon DEF Decided
    <2> QED
        BY <2>2, <2>3, Zenon
<1>3. ASSUME wal # NoWal, Matters(c)',
             NEW w \in Threads, Logger(w)
      PROVE  Logger(w)'
    <2>1. CASE w # t
        BY <1>3, <2>1, ApartWal, Zenon DEF Calm
    <2>2. CASE w = t
        <3> SUFFICES ASSUME ~Logger(t)'
                     PROVE  FALSE
            BY <2>2, Zenon
        <3>1. /\ ~NoWalFaults
              /\ (pc[t] = "wal_sync" /\ logged' = logged) \/ outcome'[own[t]] # "pending"
            BY <1>3, <2>2, Zenon DEF Calm
        <3>2. c = own[t]
            BY <1>a, <1>c, <1>3, <2>2, SMTT(30) DEF WalOk, WalRecord
        <3>3. pc[t] = "wal_sync" => own[t] \notin logged
            BY <1>a, Zenon DEF WalOk
        <3> QED
            BY <1>3, <3>1, <3>2, <3>3, Zenon DEF Matters
    <2> QED
        BY <2>1, <2>2, Zenon
<1>4. ASSUME NEW u \in Threads
      PROVE  /\ Landed(u)' => wal # NoWal /\ (Matters(c)' => c \in LogSet(manifest))
             /\ Beyond(u)' /\ wal # NoWal /\ Matters(c)' => \E w \in Threads : Logger(w)'
    <2>1. /\ Landed(u)' => Landed(u) \/ (wal # NoWal /\ manifest.gen = wal.base + 1)
          /\ Beyond(u)' => Beyond(u) \/ wal = NoWal
        <3>1. CASE u # t
            BY <3>1, ApartWal, Zenon DEF Calm
        <3>2. CASE u = t
            BY <1>a, <3>2, Zenon DEF Calm, WalOk
        <3> QED
            BY <3>1, <3>2, Zenon
    <2>2. Landed(u)' => wal # NoWal
        BY <1>a, <2>1, Zenon DEF WalOk
    <2>3. CASE wal # NoWal /\ Matters(c)' /\ Matters(c)
        <3>1. Decided(Current) /\ wal.base \in Nat
            BY <1>a, <1>d, <2>3, FieldFacts, Zenon DEF TypeInv, DataType
        <3>2. manifest.gen = wal.base + 1 => manifest.gen # wal.base
            BY <3>1, SMTT(30)
        <3>3. Landed(u)' => c \in LogSet(manifest)
            BY <1>a, <1>c, <1>d, <2>1, <2>3, <3>1, <3>2, Zenon DEF Decided, WalOk
        <3>4. Beyond(u)' => \E w \in Threads : Logger(w)'
            BY <1>a, <1>3, <1>d, <2>1, <2>3, Zenon DEF WalOk
        <3> QED
            BY <2>2, <3>3, <3>4, Zenon
    <2>4. CASE wal # NoWal /\ Matters(c)' /\ ~Matters(c)
        <3>1. /\ Logger(t)' /\ wal = WalRecord(t) /\ own[t] \in Batches
              /\ base[t] = manifest /\ pc[t] = "wal_sync" /\ pc[t] \in Holding
            BY <1>c, <2>4, CalmMatters, Zenon
        <3>2. ~Landed(u)
            BY <1>a, <3>1, LoneLogger, Zenon DEF Landed
        <3>3. wal.base = manifest.gen /\ manifest.gen \in Nat
            BY <1>a, <3>1, RecordKept, Zenon
        <3>4. manifest.gen # wal.base + 1
            BY <3>3, SMTT(30)
        <3> QED
            BY <2>1, <2>2, <3>1, <3>2, <3>4, Zenon
    <2>5. CASE wal = NoWal \/ ~Matters(c)'
        BY <2>2, <2>5, Zenon
    <2> QED
        BY <2>3, <2>4, <2>5, Zenon
<1>5. ASSUME NEW u \in Threads
      PROVE  /\ Logger(u)' => wal' = WalRecord(u)'
             /\ Cleared(u)' => wal' = NoWal
             /\ pc'[u] = "wal_sync" => own'[u] \notin logged'
    <2>1. CASE u # t
        <3>1. /\ Logger(u)' <=> Logger(u)
              /\ Cleared(u)' <=> Cleared(u)
              /\ WalRecord(u)' = WalRecord(u)
              /\ pc'[u] = pc[u] /\ own'[u] = own[u]
            <4>1. Apart(t)
                BY Zenon DEF Calm
            <4>2. pc'[u] = pc[u] /\ own'[u] = own[u]
                BY <2>1, <4>1, Zenon DEF Apart, Fixed
            <4> QED
                BY <2>1, <4>1, <4>2, ApartWal, Zenon
        <3>2. pc[u] = "wal_sync" => own[u] \notin logged
            BY <1>a, Zenon DEF WalOk
        <3>3. pc[u] = "wal_sync" => logged' = logged
            BY <1>a, <2>1, LoneLogger, Zenon DEF Calm, Holding
        <3> QED
            BY <1>a, <1>b, <3>1, <3>2, <3>3, Zenon DEF WalOk
    <2>2. CASE u = t
        BY <1>a, <1>b, <2>2, Zenon DEF WalOk, Calm, WalRecord
    <2> QED
        BY <2>1, <2>2, Zenon
<1>6. \A u \in Threads : WalOk(u)'
    BY <1>b, <1>c, <1>d, <1>4, <1>5, Zenon DEF WalOk
<1> QED
    BY <1>1, <1>2, <1>6, Zenon DEF RecoveryInv, Decided

LEMMA RenameKeeps ==
    ASSUME Basis, RecoveryInv, NEW t \in Threads, Rename(t)
    PROVE  RecoveryInv'
<1>a. /\ TypeInv /\ OnceInv /\ ClearsOk /\ Current \in survivors
      /\ Current.manifest = manifest /\ Current.wal = wal
      /\ Current'.manifest = manifest' /\ Current'.wal = wal'
      /\ manifest.gen \in Nat
      /\ \A b \in logged : /\ outcome[b] # "none"
                           /\ outcome[b] = "pending" => Keeps(Current, b)
      /\ \A u \in Threads : WalOk(u)
      /\ \A s \in survivors : s.wal # NoWal /\ Matters(s.wal.batch) => Decided(s)
    BY FieldFacts, Zenon
    DEF Basis, OnceInv, TypeInv, DataType, Current, RecoveryInv
<1>b. /\ survivors' = survivors \cup {Current'}
      /\ Apart(t) /\ Fixed(t) /\ outcome' = outcome /\ logged' \subseteq logged
      /\ pc[t] \in Holding
    <2>1. PutWal(t) \/ CutWal(t) \/ Post(t) \/ Repost(t)
        BY Zenon DEF Rename
    <2>2. survivors' = survivors \cup {Current'}
        BY <1>a, <2>1, SingleStep, Zenon
    <2> QED
        BY <2>1, <2>2, Zenon DEF Rename, PutWal, CutWal, Post, Repost, Holding
<1>c. ASSUME (wal # NoWal /\ Matters(wal.batch))' => Decided(Current)',
             \A b \in logged' : outcome[b] = "pending" => Keeps(Current', b),
             \A u \in Threads : WalOk(u)'
      PROVE  RecoveryInv'
    <2>1. ASSUME NEW s \in survivors', s.wal # NoWal, Matters(s.wal.batch)'
          PROVE  Decided(s)
        <3>1. CASE s \in survivors
            <4>1. Matters(s.wal.batch)
                BY <1>b, <2>1, Zenon DEF Matters
            <4> QED
                BY <1>a, <2>1, <3>1, <4>1, Zenon
        <3>2. CASE s = Current'
            <4>1. (wal # NoWal /\ Matters(wal.batch))'
                BY <1>a, <2>1, <3>2, Zenon DEF Matters
            <4>2. Decided(Current)'
                BY <1>c, <4>1, Zenon
            <4> QED
                BY <1>a, <3>2, <4>2, Zenon DEF Decided
        <3> QED
            BY <1>b, <2>1, <3>1, <3>2, Zenon
    <2> QED
        BY <1>a, <1>b, <1>c, <2>1, Zenon DEF RecoveryInv, Decided
<1>d. \A u \in Threads \ {t} :
          /\ ~Logger(u) /\ ~Logger(u)' /\ ~Landed(u)' /\ ~Cleared(u)'
          /\ Beyond(u)' <=> Beyond(u)
          /\ pc'[u] # "wal_sync"
    BY <1>a, <1>b, LoneLogger, ApartWal, Zenon DEF Apart
<1>1. CASE PutWal(t)
    <2>1. /\ pc[t] = "wal_write" /\ pc'[t] = "wal_sync" /\ ~replay[t] /\ own[t] \in Batches
          /\ manifest' = manifest /\ wal' = WalRecord(t) /\ base[t] = manifest
          /\ own[t] \notin LogSet(manifest) /\ Waiting(t)
        <3>1. Waiting(t) /\ ~replay[t]
            BY <1>1, <1>a, Zenon DEF PutWal, Waiting, TypeInv, BatchAtHand
        <3> QED
            BY <1>1, <1>a, <3>1, StageBatch, Zenon
            DEF PutWal, ChangeIndexDir, OnceInv, StageOk, Loaded, Untouched
    <2>2. wal = NoWal \/ ~Matters(wal.batch)
        BY <1>a, <1>b, <2>1, NoForeignWal, Zenon DEF Beyond, Logger
    <2>3. Decided(Current)'
        BY <1>a, <2>1, RecordKept, Zenon DEF Decided
    <2>4. \A b \in logged' : outcome[b] = "pending" => Keeps(Current', b)
        BY <1>a, <1>b, <2>1, <2>2, Zenon DEF Keeps, Matters
    <2>5. Logger(t)' /\ WalRecord(t)' = WalRecord(t)
        BY <1>b, <2>1, Zenon DEF Logger, Fixed, WalRecord
    <2>6. ~Landed(t)' /\ ~Cleared(t)'
        BY <2>1, Zenon DEF Landed, Cleared
    <2>7. own'[t] \notin logged'
        <3>1. outcome[own[t]] = "pending" /\ Untouched(own[t], survivors)
            BY <1>a, <2>1, Zenon DEF OnceInv, StageOk
        <3>2. own[t] \notin logged
            BY <1>a, <3>1, Zenon DEF Untouched, Keeps
        <3> QED
            BY <1>b, <3>2, Zenon DEF Fixed
    <2>8. \A u \in Threads : WalOk(u)'
        BY <1>d, <2>1, <2>5, <2>6, <2>7, Zenon DEF WalOk
    <2> QED
        BY <1>c, <2>3, <2>4, <2>8, Zenon
<1>2. CASE CutWal(t)
    <2>1. /\ manifest' = manifest /\ wal' = NoWal
          /\ \/ pc[t] = "clear" /\ pc'[t] = "clear_sync"
             \/ pc[t] = "abort_clear" /\ pc'[t] = "abort_sync"
        BY <1>2, Zenon DEF CutWal, ChangeIndexDir
    <2>2. ASSUME NEW b \in logged', outcome[b] = "pending"
          PROVE  b \in LogSet(manifest)
        <3>1. b \in LogSet(manifest) \/ (wal # NoWal /\ wal.batch = b)
            BY <1>a, <1>b, <2>2, Zenon DEF Keeps
        <3>2. CASE pc[t] = "clear"
            BY <1>a, <1>b, <2>2, <3>1, <3>2, Zenon DEF WalOk, Landed, Matters
        <3>3. CASE pc[t] = "abort_clear"
            <4>1. /\ Logger(t) /\ own[t] \in Batches
                BY <1>a, <3>3, Zenon DEF Logger, ClearsOk, ClearsAt, TypeInv, BatchAtHand
            <4>2. wal.batch = own[t]
                BY <1>a, <4>1, RecordKept, Zenon DEF WalOk
            <4>3. b # own[t]
                BY <1>2, <2>2, <3>3, Zenon DEF Rename, CutWal, PutWal, Post, Repost
            <4> QED
                BY <3>1, <4>2, <4>3, Zenon
        <3> QED
            BY <2>1, <3>2, <3>3, Zenon
    <2>3. Decided(Current)'
        BY <1>a, <2>1, Zenon DEF Decided
    <2>4. \A b \in logged' : outcome[b] = "pending" => Keeps(Current', b)
        BY <1>a, <2>1, <2>2, Zenon DEF Keeps
    <2>5. ~Logger(t)' /\ ~Landed(t)'
        BY <2>1, Zenon DEF Logger, Landed
    <2>6. \A u \in Threads : WalOk(u)'
        BY <1>d, <2>1, <2>5, Zenon DEF WalOk
    <2> QED
        BY <1>c, <2>3, <2>4, <2>6, Zenon
<1>3. CASE Post(t)
    <2>1. /\ pc[t] = "publish" /\ pc'[t] = "publish_sync" /\ base[t] = manifest /\ wal' = wal
          /\ LogSet(manifest') = LogSet(manifest) \cup {Applied(t)}
          /\ manifest'.gen = manifest.gen + 1
        BY <1>3, <1>a, PostFacts, Zenon DEF Post, OnceInv, StageOk, Loaded
    <2>2. wal # NoWal /\ wal.batch = Applied(t) /\ wal.base = manifest.gen
        <3>1. CASE replay[t]
            BY <1>a, <2>1, <3>1, Zenon
            DEF TypeInv, BatchAtHand, OnceInv, StageOk, Replaying, Applied
        <3>2. CASE ~replay[t]
            <4>1. Logger(t) /\ own[t] \in Batches
                BY <1>a, <2>1, <3>2, Zenon DEF Logger, TypeInv, BatchAtHand
            <4> QED
                BY <1>a, <2>1, <3>2, <4>1, RecordKept, Zenon DEF WalOk, Applied
        <3> QED
            BY <3>1, <3>2, Zenon
    <2>3. Decided(Current)'
        BY <1>a, <2>1, <2>2, Zenon DEF Decided
    <2>4. \A b \in logged' : outcome[b] = "pending" => Keeps(Current', b)
        BY <1>a, <1>b, <2>1, Zenon DEF Keeps
    <2>5. /\ Logger(t)' <=> Logger(t)
          /\ WalRecord(t)' = WalRecord(t)
          /\ ~Beyond(t)' /\ ~Cleared(t)'
        BY <1>b, <2>1, Zenon DEF Logger, Fixed, WalRecord, Beyond, Cleared
    <2>6. wal'.batch \in LogSet(manifest')
        BY <2>1, <2>2, Zenon
    <2>7. \A u \in Threads : WalOk(u)'
        <3>1. (wal # NoWal /\ Matters(wal.batch))' => wal # NoWal /\ Matters(wal.batch)
            BY <1>b, <2>1, Zenon DEF Matters
        <3> QED
            BY <1>a, <1>d, <2>1, <2>2, <2>5, <2>6, <3>1, Zenon DEF WalOk
    <2> QED
        BY <1>c, <2>3, <2>4, <2>7, Zenon
<1>4. CASE Repost(t)
    <2>1. /\ pc[t] = "compact_publish" /\ pc'[t] = "compact_publish_sync" /\ wal' = wal
          /\ LogSet(manifest') = LogSet(manifest)
        BY <1>4, <1>a, RepostFacts, Zenon DEF Repost
    <2>2. wal = NoWal \/ ~Matters(wal.batch)
        BY <1>a, <1>b, <2>1, NoForeignWal, Zenon DEF Beyond, Logger
    <2>3. ~(wal # NoWal /\ Matters(wal.batch))'
        BY <1>b, <2>1, <2>2, Zenon DEF Matters
    <2>4. \A b \in logged' : outcome[b] = "pending" => Keeps(Current', b)
        BY <1>a, <1>b, <2>1, Zenon DEF Keeps
    <2>5. ~Logger(t)' /\ ~Landed(t)'
        BY <2>1, Zenon DEF Logger, Landed
    <2>6. \A u \in Threads : WalOk(u)'
        BY <1>d, <2>1, <2>3, <2>5, Zenon DEF WalOk, Cleared
    <2> QED
        BY <1>c, <2>3, <2>4, <2>6, Zenon
<1> QED
    BY <1>1, <1>2, <1>3, <1>4, Zenon DEF Rename

-----------------------------------------------------------------------------
LEMMA RecoveryStep ==
    ASSUME SingleProcess, Basis, RecoveryInv, [Next]_vars
    PROVE  RecoveryInv'
<1>1. ASSUME Gone
      PROVE  RecoveryInv'
    <2>1. \A t \in Threads : WalOk(t)'
        BY <1>1, OffWal, Zenon DEF Gone, WalOk
    <2> QED
        BY <1>1, <2>1, Zenon DEF Gone, RecoveryInv, Matters
<1>2. CASE UNCHANGED vars
    BY <1>2, Zenon
    DEF vars, disk, synced, locals, ghosts, RecoveryInv, WalOk, Logger, Landed, Cleared,
        Beyond, WalRecord, Matters
<1> QED
    BY <1>1, <1>2, StepRename, CalmKeeps, RenameKeeps, Zenon
    DEF Basis, OnceInv, Move

LEMMA RecoveryInit == Init => RecoveryInv
<1> SUFFICES ASSUME Init
             PROVE  RecoveryInv
    BY Zenon
<1>1. /\ \A t \in Threads : pc[t] = "idle"
      /\ wal = NoWal /\ survivors = {Current} /\ logged = {}
      /\ Current.manifest = manifest /\ Current.wal = wal
    BY Zenon DEF Init, Current
<1> QED
    BY <1>1, Zenon DEF RecoveryInv, Decided, WalOk, Logger, Landed, Cleared, Beyond

-----------------------------------------------------------------------------
(* The invariants, given the types.                                        *)

LEMMA BasisAlways == Spec /\ [](TypeInv /\ CompactionExclusion) => []Basis
<1>1. Init /\ TypeInv => Basis
    BY OnceInit, Zenon DEF Basis
<1>2. /\ Basis /\ [Next]_vars /\ (TypeInv /\ CompactionExclusion)'
      => Basis'
    BY ClearsStep, OnceStep, Zenon DEF Basis, TypeInv
<1> QED
    BY <1>1, <1>2, PTL DEF Spec

LEMMA AckedAlways == Spec /\ []Basis => []AckedInv
<1>1. Init => AckedInv
    BY OnceInit, Zenon
<1>2. Basis /\ Basis' /\ AckedInv /\ [Next]_vars => AckedInv'
    BY AckedStep, Zenon
<1> QED
    BY <1>1, <1>2, PTL DEF Spec

LEMMA ErrorAlways == NoLateFaults /\ Spec /\ []Basis => []ErrorInv
<1> SUFFICES ASSUME NoLateFaults
             PROVE  Spec /\ []Basis => []ErrorInv
    BY Zenon
<1>1. Init => ErrorInv
    BY OnceInit, Zenon
<1>2. Basis /\ Basis' /\ ErrorInv /\ [Next]_vars => ErrorInv'
    BY ErrorStep, Zenon
<1> QED
    BY <1>1, <1>2, PTL DEF Spec
=============================================================================
