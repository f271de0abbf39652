-------------------------- MODULE IndexStoreTheorems ------------------------
(***************************************************************************)
(* What IndexStore guarantees, for any number of threads, processes,       *)
(* batches, crashes and power losses: what callers of update_apply may     *)
(* rely on, what the WAL is for, what searches find, and that the whole is *)
(* the index IndexSpec promises.                                           *)
(***************************************************************************)
EXTENDS IndexStoreTypes, IndexStoreContents

LEMMA BasisInvariant == Spec => []Basis
<1>1. Init => TypeInv /\ CompactionExclusion
    BY TypeInit, OnceInit, Zenon
<1>2. /\ TypeInv /\ CompactionExclusion /\ [Next]_vars
      => (TypeInv /\ CompactionExclusion)'
    BY TypeStep, CompactionExclusionStep, Zenon DEF TypeInv
<1> QED
    BY <1>1, <1>2, BasisAlways, PTL DEF Spec

-----------------------------------------------------------------------------
(* Callers of update_apply.                                                *)

(* update_recover never publishes a batch a second time, and nobody else   *)
(* does, whatever process dies between the WAL, the segments and the       *)
(* manifest, whatever fsync or unlink fails, and whichever of the states   *)
(* of the index directory a power loss leaves.                             *)
THEOREM PublishedOnce == Spec => []AtMostOnce
<1>1. Basis => AtMostOnce
    BY Zenon DEF Basis, OnceInv, Single, Current, NoRepeat, AtMostOnce
<1> QED
    BY <1>1, BasisInvariant, PTL

(* A caller whom update_apply told "ok" finds its batch in the manifest    *)
(* and in every manifest a power loss may leave, whatever fails.           *)
THEOREM AckedStays == Spec => []AckedDurable
<1>1. AckedInv => AckedDurable
    BY Zenon DEF AckedInv
<1> QED
    BY <1>1, BasisInvariant, AckedAlways, PTL

(* Unless an fsync or an unlink fails behind a rename that has taken       *)
(* place, a caller whom update_apply told "error" never finds its batch in *)
(* the index: not after a crash, a power loss or a replay either.          *)
THEOREM RefusedNeverShows == NoLateFaults /\ Spec => []ErrorNotApplied
<1>1. Basis /\ ErrorInv => ErrorNotApplied
    BY Zenon DEF Basis, OnceInv, Current, ErrorInv, Untouched, ErrorNotApplied
<1> QED
    BY <1>1, BasisInvariant, ErrorAlways, PTL

-----------------------------------------------------------------------------
(* Recovery.                                                               *)

LEMMA RecoveryInvariant == SingleProcess /\ Spec => [](Basis /\ RecoveryInv)
<1> SUFFICES ASSUME SingleProcess
             PROVE  Spec => [](Basis /\ RecoveryInv)
    BY SMTT(30)
<1>1. Basis /\ RecoveryInv /\ [Next]_vars => RecoveryInv'
    BY RecoveryStep, Zenon
<1> QED
    BY <1>1, RecoveryInit, BasisInvariant, PTL DEF Spec

(* While one process writes the index, a batch whose WAL was synced and    *)
(* whose caller died is in the manifest or in the WAL that update_recover  *)
(* will replay: no later update, compaction, crash, power loss or failure  *)
(* takes the WAL away before.                                              *)
THEOREM LoggedStays == SingleProcess /\ Spec => []LoggedRecoverable
<1>1. Basis /\ RecoveryInv => LoggedRecoverable
    BY Zenon DEF Basis, OnceInv, Current, RecoveryInv, Keeps, LoggedRecoverable
<1> QED
    BY <1>1, RecoveryInvariant, PTL

(* While one process writes the index and no WAL fails to be synced or     *)
(* unlinked, update_recover always finds the manifest at the WAL's base    *)
(* generation without its batch or at the target generation with it, so    *)
(* comparing generations decides rightly between replaying the WAL and     *)
(* removing it.                                                            *)
THEOREM WalDecided == NoWalFaults /\ SingleProcess /\ Spec => []WalDecidable
<1>1. NoWalFaults => (Basis /\ RecoveryInv => WalDecidable)
    BY Zenon DEF Basis, OnceInv, Current, RecoveryInv, Matters, Decided, WalDecidable
<1> SUFFICES ASSUME NoWalFaults, SingleProcess
             PROVE  Spec => []WalDecidable
    BY SMTT(30)
<1>2. Basis /\ RecoveryInv => WalDecidable
    BY <1>1, Zenon
<1> QED
    BY <1>2, RecoveryInvariant, PTL

-----------------------------------------------------------------------------
(* Searches and compactions.                                               *)

LEMMA ContentsInvariant == Spec => []ContentsInv
<1>1. Basis /\ Basis' /\ ContentsInv /\ [Next]_vars => ContentsInv'
    BY ContentsStep, Zenon
<1> QED
    BY <1>1, ContentsInit, BasisInvariant, PTL DEF Spec

(* Searches find exactly the documents that the published batches leave,   *)
(* applied in order to the index as it was built: neither the planner that *)
(* cuts a batch into segments, nor a bisection, nor a compaction that      *)
(* rewrites a range next to running updates and drops tombstones, nor a    *)
(* crash, a power loss or a failure changes, loses or revives a document.  *)
THEOREM ContentsShown == Spec => []IndexReflectsLog
<1>1. Basis /\ ContentsInv => IndexReflectsLog
    BY Zenon DEF Basis, OnceInv, ContentsInv, Current, Reflects, IndexReflectsLog
<1> QED
    BY <1>1, BasisInvariant, ContentsInvariant, PTL

(* The range a compaction selected is found unchanged when it takes the    *)
(* writer lock again: updates and replays only append to the manifest, and *)
(* no second compaction gets past compaction.lock, whatever fails.         *)
THEOREM RangesStay == Spec => []RangeStable
<1>1. Init => RangeHeld
    BY Zenon DEF Init, RangeHeld, Unlocked
<1>2. Basis /\ RangeHeld /\ [Next]_vars => RangeHeld'
    BY RangeHeldStep, Zenon
<1>3. RangeHeld => RangeStable
    BY Zenon DEF RangeHeld, RangeStable, Unlocked, Threads
<1> QED
    BY <1>1, <1>2, <1>3, BasisInvariant, PTL DEF Spec

(* Updates, recoveries, compactions and crashes together implement the     *)
(* index of IndexSpec: batches take effect whole, at one moment and at     *)
(* most once, "ok" and "error" tell the truth, and everything else leaves  *)
(* the documents alone.  A power loss may take back a batch that nobody    *)
(* was told of, and a failing fsync or unlink behind a rename makes an     *)
(* "error" untrue, so both are excluded.                                   *)
THEOREM IndexImplemented == ~PowerLoss /\ NoLateFaults /\ Spec => ImplementsIndex
<1>1. Init => Promise!Init
    <2> SUFFICES ASSUME Init
                 PROVE  Promise!Init
        BY Zenon
    <2>1. /\ manifest.segs = <<BuiltSegment>> /\ manifest.log = <<>>
          /\ outcome = [b \in Batches |-> "none"]
        BY Zenon DEF Init
    <2>2. LogSet(manifest) = {}
        BY <2>1, SMTT(30) DEF LogSet
    <2>3. \A id \in Ids : Visible(manifest.segs, id) =
                            IF BuiltEvents[id] = Tomb THEN NoEvent ELSE BuiltEvents[id]
        BY <2>1, BuiltShows, Zenon DEF Shown
    <2> QED
        BY <2>1, <2>2, <2>3, Zenon DEF Promise!Init
<1>2. NoLateFaults /\ Spec => []Settled
    BY BasisInvariant, AckedAlways, ErrorAlways, ContentsInvariant, PTL DEF Settled
<1>3. ~PowerLoss /\ NoLateFaults =>
        (Settled /\ Settled' /\ [Next]_vars => [Promise!Next]_(Promise!ivars))
    BY PromiseStep, Zenon
<1> SUFFICES ASSUME ~PowerLoss, NoLateFaults
             PROVE  Spec => ImplementsIndex
    BY SMTT(30)
<1>4. Settled /\ Settled' /\ [Next]_vars => [Promise!Next]_(Promise!ivars)
    BY <1>3, Zenon
<1> QED
    BY <1>1, <1>2, <1>4, PTL DEF Spec, ImplementsIndex, Promise!Spec
=============================================================================
