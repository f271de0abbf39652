------------------------------ MODULE Runtime -------------------------------
(***************************************************************************)
(* The search runtime of the core daemon.  A runtime object is one view of *)
(* the index: a manifest, a snapshot from the snapshot manager, a reader   *)
(* per segment and a vector (ANN) base.  Searches retain the current one;  *)
(* the writer, the reloader and the maintenance thread replace it, one at  *)
(* a time under update_lock, while other processes publish generations and *)
(* delete the directories of compacted segments.                           *)
(*                                                                         *)
(* Every counted object is named by the generation it was made from, and a *)
(* segment by the generation that added it.  A bag holds the counts.       *)
(***************************************************************************)
EXTENDS Calls, BagsExt

CONSTANTS MaxGen,     \* bound: generations published in all
          MaxOthers,  \* bound: generations published by other processes
          MaxDelta    \* YAP_V2_ANN_MAX_DELTA_SEGMENTS

ASSUME RuntimeAssumption == MaxGen \in Nat \ {0} /\ MaxOthers \in Nat /\ MaxDelta \in Nat

VARIABLES manifests,  \* the manifests published, by generation
          dirs,       \* the segment directories that exist
          garbage,    \* the directories a running compaction will remove
          wal,        \* update.wal: the calls it holds and its base generation
          others,     \* generations other processes have published
          current,    \* state->current
          managed,    \* the snapshot manager's current snapshot
          refs,       \* reference counts
          job,        \* what the holder of update_lock is doing
          groups,     \* groups the writer still has to apply
          maintenance \* where the maintenance thread is

index == <<manifests, dirs, garbage, wal, others>>
shared == <<current, managed, refs>>
vars == <<index, shared, job, groups, maintenance>>

NoWal   == [calls |-> <<>>, base |-> 0]
DiskGen == Len(manifests)
Segs(g) == manifests[g]
NoJob   == [who |-> "nobody", step |-> "none", base |-> NotHeld, loaded |-> 0,
            read |-> 0, candidate |-> NotHeld, spare |-> 0, news |-> FALSE]

(* The daemon opens its runtime on the index as it is.                     *)
Init ==
    /\ CallsInit
    /\ manifests = <<{1}>> /\ dirs = {1} /\ garbage = {} /\ wal = NoWal /\ others = 0
    /\ current = [gen |-> 1, snap |-> 1, ann |-> 1] /\ managed = 1
    /\ refs = [runtimes |-> SetToBag({current}), snapshots |-> (1 :> 2),
               documents |-> SetToBag({1}), readers |-> SetToBag({1}),
               anns |-> SetToBag({1}), managers |-> 1]
    /\ job = NoJob /\ groups = <<>> /\ maintenance = "poll"

-----------------------------------------------------------------------------
(* Counting.  A snapshot holds the documents of its segments; a runtime a  *)
(* manager, a snapshot, a reader for each segment and an ANN base.         *)
SnapshotRetain(f, g) == [f EXCEPT !.snapshots = BagAdd(@, g)]
SnapshotRelease(f, g) ==
    [f EXCEPT !.snapshots = BagRemove(@, g),
              !.documents = IF CopiesIn(g, f.snapshots) = 1
                            THEN @ (-) SetToBag(Segs(g)) ELSE @]

RuntimeRetain(f, r) == [f EXCEPT !.runtimes = BagAdd(@, r)]
RuntimeClose(f, r) ==
    [SnapshotRelease(f, r.snap) EXCEPT !.readers = @ (-) SetToBag(Segs(r.gen)),
                                       !.anns = BagRemove(@, r.ann),
                                       !.managers = @ - 1]
RuntimeRelease(f, r) ==
    LET less == [f EXCEPT !.runtimes = BagRemove(@, r)]
    IN  IF CopiesIn(r, f.runtimes) = 1 THEN RuntimeClose(less, r) ELSE less

(* What the ANN base of a runtime lacks and what it has too many of.       *)
DeltaSegments(r) == Segs(r.gen) \ Segs(r.ann)
MissingBase(r)   == Segs(r.ann) \ Segs(r.gen)
(* Mutant of AnnNeeded: only the number of new segments counts.            *)
AnnNeededByDelta(r) == Cardinality(DeltaSegments(r)) > MaxDelta

AnnNeeded(r)     == Cardinality(DeltaSegments(r)) > MaxDelta \/ MissingBase(r) # {}

-----------------------------------------------------------------------------
(* The index as other processes and the compaction leave it.               *)
(* A compaction keeps the writer lock until its deletions are done.        *)
NewGeneration(segs) ==
    /\ DiskGen < MaxGen /\ garbage = {}
    /\ manifests' = Append(manifests, segs \cup {DiskGen + 1})
    /\ dirs' = dirs \cup {DiskGen + 1}

(* The calls whose operations the generation about to be published has.    *)
Carried(calls) ==
    [n \in CallIds |-> IF n \in ToSet(calls)
                       THEN [call[n] EXCEPT !.published = @ \cup {DiskGen + 1}] ELSE call[n]]

PublishCompaction ==
    /\ \E range \in SUBSET Segs(DiskGen) :
          /\ Cardinality(range) > 1
          /\ NewGeneration(Segs(DiskGen) \ range)
          /\ garbage' = range

(* Another process recovers before it updates, but under a lock of its own *)
(* each: a log that appears in between is replaced by that of the update.  *)
OthersUpdate ==
    /\ others < MaxOthers
    /\ NewGeneration(Segs(DiskGen))
    /\ others' = others + 1
    /\ wal' = NoWal
    /\ UNCHANGED <<call, garbage, shared, job, groups, maintenance>>

OthersCompact ==
    /\ others < MaxOthers
    /\ PublishCompaction
    /\ others' = others + 1
    /\ UNCHANGED <<call, wal, shared, job, groups, maintenance>>

(* A deletion that fails half way, the last one here, ends the compaction  *)
(* with an error; what is left of the directory cannot be opened.          *)
RemoveDirs ==
    /\ garbage # {}
    /\ dirs' = dirs \ garbage
    /\ IF maintenance = "removing" THEN maintenance' \in {"reload", "poll"}
                                   ELSE UNCHANGED maintenance
    /\ garbage' = {}
    /\ UNCHANGED <<call, manifests, wal, others, shared, job, groups>>
-----------------------------------------------------------------------------
(* Searches.  The pointer is read and the runtime retained under one lock. *)
SearchAcquire(n) ==
    /\ call[n].stage = "sent" /\ call[n].kind = "search"
    /\ call' = [call EXCEPT ![n].stage = "running", ![n].held = current]
    /\ refs' = RuntimeRetain(refs, current)
    /\ UNCHANGED <<index, current, managed, job, groups, maintenance>>

SearchFinish(n) ==
    /\ call[n].stage = "running" /\ call[n].kind = "search"
    /\ call' = [call EXCEPT ![n].stage = "done", ![n].status = 200,
                            ![n].gen = call[n].held.gen, ![n].held = NotHeld]
    /\ refs' = RuntimeRelease(refs, call[n].held)
    /\ UNCHANGED <<index, current, managed, job, groups, maintenance>>

-----------------------------------------------------------------------------
(* The writer applies a batch of ingest calls, group by group.             *)
Waiting == SelectSeq([n \in CallIds |-> n],
                     LAMBDA n : call[n].stage = "sent" /\ call[n].kind = "ingest")

WriterStart ==
    /\ job = NoJob /\ Waiting # <<>>
    /\ \E k \in 1..MaxBatch :
          /\ k <= Len(Waiting)
          /\ LET batch == SubSeq(Waiting, 1, k)
             IN  /\ call' = [n \in CallIds |-> IF n \in ToSet(batch)
                              THEN [call[n] EXCEPT !.stage = "running"] ELSE call[n]]
                 /\ groups' = Groups(batch)
    /\ job' = [NoJob EXCEPT !.who = "writer", !.step = "apply"]
    /\ UNCHANGED <<index, shared, maintenance>>

Applying == job.step = "apply" /\ groups # <<>>
Group    == Head(groups)

(* The answers to a group; statuses are those of update_error_response.    *)
Answered(group, calls, status, g) ==
    [n \in CallIds |-> IF n \in ToSet(group)
                       THEN [calls[n] EXCEPT !.status = status, !.gen = g] ELSE calls[n]]

RejectUnparsed ==
    /\ Applying /\ ~call[Head(Group)].item.parses
    /\ call' = Answered(Group, call, 400, 0)
    /\ groups' = Tail(groups)
    /\ UNCHANGED <<index, shared, job, maintenance>>

(* Mutant of Retries: after any failure, every request is tried by itself. *)
RetriesAlways(group, client) == Len(group) > 1

Retries(group, client) == Len(group) > 1 /\ client

Singles(group) == [i \in 1..Len(group) |-> <<group[i]>>]

(* A group that fails is split into its requests or answered; calls are    *)
(* the calls as the attempt leaves them, and 503 stands for 409 as well.   *)
FailedAs(client, calls) ==
    IF Retries(Group, client)
    THEN groups' = Singles(Group) \o Tail(groups) /\ call' = calls
    ELSE /\ groups' = Tail(groups)
         /\ call' = Answered(Group, calls, IF client THEN 400 ELSE 503, 0)

Failed(client) == FailedAs(client, call)

(* The indexer refuses operations before anything is logged or published.  *)
ApplyRefused ==
    /\ Applying /\ call[Head(Group)].item.parses /\ wal = NoWal
    /\ \E n \in ToSet(Group) : ~call[n].item.accepted
    /\ Failed(TRUE)
    /\ UNCHANGED <<index, shared, job, maintenance>>

(* A failure of the recovery, before the log was written, or after it with *)
(* the log taken back.  Whatever the operations are, the status may be a   *)
(* client error: the segment limit, a damaged log or configuration, or the *)
(* new vectors.yap2 that cannot be opened for want of a file descriptor.   *)
ApplyFails ==
    /\ Applying /\ call[Head(Group)].item.parses
    /\ \E client \in BOOLEAN : Failed(client)
    /\ UNCHANGED <<index, shared, job, maintenance>>

Acceptable ==
    /\ Applying /\ wal = NoWal
    /\ \A n \in ToSet(Group) : call[n].item.parses /\ call[n].item.accepted

Logged == [calls |-> Group, base |-> DiskGen]

(* The calls of the group, whose log stayed behind a client error.         *)
LeftBehind(client) ==
    [n \in CallIds |-> IF client /\ n \in ToSet(Group)
                       THEN [call[n] EXCEPT !.left = TRUE] ELSE call[n]]

(* A failure after the log was written, whose removal fails as well (the   *)
(* result of update_wal_clear is ignored): a later recovery publishes it,  *)
(* be it the one at the start of the retry of a member of the group.       *)
ApplyLogged ==
    /\ Acceptable
    /\ wal' = Logged
    /\ \E client \in BOOLEAN : FailedAs(client, LeftBehind(client))
    /\ UNCHANGED <<manifests, dirs, garbage, others, shared, job, maintenance>>

ApplyPublishes ==
    /\ Acceptable /\ DiskGen < MaxGen
    /\ NewGeneration(Segs(DiskGen))
    /\ call' = Answered(Group, Carried(Group), 200, DiskGen + 1)
    /\ groups' = Tail(groups)
    /\ job' = [job EXCEPT !.news = TRUE]
    /\ UNCHANGED <<garbage, wal, others, shared, maintenance>>

(* The manifest is replaced and then the log not removed, or not durably.  *)
ApplyUnsure ==
    /\ Acceptable /\ DiskGen < MaxGen
    /\ NewGeneration(Segs(DiskGen))
    /\ FailedAs(FALSE, Carried(Group))
    /\ wal' \in {NoWal, Logged}
    /\ UNCHANGED <<garbage, others, shared, job, maintenance>>

(* Whoever updates next first publishes what the log holds, or removes the *)
(* log if the manifest is at its target generation.  A log of neither      *)
(* generation stays, and so may a replayed one.                            *)
Replay ==
    /\ wal.base = DiskGen
    /\ NewGeneration(Segs(DiskGen))
    /\ call' = Carried(wal.calls)
    /\ wal' \in {NoWal, wal}

ClearPublished ==
    /\ wal.base + 1 = DiskGen
    /\ wal' = NoWal
    /\ UNCHANGED <<manifests, dirs, call>>

Recover ==
    /\ wal # NoWal
    /\ Replay \/ ClearPublished
    /\ UNCHANGED <<garbage, shared, job, groups, maintenance>>

WriterRecover ==
    /\ Applying /\ call[Head(Group)].item.parses
    /\ Recover
    /\ UNCHANGED others

OthersRecover ==
    /\ others < MaxOthers /\ others' = others + 1
    /\ Recover

(* Mutant of ReloadFailed: the writer does not look at the reload.         *)
ReloadFailedIgnored(c) == c

ReloadFailed(c) == IF c.status = 200 THEN [c EXCEPT !.status = 503] ELSE c

(* The answers of the batch, and whether its reload succeeded.             *)
Responses(ok) ==
    [n \in CallIds |->
       IF call[n].kind # "ingest" \/ call[n].stage # "running" THEN call[n]
       ELSE [(IF ok THEN call[n] ELSE ReloadFailed(call[n])) EXCEPT !.stage = "done"]]

-----------------------------------------------------------------------------
(* Replacing the current runtime, under update_lock.  The manifest is read *)
(* three times on the way, and other processes publish in between.         *)
(* Taking the lock, comparing the manifest and loading it are one step (a  *)
(* generation published in between might as well have come before), and    *)
(* so are the last write and the unlocking.                                *)
AfterMaintenance == CASE maintenance = "ann" -> "compact"
                      [] maintenance = "reload" -> "ann again"
                      [] OTHER -> "poll"

Finish(ok) ==
    /\ job' = NoJob
    /\ maintenance' = IF job.who = "maintenance" THEN AfterMaintenance ELSE maintenance
    /\ call' = IF job.who = "writer" THEN Responses(ok) ELSE call

Go(step) == job' = step /\ UNCHANGED <<call, maintenance>>

(* Mutant of Newer: compares with what the snapshot manager has loaded.    *)
NewerThanManaged == DiskGen > managed

(* runtime_manifest_relation: the manifest is newer than the runtime's.    *)
Newer == DiskGen > current.gen

(* The candidate holds its base and the manager from here on.              *)
LoadManifest(who, spare) ==
    /\ job' = [NoJob EXCEPT !.who = who, !.step = "manager", !.base = current,
                            !.loaded = DiskGen, !.spare = spare]
    /\ refs' = [RuntimeRetain(refs, current) EXCEPT
                  !.managers = @ + 1,
                  !.anns = IF spare = 0 THEN @ ELSE BagAdd(@, spare)]

Reload(who) == LoadManifest(who, 0)

(* A reload that finds nothing new leaves everything as it is.             *)
ReloaderStart ==
    /\ job = NoJob /\ Newer
    /\ Reload("reloader")
    /\ UNCHANGED <<call, index, current, managed, groups, maintenance>>

WriterReload ==
    /\ job.step = "apply" /\ groups = <<>>
    /\ IF job.news /\ Newer
       THEN Reload("writer") /\ UNCHANGED <<call, maintenance>>
       ELSE Finish(TRUE) /\ UNCHANGED refs
    /\ UNCHANGED <<index, current, managed, groups>>

(* What a candidate gives back when it fails: its manager and, once it has *)
(* one, its snapshot; then the base and the ANN base made for it.          *)
GiveBack(f) ==
    LET g == RuntimeRelease(f, job.base)
    IN  IF job.spare = 0 THEN g ELSE [g EXCEPT !.anns = BagRemove(@, job.spare)]

Abandon(f) == GiveBack([f EXCEPT !.managers = @ - 1])

ManagerRead ==
    /\ job.step = "manager"
    /\ Go([job EXCEPT !.step = "snapshot", !.read = DiskGen])
    /\ UNCHANGED <<index, shared, groups>>

(* The manager's new snapshot, where it differs, replaces its old one.     *)
Reloaded(g) ==
    IF g = managed THEN refs
    ELSE SnapshotRelease([refs EXCEPT !.snapshots = BagAdd(@, g),
                                      !.documents = @ (+) SetToBag(Segs(g))], managed)

(* Mutant of Matches: the snapshot is not compared with the manifest.      *)
MatchesAnything(g) == TRUE

Matches(g) == g = job.loaded

ManagerReload ==
    /\ job.step = "snapshot"
    /\ IF job.read < managed \/ ~(Segs(job.read) \ Segs(managed) \subseteq dirs)
       THEN refs' = Abandon(refs) /\ Finish(FALSE) /\ UNCHANGED managed
       ELSE /\ managed' = job.read
            /\ IF Matches(job.read)
               THEN /\ refs' = SnapshotRetain(Reloaded(job.read), job.read)
                    /\ Go([job EXCEPT !.step = "segments"])
               ELSE refs' = Abandon(Reloaded(job.read)) /\ Finish(FALSE)
    /\ UNCHANGED <<index, current, groups>>

(* Readers of unchanged segments are shared with the base.                 *)
OpenSegments ==
    /\ job.step = "segments"
    /\ LET ann == IF job.spare # 0 THEN job.spare ELSE job.base.ann
           candidate == [gen |-> job.loaded, snap |-> job.read, ann |-> ann]
       IN  IF Segs(job.loaded) \ Segs(job.base.gen) \subseteq dirs
           THEN /\ refs' = [refs EXCEPT !.readers = @ (+) SetToBag(Segs(job.loaded)),
                                        !.anns = BagAdd(@, ann),
                                        !.runtimes = BagAdd(@, candidate)]
                /\ Go([job EXCEPT !.step = "publish", !.candidate = candidate])
           ELSE /\ refs' = Abandon(SnapshotRelease(refs, job.read))
                /\ Finish(FALSE)
    /\ UNCHANGED <<index, current, managed, groups>>

(* A reload wants a newer generation, a new ANN base the same one.         *)
Wanted == IF job.spare = 0 THEN job.candidate.gen > job.base.gen
                           ELSE job.candidate.gen = job.base.gen

(* Mutant of Replaced: the reference of the pointer itself is kept.        *)
ReplacedKept(f) == f

Replaced(f) == RuntimeRelease(f, job.base)

PublishReplacement ==
    /\ job.step = "publish"
    /\ IF Wanted /\ current = job.base
       THEN current' = job.candidate /\ refs' = GiveBack(Replaced(refs)) /\ Finish(TRUE)
       ELSE /\ refs' = GiveBack(RuntimeRelease(refs, job.candidate))
            /\ Finish(FALSE) /\ UNCHANGED current
    /\ UNCHANGED <<index, managed, groups>>

-----------------------------------------------------------------------------
(* The maintenance thread acts after a poll without foreground work (the   *)
(* code asks for several in a row): a new ANN base where one is needed,    *)
(* then a compaction if one is due, and after it a reload and the ANN base *)
(* again.                                                                  *)
ForegroundWork == \E n \in CallIds : call[n].stage \in {"sent", "running"}

MaintenancePoll ==
    /\ maintenance = "poll" /\ ~ForegroundWork
    /\ maintenance' = "ann"
    /\ UNCHANGED <<call, index, shared, job, groups>>

MaintenanceReload ==
    /\ job = NoJob /\ maintenance = "reload"
    /\ IF Newer THEN Reload("maintenance") /\ UNCHANGED maintenance
                ELSE maintenance' = AfterMaintenance /\ UNCHANGED <<job, refs>>
    /\ UNCHANGED <<call, index, current, managed, groups>>

MaintainAnn ==
    /\ job = NoJob /\ maintenance \in {"ann", "ann again"}
    /\ IF AnnNeeded(current)
       THEN LoadManifest("maintenance", current.gen) /\ UNCHANGED maintenance
       ELSE maintenance' = AfterMaintenance /\ UNCHANGED <<job, refs>>
    /\ UNCHANGED <<call, index, current, managed, groups>>

(* Automatic compaction may be off, not due yet, not needed, or fail.      *)
SkipCompaction ==
    /\ maintenance = "compact"
    /\ maintenance' = "poll"
    /\ UNCHANGED <<call, index, shared, job, groups>>

MaintenanceCompact ==
    /\ maintenance = "compact"
    /\ PublishCompaction
    /\ maintenance' = "removing"
    /\ UNCHANGED <<call, wal, others, shared, job, groups>>

-----------------------------------------------------------------------------
Searches == \E n \in CallIds : SearchAcquire(n) \/ SearchFinish(n)
Replacing ==
    ManagerRead \/ ManagerReload \/ OpenSegments \/ PublishReplacement
Writing ==
    \/ RejectUnparsed \/ WriterRecover \/ ApplyRefused \/ ApplyFails \/ ApplyLogged
    \/ ApplyPublishes \/ ApplyUnsure \/ WriterReload
Maintaining == MaintenancePoll \/ SkipCompaction \/ MaintenanceCompact
MaintenanceStart == MaintenanceReload \/ MaintainAnn
Others == OthersUpdate \/ OthersCompact \/ OthersRecover \/ RemoveDirs

CoreNext ==
    \/ Searches \/ WriterStart \/ Writing \/ ReloaderStart \/ Replacing
    \/ MaintenanceStart \/ Maintaining \/ Others

-----------------------------------------------------------------------------
(* Type invariant.  The groups still to be applied are the calls of the    *)
(* batch that have no answer yet, each in one group that fits an update.   *)
RuntimeIds == [gen : 0..MaxGen, snap : 0..MaxGen, ann : 0..MaxGen]
RuntimeTypeOK ==
    /\ DiskGen \in 1..MaxGen /\ \A g \in 1..DiskGen : Segs(g) \subseteq 1..g
    /\ dirs \subseteq 1..MaxGen /\ garbage \subseteq 1..MaxGen
    /\ current \in RuntimeIds /\ managed \in 1..MaxGen
    /\ \A i \in DOMAIN groups : Operations(groups[i]) <= MaxOps
    /\ \A n \in CallIds :
          call[n].kind = "ingest" /\ call[n].stage = "running" /\ call[n].status = 0 =>
            Cardinality({i \in DOMAIN groups : n \in ToSet(groups[i])}) = 1
    /\ others \in 0..MaxOthers /\ wal.base \in 0..MaxGen /\ ToSet(wal.calls) \subseteq CallIds
    /\ \A n \in CallIds : call[n].held \in RuntimeIds /\ call[n].published \subseteq 1..MaxGen

(* Reference counts of YAP_V2_HTTP_RUNTIME objects and of what they share  *)
(* are exact: each equals the number of its holders, so nothing a search   *)
(* or a candidate uses is freed under it and nothing is kept for ever.     *)
Live == BagToSet(refs.runtimes)
Candidate == job.step = "segments"   \* not counted as a runtime yet
B(p) == IF p THEN 1 ELSE 0
RefsExact ==
    /\ \A r \in Live \cup {current} :
          CopiesIn(r, refs.runtimes) =
            B(current = r) + B(job.step # "none" /\ job.base = r)
            + B(job.step = "publish" /\ job.candidate = r)
            + Cardinality({n \in CallIds : call[n].held = r})
    /\ \A g \in 1..DiskGen :
          /\ CopiesIn(g, refs.snapshots) =
               B(managed = g) + Cardinality({r \in Live : r.snap = g})
               + B(Candidate /\ job.read = g)
          /\ CopiesIn(g, refs.anns) =
               Cardinality({r \in Live : r.ann = g})
               + B(job.spare = g)
          /\ CopiesIn(g, refs.readers) = Cardinality({r \in Live : g \in Segs(r.gen)})
          /\ CopiesIn(g, refs.documents) =
               Cardinality({h \in BagToSet(refs.snapshots) : g \in Segs(h)})
    /\ refs.managers = Cardinality(Live) + B(job.step \in {"manager", "snapshot", "segments"})

(* A runtime that serves searches shows one generation: its snapshot and   *)
(* its readers were made from the same manifest although the manifest is   *)
(* read again, without a lock, between the two.                            *)
OneGeneration == \A r \in Live : r.snap = r.gen

(* The operations of an ingest call are published at most once, although   *)
(* failed groups are split and retried and logs are replayed; a call       *)
(* refused with 400 is never published, one answered 200 is.  The calls    *)
(* whose log stayed behind a client error are left out: the 400 of such a  *)
(* call does not keep its log from being replayed, and the retry of a      *)
(* group publishes it a second time.  Calls that name the same document    *)
(* are published in order all the same, however often.                     *)
AppliedOnce ==
    \A n \in CallIds :
      /\ ~call[n].left => /\ Cardinality(call[n].published) <= 1
                          /\ call[n].status = 400 => call[n].published = {}
      /\ call[n].status = 200 /\ call[n].kind = "ingest" => call[n].gen \in call[n].published
      /\ \A m \in 1..(n - 1) :
            call[m].item.docs \cap call[n].item.docs # {} =>
              \A g \in call[m].published, h \in call[n].published : g < h

(* Whatever races the reload, the daemon ends up serving the newest        *)
(* generation: a reload that fails leaves nothing that stops the next one. *)
CatchesUp == <>[](current.gen = DiskGen)

(* A compaction leaves the ANN base with segments that are gone; when no   *)
(* more requests come the maintenance thread replaces it.                  *)
AnnCatchesUp == <>[](MissingBase(current) = {})
=============================================================================
